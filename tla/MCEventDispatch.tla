--------------------------- MODULE MCEventDispatch ---------------------------
(* EventDispatch for TLC: model values for threads, handlers, breakpoints. *)
EXTENDS EventDispatch

Lists == {"register", "unregister", "dispatch"}

(* Two kinds of program.  In the first an event handler may do everything  *)
(* that is not a breakpoint hit and onHit calls nothing; in the second     *)
(* onHit may do everything and event handlers leave breakpoints alone.     *)
FreeHandlers == [dispatch |-> Ops \ {"hit"}, hit |-> {}, onRemove |-> Ops \ {"hit"}]
FreeHits     == [dispatch |-> Lists, hit |-> Ops \ {"hit"}, onRemove |-> Ops \ {"hit"}]

SafeRules == {FreeHandlers, FreeHits}

(* Both are of the kind the theorem about NoLockCycle assumes.             *)
ASSUME RulesStayOff == \A r \in CallRules : HitsStayOff(r) \/ HandlersStayOff(r)
=============================================================================
