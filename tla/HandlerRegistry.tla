--------------------------- MODULE HandlerRegistry ---------------------------
(***************************************************************************)
(* What ProcessMonitor promises to the owner of a DebugEventsCallback.     *)
(*                                                                         *)
(*   - a handler is entered only while it is registered;                   *)
(*   - handlers are entered by one thread at a time, so a handler needs no *)
(*     lock of its own against the events of another thread;               *)
(*   - when removeEventsCallback returns, no other thread is inside the    *)
(*     handler, so ~EventHandler may free it.                              *)
(*                                                                         *)
(* The module says nothing of locks, lists or breakpoints: EventDispatch   *)
(* has those and is shown to implement this one.                           *)
(***************************************************************************)
CONSTANTS Threads, Handlers

VARIABLES
  registered,  \* the handlers an event is delivered to
  running      \* running[t]: the handlers thread t is inside of

vars == <<registered, running>>

TypeOK ==
  /\ registered \subseteq Handlers
  /\ running \in [Threads -> SUBSET Handlers]

Init ==
  /\ registered = {}
  /\ running = [t \in Threads |-> {}]

Register(h) ==
  /\ registered' = registered \cup {h}
  /\ UNCHANGED running

(* The remover may be inside h itself, no other thread may.                *)
Remove(t, h) ==
  /\ \A u \in Threads \ {t} : h \notin running[u]
  /\ registered' = registered \ {h}
  /\ UNCHANGED running

(* Thread t enters, leaves or passes from one handler to the next.         *)
Run(t, inside) ==
  /\ inside \ running[t] \subseteq registered
  /\ inside # {} => \A u \in Threads \ {t} : running[u] = {}
  /\ running' = [running EXCEPT ![t] = inside]
  /\ UNCHANGED registered

Next ==
  \/ \E h \in Handlers : Register(h)
  \/ \E t \in Threads, h \in Handlers : Remove(t, h)
  \/ \E t \in Threads, inside \in SUBSET Handlers : Run(t, inside)

Spec == Init /\ [][Next]_vars
=============================================================================
