---------------------------- MODULE EventDispatch ----------------------------
(***************************************************************************)
(* The two locks of source/processmon.cpp that are held while user code    *)
(* runs, and the threads that meet at them.                                *)
(*                                                                         *)
(*   m_callbacksLock    held for the whole loop that delivers one event to *)
(*                      the registered DebugEventsCallback objects;        *)
(*   m_breakpointLock   of a ProcessInfo, held while the BreakpointCallback*)
(*                      of the breakpoint that was hit runs onHit.         *)
(*                                                                         *)
(* Both are boost::recursive_mutex taken by scoped_lock, so a lock is held *)
(* exactly as long as the C++ frame that took it: here a lock is held by   *)
(* the threads whose stack contains such a frame, and a thread may take a  *)
(* lock it already holds.  A thread asks for an operation (Call), blocks   *)
(* until the operation's lock is free, and then performs it; in between    *)
(* every other thread may run.  User code (a handler, onHit, onRemove, or  *)
(* the code at the bottom of the stack) may call further operations.       *)
(*                                                                         *)
(* One ProcessInfo is modelled; the map of them is in ProcessMonitor.      *)
(***************************************************************************)
EXTENDS Naturals, Sequences, SequencesExt

CONSTANTS
  Threads,      \* threads of the program that uses kdlib
  Handlers,     \* EventHandler objects
  Breakpoints,  \* ids of breakpoints that carry a callback
  CallRules,    \* the programs considered: what their callbacks may call
  MaxDepth,     \* bound: frames on one thread's stack
  MaxCalls,     \* bound: operations one thread asks for
  None          \* no operation pending, no next list node

Ops == {"register", "unregister", "dispatch", "insertBp", "removeBp", "hit"}

(* The user code that runs in a frame of each kind: an event handler,      *)
(* BreakpointCallback::onHit and BreakpointCallback::onRemove.             *)
ASSUME RulesAssumption ==
  CallRules \subseteq [{"dispatch", "hit", "onRemove"} -> SUBSET Ops]

ASSUME BoundsAssumption == MaxDepth \in Nat /\ MaxCalls \in Nat

ASSUME NoneAssumption == None \notin Handlers \cup Breakpoints

VARIABLES
  callbacks,    \* m_callbacks: the std::list of handlers
  breakpoints,  \* m_breakpointMap: the registered breakpoint ids
  stack,        \* stack[t]: frames that run user code, outermost first
  pending,      \* pending[t]: the operation t is about to perform
  calls,        \* calls[t]: operations t has asked for
  mayCall       \* never changes: the operations each kind of callback calls

vars == <<callbacks, breakpoints, stack, pending, calls, mayCall>>

(* A frame: a dispatch loop with its iterator, or a breakpoint callback.   *)
Frames ==
  [op : {"dispatch"}, at : Handlers] \cup [op : {"hit", "onRemove"}, at : Breakpoints]

Idle == [op |-> "none", at |-> None]

Requests ==
  [op : {"register", "unregister"}, at : Handlers]
    \cup [op : {"insertBp", "removeBp", "hit"}, at : Breakpoints]
    \cup {[op |-> "dispatch", at |-> None]}

TypeOK ==
  /\ callbacks \in Seq(Handlers)
  /\ breakpoints \subseteq Breakpoints
  /\ stack \in [Threads -> Seq(Frames)]
  /\ pending \in [Threads -> Requests \cup {Idle}]
  /\ calls \in [Threads -> Nat]
  /\ mayCall \in CallRules
-----------------------------------------------------------------------------
InOp(t, op) == \E f \in ToSet(stack[t]) : f.op = op

HoldsCallbacksLock(t) == InOp(t, "dispatch")

(* Fault: removeBreakpoint calls onRemove inside the scope of its lock.    *)
HoldsBreakpointLock_OverOnRemove(t) == InOp(t, "hit") \/ InOp(t, "onRemove")

HoldsBreakpointLock(t) == InOp(t, "hit")

(* A thread can take a lock that is free or that it holds already.         *)
CallbacksLockFree(t) == \A u \in Threads \ {t} : ~HoldsCallbacksLock(u)

BreakpointLockFree(t) == \A u \in Threads \ {t} : ~HoldsBreakpointLock(u)

Push(t, frame) == stack' = [stack EXCEPT ![t] = Append(@, frame)]

Pop(t) == stack' = [stack EXCEPT ![t] = Front(@)]

Replace(t, frame) == stack' = [stack EXCEPT ![t] = Append(Front(@), frame)]

InFrame(t, op) == stack[t] # <<>> /\ Last(stack[t]).op = op

(* The handlers t is inside of: the iterator of each of its loops.         *)
Running(t) == {h \in Handlers : [op |-> "dispatch", at |-> h] \in ToSet(stack[t])}

Pends(t, op) == pending[t].op = op

Done(t) == pending' = [pending EXCEPT ![t] = Idle]

Continue(t, op) == pending' = [pending EXCEPT ![t] = [op |-> op, at |-> None]]

(* ++it on the list: the node after the one that holds h.                  *)
NextNode(h) ==
  IF \E i \in 1..(Len(callbacks) - 1) : callbacks[i] = h
    THEN callbacks[1 + CHOOSE i \in 1..(Len(callbacks) - 1) : callbacks[i] = h]
    ELSE None

(* std::list::remove; a handler is in the list at most once.               *)
WithoutHandler(list, h) ==
  IF h \in ToSet(list)
    THEN RemoveAt(list, CHOOSE i \in DOMAIN list : list[i] = h)
    ELSE list
-----------------------------------------------------------------------------
Init ==
  /\ callbacks = <<>>
  /\ breakpoints = {}
  /\ stack = [t \in Threads |-> <<>>]
  /\ pending = [t \in Threads |-> Idle]
  /\ calls = [t \in Threads |-> 0]
  /\ mayCall \in CallRules

(* What the code on top of t's stack may call.                             *)
MayCall(t, op) ==
  \/ stack[t] = <<>>
  \/ /\ stack[t] # <<>>
     /\ op \in mayCall[Last(stack[t]).op]

(* An EventHandler registers itself in its constructor and removes itself  *)
(* in its destructor: once each, and a handler is not destroyed by the     *)
(* thread that is inside one of its methods.                               *)
LegalUse(t, r) ==
  /\ r.op = "register" =>
       /\ r.at \notin ToSet(callbacks)
       /\ \A u \in Threads : pending[u] # r
  /\ r.op = "unregister" =>
       /\ r.at \in ToSet(callbacks) \ Running(t)
       /\ \A u \in Threads : pending[u] # r

(* User code on t calls an operation; t now waits for the operation's lock.*)
Call(t, r) ==
  /\ Pends(t, "none")
  /\ calls[t] < MaxCalls
  /\ Len(stack[t]) < MaxDepth
  /\ MayCall(t, r.op)
  /\ LegalUse(t, r)
  /\ pending' = [pending EXCEPT ![t] = r]
  /\ calls' = [calls EXCEPT ![t] = @ + 1]
  /\ UNCHANGED <<callbacks, breakpoints, stack, mayCall>>

RegisterEventsCallback(t) ==
  /\ Pends(t, "register")
  /\ CallbacksLockFree(t)
  /\ callbacks' = Append(callbacks, pending[t].at)
  /\ Done(t)
  /\ UNCHANGED <<breakpoints, stack, calls, mayCall>>

(* Fault: the list is changed without taking its lock.                     *)
RemoveEventsCallback_Unlocked(t) ==
  /\ Pends(t, "unregister")
  /\ callbacks' = WithoutHandler(callbacks, pending[t].at)
  /\ Done(t)
  /\ UNCHANGED <<breakpoints, stack, calls, mayCall>>

RemoveEventsCallback(t) ==
  /\ Pends(t, "unregister")
  /\ CallbacksLockFree(t)
  /\ callbacks' = WithoutHandler(callbacks, pending[t].at)
  /\ Done(t)
  /\ UNCHANGED <<breakpoints, stack, calls, mayCall>>

(* Fault: the loop runs without the lock.                                  *)
BeginDispatch_Unlocked(t) ==
  /\ Pends(t, "dispatch")
  /\ IF callbacks = <<>>
       THEN UNCHANGED stack
       ELSE Push(t, [op |-> "dispatch", at |-> Head(callbacks)])
  /\ Done(t)
  /\ UNCHANGED <<callbacks, breakpoints, calls, mayCall>>

(* The event loop takes the lock and calls the first handler, if any.      *)
BeginDispatch(t) ==
  /\ Pends(t, "dispatch")
  /\ CallbacksLockFree(t)
  /\ IF callbacks = <<>>
       THEN UNCHANGED stack
       ELSE Push(t, [op |-> "dispatch", at |-> Head(callbacks)])
  /\ Done(t)
  /\ UNCHANGED <<callbacks, breakpoints, calls, mayCall>>

(* Fault: the loop does not compare the iterator with end().               *)
HandlerReturns_PastTheEnd(t) ==
  /\ Pends(t, "none")
  /\ InFrame(t, "dispatch")
  /\ Replace(t, [op |-> "dispatch", at |-> NextNode(Last(stack[t]).at)])
  /\ UNCHANGED <<callbacks, breakpoints, pending, calls, mayCall>>

(* The handler returns: the loop calls the next one or ends.               *)
HandlerReturns(t) ==
  /\ Pends(t, "none")
  /\ InFrame(t, "dispatch")
  /\ LET next == NextNode(Last(stack[t]).at)
     IN  IF next = None
           THEN Pop(t)
           ELSE Replace(t, [op |-> "dispatch", at |-> next])
  /\ UNCHANGED <<callbacks, breakpoints, pending, calls, mayCall>>

RegisterBreakpoint(t) ==
  /\ Pends(t, "insertBp")
  /\ BreakpointLockFree(t)
  /\ breakpoints' = breakpoints \cup {pending[t].at}
  /\ Done(t)
  /\ UNCHANGED <<callbacks, stack, calls, mayCall>>

(* Fault: the entry is erased without taking the breakpoint lock.          *)
RemoveBreakpoint_Unlocked(t) ==
  /\ Pends(t, "removeBp")
  /\ breakpoints' = breakpoints \ {pending[t].at}
  /\ IF pending[t].at \in breakpoints
       THEN Push(t, [op |-> "onRemove", at |-> pending[t].at])
       ELSE UNCHANGED stack
  /\ Done(t)
  /\ UNCHANGED <<callbacks, calls, mayCall>>

(* The entry is erased under the lock, onRemove runs after its release.    *)
RemoveBreakpoint(t) ==
  /\ Pends(t, "removeBp")
  /\ BreakpointLockFree(t)
  /\ breakpoints' = breakpoints \ {pending[t].at}
  /\ IF pending[t].at \in breakpoints
       THEN Push(t, [op |-> "onRemove", at |-> pending[t].at])
       ELSE UNCHANGED stack
  /\ Done(t)
  /\ UNCHANGED <<callbacks, calls, mayCall>>

OnRemoveReturns(t) ==
  /\ Pends(t, "none")
  /\ InFrame(t, "onRemove")
  /\ Pop(t)
  /\ UNCHANGED <<callbacks, breakpoints, pending, calls, mayCall>>

(* Fault: the handlers are told first, onHit is called inside their loop.  *)
BreakpointHit_UnderCallbacksLock(t) ==
  /\ Pends(t, "hit")
  /\ \/ /\ ~HoldsCallbacksLock(t)
        /\ CallbacksLockFree(t)
        /\ callbacks # <<>>
        /\ Push(t, [op |-> "dispatch", at |-> Head(callbacks)])
        /\ UNCHANGED pending
     \/ /\ HoldsCallbacksLock(t) \/ callbacks = <<>>
        /\ BreakpointLockFree(t)
        /\ IF pending[t].at \in breakpoints
             THEN Push(t, [op |-> "hit", at |-> pending[t].at])
             ELSE UNCHANGED stack
        /\ Done(t)
  /\ UNCHANGED <<callbacks, breakpoints, calls, mayCall>>

(* breakpointHit: an unknown breakpoint goes straight to the handlers, a   *)
(* known one runs its onHit under the breakpoint lock.                     *)
BreakpointHit(t) ==
  /\ Pends(t, "hit")
  /\ BreakpointLockFree(t)
  /\ IF pending[t].at \in breakpoints
       THEN Push(t, [op |-> "hit", at |-> pending[t].at]) /\ Done(t)
       ELSE Continue(t, "dispatch") /\ UNCHANGED stack
  /\ UNCHANGED <<callbacks, breakpoints, calls, mayCall>>

(* onHit returned and its lock is released: tell the handlers.             *)
OnHitReturns(t) ==
  /\ Pends(t, "none")
  /\ InFrame(t, "hit")
  /\ Pop(t)
  /\ Continue(t, "dispatch")
  /\ UNCHANGED <<callbacks, breakpoints, calls, mayCall>>

(* What t does without being asked again.                                  *)
Step(t) ==
  \/ RegisterEventsCallback(t)
  \/ RemoveEventsCallback(t)
  \/ BeginDispatch(t)
  \/ HandlerReturns(t)
  \/ RegisterBreakpoint(t)
  \/ RemoveBreakpoint(t)
  \/ OnRemoveReturns(t)
  \/ BreakpointHit(t)
  \/ OnHitReturns(t)

Next == \E t \in Threads : Step(t) \/ \E r \in Requests : Call(t, r)

Spec == Init /\ [][Next]_vars

(* User callbacks return and a thread that can take a lock takes it.       *)
FairSpec == Spec /\ \A t \in Threads : WF_vars(Step(t))
-----------------------------------------------------------------------------
(* No list iterator of a running event loop points to a node that was      *)
(* erased: `++it` after the handler returned stays inside the list, however *)
(* other threads and nested events register and remove handlers.           *)
IteratorsLive == \A t \in Threads : Running(t) \subseteq ToSet(callbacks)

(* Two threads are never both inside event handlers.                       *)
DispatchExclusive ==
  \A t, u \in Threads : HoldsCallbacksLock(t) /\ HoldsCallbacksLock(u) => t = u

WaitsForCallbacksLock(t) ==
  pending[t].op \in {"register", "unregister", "dispatch"}

WaitsForBreakpointLock(t) == pending[t].op \in {"insertBp", "removeBp", "hit"}

(* Two threads never wait for each other: neither the breakpoint lock nor  *)
(* the callbacks lock is kept over a call that takes the other one in the  *)
(* opposite order.  breakpointHit releases its lock before it delivers     *)
(* onBreakpoint and removeBreakpoint before it calls onRemove.             *)
NoLockCycle ==
  ~ \E t, u \in Threads :
      /\ t # u
      /\ WaitsForBreakpointLock(t) /\ HoldsBreakpointLock(u)
      /\ WaitsForCallbacksLock(u) /\ HoldsCallbacksLock(t)

(* Nothing in the library orders the two locks for its callbacks: it is    *)
(* for them to stay off one of the two sides.                              *)

(* The code under onHit never asks for the callbacks lock: it changes      *)
(* breakpoints at most, and so does the onRemove it may run that way.      *)
HitsStayOff(r) ==
  /\ r["hit"] \subseteq {"insertBp", "removeBp"}
  /\ "removeBp" \in r["hit"] => r["onRemove"] \subseteq {"insertBp", "removeBp"}

(* Event handlers never ask for the breakpoint lock: they change the list  *)
(* of handlers or cause events at most.                                    *)
HandlersStayOff(r) == r["dispatch"] \subseteq {"register", "unregister", "dispatch"}

(* A breakpoint leaves the map only when no other thread is inside its     *)
(* onHit: the BreakpointCallback may be freed when remove() returns.       *)
RemovalQuiescent ==
  [][\A b \in breakpoints \ breakpoints', u \in Threads :
       [op |-> "hit", at |-> b] \in ToSet(stack[u])
         => pending[u] = [op |-> "removeBp", at |-> b]]_vars

(* Every operation a thread asks for is performed, and every event that    *)
(* began to be delivered ends.                                             *)
OperationsEnd ==
  \A t \in Threads :
    (pending[t] # Idle \/ stack[t] # <<>>) ~> (pending[t] = Idle /\ stack[t] = <<>>)

(* The promise to handler owners: see HandlerRegistry.                     *)
Registry == INSTANCE HandlerRegistry
              WITH registered <- ToSet(callbacks),
                   running <- [t \in Threads |-> Running(t)]

ImplementsRegistry == Registry!Spec
=============================================================================
