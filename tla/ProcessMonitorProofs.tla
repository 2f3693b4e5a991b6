------------------------ MODULE ProcessMonitorProofs ------------------------
(***************************************************************************)
(* What holds of ProcessMonitor for every set of processes and every       *)
(* number of incarnations, when callers name the process they mean.        *)
(*                                                                         *)
(* The properties speak of rest; the invariant says what is true in the    *)
(* middle of an operation.  Told processes are always among the engine's   *)
(* (Known), which needs to know what each half-done operation is about to  *)
(* remove (Midway), and that an announced process has an entry, so that    *)
(* an empty map proves that nobody is told (Fresh, Incarnated).            *)
(***************************************************************************)
EXTENDS ProcessMonitor, TLAPS

Known == told \subseteq alive

Fresh == \A p \in told : processMap[p] = era[p]

Incarnated == \A p \in alive : era[p] > 0

Midway ==
  /\ op.kind = "start" => op.step \in {"created", "starting"}
  /\ op.step = "starting" => op.kind = "start"
  /\ op.step = "created" => op.kind = "start" /\ op.id \in alive
  /\ op.kind = "exit" => op.id \notin told
  /\ op.kind = "remove" => op.step \in {"exiting", "report"}
  /\ op.kind = "remove" /\ op.step = "exiting" => op.id = current /\ op.id \notin told
  /\ op.step = "engine" => told = {}

IInv == TypeOK /\ Known /\ Fresh /\ Incarnated /\ Midway

(* It holds of the behaviours in which callers name their process.         *)
IInvNamed == ~DefaultIds => IInv

(* Processes an operation under way still has to announce or to remove.    *)
Untold ==
  IF op.kind = "removeAll" THEN alive
  ELSE IF op.step = "created" \/ op.kind = "exit"
            \/ (op.kind = "remove" /\ op.step = "exiting")
    THEN {op.id}
    ELSE {}

Complete ==
  /\ alive \subseteq told \cup Untold
  /\ status = "noDebuggee" => alive = {}

CompleteIf == ~DefaultIds /\ ~EngineFails => Complete
-----------------------------------------------------------------------------
(* Initially no process is there.                                          *)
LEMMA InitInvariant == Init => IInv
  BY ProcessesAssumption
     DEF Init, IInv, TypeOK, Known, Fresh, Incarnated, Midway, Idle, NoEntry

(* The circumstances of a behaviour do not change.                         *)
LEMMA GivenIsRigid == [Next]_vars => given' = given
BY DEF Next, Continue, vars, AnnounceStart, StartEnds, ExitEnds, EngineRemoves, ReportIfLast,
       StopNext, LoopEnds, EngineRemovesAll, EngineCallFails, Lookup, RemoveAll,
       EngineCreates, ExitProcess, SetCurrentProcess, RemoveProcess

(* Each step of each operation, and each lookup between two of them, keeps *)
(* the invariant.                                                          *)
LEMMA StepInvariant ==
  ASSUME ~DefaultIds, IInv, [Next]_vars
  PROVE  IInv'
<1> USE ProcessesAssumption
<1> USE DEF IInv, Idle, NoEntry, AtRest
<1>1. CASE AnnounceStart
  BY <1>1 DEF AnnounceStart, ProcessStart, Proceed, TypeOK, Known, Fresh, Incarnated,
              Midway, Kinds, Steps
<1>2. CASE StartEnds
  BY <1>2 DEF StartEnds, TypeOK, Known, Fresh, Incarnated, Midway
<1>3. CASE ExitEnds
  BY <1>3 DEF ExitEnds, EngineDrops, ReportNoDebuggee, TypeOK, Known, Fresh,
              Incarnated, Midway
<1>4. CASE EngineRemoves
  BY <1>4 DEF EngineRemoves, EngineDrops, Proceed, TypeOK, Known, Fresh, Incarnated,
              Midway, Kinds, Steps
<1>5. CASE ReportIfLast
  BY <1>5 DEF ReportIfLast, ReportNoDebuggee, TypeOK, Known, Fresh, Incarnated, Midway
<1>6. CASE StopNext
  <2>1. PICK p \in Processes : ProcessStop(p) /\ op' = [op EXCEPT !.id = p, !.step = "exiting"]
    BY <1>6 DEF StopNext, Entries
  <2>2. UNCHANGED <<alive, current, era, status, given>> /\ op.kind = "removeAll"
    BY <1>6 DEF StopNext
  <2>3. op' = [kind |-> "removeAll", id |-> p, step |-> "exiting"]
    BY <2>1, <2>2 DEF TypeOK
  <2>4. TypeOK'
    BY <2>1, <2>2, <2>3 DEF TypeOK, ProcessStop, Kinds, Steps
  <2>5. Known' /\ Fresh' /\ Incarnated'
    BY <2>1, <2>2 DEF ProcessStop, TypeOK, Known, Fresh, Incarnated
  <2>6. Midway'
    BY <2>3 DEF Midway
  <2> QED
    BY <2>4, <2>5, <2>6
<1>7. CASE LoopEnds
  <2>1. told = {}
    <3> SUFFICES ASSUME NEW p \in told PROVE FALSE
      OBVIOUS
    <3>1. p \in Processes /\ processMap[p] > 0
      BY DEF TypeOK, Known, Fresh, Incarnated
    <3> QED
      BY <1>7, <3>1 DEF LoopEnds, Entries
  <2> QED
    BY <1>7, <2>1 DEF LoopEnds, Proceed, TypeOK, Known, Fresh, Incarnated, Midway,
                      Kinds, Steps
<1>8. CASE EngineRemovesAll
  BY <1>8 DEF EngineRemovesAll, EngineDrops, ReportNoDebuggee, TypeOK, Known, Fresh,
              Incarnated, Midway
<1>9. CASE EngineCallFails
  BY <1>9 DEF EngineCallFails, TypeOK, Known, Fresh, Incarnated, Midway
<1>10. CASE Lookup
  BY <1>10 DEF Lookup, TypeOK, Known, Fresh, Incarnated, Midway
<1>11. CASE RemoveAll
  BY <1>11 DEF RemoveAll, TypeOK, Known, Fresh, Incarnated, Midway, Kinds, Steps
<1>12. ASSUME NEW p \in Processes, EngineCreates(p) PROVE IInv'
  BY <1>12 DEF EngineCreates, TypeOK, Known, Fresh, Incarnated, Midway, Kinds, Steps
<1>13. ASSUME NEW p \in Processes, ExitProcess(p) PROVE IInv'
  BY <1>13 DEF ExitProcess, ProcessStop, TypeOK, Known, Fresh, Incarnated, Midway,
               Kinds, Steps
<1>14. ASSUME NEW p \in Processes, SetCurrentProcess(p) PROVE IInv'
  BY <1>14 DEF SetCurrentProcess, TypeOK, Known, Fresh, Incarnated, Midway
<1>15. ASSUME NEW id \in Processes \cup {CurrentId}, RemoveProcess(id) PROVE IInv'
  BY <1>15 DEF RemoveProcess, ProcessStop, TypeOK, Known, Fresh, Incarnated, Midway,
               Kinds, Steps
<1>16. CASE UNCHANGED vars
  BY <1>16 DEF vars, TypeOK, Known, Fresh, Incarnated, Midway
<1> QED
  BY <1>1, <1>2, <1>3, <1>4, <1>5, <1>6, <1>7, <1>8, <1>9, <1>10, <1>11, <1>12,
     <1>13, <1>14, <1>15, <1>16 DEF Next, Continue

(* The invariant holds of the specification.                               *)
THEOREM Invariance == Spec => []IInvNamed
<1>1. Init => IInvNamed
  BY InitInvariant DEF IInvNamed
<1>2. IInvNamed /\ [Next]_vars => IInvNamed'
  BY StepInvariant, GivenIsRigid DEF IInvNamed, DefaultIds
<1> QED
  BY <1>1, <1>2, PTL DEF Spec

(* The variables keep their types.                                         *)
THEOREM TypeCorrect == Spec => [](~DefaultIds => TypeOK)
<1>1. IInvNamed => (~DefaultIds => TypeOK)
  BY DEF IInvNamed, IInv
<1> QED
  BY <1>1, Invariance, PTL

(* No announced process is served by what was cached for an earlier one    *)
(* with its id, even if handlers look things up and engine calls fail.     *)
THEOREM NoStaleEntry == Spec => []AnnouncedAreFresh
<1>1. IInvNamed => AnnouncedAreFresh
  BY DEF IInvNamed, IInv, Fresh, AnnouncedAreFresh
<1> QED
  BY <1>1, Invariance, PTL

(* A process that was announced and not taken back exists.                 *)
THEOREM ToldProcessesExist == Spec => []ToldAreAlive
<1>1. IInvNamed => ToldAreAlive
  BY DEF IInvNamed, IInv, Known, ToldAreAlive
<1> QED
  BY <1>1, Invariance, PTL
-----------------------------------------------------------------------------
(* While no engine call fails, every step keeps subscribers complete.      *)
LEMMA StepComplete ==
  ASSUME ~DefaultIds, ~EngineFails, IInv, Complete, [Next]_vars
  PROVE  Complete'
<1> USE ProcessesAssumption
<1> USE DEF IInv, Idle, NoEntry, AtRest, Complete, Untold, TypeOK
<1>0. AtRest => op = Idle
  BY DEF Steps
<1>1. CASE AnnounceStart
  BY <1>1 DEF AnnounceStart, ProcessStart, Proceed, Midway
<1>2. CASE StartEnds
  BY <1>2 DEF StartEnds, Midway, Kinds
<1>3. CASE ExitEnds
  BY <1>3 DEF ExitEnds, EngineDrops, ReportNoDebuggee, Midway
<1>4. CASE EngineRemoves
  BY <1>4 DEF EngineRemoves, EngineDrops, Proceed, Midway
<1>5. CASE ReportIfLast
  <2>1. Entries = {} => told = {}
    BY DEF Entries, Known, Fresh, Incarnated
  <2> QED
    BY <1>5, <2>1 DEF ReportIfLast, ReportNoDebuggee, Midway
<1>6. CASE StopNext
  BY <1>6 DEF StopNext, ProcessStop
<1>7. CASE LoopEnds
  BY <1>7 DEF LoopEnds, Proceed
<1>8. CASE EngineRemovesAll
  BY <1>8 DEF EngineRemovesAll, EngineDrops
<1>9. CASE EngineCallFails
  BY <1>9 DEF EngineCallFails
<1>10. CASE Lookup
  BY <1>10 DEF Lookup
<1>11. CASE RemoveAll
  BY <1>11 DEF RemoveAll
<1>12. ASSUME NEW p \in Processes, EngineCreates(p) PROVE Complete'
  BY <1>0, <1>12 DEF EngineCreates
<1>13. ASSUME NEW p \in Processes, ExitProcess(p) PROVE Complete'
  BY <1>0, <1>13 DEF ExitProcess, ProcessStop
<1>14. ASSUME NEW p \in Processes, SetCurrentProcess(p) PROVE Complete'
  BY <1>14 DEF SetCurrentProcess
<1>15. ASSUME NEW id \in Processes \cup {CurrentId}, RemoveProcess(id) PROVE Complete'
  BY <1>0, <1>15 DEF RemoveProcess, ProcessStop
<1>16. CASE UNCHANGED vars
  BY <1>16 DEF vars
<1> QED
  BY <1>1, <1>2, <1>3, <1>4, <1>5, <1>6, <1>7, <1>8, <1>9, <1>10, <1>11, <1>12,
     <1>13, <1>14, <1>15, <1>16 DEF Next, Continue

(* While no engine call fails, subscribers know every process there is and *)
(* NoDebuggee is only announced when none is left.                         *)
LEMMA CompleteInvariance == Spec => []CompleteIf
<1>1. Init => CompleteIf
  BY DEF Init, CompleteIf, Complete, Untold, Idle
<1>2. IInvNamed /\ CompleteIf /\ [Next]_vars => CompleteIf'
  BY StepComplete, GivenIsRigid DEF IInvNamed, CompleteIf, DefaultIds, EngineFails
<1> QED
  BY <1>1, <1>2, Invariance, PTL DEF Spec

(* At rest subscribers know every process there is, and NoDebuggee is     *)
(* only announced when none is left, while engine calls succeed.          *)
THEOREM SubscribersAreComplete == Spec => []AliveAreTold
<1>1. IInvNamed /\ CompleteIf => AliveAreTold
  <2> SUFFICES ASSUME IInv, Complete, ~DefaultIds, ~EngineFails
               PROVE  AliveAreTold
    BY DEF IInvNamed, CompleteIf, AliveAreTold
  <2>1. AtRest => op = Idle
    BY DEF IInv, TypeOK, AtRest, Steps
  <2> QED
    BY <2>1 DEF Complete, Untold, AliveAreTold, Idle
<1> QED
  BY <1>1, Invariance, CompleteInvariance, PTL
-----------------------------------------------------------------------------
(* When handlers look nothing up either, the map holds announced processes *)
(* only, so nothing is announced twice and nothing is left behind.         *)
Exact ==
  /\ Entries \subseteq told
  /\ current # None => current \in alive
  /\ alive = {} => status = "noDebuggee" \/ (op.kind = "remove" /\ op.step = "report")

ExactIf == given = {} => Exact

(* Each step keeps the map exact while nothing disturbs it.               *)
LEMMA StepExact ==
  ASSUME ~DefaultIds, ~EngineFails, ~HandlerLookups, IInv, Complete, Exact, [Next]_vars
  PROVE  Exact'
<1> USE ProcessesAssumption
<1> USE DEF IInv, Idle, NoEntry, AtRest, Exact, Entries, TypeOK
<1>0. AtRest => op = Idle
  BY DEF Steps
<1>1. CASE AnnounceStart
  BY <1>1 DEF AnnounceStart, ProcessStart, Proceed, Midway
<1>2. CASE StartEnds
  BY <1>2 DEF StartEnds, Midway
<1>3. CASE ExitEnds
  BY <1>3 DEF ExitEnds, EngineDrops, ReportNoDebuggee
<1>4. CASE EngineRemoves
  BY <1>4 DEF EngineRemoves, EngineDrops, Proceed
<1>5. CASE ReportIfLast
  <2>1. Entries = {} => alive = {}
    BY <1>5 DEF ReportIfLast, Complete, Untold, Known, Fresh, Incarnated
  <2>2. alive = {} => Entries = {}
    BY DEF Known
  <2> QED
    BY <1>5, <2>1, <2>2 DEF ReportIfLast, ReportNoDebuggee
<1>6. CASE StopNext
  BY <1>6 DEF StopNext, ProcessStop
<1>7. CASE LoopEnds
  BY <1>7 DEF LoopEnds, Proceed
<1>8. CASE EngineRemovesAll
  BY <1>8 DEF EngineRemovesAll, EngineDrops, ReportNoDebuggee
<1>9. CASE EngineCallFails
  BY <1>9 DEF EngineCallFails
<1>10. CASE Lookup
  <2>1. AtRest /\ current \in alive /\ processMap[current] = NoEntry
    BY <1>10 DEF Lookup
  <2>2. current \in told
    BY <1>0, <2>1 DEF Complete, Untold
  <2> QED
    BY <2>1, <2>2 DEF Fresh, Incarnated
<1>11. CASE RemoveAll
  BY <1>11, <1>0 DEF RemoveAll
<1>12. ASSUME NEW p \in Processes, EngineCreates(p) PROVE Exact'
  BY <1>0, <1>12 DEF EngineCreates
<1>13. ASSUME NEW p \in Processes, ExitProcess(p) PROVE Exact'
  BY <1>0, <1>13 DEF ExitProcess, ProcessStop
<1>14. ASSUME NEW p \in Processes, SetCurrentProcess(p) PROVE Exact'
  BY <1>14 DEF SetCurrentProcess
<1>15. ASSUME NEW id \in Processes \cup {CurrentId}, RemoveProcess(id) PROVE Exact'
  BY <1>0, <1>15 DEF RemoveProcess, ProcessStop
<1>16. CASE UNCHANGED vars
  BY <1>16 DEF vars
<1> QED
  BY <1>1, <1>2, <1>3, <1>4, <1>5, <1>6, <1>7, <1>8, <1>9, <1>10, <1>11, <1>12,
     <1>13, <1>14, <1>15, <1>16 DEF Next, Continue

(* onProcessExit is delivered only for a process whose start was announced *)
(* and whose exit was not.                                                 *)
LEMMA StepExitsTold ==
  ASSUME ~DefaultIds, IInv, Complete, Exact, [Next]_vars,
         op'.step = "exiting", op' # op
  PROVE  op'.id \in told
<1> USE ProcessesAssumption
<1> USE DEF IInv, Idle, AtRest, TypeOK
<1>0. AtRest => alive \subseteq told
  BY DEF Steps, Complete, Untold
<1>1. CASE StopNext
  BY <1>1 DEF StopNext, Exact
<1>2. ASSUME NEW p \in Processes, ExitProcess(p) PROVE op'.id \in told
  BY <1>0, <1>2 DEF ExitProcess
<1>3. ASSUME NEW id \in Processes \cup {CurrentId}, RemoveProcess(id) PROVE op'.id \in told
  BY <1>0, <1>3 DEF RemoveProcess
<1>4. ASSUME NEW p \in Processes, EngineCreates(p) PROVE FALSE
  BY <1>4 DEF EngineCreates
<1>5. CASE UNCHANGED op
  BY <1>5
<1> QED
  BY <1>1, <1>2, <1>3, <1>4, <1>5
     DEF Next, Continue, vars, AnnounceStart, StartEnds, ExitEnds, EngineRemoves,
         ReportIfLast, LoopEnds, EngineRemovesAll, EngineCallFails, Lookup, RemoveAll,
         SetCurrentProcess, Proceed

(* With well-behaved handlers and an engine that does what it is asked,    *)
(* exits pair with starts, and after the last process nothing is left over.*)
THEOREM LifeCyclesAreExact == Spec => []QuietWhenUndisturbed /\ ExitFollowsStart
<1> USE DEF IInvNamed, CompleteIf, ExactIf, DefaultIds, EngineFails, HandlerLookups
<1>1. Init => ExactIf
  BY ProcessesAssumption DEF Init, Exact, Entries, NoEntry, Idle
<1>2. IInvNamed /\ CompleteIf /\ ExactIf /\ [Next]_vars => ExactIf'
  BY StepExact, GivenIsRigid
<1>3. IInvNamed /\ ExactIf => QuietWhenUndisturbed
  BY DEF IInv, Known, Exact, QuietWhenUndisturbed, QuietWhenGone, AtRest
<1>4. IInvNamed /\ CompleteIf /\ ExactIf /\ [Next]_vars
        => [given = {} /\ op'.step = "exiting" /\ op' # op => op'.id \in told]_vars
  BY StepExitsTold
<1> QED
  BY <1>1, <1>2, <1>3, <1>4, Invariance, CompleteInvariance, PTL DEF Spec, ExitFollowsStart

(* onProcessExit follows onProcessStart, when nothing disturbs: no process *)
(* exits that handlers were not told of.                                   *)
THEOREM ExitsFollowStarts == Spec => ExitFollowsStart
BY LifeCyclesAreExact, PTL
=============================================================================
