--------------------------- MODULE TargetObjects ----------------------------
(***************************************************************************)
(* The objects that stand for a system, a process or a thread being        *)
(* debugged (source/win/processimpl.cpp), the functions of                 *)
(* source/win/dbgeng.cpp they are made of, and ContextAutoRestoreIf of     *)
(* source/win/autoswitch.cpp.                                              *)
(*                                                                         *)
(* The engine answers about its current system, process and thread; an     *)
(* object remembers which it stands for, makes that one current, asks, and *)
(* puts back what was current before.  An operator here is given the state *)
(* e of the engine and gives [e, ok, value]: the state it leaves, whether  *)
(* it returned or threw, and what it returned.                             *)
(*                                                                         *)
(* Of the engine: ids are numbers, given in ascending order and never to   *)
(* two targets, whichever system they are in; every system has a current   *)
(* process and every process a current thread, the one that was current    *)
(* when it last was itself; choosing one where there is none chooses the   *)
(* first.  A process is there as long as it has threads, and a system as   *)
(* long as it has processes; a kernel that is debugged has one process.    *)
(* It knows the threads of a kernel by no system ids, and its process      *)
(* perhaps by none: what is asked about such an id it refuses.             *)
(***************************************************************************)
EXTENDS Naturals, Integers, FiniteSets, SequencesExt, TLC

CONSTANTS
  Threads, Processes, Systems,   (* ids, numbers                           *)
  ProcessOf, SystemOf,           (* of a thread, of a process              *)
  Pid, Tid,                      (* what the system calls them, or None    *)
  Kernels,                       (* systems whose kernel is debugged       *)
  Managed                        (* processes with the module clr          *)

None == 0

ASSUME TargetsAssumption ==
  /\ Threads \cup Processes \cup Systems \subseteq Nat \ {0} /\ IsFiniteSet(Threads)
  /\ ProcessOf \in [Threads -> Processes] /\ SystemOf \in [Processes -> Systems]
  /\ \A p \in Processes : \E t \in Threads : ProcessOf[t] = p
  /\ \A s \in Systems : \E p \in Processes : SystemOf[p] = s
  /\ \A p, other \in Processes : SystemOf[p] = SystemOf[other] /\ SystemOf[p] \in Kernels => p = other
  /\ \A t \in Threads : Tid[t] = None <=> SystemOf[ProcessOf[t]] \in Kernels
  /\ \A p \in Processes : Pid[p] = None => SystemOf[p] \in Kernels

Unspecified == -1   (* CURRENT_PROCESS_ID, and what stands for no id       *)

Gives(e, v) == [e |-> e, ok |-> TRUE, value |-> v]
Throws(e) == [e |-> e, ok |-> FALSE, value |-> None]
Then(a, Op(_, _)) == IF a.ok THEN Op(a.e, a.value) ELSE a
-----------------------------------------------------------------------------
(* The engine.                                                             *)
InOrder(ids) ==
  CHOOSE list \in [1..Cardinality(ids) -> ids] :
    \A i, j \in 1..Cardinality(ids) : i < j => list[i] < list[j]

LiveProcesses(e) == {ProcessOf[t] : t \in e.live}
LiveSystems(e) == {SystemOf[p] : p \in LiveProcesses(e)}
ThreadsIn(e, p) == {t \in e.live : ProcessOf[t] = p}
ProcessesIn(e, s) == {p \in LiveProcesses(e) : SystemOf[p] = s}

CurrentSystem(e) == e.system
CurrentProcess(e) == IF e.system = None THEN None ELSE e.process[e.system]
CurrentThread(e) == LET p == CurrentProcess(e) IN IF p = None THEN None ELSE e.thread[p]

First(ids) == IF ids = {} THEN None ELSE Min(ids)
OrFirst(id, ids) == IF id = None THEN First(ids) ELSE id

Selected(e, s, p, t) ==
  [e EXCEPT !.system = s, !.process[s] = p, !.thread[p] = t, !.scope = 0]

SelectProcess(e, p) ==
  IF p \in LiveProcesses(e) THEN Selected(e, SystemOf[p], p, OrFirst(e.thread[p], ThreadsIn(e, p))) ELSE e
SelectSystem(e, s) ==
  IF s \in LiveSystems(e) THEN SelectProcess(e, OrFirst(e.process[s], ProcessesIn(e, s))) ELSE e
SelectThread(e, t) ==
  IF t \in e.live THEN Selected(e, SystemOf[ProcessOf[t]], ProcessOf[t], t) ELSE e

SystemList(e) == InOrder(LiveSystems(e))
ProcessList(e) == InOrder(ProcessesIn(e, CurrentSystem(e)))
ThreadList(e) == InOrder(ThreadsIn(e, CurrentProcess(e)))

(* An id that the engine may not have.                                     *)
Answered(e, id) == IF id = None THEN Throws(e) ELSE Gives(e, id)
-----------------------------------------------------------------------------
(* ContextAutoRestoreIf around Op.  What could not be read is not put      *)
(* back.                                                                   *)
Saved(e) ==
  [system |-> CurrentSystem(e), process |-> CurrentProcess(e), thread |-> CurrentThread(e),
   scope |-> e.scope, quiet |-> e.quiet]

(* Fault: the thread is not put back.                                      *)
Restored_NotThread(e, saved) ==
  LET s == IF saved.system = None THEN e ELSE SelectSystem(e, saved.system)
      p == IF saved.process = None THEN s ELSE SelectProcess(s, saved.process) IN
  [p EXCEPT !.scope = saved.scope, !.quiet = saved.quiet]

(* Fault: the scope is not put back.                                       *)
Restored_NotScope(e, saved) ==
  LET s == IF saved.system = None THEN e ELSE SelectSystem(e, saved.system)
      p == IF saved.process = None THEN s ELSE SelectProcess(s, saved.process)
      t == IF saved.thread = None THEN p ELSE SelectThread(p, saved.thread) IN
  [t EXCEPT !.quiet = saved.quiet]

Restored(e, saved) ==
  LET s == IF saved.system = None THEN e ELSE SelectSystem(e, saved.system)
      p == IF saved.process = None THEN s ELSE SelectProcess(s, saved.process)
      t == IF saved.thread = None THEN p ELSE SelectThread(p, saved.thread) IN
  [t EXCEPT !.scope = saved.scope, !.quiet = saved.quiet]

Within(e, Op(_)) ==
  LET a == Op([e EXCEPT !.quiet = TRUE]) IN [e |-> Restored(a.e, Saved(e)), ok |-> a.ok, value |-> a.value]
-----------------------------------------------------------------------------
(* source/win/dbgeng.cpp.                                                  *)
IsKernelDebugging(e) == CurrentSystem(e) \in Kernels

SetCurrentSystemById(e, s) ==
  IF s \in LiveSystems(e) THEN Gives(SelectSystem(e, s), None) ELSE Throws(e)

SetCurrentProcessById(e, p) ==
  IF ~IsKernelDebugging(e) /\ p \in LiveProcesses(e) THEN Gives(SelectProcess(e, p), None) ELSE Throws(e)

SetCurrentThreadById(e, t) ==
  IF t \in e.live THEN Gives(SelectThread(e, t), None) ELSE Throws(e)

(* If no system is current, the first becomes it.                          *)
GetCurrentSystemId(e) ==
  IF CurrentSystem(e) # None THEN Gives(e, CurrentSystem(e))
  ELSE LET first == First(LiveSystems(e)) IN
       IF first = None THEN Throws(e)
       ELSE Then(SetCurrentSystemById(e, first), LAMBDA now, unused : Gives(now, first))

GetCurrentProcessId(e) == Answered(e, CurrentProcess(e))
GetCurrentThreadId(e) == Answered(e, CurrentThread(e))

(* checkSystemById, checkProcessById, checkThreadById: among those of what *)
(* is current.                                                             *)
Check(e, id, list) == IF Contains(list, id) THEN Gives(e, id) ELSE Throws(e)

(* Fault: counted from one.                                                *)
ByIndex_FromOne(e, i, list) == IF i > 0 /\ i <= Len(list) THEN Gives(e, list[i]) ELSE Throws(e)

ByIndex(e, i, list) == IF i < Len(list) THEN Gives(e, list[i + 1]) ELSE Throws(e)

BySystemId(e, id, ids, list, current) ==
  IF id = Unspecified THEN Answered(e, current)
  ELSE Answered(e, First({x \in ToSet(list) : ids[x] = id}))

GetProcessIdBySystemId(e, pid) == BySystemId(e, pid, Pid, ProcessList(e), CurrentProcess(e))
GetThreadIdBySystemId(e, tid) == BySystemId(e, tid, Tid, ThreadList(e), CurrentThread(e))

(* A fact about what is current: what getSystemDesc, getProcessSystemId,   *)
(* getProcessOffset, getThreadOffset and such answer without an id.  Of a  *)
(* kernel the engine may refuse to.                                        *)
Knows(kind, x) == (kind = "pid" => Pid[x] # None) /\ (kind = "tid" => Tid[x] # None)
Fact(e, kind, current) ==
  IF current = None \/ ~Knows(kind, current) THEN Throws(e) ELSE Gives(e, <<kind, current>>)

(* The same with the id of another.                                        *)
FactAbout(e, kind, id, Current(_), Choose(_, _)) ==
  IF id = Current(e) THEN Fact(e, kind, id)
  ELSE Within(e, LAMBDA in :
         Then(Choose(in, id), LAMBDA there, unused : Fact(there, kind, Current(there))))

(* Without a current one its id cannot be compared.                        *)
GetSystemDesc(e, s) ==
  Then(GetCurrentSystemId(e), LAMBDA now, current :
    FactAbout(now, "description", s, CurrentSystem, SetCurrentSystemById))
GetProcessFact(e, kind, p) ==
  Then(GetCurrentProcessId(e), LAMBDA now, current :
    FactAbout(now, kind, p, CurrentProcess, SetCurrentProcessById))
GetThreadFact(e, kind, t) ==
  Then(GetCurrentThreadId(e), LAMBDA now, current :
    FactAbout(now, kind, t, CurrentThread, SetCurrentThreadById))
-----------------------------------------------------------------------------
(* The objects: what they stand for.                                       *)
SystemObject(s) == [kind |-> "system", system |-> s]
ProcessObject(s, p) == [kind |-> "process", system |-> s, process |-> p]
ThreadObject(s, p, t) == [kind |-> "thread", system |-> s, process |-> p, thread |-> t]

(* Their constructors.                                                     *)
CurrentSystemObject(e) == Then(GetCurrentSystemId(e), LAMBDA now, s : Gives(now, SystemObject(s)))

SystemById(e, s) == Then(Check(e, s, SystemList(e)), LAMBDA now, id : Gives(now, SystemObject(id)))

CurrentProcessObject(e) ==
  Then(GetCurrentProcessId(e), LAMBDA now, p :
    Then(GetCurrentSystemId(now), LAMBDA then, s : Gives(then, ProcessObject(s, p))))

ProcessById(e, p) ==
  IF p = Unspecified THEN CurrentProcessObject(e)
  ELSE Then(Check(e, p, ProcessList(e)), LAMBDA now, id :
         Then(GetCurrentSystemId(now), LAMBDA then, s : Gives(then, ProcessObject(s, id))))

CurrentThreadObject(e) ==
  Then(GetCurrentThreadId(e), LAMBDA now, t :
    Then(GetCurrentProcessId(now), LAMBDA then, p :
      Then(GetCurrentSystemId(then), LAMBDA last, s : Gives(last, ThreadObject(s, p, t)))))

ThreadById(e, t) ==
  IF t = Unspecified THEN CurrentThreadObject(e)
  ELSE Then(Check(e, t, ThreadList(e)), LAMBDA now, id :
         Then(GetCurrentProcessId(now), LAMBDA then, p :
           Then(GetCurrentSystemId(then), LAMBDA last, s : Gives(last, ThreadObject(s, p, id)))))

SystemByIndex(e, i) == Then(ByIndex(e, i, SystemList(e)), SystemById)
ProcessByIndex(e, i) == Then(ByIndex(e, i, ProcessList(e)), ProcessById)
ThreadByIndex(e, i) == Then(ByIndex(e, i, ThreadList(e)), ThreadById)
ProcessBySystemId(e, pid) == Then(GetProcessIdBySystemId(e, pid), ProcessById)
ThreadBySystemId(e, tid) == Then(GetThreadIdBySystemId(e, tid), ThreadById)
-----------------------------------------------------------------------------
(* isCurrent: what is compared first decides whether the rest is asked.    *)
Same(a, id, Rest(_)) == Then(a, LAMBDA now, current : IF current = id THEN Rest(now) ELSE Gives(now, FALSE))
Yes(e) == Gives(e, TRUE)

(* Fault: a process is current when its system is.                         *)
IsCurrent_SystemOnly(e, o) ==
  Same(GetCurrentSystemId(e), o.system, LAMBDA s :
    IF o.kind # "thread" THEN Yes(s) ELSE Same(GetCurrentThreadId(s), o.thread, Yes))

IsCurrent(e, o) ==
  Same(GetCurrentSystemId(e), o.system, LAMBDA s :
    IF o.kind = "system" THEN Yes(s)
    ELSE Same(GetCurrentProcessId(s), o.process, LAMBDA p :
           IF o.kind = "process" THEN Yes(p) ELSE Same(GetCurrentThreadId(p), o.thread, Yes)))

(* switchContext.  A thread brings its process and its system with it.     *)
SwitchToProcess(e, o) ==
  Then(GetCurrentSystemId(e), LAMBDA now, s :
    Then(IF s # o.system THEN SetCurrentSystemById(now, o.system) ELSE Gives(now, None),
         LAMBDA there, unused :
           IF IsKernelDebugging(there) THEN Gives(there, None)
           ELSE Then(GetCurrentProcessId(there), LAMBDA then, p :
                  IF p # o.process THEN SetCurrentProcessById(then, o.process) ELSE Gives(then, None))))

(* Fault: the process is not switched to when its system is.               *)
SwitchContext_SystemOnly(e, o) ==
  CASE o.kind # "thread" -> SetCurrentSystemById(e, o.system)
    [] o.kind = "thread" -> SetCurrentThreadById(e, o.thread)

SwitchContext(e, o) ==
  CASE o.kind = "system" -> SetCurrentSystemById(e, o.system)
    [] o.kind = "process" -> SwitchToProcess(e, o)
    [] o.kind = "thread" ->
         Then(GetCurrentThreadId(e), LAMBDA now, t :
           IF t # o.thread THEN SetCurrentThreadById(now, o.thread) ELSE Gives(now, None))

SetCurrent(e, o) ==
  IF o.kind = "system" THEN SwitchContext(e, o)
  ELSE Then(IsCurrent(e, o), LAMBDA now, current : IF current THEN Gives(now, None) ELSE SwitchContext(now, o))

(* Every question of an object: at once if the object is current, else     *)
(* there and back.                                                         *)
About(e, o, Ask(_)) ==
  Then(IsCurrent(e, o), LAMBDA now, current :
    IF current THEN Ask(now)
    ELSE Within(now, LAMBDA in : Then(SwitchContext(in, o), LAMBDA there, unused : Ask(there))))
-----------------------------------------------------------------------------
(* The questions of each, to what is current.  isManaged asks itself again *)
(* when its process is current, and looks for clr.                         *)
SystemAnswer(e, q) ==
  CASE q[1] \in {"description", "dump", "64bit"} -> Fact(e, q[1], CurrentSystem(e))
    [] q[1] = "kernel" -> Gives(e, IsKernelDebugging(e))
    [] q[1] = "processes" -> Gives(e, Len(ProcessList(e)))
    [] q[1] = "byIndex" -> ProcessByIndex(e, q[2])
    [] q[1] = "byId" -> ProcessById(e, q[2])
    [] q[1] = "bySystemId" -> ProcessBySystemId(e, q[2])
    [] q[1] = "current" -> CurrentProcessObject(e)

ManagedHere(e, o) ==
  Then(IsCurrent(e, o), LAMBDA now, current : Gives(now, current /\ CurrentProcess(now) \in Managed))

ProcessAnswer(e, o, q) ==
  CASE q[1] \in {"executable", "peb", "modules", "breakpoints", "heap"} -> Fact(e, q[1], CurrentProcess(e))
    [] q[1] = "systemId" -> Then(GetCurrentProcessId(e), LAMBDA now, p : Answered(now, Pid[p]))
    [] q[1] = "kernel" -> Gives(e, IsKernelDebugging(e))
    [] q[1] = "managed" -> ManagedHere(e, o)
    [] q[1] = "threads" -> Gives(e, Len(ThreadList(e)))
    [] q[1] = "byIndex" -> ThreadByIndex(e, q[2])
    [] q[1] = "byId" -> ThreadById(e, q[2])
    [] q[1] = "bySystemId" -> ThreadBySystemId(e, q[2])
    [] q[1] = "current" -> CurrentThreadObject(e)

ThreadAnswer(e, q) ==
  CASE q[1] \in {"teb", "ip", "sp", "fp"} -> Fact(e, q[1], CurrentThread(e))
    [] q[1] = "systemId" -> Then(GetCurrentThreadId(e), LAMBDA now, t : Answered(now, Tid[t]))
    [] q[1] = "kernel" -> Gives(e, IsKernelDebugging(e))

Asked(e, o, q) ==
  CASE o.kind = "system" -> SystemAnswer(e, q)
    [] o.kind = "process" -> ProcessAnswer(e, o, q)
    [] o.kind = "thread" -> ThreadAnswer(e, q)

(* getProcess of a thread looks the process up in the system that is       *)
(* current.                                                                *)
AnswerOf(e, o, q) ==
  IF o.kind = "thread" /\ q[1] = "process" THEN ProcessById(e, o.process)
  ELSE About(e, o, LAMBDA in : Asked(in, o, q))
=============================================================================
