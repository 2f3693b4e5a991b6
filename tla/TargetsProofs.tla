--------------------------- MODULE TargetsProofs ---------------------------
(***************************************************************************)
(* Theorems about the objects that stand for targets: for any number of    *)
(* systems, processes and threads, any debug information and any stacks.   *)
(*                                                                         *)
(* Records are compared field by field: an engine has Fields, whatever the *)
(* frame in scope and the mode may be.                                     *)
(***************************************************************************)
EXTENDS Targets, FiniteSetTheorems, FunctionTheorems, SequenceTheorems, WellFoundedInduction, TLAPS

Fields == {"live", "system", "process", "thread", "scope", "mode", "event", "epoch", "quiet"}

Shaped(e) ==
  /\ e = [f \in Fields |-> e[f]]
  /\ e.live \subseteq Threads
  /\ e.system \in Systems \cup {None}
  /\ e.process \in [Systems -> Processes \cup {None}]
  /\ e.thread \in [Processes -> Threads \cup {None}]

(* A system that is current is there, the current process of a system is   *)
(* one of its own that is, the current thread of a process one of its own  *)
(* that lives.                                                             *)
Sound(e) ==
  /\ Shaped(e)
  /\ e.system # None => e.system \in LiveSystems(e)
  /\ \A s \in Systems : e.process[s] # None => e.process[s] \in LiveProcesses(e) /\ SystemOf[e.process[s]] = s
  /\ \A p \in Processes : e.thread[p] # None => e.thread[p] \in e.live /\ ProcessOf[e.thread[p]] = p

(* The debuggee d may have other targets current than e, and be elsewhere  *)
(* in the stack, but it is the same.                                       *)
Kin(e, d) ==
  /\ Sound(d)
  /\ d.live = e.live /\ d.mode = e.mode /\ d.event = e.event /\ d.epoch = e.epoch

(* An operation that changes nothing, and one that leaves no trace, if     *)
(* something is current; otherwise something may become it.                *)
Pure(e, a) == Kin(e, a.e) /\ (Settled(e) => a.e = e)
Steady(e, a) == Kin(e, a.e) /\ (Settled(e) => Traceless(e, a))

-----------------------------------------------------------------------------
(* Natural numbers are well-ordered.                                       *)
LEMMA LeastExists ==
  ASSUME NEW ids \in SUBSET Nat, ids # {}
  PROVE  \E x \in ids : \A y \in ids : x <= y
<1> DEFINE less == {pair \in Nat \X Nat : pair[1] < pair[2]}
<1>1. IsWellFoundedOn(less, Nat)
  BY NatLessThanWellFounded DEF OpToRel
<1>2. \E x \in ids : \A y \in ids : <<y, x>> \notin less
  <2> HIDE DEF less
  <2> QED BY <1>1, WFMin
<1>3. \A x, y \in Nat : y < x => <<y, x>> \in less
  OBVIOUS
<1>4. QED
  <2> HIDE DEF less
  <2>1. PICK x \in ids : \A y \in ids : <<y, x>> \notin less
    BY <1>2
  <2>2. \A y \in ids : ~(y < x)
    BY <1>3, <2>1
  <2> QED BY <2>2

(* The first of some ids is one of them.                                   *)
LEMMA FirstIsOne ==
  ASSUME NEW ids \in SUBSET Nat
  PROVE  /\ ids # {} => First(ids) \in ids /\ \A y \in ids : First(ids) <= y
         /\ ids = {} => First(ids) = None
BY LeastExists DEF First, Min

(* What the engine knows of ids.                                           *)
LEMMA IdsAre ==
  /\ None \notin Threads \cup Processes \cup Systems
  /\ \A t \in Threads : ProcessOf[t] \in Processes
  /\ \A p \in Processes : SystemOf[p] \in Systems
BY TargetsAssumption DEF None

(* What is current, and that what is was chosen soundly.                   *)
LEMMA CurrentIs ==
  ASSUME NEW e, Sound(e)
  PROVE  /\ CurrentSystem(e) \in Systems \cup {None}
         /\ CurrentProcess(e) \in Processes \cup {None}
         /\ CurrentThread(e) \in Threads \cup {None}
         /\ CurrentSystem(e) # None => CurrentSystem(e) \in LiveSystems(e)
         /\ CurrentProcess(e) # None =>
              /\ CurrentSystem(e) \in Systems /\ SystemOf[CurrentProcess(e)] = CurrentSystem(e)
              /\ CurrentProcess(e) \in LiveProcesses(e)
         /\ CurrentThread(e) # None =>
              /\ CurrentProcess(e) \in Processes
              /\ CurrentThread(e) \in e.live /\ ProcessOf[CurrentThread(e)] = CurrentProcess(e)
BY IdsAre DEF Sound, Shaped, CurrentSystem, CurrentProcess, CurrentThread

(* Kinship is reflexive and transitive.                                    *)
LEMMA KinReflexive ==
  ASSUME NEW e, Sound(e)
  PROVE  Kin(e, e)
BY DEF Kin

LEMMA KinTransitive ==
  ASSUME NEW e, NEW d, NEW c, Kin(e, d), Kin(d, c)
  PROVE  Kin(e, c)
BY DEF Kin

(* Scope and notifications are not what makes it sound.                    *)
LEMMA AlikeAreKin ==
  ASSUME NEW e, Sound(e), NEW d, d = [f \in Fields |-> d[f]],
         d.live = e.live, d.mode = e.mode, d.event = e.event, d.epoch = e.epoch,
         d.system = e.system, d.process = e.process, d.thread = e.thread
  PROVE  Kin(e, d)
<1>1. Shaped(d)
  BY DEF Sound, Shaped
<1>2. QED
  BY <1>1 DEF Kin, Sound, LiveSystems, LiveProcesses

(* What is chosen becomes current, and its process and system with it.     *)
LEMMA SelectedIs ==
  ASSUME NEW e, Sound(e), NEW p \in Processes, NEW t \in e.live, ProcessOf[t] = p
  PROVE  LET d == Selected(e, SystemOf[p], p, t) IN
         /\ Kin(e, d)
         /\ d.quiet = e.quiet
         /\ CurrentSystem(d) = SystemOf[p] /\ CurrentProcess(d) = p /\ CurrentThread(d) = t
<1> DEFINE s == SystemOf[p]
           d == Selected(e, s, p, t)
<1>1. s \in Systems /\ p # None /\ s # None
  BY IdsAre
<1>2. /\ d = [f \in Fields |-> d[f]]
      /\ d.live = e.live /\ d.mode = e.mode /\ d.event = e.event /\ d.epoch = e.epoch
      /\ d.quiet = e.quiet /\ d.system = s
      /\ d.process = [e.process EXCEPT ![s] = p]
      /\ d.thread = [e.thread EXCEPT ![p] = t]
  BY DEF Selected, Sound, Shaped, Fields
<1> HIDE DEF s, d
<1>3. /\ d.process \in [Systems -> Processes \cup {None}] /\ d.process[s] = p
      /\ \A x \in Systems : d.process[x] # None => d.process[x] \in LiveProcesses(d) /\ SystemOf[d.process[x]] = x
      /\ d.system \in LiveSystems(d)
  <2>1. p \in LiveProcesses(e) /\ s \in LiveSystems(e)
    BY DEF LiveProcesses, LiveSystems, s
  <2>2. LiveProcesses(d) = LiveProcesses(e) /\ LiveSystems(d) = LiveSystems(e)
    BY <1>2 DEF LiveProcesses, LiveSystems
  <2>3. e.process \in [Systems -> Processes \cup {None}]
    BY DEF Sound, Shaped
  <2>4. d.process \in [Systems -> Processes \cup {None}] /\ d.process[s] = p
    BY <1>1, <1>2, <2>3
  <2>5. ASSUME NEW x \in Systems, d.process[x] # None
        PROVE  d.process[x] \in LiveProcesses(d) /\ SystemOf[d.process[x]] = x
    <3>1. CASE x = s
      BY <2>1, <2>2, <2>4, <3>1 DEF s
    <3>2. CASE x # s
      <4>1. d.process[x] = e.process[x]
        BY <1>2, <2>3, <3>2
      <4> QED BY <2>2, <2>5, <4>1 DEF Sound
    <3> QED BY <3>1, <3>2
  <2>6. d.system \in LiveSystems(d)
    BY <1>2, <2>1, <2>2
  <2> QED BY <2>4, <2>5, <2>6
<1>4. /\ d.thread \in [Processes -> Threads \cup {None}] /\ d.thread[p] = t
      /\ \A x \in Processes : d.thread[x] # None => d.thread[x] \in d.live /\ ProcessOf[d.thread[x]] = x
  <2>1. /\ e.thread \in [Processes -> Threads \cup {None}] /\ e.live \subseteq Threads
        /\ d.thread = [e.thread EXCEPT ![p] = t] /\ d.live = e.live
    BY <1>2 DEF Sound, Shaped
  <2>2. d.thread \in [Processes -> Threads \cup {None}] /\ d.thread[p] = t
    BY <2>1
  <2>3. ASSUME NEW x \in Processes, d.thread[x] # None
        PROVE  d.thread[x] \in d.live /\ ProcessOf[d.thread[x]] = x
    <3>1. CASE x = p
      BY <2>1, <2>2, <3>1
    <3>2. CASE x # p
      <4>1. d.thread[x] = e.thread[x]
        BY <2>1, <3>2
      <4> QED BY <2>1, <2>3, <4>1 DEF Sound
    <3> QED BY <3>1, <3>2
  <2> QED BY <2>2, <2>3
<1>5. Sound(d)
  BY <1>1, <1>2, <1>3, <1>4 DEF Sound, Shaped
<1>6. CurrentSystem(d) = s /\ CurrentProcess(d) = p /\ CurrentThread(d) = t
  BY <1>1, <1>2, <1>3, <1>4 DEF CurrentSystem, CurrentProcess, CurrentThread
<1>7. QED
  BY <1>2, <1>5, <1>6 DEF Kin, s, d

(* A thread, a process or a system is chosen, if it is there.              *)
LEMMA SelectThreadKeeps ==
  ASSUME NEW e, Sound(e), NEW t
  PROVE  /\ Kin(e, SelectThread(e, t))
         /\ t \in e.live => LET d == SelectThread(e, t) IN
              /\ CurrentThread(d) = t
              /\ CurrentProcess(d) = ProcessOf[t]
              /\ CurrentSystem(d) = SystemOf[ProcessOf[t]]
<1>1. CASE t \notin e.live
  BY <1>1, KinReflexive DEF SelectThread
<1>2. CASE t \in e.live
  <2>1. t \in Threads /\ ProcessOf[t] \in Processes
    BY <1>2, IdsAre DEF Sound, Shaped
  <2>2. SelectThread(e, t) = Selected(e, SystemOf[ProcessOf[t]], ProcessOf[t], t)
    BY <1>2 DEF SelectThread
  <2> QED BY <1>2, <2>1, <2>2, SelectedIs
<1>3. QED
  BY <1>1, <1>2

LEMMA SelectProcessKeeps ==
  ASSUME NEW e, Sound(e), NEW p
  PROVE  /\ Kin(e, SelectProcess(e, p))
         /\ p \in LiveProcesses(e) => LET d == SelectProcess(e, p) IN
              /\ CurrentProcess(d) = p
              /\ CurrentSystem(d) = SystemOf[p]
              /\ CurrentThread(d) \in e.live
<1>1. CASE p \notin LiveProcesses(e)
  BY <1>1, KinReflexive DEF SelectProcess
<1>2. CASE p \in LiveProcesses(e)
  <2> DEFINE t == OrFirst(e.thread[p], ThreadsIn(e, p))
  <2>1. p \in Processes /\ ThreadsIn(e, p) # {} /\ ThreadsIn(e, p) \in SUBSET Nat
    <3>1. e.live \subseteq Threads
      BY DEF Sound, Shaped
    <3>2. PICK x \in e.live : p = ProcessOf[x]
      BY <1>2 DEF LiveProcesses
    <3>3. p \in Processes
      BY <3>1, <3>2, IdsAre
    <3>4. x \in ThreadsIn(e, p)
      BY <3>2 DEF ThreadsIn
    <3>5. ThreadsIn(e, p) \subseteq Nat
      BY <3>1, TargetsAssumption DEF ThreadsIn
    <3> QED BY <3>3, <3>4, <3>5
  <2>2. t \in Threads /\ t \in e.live /\ ProcessOf[t] = p
    <3>1. CASE e.thread[p] = None
      <4>1. First(ThreadsIn(e, p)) \in ThreadsIn(e, p)
        BY <2>1, FirstIsOne
      <4> QED BY <3>1, <4>1 DEF OrFirst, ThreadsIn, Sound, Shaped
    <3>2. CASE e.thread[p] # None
      BY <3>2, <2>1 DEF OrFirst, Sound, Shaped
    <3> QED BY <3>1, <3>2
  <2> HIDE DEF t
  <2>3. SelectProcess(e, p) = Selected(e, SystemOf[p], p, t)
    BY <1>2 DEF SelectProcess, t
  <2> QED BY <2>1, <2>2, <2>3, SelectedIs
<1>3. QED
  BY <1>1, <1>2

LEMMA SelectSystemKeeps ==
  ASSUME NEW e, Sound(e), NEW s
  PROVE  Kin(e, SelectSystem(e, s))
BY KinReflexive, SelectProcessKeeps DEF SelectSystem

-----------------------------------------------------------------------------
(* Whatever has been chosen in between, putting back what was current is   *)
(* enough to see it again: the thread brings its process and its system    *)
(* with it.                                                                *)
LEMMA RestoredIs ==
  ASSUME NEW e, Sound(e), NEW d, Kin(e, d)
  PROVE  LET r == Restored(d, Saved(e)) IN
         /\ Kin(e, r)
         /\ r.quiet = e.quiet
         /\ Settled(e) => Seen(r) = Seen(e)
<1> DEFINE saved == Saved(e)
           s == IF saved.system = None THEN d ELSE SelectSystem(d, saved.system)
           p == IF saved.process = None THEN s ELSE SelectProcess(s, saved.process)
           t == IF saved.thread = None THEN p ELSE SelectThread(p, saved.thread)
           r == [t EXCEPT !.scope = saved.scope, !.quiet = saved.quiet]
<1>1. /\ saved.thread = CurrentThread(e)
      /\ saved.scope = e.scope /\ saved.quiet = e.quiet
  BY DEF Saved
<1>2. Restored(d, saved) = r
  BY DEF Restored
<1>3. Kin(e, s)
  <2>1. Kin(d, s)
    <3> HIDE DEF saved
    <3>1. Kin(d, d) /\ Kin(d, SelectSystem(d, saved.system))
      BY KinReflexive, SelectSystemKeeps DEF Kin
    <3> QED BY <3>1
  <2> HIDE DEF s
  <2> QED BY <2>1, KinTransitive
<1> HIDE DEF s
<1>4. Kin(e, p)
  <2>1. Kin(s, p)
    <3> HIDE DEF saved
    <3>1. Sound(s)
      BY <1>3 DEF Kin
    <3>2. Kin(s, s) /\ Kin(s, SelectProcess(s, saved.process))
      BY <3>1, KinReflexive, SelectProcessKeeps
    <3> QED BY <3>2
  <2> HIDE DEF p
  <2> QED BY <1>3, <2>1, KinTransitive
<1> HIDE DEF p
<1>5. /\ Kin(e, t)
      /\ Settled(e) => /\ CurrentThread(t) = CurrentThread(e)
                       /\ CurrentProcess(t) = CurrentProcess(e)
                       /\ CurrentSystem(t) = CurrentSystem(e)
  <2> HIDE DEF saved
  <2>1. Sound(p) /\ p.live = e.live
    BY <1>4 DEF Kin
  <2>2. Kin(p, t)
    <3>1. Kin(p, p) /\ Kin(p, SelectThread(p, saved.thread))
      BY <2>1, KinReflexive, SelectThreadKeeps
    <3> QED BY <3>1
  <2>3. ASSUME Settled(e)
        PROVE  /\ CurrentThread(t) = CurrentThread(e)
               /\ CurrentProcess(t) = CurrentProcess(e)
               /\ CurrentSystem(t) = CurrentSystem(e)
    <3>1. /\ CurrentThread(e) \in e.live /\ ProcessOf[CurrentThread(e)] = CurrentProcess(e)
          /\ SystemOf[CurrentProcess(e)] = CurrentSystem(e)
          /\ saved.thread # None
      BY <1>1, <2>3, CurrentIs, IdsAre DEF Settled
    <3>2. t = SelectThread(p, CurrentThread(e))
      BY <1>1, <3>1
    <3> HIDE DEF t
    <3> QED BY <2>1, <3>1, <3>2, SelectThreadKeeps
  <2> HIDE DEF t
  <2>4. Kin(e, t)
    BY <1>4, <2>2, KinTransitive
  <2> QED BY <2>3, <2>4
<1> HIDE DEF t
<1>6. /\ r = [f \in Fields |-> r[f]]
      /\ r.live = t.live /\ r.mode = t.mode /\ r.event = t.event /\ r.epoch = t.epoch
      /\ r.system = t.system /\ r.process = t.process /\ r.thread = t.thread
      /\ r.scope = saved.scope /\ r.quiet = saved.quiet
  <2> HIDE DEF saved
  <2> QED BY <1>5 DEF Kin, Sound, Shaped, Fields
<1> HIDE DEF r, saved
<1>7. Kin(e, r)
  <2>1. Sound(t)
    BY <1>5 DEF Kin
  <2>2. Kin(t, r)
    BY <1>6, <2>1, AlikeAreKin
  <2> QED BY <1>5, <2>2, KinTransitive
<1>8. /\ CurrentSystem(r) = CurrentSystem(t) /\ CurrentProcess(r) = CurrentProcess(t)
      /\ CurrentThread(r) = CurrentThread(t)
  BY <1>6 DEF CurrentSystem, CurrentProcess, CurrentThread
<1>9. Settled(e) => Seen(r) = Seen(e)
  BY <1>1, <1>5, <1>6, <1>7, <1>8 DEF Seen, Kin
<1>10. QED
  BY <1>1, <1>2, <1>6, <1>7, <1>9 DEF saved

(* With notifications off it is the same debuggee.                         *)
LEMMA QuietIsKin ==
  ASSUME NEW e, Sound(e), NEW on
  PROVE  /\ Kin(e, [e EXCEPT !.quiet = on])
         /\ Seen([e EXCEPT !.quiet = on]) = Seen(e)
         /\ [e EXCEPT !.quiet = on].quiet = on
<1> DEFINE d == [e EXCEPT !.quiet = on]
<1>1. /\ d = [f \in Fields |-> d[f]]
      /\ d.live = e.live /\ d.mode = e.mode /\ d.event = e.event /\ d.epoch = e.epoch
      /\ d.system = e.system /\ d.process = e.process /\ d.thread = e.thread
      /\ d.scope = e.scope /\ d.quiet = on
  BY DEF Sound, Shaped, Fields
<1> HIDE DEF d
<1>2. Kin(e, d)
  BY <1>1, AlikeAreKin
<1>3. /\ CurrentSystem(d) = CurrentSystem(e) /\ CurrentProcess(d) = CurrentProcess(e)
      /\ CurrentThread(d) = CurrentThread(e)
  BY <1>1 DEF CurrentSystem, CurrentProcess, CurrentThread
<1>4. Seen(d) = Seen(e)
  BY <1>1, <1>3 DEF Seen
<1>5. QED
  BY <1>1, <1>2, <1>4 DEF d

(* Another scope is the same debuggee too.                                 *)
LEMMA ScopeIsKin ==
  ASSUME NEW e, Sound(e), NEW i
  PROVE  Kin(e, [e EXCEPT !.scope = i])
<1> DEFINE d == [e EXCEPT !.scope = i]
<1>1. /\ d = [f \in Fields |-> d[f]]
      /\ d.live = e.live /\ d.mode = e.mode /\ d.event = e.event /\ d.epoch = e.epoch
      /\ d.system = e.system /\ d.process = e.process /\ d.thread = e.thread
  BY DEF Sound, Shaped, Fields
<1> HIDE DEF d
<1>2. Kin(e, d)
  BY <1>1, AlikeAreKin
<1>3. QED
  BY <1>2 DEF d

-----------------------------------------------------------------------------
(* What changes nothing leaves no trace.                                   *)
LEMMA PureIsSteady ==
  ASSUME NEW e, NEW a, Pure(e, a)
  PROVE  Steady(e, a)
BY DEF Pure, Steady, Traceless

LEMMA SameIsPure ==
  ASSUME NEW e, Sound(e), NEW a, a.e = e
  PROVE  Pure(e, a)
BY KinReflexive DEF Pure

(* One after another.                                                      *)
LEMMA PureAfterPure ==
  ASSUME NEW e, NEW a, NEW b, Pure(e, a), Pure(a.e, b)
  PROVE  Pure(e, b)
BY KinTransitive DEF Pure

(* The ids of what is current.                                             *)
LEMMA CurrentIdsArePure ==
  ASSUME NEW e, Sound(e)
  PROVE  /\ Pure(e, GetCurrentSystemId(e))
         /\ Pure(e, GetCurrentProcessId(e))
         /\ Pure(e, GetCurrentThreadId(e))
         /\ Settled(e) => /\ GetCurrentSystemId(e) = Gives(e, CurrentSystem(e))
                          /\ GetCurrentProcessId(e) = Gives(e, CurrentProcess(e))
                          /\ GetCurrentThreadId(e) = Gives(e, CurrentThread(e))
<1>1. Settled(e) => CurrentSystem(e) # None /\ CurrentProcess(e) # None /\ CurrentThread(e) # None
  BY CurrentIs, IdsAre DEF Settled
<1>2. /\ GetCurrentProcessId(e).e = e /\ GetCurrentThreadId(e).e = e
      /\ Settled(e) => /\ GetCurrentSystemId(e) = Gives(e, CurrentSystem(e))
                       /\ GetCurrentProcessId(e) = Gives(e, CurrentProcess(e))
                       /\ GetCurrentThreadId(e) = Gives(e, CurrentThread(e))
  BY <1>1 DEF GetCurrentSystemId, GetCurrentProcessId, GetCurrentThreadId, Answered, Gives, Throws
<1>3. GetCurrentSystemId(e).e = e \/ \E s : GetCurrentSystemId(e).e = SelectSystem(e, s)
  BY DEF GetCurrentSystemId, Then, SetCurrentSystemById, Gives, Throws
<1>4. Kin(e, GetCurrentSystemId(e).e)
  BY <1>3, KinReflexive, SelectSystemKeeps
<1>5. Settled(e) => GetCurrentSystemId(e).e = e
  BY <1>2 DEF Gives
<1>6. QED
  BY <1>2, <1>4, <1>5, SameIsPure DEF Pure

-----------------------------------------------------------------------------
(* To find an object changes nothing, unless no system is current: then    *)
(* the first becomes it.                                                   *)
Asks(e, a) == a.e = e \/ a.e = GetCurrentSystemId(e).e

LEMMA AskingIsPure ==
  ASSUME NEW e, Sound(e), NEW a, Asks(e, a)
  PROVE  Pure(e, a)
BY CurrentIdsArePure, SameIsPure DEF Asks, Pure

(* The engine answers from what is current, and stays as it is.            *)
LEMMA FoundIsSame ==
  ASSUME NEW e
  PROVE  /\ GetCurrentProcessId(e).e = e /\ GetCurrentThreadId(e).e = e
         /\ \A id, list : Check(e, id, list).e = e /\ ByIndex(e, id, list).e = e
         /\ \A id : GetProcessIdBySystemId(e, id).e = e /\ GetThreadIdBySystemId(e, id).e = e
         /\ \A kind, id : Fact(e, kind, id).e = e
BY DEF GetCurrentProcessId, GetCurrentThreadId, Answered, Check, ByIndex, Fact, Gives, Throws,
       GetProcessIdBySystemId, GetThreadIdBySystemId, BySystemId

(* Objects are made for an id, or for what is current.                     *)
LEMMA ObjectsAsk ==
  ASSUME NEW e
  PROVE  /\ \A p : Asks(e, ProcessById(e, p))
         /\ \A t : Asks(e, ThreadById(e, t))
         /\ Asks(e, CurrentProcessObject(e)) /\ Asks(e, CurrentThreadObject(e))
<1>1. Asks(e, CurrentProcessObject(e))
  BY FoundIsSame DEF Asks, CurrentProcessObject, Then, Gives
<1>2. Asks(e, CurrentThreadObject(e))
  BY FoundIsSame DEF Asks, CurrentThreadObject, Then, Gives
<1>3. ASSUME NEW p PROVE Asks(e, ProcessById(e, p))
  <2>1. CASE p = Unspecified
    BY <1>1, <2>1 DEF ProcessById
  <2>2. CASE p # Unspecified
    <3> DEFINE checked == Check(e, p, ProcessList(e))
    <3>1. checked.e = e
      BY FoundIsSame
    <3>2. ProcessById(e, p).e \in {checked.e, GetCurrentSystemId(checked.e).e}
      BY <2>2 DEF ProcessById, Then, Gives
    <3> HIDE DEF checked
    <3> QED BY <3>1, <3>2 DEF Asks
  <2> QED BY <2>1, <2>2
<1>4. ASSUME NEW t PROVE Asks(e, ThreadById(e, t))
  BY <1>2, FoundIsSame DEF Asks, ThreadById, Then, Gives
<1>5. QED
  BY <1>1, <1>2, <1>3, <1>4

LEMMA ObjectsFoundAsk ==
  ASSUME NEW e
  PROVE  /\ \A i : Asks(e, ProcessByIndex(e, i)) /\ Asks(e, ThreadByIndex(e, i))
         /\ \A id : Asks(e, ProcessBySystemId(e, id)) /\ Asks(e, ThreadBySystemId(e, id))
<1>1. \A i : Asks(e, ProcessByIndex(e, i))
  BY ObjectsAsk, FoundIsSame DEF Asks, ProcessByIndex, Then
<1>2. \A i : Asks(e, ThreadByIndex(e, i))
  BY ObjectsAsk, FoundIsSame DEF Asks, ThreadByIndex, Then
<1>3. \A id : Asks(e, ProcessBySystemId(e, id))
  BY ObjectsAsk, FoundIsSame DEF Asks, ProcessBySystemId, Then
<1>4. \A id : Asks(e, ThreadBySystemId(e, id))
  BY ObjectsAsk, FoundIsSame DEF Asks, ThreadBySystemId, Then
<1>5. QED
  BY <1>1, <1>2, <1>3, <1>4

(* To ask whether an object is current is to ask for the system, process   *)
(* and thread that are.                                                    *)
LEMMA IsCurrentAsks ==
  ASSUME NEW e, NEW o
  PROVE  IsCurrent(e, o).e = GetCurrentSystemId(e).e
<1> DEFINE now == GetCurrentSystemId(e).e
<1>1. GetCurrentProcessId(now).e = now /\ GetCurrentThreadId(now).e = now
  BY FoundIsSame
<1>2. QED
  BY <1>1 DEF IsCurrent, Same, Then, Yes, Gives

(* To make a system, a process or a thread current by its id.              *)
LEMMA ChoosersKeep ==
  ASSUME NEW e, Sound(e), NEW id
  PROVE  /\ Kin(e, SetCurrentSystemById(e, id).e)
         /\ Kin(e, SetCurrentProcessById(e, id).e)
         /\ Kin(e, SetCurrentThreadById(e, id).e)
BY KinReflexive, SelectSystemKeeps, SelectProcessKeeps, SelectThreadKeeps
   DEF SetCurrentSystemById, SetCurrentProcessById, SetCurrentThreadById, Gives, Throws

(* To make an object's target current, here or on the way there and back.  *)
LEMMA SwitchContextKeeps ==
  ASSUME NEW e, Sound(e), NEW o, o.kind \in {"system", "process", "thread"}
  PROVE  Kin(e, SwitchContext(e, o).e)
<1>1. \A d, id : Sound(d) => /\ Kin(d, SetCurrentSystemById(d, id).e)
                             /\ Kin(d, SetCurrentProcessById(d, id).e)
                             /\ Kin(d, SetCurrentThreadById(d, id).e)
  BY ChoosersKeep
<1>2. CASE o.kind = "system"
  BY <1>1, <1>2 DEF SwitchContext
<1>3. CASE o.kind = "thread"
  <2>1. SwitchContext(e, o).e \in {e, SetCurrentThreadById(e, o.thread).e}
    BY <1>3, FoundIsSame DEF SwitchContext, Then, Gives
  <2> QED BY <1>1, <2>1, KinReflexive
<1>4. CASE o.kind = "process"
  <2> DEFINE now == GetCurrentSystemId(e).e
             chosen == IF GetCurrentSystemId(e).value # o.system
                       THEN SetCurrentSystemById(now, o.system) ELSE Gives(now, None)
             there == chosen.e
  <2>1. Kin(e, now)
    BY CurrentIdsArePure DEF Pure
  <2>2. Kin(e, there)
    <3> HIDE DEF now
    <3>1. Sound(now)
      BY <2>1 DEF Kin
    <3>2. Kin(now, there)
      BY <3>1, <1>1, KinReflexive DEF Gives
    <3> HIDE DEF there
    <3> QED BY <2>1, <3>2, KinTransitive
  <2>3. SwitchContext(e, o).e \in {now, there, SetCurrentProcessById(there, o.process).e}
    <3>1. SwitchContext(e, o) =
            IF ~GetCurrentSystemId(e).ok THEN GetCurrentSystemId(e)
            ELSE IF ~chosen.ok THEN chosen
            ELSE IF IsKernelDebugging(there) THEN Gives(there, None)
            ELSE IF ~GetCurrentProcessId(there).ok THEN GetCurrentProcessId(there)
            ELSE IF GetCurrentProcessId(there).value # o.process
                 THEN SetCurrentProcessById(GetCurrentProcessId(there).e, o.process)
                 ELSE Gives(GetCurrentProcessId(there).e, None)
      BY <1>4 DEF SwitchContext, SwitchToProcess, Then
    <3>2. GetCurrentProcessId(there).e = there
      BY FoundIsSame
    <3> HIDE DEF chosen
    <3> QED BY <3>1, <3>2 DEF Gives
  <2> HIDE DEF now, there
  <2>4. Kin(there, SetCurrentProcessById(there, o.process).e)
    BY <1>1, <2>2 DEF Kin
  <2>5. Kin(e, SetCurrentProcessById(there, o.process).e)
    BY <2>2, <2>4, KinTransitive
  <2> QED BY <2>1, <2>2, <2>3, <2>5
<1>5. QED
  BY <1>2, <1>3, <1>4

-----------------------------------------------------------------------------
(* The objects there are, and what they can be asked.                      *)
LEMMA KindsAre ==
  ASSUME NEW o \in Objects
  PROVE  /\ o.kind \in {"system", "process", "thread"}
         /\ o.kind # "system" => o.process \in Processes /\ o.system = SystemOf[o.process]
BY IdsAre DEF Objects, SystemObject, ProcessObject, ThreadObject

(* The names of the questions.                                             *)
LEMMA QuestionsAre ==
  ASSUME NEW o \in Objects, NEW q \in Questions(o)
  PROVE  /\ o.kind = "system" =>
              q[1] \in {"description", "dump", "64bit", "kernel", "processes", "byIndex", "byId", "bySystemId", "current"}
         /\ o.kind = "process" =>
              q[1] \in {"executable", "peb", "modules", "breakpoints", "heap", "systemId", "kernel", "managed", "threads",
                        "byIndex", "byId", "bySystemId", "current"}
         /\ o.kind = "thread" => q[1] \in {"teb", "ip", "sp", "fp", "systemId", "kernel", "process"}
<1>1. \A ids, others : \A x \in Lists(ids, others) : x[1] \in {"byIndex", "byId", "bySystemId", "current"}
  BY DEF Lists
<1>2. CASE o.kind = "system"
  BY <1>1, <1>2 DEF Questions
<1>3. CASE o.kind = "process"
  BY <1>1, <1>3 DEF Questions
<1>4. CASE o.kind = "thread"
  BY <1>4 DEF Questions
<1>5. QED
  BY <1>2, <1>3, <1>4, KindsAre

(* What is asked of the current target moves nothing.                      *)
LEMMA AskedIsPure ==
  ASSUME NEW e, Sound(e), NEW o \in Objects, NEW q \in Questions(o), ~(o.kind = "thread" /\ q[1] = "process")
  PROVE  Pure(e, Asked(e, o, q))
<1>1. CASE o.kind = "system"
  <2>1. Asked(e, o, q) = SystemAnswer(e, q)
    BY <1>1 DEF Asked
  <2>2. Asks(e, SystemAnswer(e, q))
    BY <1>1, QuestionsAre, FoundIsSame, ObjectsAsk, ObjectsFoundAsk DEF SystemAnswer, Asks, Gives
  <2> QED BY <2>1, <2>2, AskingIsPure
<1>2. CASE o.kind = "process"
  <2>1. Asked(e, o, q) = ProcessAnswer(e, o, q)
    BY <1>2 DEF Asked
  <2>2. Asks(e, ManagedHere(e, o))
    BY IsCurrentAsks DEF ManagedHere, Asks, Then, Gives
  <2>3. Asks(e, ProcessAnswer(e, o, q))
    <3>1. CASE q[1] = "systemId"
      BY <3>1, FoundIsSame DEF ProcessAnswer, Asks, Then, Gives, Throws, Answered
    <3>2. CASE q[1] = "managed"
      BY <3>2, <2>2 DEF ProcessAnswer
    <3>3. CASE q[1] \in {"executable", "peb", "modules", "breakpoints", "heap", "kernel", "threads"}
      <4>1. ProcessAnswer(e, o, q) \in {Fact(e, q[1], CurrentProcess(e)), Gives(e, IsKernelDebugging(e)),
                                        Gives(e, Len(ThreadList(e)))}
        BY <3>3 DEF ProcessAnswer
      <4> QED BY <4>1, FoundIsSame DEF Asks, Gives
    <3>4. CASE q[1] \in {"byIndex", "byId", "bySystemId", "current"}
      BY <3>4, ObjectsAsk, ObjectsFoundAsk DEF ProcessAnswer
    <3> QED BY <1>2, <3>1, <3>2, <3>3, <3>4, QuestionsAre
  <2> QED BY <2>1, <2>3, AskingIsPure
<1>3. CASE o.kind = "thread"
  <2>1. Asked(e, o, q) = ThreadAnswer(e, q)
    BY <1>3 DEF Asked
  <2>2. ThreadAnswer(e, q).e = e
    BY <1>3, QuestionsAre, FoundIsSame DEF ThreadAnswer, Then, Gives, Throws, Answered
  <2> QED BY <2>1, <2>2, SameIsPure
<1>4. QED
  BY <1>1, <1>2, <1>3, KindsAre

(* There and back, whatever was done there.                                *)
LEMMA ThereAndBack ==
  ASSUME NEW e, Sound(e), NEW now, Kin(e, now), Settled(e) => now = e,
         NEW d, Kin([now EXCEPT !.quiet = TRUE], d),
         NEW a, a.e = Restored(d, Saved(now))
  PROVE  Steady(e, a)
<1>1. Sound(now)
  BY DEF Kin
<1>2. Kin(now, d)
  BY <1>1, QuietIsKin, KinTransitive
<1>3. /\ Kin(now, a.e) /\ a.e.quiet = now.quiet
      /\ Settled(now) => Seen(a.e) = Seen(now)
  BY <1>1, <1>2, RestoredIs
<1>4. Kin(e, a.e)
  BY <1>3, KinTransitive
<1>5. Settled(e) => Seen(a.e) = Seen(e) /\ a.e.quiet = e.quiet
  BY <1>3
<1>6. QED
  BY <1>4, <1>5 DEF Steady, Traceless

(* An object asks at once if its target is current, else there and back:   *)
(* its answers leave no trace.                                             *)
LEMMA AnswersAreSteady ==
  ASSUME NEW e, Sound(e), NEW o \in Objects, NEW q \in Questions(o)
  PROVE  Steady(e, AnswerOf(e, o, q))
<1>1. CASE o.kind = "thread" /\ q[1] = "process"
  BY <1>1, ObjectsAsk, AskingIsPure, PureIsSteady DEF AnswerOf
<1>2. CASE ~(o.kind = "thread" /\ q[1] = "process")
  <2> DEFINE is == IsCurrent(e, o)
             now == is.e
             quiet == [now EXCEPT !.quiet = TRUE]
             there == SwitchContext(quiet, o)
             asked == Asked(there.e, o, q)
             a == AnswerOf(e, o, q)
  <2>1. /\ ~is.ok => a = is
        /\ is.ok /\ is.value => a = Asked(now, o, q)
        /\ is.ok /\ ~is.value => a.e = Restored(IF there.ok THEN asked.e ELSE there.e, Saved(now))
    BY <1>2 DEF AnswerOf, About, Then, Within
  <2>2. Pure(e, is)
    BY IsCurrentAsks, AskingIsPure DEF Asks
  <2> HIDE DEF is
  <2>3. Kin(e, now) /\ Sound(now) /\ (Settled(e) => now = e)
    BY <2>2 DEF Pure, Kin
  <2>4. is.ok /\ is.value => Steady(e, a)
    <3>1. Pure(now, Asked(now, o, q))
      BY <1>2, <2>3, AskedIsPure
    <3> QED BY <2>1, <2>2, <3>1, PureAfterPure, PureIsSteady
  <2>5. Kin(quiet, there.e) /\ Sound(quiet)
    <3>1. Sound(quiet)
      BY <2>3, QuietIsKin DEF Kin
    <3> HIDE DEF quiet
    <3> QED BY <3>1, SwitchContextKeeps, KindsAre
  <2> HIDE DEF there
  <2>6. Kin(quiet, asked.e)
    <3>1. Pure(there.e, asked)
      BY <1>2, <2>5, AskedIsPure DEF Kin
    <3> HIDE DEF asked, quiet
    <3> QED BY <2>5, <3>1, KinTransitive DEF Pure
  <2>7. is.ok /\ ~is.value => Steady(e, a)
    <3> DEFINE d == IF there.ok THEN asked.e ELSE there.e
    <3>1. Kin(quiet, d)
      BY <2>5, <2>6
    <3> HIDE DEF a, asked, d
    <3> SUFFICES ASSUME a.e = Restored(d, Saved(now))
                 PROVE  Steady(e, a)
      BY <2>1 DEF d
    <3> HIDE DEF now
    <3> QED BY <2>3, <3>1, ThereAndBack
  <2>8. ~is.ok => Steady(e, a)
    BY <2>1, <2>2, PureIsSteady
  <2> QED BY <2>4, <2>7, <2>8
<1>3. QED
  BY <1>1, <1>2

(* A stack is read like that too; notifications are on afterwards.         *)
LEMMA GetStackIsSteady ==
  ASSUME NEW e, Sound(e), NEW inlineFrames
  PROVE  Steady(e, GetStack(e, inlineFrames))
<1>1. GetStack(e, inlineFrames).e \in {e, Quiet(e, FALSE)}
  BY DEF GetStack, Stack, Stacked, Throws, Gives
<1>2. Kin(e, Quiet(e, FALSE)) /\ Seen(Quiet(e, FALSE)) = Seen(e) /\ ~Quiet(e, FALSE).quiet
  BY QuietIsKin DEF Quiet
<1>3. QED
  BY <1>1, <1>2, KinReflexive DEF Steady, Traceless

LEMMA StacksAreSteady ==
  ASSUME NEW e, Sound(e), NEW o \in Objects, NEW inlineFrames
  PROVE  Steady(e, StackOf(e, o, inlineFrames))
<1> DEFINE is == IsCurrent(e, o)
           now == is.e
           quiet == [now EXCEPT !.quiet = TRUE]
           there == SwitchContext(quiet, o)
           asked == GetStack(there.e, inlineFrames)
           a == StackOf(e, o, inlineFrames)
<1>1. /\ ~is.ok => a = is
      /\ is.ok /\ is.value => a = GetStack(now, inlineFrames)
      /\ is.ok /\ ~is.value => a.e = Restored(IF there.ok THEN asked.e ELSE there.e, Saved(now))
  BY DEF StackOf, About, Then, Within
<1>2. Pure(e, is)
  BY IsCurrentAsks, AskingIsPure DEF Asks
<1> HIDE DEF is
<1>3. Kin(e, now) /\ Sound(now) /\ (Settled(e) => now = e)
  BY <1>2 DEF Pure, Kin
<1>4. is.ok /\ is.value => Steady(e, a)
  <2>1. Steady(now, GetStack(now, inlineFrames))
    BY <1>3, GetStackIsSteady
  <2> QED BY <1>1, <1>3, <2>1, KinTransitive DEF Steady
<1>5. Kin(quiet, there.e) /\ Sound(quiet)
  <2>1. Sound(quiet)
    BY <1>3, QuietIsKin DEF Kin
  <2> HIDE DEF quiet
  <2> QED BY <2>1, SwitchContextKeeps, KindsAre
<1> HIDE DEF there
<1>6. Kin(quiet, asked.e)
  <2>1. Steady(there.e, asked)
    BY <1>5, GetStackIsSteady DEF Kin
  <2> HIDE DEF asked, quiet
  <2> QED BY <1>5, <2>1, KinTransitive DEF Steady
<1>7. is.ok /\ ~is.value => Steady(e, a)
  <2> DEFINE d == IF there.ok THEN asked.e ELSE there.e
  <2>1. Kin(quiet, d)
    BY <1>5, <1>6
  <2> HIDE DEF a, asked, d
  <2> SUFFICES ASSUME a.e = Restored(d, Saved(now))
               PROVE  Steady(e, a)
    BY <1>1 DEF d
  <2> HIDE DEF now
  <2> QED BY <1>3, <2>1, ThereAndBack
<1>8. ~is.ok => Steady(e, a)
  BY <1>1, <1>2, PureIsSteady
<1>9. QED
  BY <1>4, <1>7, <1>8

(* A fact that is asked for with an id, likewise.                          *)
LEMMA FactIsSteady ==
  ASSUME NEW e, Sound(e), NEW now, Kin(e, now), Settled(e) => now = e,
         NEW d, Kin([now EXCEPT !.quiet = TRUE], d),
         NEW a, a.e \in {now, Restored(d, Saved(now))}
  PROVE  Steady(e, a)
<1>1. CASE a.e = now
  BY <1>1, PureIsSteady DEF Pure
<1>2. CASE a.e = Restored(d, Saved(now))
  BY <1>2, ThereAndBack
<1>3. QED
  BY <1>1, <1>2

LEMMA FactsAreSteady ==
  ASSUME NEW e, Sound(e), NEW kind, NEW id
  PROVE  /\ Steady(e, GetSystemDesc(e, id))
         /\ Steady(e, GetProcessFact(e, kind, id))
         /\ Steady(e, GetThreadFact(e, kind, id))
<1>1. \A now, there : Kin(e, now) => /\ Kin([now EXCEPT !.quiet = TRUE], SetCurrentSystemById([now EXCEPT !.quiet = TRUE], id).e)
                                     /\ Kin([now EXCEPT !.quiet = TRUE], SetCurrentProcessById([now EXCEPT !.quiet = TRUE], id).e)
                                     /\ Kin([now EXCEPT !.quiet = TRUE], SetCurrentThreadById([now EXCEPT !.quiet = TRUE], id).e)
  <2> TAKE now, there
  <2> HAVE Kin(e, now)
  <2>1. Sound([now EXCEPT !.quiet = TRUE])
    BY QuietIsKin DEF Kin
  <2> QED BY <2>1, ChoosersKeep
<1>2. Steady(e, GetSystemDesc(e, id))
  <2> DEFINE now == GetCurrentSystemId(e).e
             quiet == [now EXCEPT !.quiet = TRUE]
             there == SetCurrentSystemById(quiet, id).e
             chosen == SetCurrentSystemById(quiet, id)
  <2>1. GetSystemDesc(e, id).e \in {now, Restored(there, Saved(now))}
    <3> DEFINE answer == IF chosen.ok THEN Fact(there, "description", CurrentSystem(there)) ELSE chosen
    <3>1. answer.e = there
      BY FoundIsSame
    <3>2. GetSystemDesc(e, id) =
            IF ~GetCurrentSystemId(e).ok THEN GetCurrentSystemId(e)
            ELSE IF id = CurrentSystem(now) THEN Fact(now, "description", id)
            ELSE [e |-> Restored(answer.e, Saved(now)), ok |-> answer.ok, value |-> answer.value]
      BY DEF GetSystemDesc, FactAbout, Within, Then
    <3> HIDE DEF answer, there
    <3> QED BY <3>1, <3>2, FoundIsSame
  <2>2. Kin(e, now) /\ (Settled(e) => now = e)
    BY CurrentIdsArePure DEF Pure
  <2>3. Kin(quiet, there)
    BY <1>1, <2>2
  <2> HIDE DEF now, there
  <2> QED BY <2>1, <2>2, <2>3, FactIsSteady
<1>3. Steady(e, GetProcessFact(e, kind, id))
  <2> DEFINE now == GetCurrentProcessId(e).e
             quiet == [now EXCEPT !.quiet = TRUE]
             there == SetCurrentProcessById(quiet, id).e
  <2>1. GetProcessFact(e, kind, id).e \in {now, Restored(there, Saved(now))}
    BY FoundIsSame DEF GetProcessFact, FactAbout, Within, Then
  <2>2. Kin(e, now) /\ (Settled(e) => now = e)
    BY CurrentIdsArePure DEF Pure
  <2>3. Kin(quiet, there)
    BY <1>1, <2>2
  <2> HIDE DEF now, there
  <2> QED BY <2>1, <2>2, <2>3, FactIsSteady
<1>4. Steady(e, GetThreadFact(e, kind, id))
  <2> DEFINE now == GetCurrentThreadId(e).e
             quiet == [now EXCEPT !.quiet = TRUE]
             there == SetCurrentThreadById(quiet, id).e
  <2>1. GetThreadFact(e, kind, id).e \in {now, Restored(there, Saved(now))}
    BY FoundIsSame DEF GetThreadFact, FactAbout, Within, Then
  <2>2. Kin(e, now) /\ (Settled(e) => now = e)
    BY CurrentIdsArePure DEF Pure
  <2>3. Kin(quiet, there)
    BY <1>1, <2>2
  <2> HIDE DEF now, there
  <2> QED BY <2>1, <2>2, <2>3, FactIsSteady
<1>5. QED
  BY <1>2, <1>3, <1>4

(* All of them.                                                            *)
LEMMA FactsOfAreSteady ==
  ASSUME NEW e, Sound(e), NEW q \in FactQuestions
  PROVE  Steady(e, FactOf(e, q))
<1>1. q[1] \in {"description", "peb", "executable", "pid", "teb", "tid"}
  BY DEF FactQuestions
<1>2. CASE q[1] = "description"
  BY <1>2, FactsAreSteady DEF FactOf
<1>3. CASE q[1] \in {"peb", "executable", "pid"}
  <2>1. FactOf(e, q) = GetProcessFact(e, q[1], q[2])
    BY <1>3 DEF FactOf
  <2> QED BY <2>1, FactsAreSteady
<1>4. CASE q[1] \in {"teb", "tid"}
  <2>1. FactOf(e, q) = GetThreadFact(e, q[1], q[2])
    BY <1>4 DEF FactOf
  <2> QED BY <2>1, FactsAreSteady
<1>5. QED
  BY <1>1, <1>2, <1>3, <1>4

-----------------------------------------------------------------------------
(* An object that is made current is; or nothing changes, but for the      *)
(* system of a process.                                                    *)
LEMMA SetCurrentKeeps ==
  ASSUME NEW e, Sound(e), NEW o \in Objects
  PROVE  Kin(e, SetCurrent(e, o).e)
<1>1. CASE o.kind = "system"
  BY <1>1, SwitchContextKeeps DEF SetCurrent
<1>2. CASE o.kind # "system"
  <2> DEFINE is == IsCurrent(e, o)
  <2>1. SetCurrent(e, o).e \in {is.e, SwitchContext(is.e, o).e}
    BY <1>2 DEF SetCurrent, Then, Gives
  <2>2. Kin(e, is.e)
    BY IsCurrentAsks, AskingIsPure DEF Asks, Pure
  <2> HIDE DEF is
  <2>3. Kin(is.e, SwitchContext(is.e, o).e)
    BY <2>2, SwitchContextKeeps, KindsAre DEF Kin
  <2> QED BY <2>1, <2>2, <2>3, KinTransitive
<1>3. QED
  BY <1>1, <1>2

LEMMA RefusingChangesNothing ==
  ASSUME NEW e, Sound(e), Settled(e), NEW o \in Objects, o.kind = "process" => o.system = e.system
  PROVE  ~SetCurrent(e, o).ok => SetCurrent(e, o).e = e
<1>1. \A id : /\ ~SetCurrentSystemById(e, id).ok => SetCurrentSystemById(e, id).e = e
              /\ ~SetCurrentProcessById(e, id).ok => SetCurrentProcessById(e, id).e = e
              /\ ~SetCurrentThreadById(e, id).ok => SetCurrentThreadById(e, id).e = e
  BY DEF SetCurrentSystemById, SetCurrentProcessById, SetCurrentThreadById, Gives, Throws
<1>2. /\ GetCurrentSystemId(e) = Gives(e, CurrentSystem(e))
      /\ GetCurrentProcessId(e) = Gives(e, CurrentProcess(e))
      /\ GetCurrentThreadId(e) = Gives(e, CurrentThread(e))
  BY CurrentIdsArePure
<1>3. ~SwitchContext(e, o).ok => SwitchContext(e, o).e = e
  <2>1. CASE o.kind = "system"
    BY <1>1, <2>1 DEF SwitchContext
  <2>2. CASE o.kind = "thread"
    BY <1>1, <1>2, <2>2 DEF SwitchContext, Then, Gives
  <2>3. CASE o.kind = "process"
    <3>1. CurrentSystem(e) = o.system
      BY <2>3 DEF CurrentSystem
    <3>2. GetCurrentSystemId(e).ok /\ GetCurrentSystemId(e).e = e /\ GetCurrentSystemId(e).value = o.system
      BY <1>2, <3>1 DEF Gives
    <3>3. Gives(e, None).e = e /\ Gives(e, None).ok
      BY DEF Gives
    <3>4. GetCurrentProcessId(e).e = e /\ GetCurrentProcessId(e).ok
      BY <1>2 DEF Gives
    <3>5. SwitchContext(e, o) =
            IF IsKernelDebugging(e) THEN Gives(e, None)
            ELSE IF GetCurrentProcessId(e).value # o.process THEN SetCurrentProcessById(e, o.process) ELSE Gives(e, None)
      BY <2>3, <3>2, <3>3, <3>4 DEF SwitchContext, SwitchToProcess, Then
    <3> QED BY <1>1, <3>3, <3>5
  <2> QED BY <2>1, <2>2, <2>3, KindsAre
<1>4. IsCurrent(e, o).e = e
  BY <1>2, IsCurrentAsks DEF Gives
<1>5. QED
  BY <1>3, <1>4 DEF SetCurrent, Then, Gives

(* The current frame; it is read without going anywhere.                   *)
LEMMA FrameIsKin ==
  ASSUME NEW e, Sound(e)
  PROVE  LET a == GetCurrentStackFrame(e) IN Kin(e, a.e) /\ (a.ok => Traceless(e, a))
<1> DEFINE a == GetCurrentStackFrame(e)
<1>1. /\ a.e \in {e, Quiet(e, FALSE), Quiet(e, TRUE)}
      /\ a.ok => a.e = Quiet(e, FALSE)
  <2>0. /\ \A d : Throws(d).e = d /\ ~Throws(d).ok
        /\ \A d, v : Gives(d, v).e = d
    BY DEF Throws, Gives
  <2>1. \A cpu : FrameImpl(e, cpu).e = Quiet(e, FALSE)
    BY DEF FrameImpl, Gives
  <2>2. \/ FrameWow64(e) \in {Throws(e), FrameImpl(e, WOW64), Throws(Quiet(e, TRUE))}
        \/ \E v : FrameWow64(e) = Gives(Quiet(e, FALSE), v)
    BY DEF FrameWow64
  <2>3. /\ FrameWow64(e).e \in {e, Quiet(e, FALSE), Quiet(e, TRUE)}
        /\ FrameWow64(e).ok => FrameWow64(e).e = Quiet(e, FALSE)
    BY <2>1, <2>2, <2>0
  <2>4. \/ a \in {Throws(e), FrameWow64(e)}
        \/ \E cpu : a = FrameImpl(e, cpu)
    BY DEF GetCurrentStackFrame
  <2> QED BY <2>0, <2>1, <2>3, <2>4
<1> HIDE DEF a
<1>2. \A on \in BOOLEAN : Kin(e, Quiet(e, on)) /\ Seen(Quiet(e, on)) = Seen(e) /\ Quiet(e, on).quiet = on
  BY QuietIsKin DEF Quiet
<1>3. QED
  BY <1>1, <1>2, KinReflexive DEF Traceless, a

-----------------------------------------------------------------------------
(* What is current is chosen soundly in every state.                       *)

(* Whatever else of a debuggee changes.                                    *)
LEMMA AlikeAreSound ==
  ASSUME NEW e, Sound(e), NEW d, d = [f \in Fields |-> d[f]],
         d.live = e.live, d.system = e.system, d.process = e.process, d.thread = e.thread
  PROVE  Sound(d)
<1>1. Shaped(d)
  BY DEF Sound, Shaped
<1>2. QED
  BY <1>1 DEF Sound, LiveSystems, LiveProcesses

(* Threads that end are current nowhere, nor their process or system if    *)
(* they were its last ones.                                                *)
LEMMA ForgettingKeeps ==
  ASSUME NEW e, Sound(e), NEW gone
  PROVE  Sound(Forget(e, gone))
<1> DEFINE live == e.live \ gone
           processes == {ProcessOf[t] : t \in live}
           systems == {SystemOf[p] : p \in processes}
           d == Forget(e, gone)
<1>1. /\ d = [f \in Fields |-> d[f]]
      /\ d.live = live
      /\ d.system = IF e.system \in systems THEN e.system ELSE None
      /\ d.process = [s \in Systems |-> IF e.process[s] \in processes THEN e.process[s] ELSE None]
      /\ d.thread = [p \in Processes |-> IF e.thread[p] \in live THEN e.thread[p] ELSE None]
  BY DEF Forget, Sound, Shaped, Fields
<1> HIDE DEF d, systems, processes
<1>2. Shaped(d)
  <2>1. Shaped(e)
    BY DEF Sound
  <2> QED BY <1>1, <2>1 DEF Shaped
<1>3. /\ d.system # None => d.system \in LiveSystems(d)
      /\ \A s \in Systems : d.process[s] # None => d.process[s] \in LiveProcesses(d) /\ SystemOf[d.process[s]] = s
  <2>1. d.live = live
    BY <1>1
  <2>2. LiveProcesses(d) = processes
    BY <2>1 DEF LiveProcesses, processes
  <2>3. LiveSystems(d) = systems
    BY <2>2 DEF LiveSystems, systems
  <2> QED BY <1>1, <2>2, <2>3 DEF Sound
<1>4. \A p \in Processes : d.thread[p] # None => d.thread[p] \in d.live /\ ProcessOf[d.thread[p]] = p
  BY <1>1 DEF Sound
<1>5. QED
  BY <1>2, <1>3, <1>4 DEF Sound, d

(* The debuggee begins with the first of everything current.               *)
LEMMA BeginsSound ==
  ASSUME Init
  PROVE  Sound(engine)
<1>1. \A s \in Systems : LET ids == {p \in Processes : SystemOf[p] = s} IN First(ids) \in ids \cup {None}
  <2> TAKE s \in Systems
  <2> DEFINE ids == {p \in Processes : SystemOf[p] = s}
  <2>1. ids \in SUBSET Nat
    BY TargetsAssumption
  <2> HIDE DEF ids
  <2> QED BY <2>1, FirstIsOne DEF ids
<1>2. \A p \in Processes : LET ids == {t \in Threads : ProcessOf[t] = p} IN First(ids) \in ids \cup {None}
  <2> TAKE p \in Processes
  <2> DEFINE ids == {t \in Threads : ProcessOf[t] = p}
  <2>1. ids \in SUBSET Nat
    BY TargetsAssumption
  <2> HIDE DEF ids
  <2> QED BY <2>1, FirstIsOne DEF ids
<1>3. First(Systems) \in Systems \cup {None}
  <2>1. Systems \in SUBSET Nat
    BY TargetsAssumption
  <2> QED BY <2>1, FirstIsOne
<1>4. /\ engine = [f \in Fields |-> engine[f]]
      /\ engine.live = Threads /\ engine.system = First(Systems)
      /\ engine.process = [s \in Systems |-> First({p \in Processes : SystemOf[p] = s})]
      /\ engine.thread = [p \in Processes |-> First({t \in Threads : ProcessOf[t] = p})]
  BY DEF Init, Fields
<1>5. \A s \in Systems : /\ engine.process[s] \in Processes \cup {None}
                         /\ engine.process[s] # None => SystemOf[engine.process[s]] = s
  BY <1>1, <1>4
<1>6. \A p \in Processes : /\ engine.thread[p] \in Threads \cup {None}
                           /\ engine.thread[p] # None => ProcessOf[engine.thread[p]] = p
  BY <1>2, <1>4
<1>7. Shaped(engine)
  BY <1>3, <1>4, <1>5, <1>6 DEF Shaped
<1>8. LiveProcesses(engine) = Processes /\ LiveSystems(engine) = Systems
  <2>3. engine.live = Threads
    BY <1>4
  <2>1. LiveProcesses(engine) = Processes
    BY <2>3, TargetsAssumption DEF LiveProcesses
  <2>2. LiveSystems(engine) = Systems
    BY <2>1, TargetsAssumption DEF LiveSystems
  <2> QED BY <2>1, <2>2
<1>9. QED
  BY <1>3, <1>4, <1>5, <1>6, <1>7, <1>8 DEF Sound

(* The debuggee runs: the thread of the event becomes current.             *)
LEMMA RunningKeeps ==
  ASSUME Sound(engine), NEW ended, NEW t, Run(ended, t)
  PROVE  Sound(engine')
<1> DEFINE d == SelectThread(Forget(engine, ended), t)
<1>1. Sound(d)
  BY ForgettingKeeps, SelectThreadKeeps DEF Kin
<1>2. engine' = [d EXCEPT !.event = t, !.epoch = @ + 1, !.mode = ""]
  BY DEF Run
<1> HIDE DEF d
<1>3. /\ engine' = [f \in Fields |-> engine'[f]]
      /\ engine'.live = d.live /\ engine'.system = d.system
      /\ engine'.process = d.process /\ engine'.thread = d.thread
  BY <1>1, <1>2 DEF Sound, Shaped, Fields
<1>4. QED
  BY <1>1, <1>3, AlikeAreSound

LEMMA ModesKeep ==
  ASSUME Sound(engine), NEW mode, SetCPUMode(mode)
  PROVE  Sound(engine')
<1>1. CASE engine' = engine
  BY <1>1
<1>2. ASSUME NEW given, engine' = [engine EXCEPT !.mode = given]
      PROVE  Sound(engine')
  <2>1. /\ engine' = [f \in Fields |-> engine'[f]]
        /\ engine'.live = engine.live /\ engine'.system = engine.system
        /\ engine'.process = engine.process /\ engine'.thread = engine.thread
    BY <1>2 DEF Sound, Shaped, Fields
  <2> QED BY <2>1, AlikeAreSound
<1>3. QED
  BY <1>1, <1>2 DEF SetCPUMode

(* Every step of the debuggee and of its user.                             *)
LEMMA StepsKeepSound ==
  ASSUME Sound(engine), [Next]_vars
  PROVE  Sound(engine')
<1>1. CASE UNCHANGED engine
  BY <1>1
<1>2. ASSUME NEW ended, NEW t, Run(ended, t)
      PROVE  Sound(engine')
  BY <1>2, RunningKeeps
<1>3. ASSUME NEW p, Leave(p)
      PROVE  Sound(engine')
  BY <1>3, ForgettingKeeps DEF Leave
<1>4. ASSUME NEW o \in Objects, Choose(o)
      PROVE  Sound(engine')
  BY <1>4, SetCurrentKeeps DEF Choose, Becomes, Kin
<1>5. ASSUME NEW o \in Objects, NEW q \in Questions(o), Ask(o, q)
      PROVE  Sound(engine')
  BY <1>5, AnswersAreSteady DEF Ask, Becomes, Steady, Kin
<1>6. ASSUME NEW q \in FactQuestions, AskFact(q)
      PROVE  Sound(engine')
  BY <1>6, FactsOfAreSteady DEF AskFact, Becomes, Steady, Kin
<1>7. ASSUME NEW o \in StackObjects, NEW inlineFrames, KeepStack(o, inlineFrames)
      PROVE  Sound(engine')
  BY <1>7, StacksAreSteady DEF KeepStack, Keep, Steady, Kin, StackObjects
<1>8. ASSUME NEW i, ChooseFrame(i) \/ ChooseFrameByIndex(i) \/ ResetFrame
      PROVE  Sound(engine')
  <2>1. engine' = engine \/ \E n : engine' = [engine EXCEPT !.scope = n]
    BY <1>8 DEF ChooseFrame, ChooseFrameByIndex, ResetFrame, Becomes, SetCurrentStackFrame,
                SetCurrentStackFrameByIndex, ResetCurrentStackFrame, Gives, Throws
  <2> QED BY <2>1, ScopeIsKin DEF Kin
<1>9. ASSUME NEW mode, SetCPUMode(mode)
      PROVE  Sound(engine')
  BY <1>9, ModesKeep
<1>10. CASE ReadFrame
  BY <1>10, FrameIsKin DEF ReadFrame, Becomes, Kin
<1>11. CASE SwitchCPUMode
  BY <1>9, <1>11 DEF SwitchCPUMode
<1>12. QED
  <2>1. \A choices : Among(choices) \subseteq choices
    BY DEF Among
  <2>2. CASE Next
    BY <1>1, <1>2, <1>3, <1>4, <1>5, <1>6, <1>7, <1>8, <1>9, <1>10, <1>11, <2>1, <2>2 DEF Next, Look, Looked
  <2> QED BY <1>1, <2>2 DEF vars

THEOREM AlwaysSound == Spec => []Sound(engine)
<1>1. Init => Sound(engine)
  BY BeginsSound
<1>2. Sound(engine) /\ [Next]_vars => Sound(engine)'
  BY StepsKeepSound
<1>3. QED
  BY <1>1, <1>2, PTL DEF Spec

-----------------------------------------------------------------------------
(* Asking leaves no trace: whichever object is asked whichever question,   *)
(* and wherever it has to go for the answer, what was current before is    *)
(* current afterwards, in the same scope and with notifications as they    *)
(* were; what cannot be made current changes nothing.                      *)
THEOREM AskingLeavesNoTrace == Spec => LeavesNoTrace
<1>1. ASSUME Sound(engine), Settled(engine)
      PROVE  TracelessAll(engine)
  <2>1. ASSUME NEW o \in Objects, NEW q \in Questions(o)
        PROVE  Traceless(engine, AnswerOf(engine, o, q))
    BY <1>1, AnswersAreSteady DEF Steady
  <2>2. ASSUME NEW o \in Objects, ~SetCurrent(engine, o).ok, o.kind = "process" => o.system = engine.system
        PROVE  Traceless(engine, SetCurrent(engine, o))
    BY <1>1, <2>2, RefusingChangesNothing DEF Traceless
  <2>3. ASSUME NEW q \in FactQuestions
        PROVE  Traceless(engine, FactOf(engine, q))
    BY <1>1, FactsOfAreSteady DEF Steady
  <2>4. ASSUME NEW o \in StackObjects, NEW inlineFrames \in BOOLEAN
        PROVE  Traceless(engine, StackOf(engine, o, inlineFrames))
    BY <1>1, StacksAreSteady DEF Steady, StackObjects
  <2>5. LET a == GetCurrentStackFrame(engine) IN a.ok => Traceless(engine, a)
    BY <1>1, FrameIsKin
  <2> QED BY <2>1, <2>2, <2>3, <2>4, <2>5 DEF TracelessAll
<1>2. Spec => []Sound(engine)
  BY AlwaysSound
<1>3. Sound(engine) => (looking' /\ ~looking /\ Settled(engine) => TracelessAll(engine))
  BY <1>1
<1>4. QED
  BY <1>2, <1>3, PTL DEF LeavesNoTrace

-----------------------------------------------------------------------------
(* Lists of ids in ascending order.                                        *)
Ascending(list, ids) ==
  /\ list \in [1..Cardinality(ids) -> ids]
  /\ \A i, j \in 1..Cardinality(ids) : i < j => list[i] < list[j]

(* Every finite set of ids can be listed: else there were one with fewest  *)
(* ids that cannot, but its first id can be put before a list of the rest. *)
LEMMA ListsExist ==
  ASSUME NEW ids \in SUBSET Nat, IsFiniteSet(ids)
  PROVE  \E list : Ascending(list, ids)
<1> DEFINE Unlisted(s) == IsFiniteSet(s) /\ \A list : ~Ascending(list, s)
           sizes == {n \in Nat : \E s \in SUBSET Nat : Unlisted(s) /\ Cardinality(s) = n}
<1>1. SUFFICES ASSUME sizes # {}
               PROVE  FALSE
  <2>1. Cardinality(ids) \in Nat
    BY FS_CardinalityType
  <2>2. sizes = {} => ~Unlisted(ids)
    BY <2>1
  <2> QED BY <2>2
<1>2. PICK n \in sizes : \A m \in sizes : n <= m
  BY <1>1, LeastExists
<1>3. PICK s \in SUBSET Nat : Unlisted(s) /\ Cardinality(s) = n
  BY <1>2
<1>4. n \in Nat /\ IsFiniteSet(s)
  BY <1>2, <1>3
<1>5. CASE s = {}
  <2>1. Cardinality(s) = 0
    BY <1>5, FS_EmptySet
  <2>2. Ascending([i \in 1..0 |-> 0], s)
    BY <2>1 DEF Ascending
  <2> QED BY <1>3, <2>2
<1>6. CASE s # {}
  <2> DEFINE first == First(s)
             rest == s \ {first}
  <2>1. first \in s /\ \A y \in s : first <= y
    BY <1>6, FirstIsOne
  <2>2. IsFiniteSet(rest) /\ Cardinality(rest) = n - 1 /\ rest \in SUBSET Nat
    BY <1>3, <1>4, <2>1, FS_RemoveElement
  <2>3. n - 1 \in Nat
    <3>1. Cardinality(rest) \in Nat
      BY <2>2, FS_CardinalityType
    <3> QED BY <2>2, <3>1
  <2>4. \A y \in rest : first < y
    <3> HIDE DEF first, sizes, Unlisted
    <3>1. \A y \in rest : y \in s /\ y # first /\ first \in Nat /\ y \in Nat /\ first <= y
      BY <2>1
    <3> HIDE DEF rest
    <3> QED BY <3>1
  <2> HIDE DEF first
  <2>5. ~Unlisted(rest)
    <3>1. n - 1 \notin sizes
      BY <1>2, <1>4
    <3> QED BY <2>2, <2>3, <3>1
  <2>6. PICK list : Ascending(list, rest)
    BY <2>2, <2>5
  <2> DEFINE longer == [i \in 1..n |-> IF i = 1 THEN first ELSE list[i - 1]]
  <2>7. list \in [1..(n - 1) -> rest] /\ \A i, j \in 1..(n - 1) : i < j => list[i] < list[j]
    BY <2>2, <2>6 DEF Ascending
  <2> HIDE DEF rest
  <2>8. \A i \in 2..n : i - 1 \in 1..(n - 1)
    BY <1>4
  <2>9. rest \subseteq s
    BY DEF rest
  <2>10. longer \in [1..n -> s]
    <3>1. \A i \in 1..n : i = 1 \/ i \in 2..n
      BY <1>4
    <3>2. \A i \in 1..n : (IF i = 1 THEN first ELSE list[i - 1]) \in s
      BY <3>1, <2>1, <2>7, <2>8, <2>9
    <3> QED BY <3>2
  <2>11. \A i, j \in 1..n : i < j => longer[i] < longer[j]
    <3> TAKE i, j \in 1..n
    <3> HAVE i < j
    <3>1. j \in 2..n /\ longer[j] = list[j - 1]
      BY <1>4
    <3>2. CASE i = 1
      BY <3>1, <3>2, <2>4, <2>7, <2>8
    <3>3. CASE i # 1
      <4>1. i \in 2..n /\ longer[i] = list[i - 1] /\ i - 1 < j - 1
        BY <1>4, <3>1, <3>3
      <4> QED BY <3>1, <4>1, <2>7, <2>8
    <3> QED BY <3>2, <3>3
  <2>12. Ascending(longer, s)
    BY <1>3, <2>10, <2>11 DEF Ascending
  <2> QED BY <1>3, <2>12
<1>7. QED
  BY <1>5, <1>6

(* The list of some ids has all of them, and no other.                     *)
LEMMA InOrderLists ==
  ASSUME NEW ids \in SUBSET Nat, IsFiniteSet(ids)
  PROVE  /\ Ascending(InOrder(ids), ids)
         /\ Len(InOrder(ids)) = Cardinality(ids)
         /\ ToSet(InOrder(ids)) = ids
         /\ \A id : Contains(InOrder(ids), id) <=> id \in ids
<1> DEFINE n == Cardinality(ids)
           list == InOrder(ids)
<1>1. n \in Nat
  BY FS_CardinalityType
<1>2. Ascending(list, ids)
  <2>1. PICK some : Ascending(some, ids)
    BY ListsExist
  <2>2. \E l \in [1..n -> ids] : \A i, j \in 1..n : i < j => l[i] < l[j]
    BY <2>1 DEF Ascending
  <2> QED BY <2>2 DEF InOrder, Ascending
<1> HIDE DEF list
<1>3. list \in [1..n -> ids] /\ \A i, j \in 1..n : i < j => list[i] < list[j]
  BY <1>2 DEF Ascending
<1>4. list \in Injection(1..n, ids)
  <2>1. \A i, j \in 1..n : list[i] = list[j] => i = j
    <3> TAKE i, j \in 1..n
    <3>1. list[i] \in Nat /\ list[j] \in Nat
      BY <1>3
    <3>2. i < j \/ j < i \/ i = j
      BY <1>1
    <3> QED BY <1>3, <3>1, <3>2
  <2> QED BY <1>3, <2>1 DEF Injection, IsInjective
<1>5. list \in Surjection(1..n, ids)
  <2>1. IsFiniteSet(1..n) /\ Cardinality(1..n) = n
    BY <1>1, FS_Interval
  <2> HIDE DEF n
  <2> QED BY <1>4, <2>1, FS_Injection DEF n
<1>6. \A x \in ids : \E i \in 1..n : list[i] = x
  BY <1>5 DEF Surjection
<1>7. DOMAIN list = 1..n /\ Len(list) = n
  <2>1. list \in Seq(ids)
    BY <1>1, <1>3
  <2> QED BY <1>1, <1>3, <2>1
<1>8. ToSet(list) = ids
  BY <1>3, <1>6, <1>7 DEF ToSet
<1>9. \A id : Contains(list, id) <=> id \in ids
  BY <1>3, <1>6, <1>7 DEF Contains
<1>10. QED
  BY <1>2, <1>7, <1>8, <1>9 DEF list

(* The i-th of some ids, from zero, is the one that i of them precede.     *)
LEMMA PositionCounts ==
  ASSUME NEW ids \in SUBSET Nat, IsFiniteSet(ids), NEW i \in Nat
  PROVE  LET chosen == {x \in ids : Cardinality({y \in ids : y < x}) = i} IN
         /\ i < Len(InOrder(ids)) => chosen = {InOrder(ids)[i + 1]} /\ InOrder(ids)[i + 1] \in ids
         /\ ~(i < Len(InOrder(ids))) => chosen = {}
<1> DEFINE n == Cardinality(ids)
           list == InOrder(ids)
           chosen == {x \in ids : Cardinality({y \in ids : y < x}) = i}
<1>1. n \in Nat
  BY FS_CardinalityType
<1>2. /\ list \in [1..n -> ids] /\ \A j, k \in 1..n : j < k => list[j] < list[k]
      /\ Len(list) = n /\ ToSet(list) = ids
  BY InOrderLists DEF Ascending
<1> HIDE DEF list, n
<1>3. \A x \in ids : \E k \in 1..n : list[k] = x
  BY <1>2 DEF ToSet
<1>4. \A j, k \in 1..n : list[j] < list[k] <=> j < k
  <2> TAKE j, k \in 1..n
  <2>1. list[j] \in Nat /\ list[k] \in Nat
    BY <1>2
  <2>2. j < k \/ j = k \/ k < j
    BY <1>1
  <2> QED BY <1>2, <2>1, <2>2
<1>5. ASSUME NEW k \in 1..n
      PROVE  Cardinality({y \in ids : y < list[k]}) = k - 1
  <2> DEFINE below == {y \in ids : y < list[k]}
             f == [j \in 1..(k - 1) |-> list[j]]
  <2>1. \A j \in 1..(k - 1) : j \in 1..n /\ j < k
    BY <1>1
  <2>2. f \in [1..(k - 1) -> below]
    BY <1>2, <1>4, <2>1
  <2>3. \A a, b \in 1..(k - 1) : f[a] = f[b] => a = b
    <3> TAKE a, b \in 1..(k - 1)
    <3>1. a \in 1..n /\ b \in 1..n /\ f[a] = list[a] /\ f[b] = list[b]
      BY <2>1
    <3> HIDE DEF f, below
    <3>2. a < b \/ a = b \/ b < a
      OBVIOUS
    <3>3. list[a] \in Nat /\ list[b] \in Nat
      BY <1>2, <3>1
    <3>4. ~(list[a] < list[a]) /\ ~(list[b] < list[b])
      BY <3>3
    <3> QED BY <1>4, <3>1, <3>2, <3>4
  <2>4. \A y \in below : \E j \in 1..(k - 1) : f[j] = y
    <3> TAKE y \in below
    <3>1. PICK j \in 1..n : list[j] = y
      BY <1>3
    <3>2. j < k
      BY <1>4, <3>1
    <3>3. j \in 1..(k - 1)
      BY <1>1, <3>2
    <3> QED BY <3>1, <3>3
  <2> HIDE DEF f, below
  <2>5. f \in Bijection(1..(k - 1), below)
    BY <2>2, <2>3, <2>4, Fun_IsBij
  <2>6. IsFiniteSet(1..(k - 1)) /\ Cardinality(1..(k - 1)) = k - 1
    BY FS_Interval
  <2>7. Cardinality(below) = Cardinality(1..(k - 1))
    BY <2>5, <2>6, FS_Bijection DEF ExistsBijection
  <2> QED BY <2>6, <2>7 DEF below
<1>6. \A x \in ids : \A k \in 1..n : list[k] = x => (Cardinality({y \in ids : y < x}) = i <=> k = i + 1)
  <2> TAKE x \in ids
  <2> TAKE k \in 1..n
  <2> HAVE list[k] = x
  <2>1. Cardinality({y \in ids : y < x}) = k - 1
    BY <1>5
  <2>2. k - 1 = i <=> k = i + 1
    OBVIOUS
  <2> QED BY <2>1, <2>2
<1>7. \A x \in ids : x \in chosen <=> i + 1 \in 1..n /\ list[i + 1] = x
  <2> TAKE x \in ids
  <2>1. PICK k \in 1..n : list[k] = x
    BY <1>3
  <2>2. x \in chosen <=> k = i + 1
    BY <1>6, <2>1
  <2>3. i + 1 \in 1..n /\ list[i + 1] = x => k = i + 1
    BY <1>5, <2>1, <1>6
  <2> QED BY <2>1, <2>2, <2>3
<1>8. i < n <=> i + 1 \in 1..n
  BY <1>1
<1>9. i + 1 \in 1..n => list[i + 1] \in ids
  BY <1>2
<1>10. chosen \subseteq ids
  OBVIOUS
<1>11. i < n => chosen = {list[i + 1]} /\ list[i + 1] \in ids
  <2> HIDE DEF chosen
  <2> QED BY <1>7, <1>8, <1>9, <1>10
<1>12. ~(i < n) => chosen = {}
  <2> HIDE DEF chosen
  <2> QED BY <1>7, <1>8, <1>10
<1>13. QED
  BY <1>2, <1>11, <1>12 DEF list

(* The first of one id.                                                    *)
LEMMA FirstOfOne ==
  ASSUME NEW x \in Nat
  PROVE  First({x}) = x
<1>1. First({x}) \in {x}
  BY FirstIsOne
<1>2. QED
  BY <1>1

(* The targets of a debuggee can be listed.                                *)
LEMMA TargetsAreFinite ==
  ASSUME NEW e, Sound(e)
  PROVE  /\ LiveProcesses(e) \in SUBSET Processes /\ LiveSystems(e) \in SUBSET Systems
         /\ \A p : ThreadsIn(e, p) \in SUBSET Nat /\ IsFiniteSet(ThreadsIn(e, p))
         /\ \A s : ProcessesIn(e, s) \in SUBSET Nat /\ IsFiniteSet(ProcessesIn(e, s))
         /\ Processes \subseteq Nat /\ Systems \subseteq Nat
<1>1. e.live \subseteq Threads /\ IsFiniteSet(e.live)
  BY FS_Subset, TargetsAssumption DEF Sound, Shaped
<1>2. LiveProcesses(e) \subseteq Processes
  BY <1>1, IdsAre DEF LiveProcesses
<1>3. LiveSystems(e) \subseteq Systems
  BY <1>2, IdsAre DEF LiveSystems
<1>4. IsFiniteSet(LiveProcesses(e))
  <2> DEFINE f == [t \in e.live |-> ProcessOf[t]]
  <2>1. f \in Surjection(e.live, LiveProcesses(e))
    <3>1. f \in [e.live -> LiveProcesses(e)] /\ \A p \in LiveProcesses(e) : \E t \in e.live : f[t] = p
      BY DEF LiveProcesses
    <3> QED BY <3>1, Fun_IsSurj
  <2> QED BY <1>1, <2>1, FS_Surjection
<1>5. Processes \subseteq Nat /\ Systems \subseteq Nat /\ Threads \subseteq Nat
  BY TargetsAssumption
<1>6. \A p : ThreadsIn(e, p) \subseteq e.live
  BY DEF ThreadsIn
<1>7. \A s : ProcessesIn(e, s) \subseteq LiveProcesses(e)
  BY DEF ProcessesIn
<1>8. QED
  BY <1>1, <1>2, <1>3, <1>4, <1>5, <1>6, <1>7, FS_Subset

-----------------------------------------------------------------------------
(* What a question is answered where its object is current.                *)

(* Those that the current system has, as objects.                          *)
LEMMA ProcessesAnswered ==
  ASSUME NEW e, Sound(e), CurrentSystem(e) # None
  PROVE  LET s == CurrentSystem(e)
             ids == ProcessesIn(e, s)
             One(p) == Gives(e, ProcessObject(s, p)) IN
         /\ CurrentProcess(e) # None => CurrentProcess(e) \in ids
         /\ ProcessById(e, Unspecified) =
              IF CurrentProcess(e) = None THEN Throws(e) ELSE One(CurrentProcess(e))
         /\ ProcessById(e, Unspecified) = CurrentProcessObject(e)
         /\ \A p : p # Unspecified => ProcessById(e, p) = IF p \in ids THEN One(p) ELSE Throws(e)
         /\ \A i \in Nat : LET chosen == {x \in ids : Cardinality({y \in ids : y < x}) = i} IN
              ProcessByIndex(e, i) = IF chosen = {} THEN Throws(e) ELSE One(First(chosen))
         /\ \A id : id # Unspecified => LET chosen == {x \in ids : Pid[x] = id} IN
              ProcessBySystemId(e, id) = IF chosen = {} THEN Throws(e) ELSE One(First(chosen))
         /\ ProcessBySystemId(e, Unspecified) =
              IF CurrentProcess(e) = None THEN Throws(e) ELSE One(CurrentProcess(e))
<1> DEFINE s == CurrentSystem(e)
           ids == ProcessesIn(e, s)
           One(p) == Gives(e, ProcessObject(s, p))
<1>1. /\ ids \in SUBSET Nat /\ IsFiniteSet(ids) /\ ids \subseteq Processes
      /\ ProcessList(e) = InOrder(ids)
      /\ \A p \in ids : p # None /\ p # Unspecified
  <2>1. ids \subseteq Processes
    BY TargetsAreFinite DEF ProcessesIn
  <2>2. \A p \in Processes : p # None /\ p # Unspecified
    BY TargetsAssumption DEF None, Unspecified
  <2> QED BY <2>1, <2>2, TargetsAreFinite DEF ProcessList
<1>2. GetCurrentSystemId(e) = Gives(e, s)
  BY DEF GetCurrentSystemId
<1>3. CurrentProcess(e) # None => CurrentProcess(e) \in ids
  BY CurrentIs DEF ProcessesIn
<1>4. /\ \A v : Gives(e, v).e = e /\ Gives(e, v).ok /\ Gives(e, v).value = v
      /\ ~Throws(e).ok
  BY DEF Gives, Throws
<1>5. CurrentProcessObject(e) = IF CurrentProcess(e) = None THEN Throws(e) ELSE One(CurrentProcess(e))
  <2>1. CASE CurrentProcess(e) = None
    BY <1>4, <2>1 DEF CurrentProcessObject, GetCurrentProcessId, Answered, Then
  <2>2. CASE CurrentProcess(e) # None
    <3>1. GetCurrentProcessId(e) = Gives(e, CurrentProcess(e))
      BY <2>2 DEF GetCurrentProcessId, Answered
    <3> QED BY <1>2, <1>4, <2>2, <3>1 DEF CurrentProcessObject, Then
  <2> QED BY <2>1, <2>2
<1> HIDE DEF s, ids
<1>6. \A p : p # Unspecified => ProcessById(e, p) = IF p \in ids THEN One(p) ELSE Throws(e)
  <2> TAKE p
  <2> HAVE p # Unspecified
  <2>1. Contains(ProcessList(e), p) <=> p \in ids
    BY <1>1, InOrderLists
  <2>2. CASE p \in ids
    <3>1. Check(e, p, ProcessList(e)) = Gives(e, p)
      BY <2>1, <2>2 DEF Check
    <3> QED BY <1>2, <1>4, <2>2, <3>1 DEF ProcessById, Then
  <2>3. CASE p \notin ids
    BY <1>4, <2>1, <2>3 DEF ProcessById, Check, Then
  <2> QED BY <2>2, <2>3
<1>7. \A i \in Nat : LET chosen == {x \in ids : Cardinality({y \in ids : y < x}) = i} IN
        ProcessByIndex(e, i) = IF chosen = {} THEN Throws(e) ELSE One(First(chosen))
  <2> TAKE i \in Nat
  <2> DEFINE chosen == {x \in ids : Cardinality({y \in ids : y < x}) = i}
             list == InOrder(ids)
  <2>1. /\ i < Len(list) => chosen = {list[i + 1]} /\ list[i + 1] \in ids
        /\ ~(i < Len(list)) => chosen = {}
    BY <1>1, PositionCounts
  <2>2. ByIndex(e, i, ProcessList(e)) = IF i < Len(list) THEN Gives(e, list[i + 1]) ELSE Throws(e)
    BY <1>1 DEF ByIndex
  <2> SUFFICES ProcessByIndex(e, i) = IF chosen = {} THEN Throws(e) ELSE One(First(chosen))
    OBVIOUS
  <2> HIDE DEF chosen, list
  <2>3. CASE i < Len(list)
    <3>1. ProcessByIndex(e, i) = ProcessById(e, list[i + 1])
      BY <1>4, <2>2, <2>3 DEF ProcessByIndex, Then
    <3>2. First(chosen) = list[i + 1]
      BY <1>1, <2>1, <2>3, FirstOfOne
    <3> QED BY <1>1, <1>6, <2>1, <2>3, <3>1, <3>2
  <2>4. CASE ~(i < Len(list))
    BY <1>4, <2>1, <2>2, <2>4 DEF ProcessByIndex, Then
  <2> QED BY <2>3, <2>4
<1>8. \A id : id # Unspecified => LET chosen == {x \in ids : Pid[x] = id} IN
        ProcessBySystemId(e, id) = IF chosen = {} THEN Throws(e) ELSE One(First(chosen))
  <2> TAKE id
  <2> HAVE id # Unspecified
  <2> DEFINE chosen == {x \in ids : Pid[x] = id}
  <2>1. GetProcessIdBySystemId(e, id) = Answered(e, First(chosen))
    <3>1. ToSet(ProcessList(e)) = ids
      BY <1>1, InOrderLists
    <3> QED BY <3>1 DEF GetProcessIdBySystemId, BySystemId
  <2>2. /\ chosen = {} => First(chosen) = None
        /\ chosen # {} => First(chosen) \in ids
    <3>1. chosen \in SUBSET Nat /\ chosen \subseteq ids
      BY <1>1
    <3> HIDE DEF chosen
    <3> QED BY <3>1, FirstIsOne
  <2> SUFFICES ProcessBySystemId(e, id) = IF chosen = {} THEN Throws(e) ELSE One(First(chosen))
    OBVIOUS
  <2> HIDE DEF chosen
  <2>3. CASE chosen = {}
    BY <1>4, <2>1, <2>2, <2>3 DEF ProcessBySystemId, Answered, Then
  <2>4. CASE chosen # {}
    <3>1. GetProcessIdBySystemId(e, id) = Gives(e, First(chosen))
      BY <1>1, <2>1, <2>2, <2>4 DEF Answered
    <3>2. ProcessBySystemId(e, id) = ProcessById(e, First(chosen))
      BY <1>4, <3>1 DEF ProcessBySystemId, Then
    <3> QED BY <1>1, <1>6, <2>2, <2>4, <3>2
  <2> QED BY <2>3, <2>4
<1>9. ProcessBySystemId(e, Unspecified) =
        IF CurrentProcess(e) = None THEN Throws(e) ELSE One(CurrentProcess(e))
  <2>1. GetProcessIdBySystemId(e, Unspecified) = Answered(e, CurrentProcess(e))
    BY DEF GetProcessIdBySystemId, BySystemId
  <2>2. CASE CurrentProcess(e) = None
    BY <1>4, <2>1, <2>2 DEF ProcessBySystemId, Answered, Then
  <2>3. CASE CurrentProcess(e) # None
    <3>1. ProcessBySystemId(e, Unspecified) = ProcessById(e, CurrentProcess(e))
      BY <1>4, <2>1, <2>3 DEF ProcessBySystemId, Answered, Then
    <3> QED BY <1>1, <1>3, <1>6, <2>3, <3>1 DEF ids, s
  <2> QED BY <2>2, <2>3
<1>10. ProcessById(e, Unspecified) = CurrentProcessObject(e)
  BY DEF ProcessById
<1>11. QED
  BY <1>3, <1>5, <1>6, <1>7, <1>8, <1>9, <1>10 DEF s, ids

(* Those that the current process has.                                     *)
LEMMA ThreadsAnswered ==
  ASSUME NEW e, Sound(e), CurrentProcess(e) # None
  PROVE  LET p == CurrentProcess(e)
             ids == ThreadsIn(e, p)
             One(t) == Gives(e, ThreadObject(CurrentSystem(e), p, t)) IN
         /\ CurrentThread(e) # None => CurrentThread(e) \in ids
         /\ ThreadById(e, Unspecified) =
              IF CurrentThread(e) = None THEN Throws(e) ELSE One(CurrentThread(e))
         /\ ThreadById(e, Unspecified) = CurrentThreadObject(e)
         /\ \A t : t # Unspecified => ThreadById(e, t) = IF t \in ids THEN One(t) ELSE Throws(e)
         /\ \A i \in Nat : LET chosen == {x \in ids : Cardinality({y \in ids : y < x}) = i} IN
              ThreadByIndex(e, i) = IF chosen = {} THEN Throws(e) ELSE One(First(chosen))
         /\ \A id : id # Unspecified => LET chosen == {x \in ids : Tid[x] = id} IN
              ThreadBySystemId(e, id) = IF chosen = {} THEN Throws(e) ELSE One(First(chosen))
         /\ ThreadBySystemId(e, Unspecified) =
              IF CurrentThread(e) = None THEN Throws(e) ELSE One(CurrentThread(e))
<1> DEFINE p == CurrentProcess(e)
           ids == ThreadsIn(e, p)
           One(t) == Gives(e, ThreadObject(CurrentSystem(e), p, t))
<1>1. /\ ids \in SUBSET Nat /\ IsFiniteSet(ids) /\ ids \subseteq Threads
      /\ ThreadList(e) = InOrder(ids)
      /\ \A t \in ids : t # None /\ t # Unspecified
  <2>1. ids \subseteq Threads
    BY DEF ThreadsIn, Sound, Shaped
  <2>2. \A t \in Threads : t # None /\ t # Unspecified
    BY TargetsAssumption DEF None, Unspecified
  <2> QED BY <2>1, <2>2, TargetsAreFinite DEF ThreadList
<1>2. /\ GetCurrentSystemId(e) = Gives(e, CurrentSystem(e))
      /\ GetCurrentProcessId(e) = Gives(e, p)
  BY CurrentIs, IdsAre DEF GetCurrentSystemId, GetCurrentProcessId, Answered
<1>3. CurrentThread(e) # None => CurrentThread(e) \in ids
  BY CurrentIs DEF ThreadsIn
<1>4. /\ \A v : Gives(e, v).e = e /\ Gives(e, v).ok /\ Gives(e, v).value = v
      /\ ~Throws(e).ok
  BY DEF Gives, Throws
<1>5. CurrentThreadObject(e) = IF CurrentThread(e) = None THEN Throws(e) ELSE One(CurrentThread(e))
  <2>1. CASE CurrentThread(e) = None
    BY <1>4, <2>1 DEF CurrentThreadObject, GetCurrentThreadId, Answered, Then
  <2>2. CASE CurrentThread(e) # None
    <3>1. GetCurrentThreadId(e) = Gives(e, CurrentThread(e))
      BY <2>2 DEF GetCurrentThreadId, Answered
    <3> QED BY <1>2, <1>4, <2>2, <3>1 DEF CurrentThreadObject, Then
  <2> QED BY <2>1, <2>2
<1> HIDE DEF p, ids
<1>6. \A t : t # Unspecified => ThreadById(e, t) = IF t \in ids THEN One(t) ELSE Throws(e)
  <2> TAKE t
  <2> HAVE t # Unspecified
  <2>1. Contains(ThreadList(e), t) <=> t \in ids
    BY <1>1, InOrderLists
  <2>2. CASE t \in ids
    <3>1. Check(e, t, ThreadList(e)) = Gives(e, t)
      BY <2>1, <2>2 DEF Check
    <3> QED BY <1>2, <1>4, <2>2, <3>1 DEF ThreadById, Then
  <2>3. CASE t \notin ids
    BY <1>4, <2>1, <2>3 DEF ThreadById, Check, Then
  <2> QED BY <2>2, <2>3
<1>7. \A i \in Nat : LET chosen == {x \in ids : Cardinality({y \in ids : y < x}) = i} IN
        ThreadByIndex(e, i) = IF chosen = {} THEN Throws(e) ELSE One(First(chosen))
  <2> TAKE i \in Nat
  <2> DEFINE chosen == {x \in ids : Cardinality({y \in ids : y < x}) = i}
             list == InOrder(ids)
  <2>1. /\ i < Len(list) => chosen = {list[i + 1]} /\ list[i + 1] \in ids
        /\ ~(i < Len(list)) => chosen = {}
    BY <1>1, PositionCounts
  <2>2. ByIndex(e, i, ThreadList(e)) = IF i < Len(list) THEN Gives(e, list[i + 1]) ELSE Throws(e)
    BY <1>1 DEF ByIndex
  <2> SUFFICES ThreadByIndex(e, i) = IF chosen = {} THEN Throws(e) ELSE One(First(chosen))
    OBVIOUS
  <2> HIDE DEF chosen, list
  <2>3. CASE i < Len(list)
    <3>1. ThreadByIndex(e, i) = ThreadById(e, list[i + 1])
      BY <1>4, <2>2, <2>3 DEF ThreadByIndex, Then
    <3>2. First(chosen) = list[i + 1]
      BY <1>1, <2>1, <2>3, FirstOfOne
    <3> QED BY <1>1, <1>6, <2>1, <2>3, <3>1, <3>2
  <2>4. CASE ~(i < Len(list))
    BY <1>4, <2>1, <2>2, <2>4 DEF ThreadByIndex, Then
  <2> QED BY <2>3, <2>4
<1>8. \A id : id # Unspecified => LET chosen == {x \in ids : Tid[x] = id} IN
        ThreadBySystemId(e, id) = IF chosen = {} THEN Throws(e) ELSE One(First(chosen))
  <2> TAKE id
  <2> HAVE id # Unspecified
  <2> DEFINE chosen == {x \in ids : Tid[x] = id}
  <2>1. GetThreadIdBySystemId(e, id) = Answered(e, First(chosen))
    <3>1. ToSet(ThreadList(e)) = ids
      BY <1>1, InOrderLists
    <3> QED BY <3>1 DEF GetThreadIdBySystemId, BySystemId
  <2>2. /\ chosen = {} => First(chosen) = None
        /\ chosen # {} => First(chosen) \in ids
    <3>1. chosen \in SUBSET Nat /\ chosen \subseteq ids
      BY <1>1
    <3> HIDE DEF chosen
    <3> QED BY <3>1, FirstIsOne
  <2> SUFFICES ThreadBySystemId(e, id) = IF chosen = {} THEN Throws(e) ELSE One(First(chosen))
    OBVIOUS
  <2> HIDE DEF chosen
  <2>3. CASE chosen = {}
    BY <1>4, <2>1, <2>2, <2>3 DEF ThreadBySystemId, Answered, Then
  <2>4. CASE chosen # {}
    <3>1. GetThreadIdBySystemId(e, id) = Gives(e, First(chosen))
      BY <1>1, <2>1, <2>2, <2>4 DEF Answered
    <3>2. ThreadBySystemId(e, id) = ThreadById(e, First(chosen))
      BY <1>4, <3>1 DEF ThreadBySystemId, Then
    <3> QED BY <1>1, <1>6, <2>2, <2>4, <3>2
  <2> QED BY <2>3, <2>4
<1>9. ThreadBySystemId(e, Unspecified) =
        IF CurrentThread(e) = None THEN Throws(e) ELSE One(CurrentThread(e))
  <2>1. GetThreadIdBySystemId(e, Unspecified) = Answered(e, CurrentThread(e))
    BY DEF GetThreadIdBySystemId, BySystemId
  <2>2. CASE CurrentThread(e) = None
    BY <1>4, <2>1, <2>2 DEF ThreadBySystemId, Answered, Then
  <2>3. CASE CurrentThread(e) # None
    <3>1. ThreadBySystemId(e, Unspecified) = ThreadById(e, CurrentThread(e))
      BY <1>4, <2>1, <2>3 DEF ThreadBySystemId, Answered, Then
    <3> QED BY <1>1, <1>3, <1>6, <2>3, <3>1 DEF ids, p
  <2> QED BY <2>2, <2>3
<1>10. ThreadById(e, Unspecified) = CurrentThreadObject(e)
  BY DEF ThreadById
<1>11. QED
  BY <1>3, <1>5, <1>6, <1>7, <1>8, <1>9, <1>10 DEF p, ids

(* The target of an object is current, and the object answers of it.       *)
AtHome(e, o) ==
  /\ CurrentSystem(e) = o.system
  /\ o.kind # "system" => CurrentProcess(e) = o.process
  /\ o.kind = "thread" => CurrentThread(e) = o.thread

(* A right answer; where nothing is current, none.                         *)
Right(e, a, should) == Agrees(a, should) \/ (~Settled(e) /\ ~a.ok)

(* What is asked of a list.                                                *)
LEMMA ListQuestionsAre ==
  ASSUME NEW ids, NEW others, NEW q \in Lists(ids, others)
  PROVE  \/ q = <<"current">>
         \/ \E i \in Nat : q = <<"byIndex", i>>
         \/ \E id : q = <<"byId", id>>
         \/ \E id : q = <<"bySystemId", id>>
BY DEF Lists, Indices

LEMMA SystemsAnswerRight ==
  ASSUME NEW e, Sound(e), NEW s \in Systems, CurrentSystem(e) = s, NEW q \in Questions(SystemObject(s))
  PROVE  Right(e, SystemAnswer(e, q), SystemShould(e, s, q))
<1> DEFINE ids == ProcessesIn(e, s)
           One(p) == Gives(e, ProcessObject(s, p))
           a == SystemAnswer(e, q)
           should == SystemShould(e, s, q)
<1> SUFFICES Right(e, a, should)
  OBVIOUS
<1>1. s # None /\ ids \in SUBSET Nat /\ IsFiniteSet(ids)
  BY IdsAre, TargetsAreFinite
<1>2. /\ \A v : Agrees(Gives(e, v), Yields(v))
      /\ Agrees(Throws(e), Refused)
      /\ ~Throws(e).ok
  BY DEF Agrees, Gives, Throws, Yields, Refused
<1>3. \/ q \in {<<"description">>, <<"dump">>, <<"64bit">>, <<"kernel">>, <<"processes">>}
      \/ q \in Lists(Processes, {Pid[p] : p \in Processes} \ {None})
  BY DEF Questions, SystemObject
<1>4. CASE q[1] \in {"description", "dump", "64bit"}
  <2>1. a = Gives(e, <<q[1], s>>) /\ should = Yields(<<q[1], s>>)
    BY <1>1, <1>4 DEF SystemAnswer, Fact, Knows, SystemShould
  <2> QED BY <1>2, <2>1 DEF Right
<1>5. CASE q[1] = "kernel"
  <2>1. a = Gives(e, s \in Kernels) /\ should = Yields(s \in Kernels)
    BY <1>5 DEF SystemAnswer, SystemShould, IsKernelDebugging
  <2> QED BY <1>2, <2>1 DEF Right
<1>6. CASE q[1] = "processes"
  <2>1. a = Gives(e, Cardinality(ids)) /\ should = Yields(Cardinality(ids))
    BY <1>1, <1>6, InOrderLists DEF SystemAnswer, SystemShould, ProcessList
  <2> QED BY <1>2, <2>1 DEF Right
<1>7. CurrentProcess(e) # None => First({OrFirst(e.process[s], ids)}) = CurrentProcess(e)
  <2>1. CurrentProcess(e) # None => OrFirst(e.process[s], ids) = CurrentProcess(e)
    BY <1>1 DEF CurrentProcess, CurrentSystem, OrFirst
  <2>2. CurrentProcess(e) # None => CurrentProcess(e) \in Nat
    BY CurrentIs, TargetsAreFinite
  <2> QED BY <2>1, <2>2, FirstOfOne
<1>8. ASSUME should = Yields(ProcessObject(s, First({OrFirst(e.process[s], ids)}))),
             a = IF CurrentProcess(e) = None THEN Throws(e) ELSE One(CurrentProcess(e))
      PROVE  Right(e, a, should)
  <2>1. CASE CurrentProcess(e) = None
    BY <1>2, <1>8, <2>1 DEF Right, Settled, CurrentThread
  <2>2. CASE CurrentProcess(e) # None
    BY <1>2, <1>7, <1>8, <2>2 DEF Right
  <2> QED BY <2>1, <2>2
<1>9. ASSUME NEW chosen, should = IF chosen = {} THEN Refused ELSE Yields(ProcessObject(s, First(chosen))),
             a = IF chosen = {} THEN Throws(e) ELSE One(First(chosen))
      PROVE  Right(e, a, should)
  BY <1>2, <1>9 DEF Right
<1>10. CASE q = <<"current">>
  <2>1. should = Yields(ProcessObject(s, First({OrFirst(e.process[s], ids)})))
    BY <1>10 DEF SystemShould, Member
  <2>2. a = CurrentProcessObject(e)
    BY <1>10 DEF SystemAnswer
  <2> QED BY <1>1, <1>8, <2>1, <2>2, ProcessesAnswered
<1>11. ASSUME NEW i \in Nat, q = <<"byIndex", i>>
       PROVE  Right(e, a, should)
  <2> DEFINE chosen == {x \in ids : Cardinality({y \in ids : y < x}) = i}
  <2>1. should = IF chosen = {} THEN Refused ELSE Yields(ProcessObject(s, First(chosen)))
    BY <1>11 DEF SystemShould, Member
  <2>2. a = ProcessByIndex(e, i)
    BY <1>11 DEF SystemAnswer
  <2>3. ProcessByIndex(e, i) = IF chosen = {} THEN Throws(e) ELSE One(First(chosen))
    BY <1>1, ProcessesAnswered
  <2> HIDE DEF chosen, should, a
  <2> QED BY <1>9, <2>1, <2>2, <2>3
<1>12. ASSUME NEW id, q = <<"byId", id>> \/ q = <<"bySystemId", id>>, id = Unspecified
       PROVE  Right(e, a, should)
  <2>1. should = Yields(ProcessObject(s, First({OrFirst(e.process[s], ids)})))
    <3>1. CASE q = <<"byId", Unspecified>>
      BY <3>1 DEF SystemShould, Member
    <3>2. CASE q = <<"bySystemId", Unspecified>>
      BY <3>2 DEF SystemShould, Member
    <3> QED BY <1>12, <3>1, <3>2
  <2>2. a \in {ProcessById(e, Unspecified), ProcessBySystemId(e, Unspecified)}
    BY <1>12 DEF SystemAnswer
  <2>3. a = IF CurrentProcess(e) = None THEN Throws(e) ELSE One(CurrentProcess(e))
    BY <1>1, <2>2, ProcessesAnswered
  <2> QED BY <1>8, <2>1, <2>3
<1>13. ASSUME NEW id, q = <<"byId", id>>, id # Unspecified
       PROVE  Right(e, a, should)
  <2> DEFINE chosen == {x \in ids : x = id}
  <2>1. should = IF chosen = {} THEN Refused ELSE Yields(ProcessObject(s, First(chosen)))
    BY <1>13 DEF SystemShould, Member
  <2>2. a = IF id \in ids THEN One(id) ELSE Throws(e)
    <3>1. a = ProcessById(e, id)
      BY <1>13 DEF SystemAnswer
    <3> QED BY <1>1, <1>13, <3>1, ProcessesAnswered
  <2>3. chosen = {} => id \notin ids
    OBVIOUS
  <2>4. chosen # {} => id \in ids /\ First(chosen) = id
    <3>1. chosen # {} => id \in ids /\ chosen = {id}
      OBVIOUS
    <3> HIDE DEF chosen
    <3> QED BY <1>1, <3>1, FirstOfOne
  <2> HIDE DEF chosen, should, a
  <2> QED BY <1>9, <2>1, <2>2, <2>3, <2>4
<1>14. ASSUME NEW id, q = <<"bySystemId", id>>, id # Unspecified
       PROVE  Right(e, a, should)
  <2> DEFINE chosen == {x \in ids : Pid[x] = id}
  <2>1. should = IF chosen = {} THEN Refused ELSE Yields(ProcessObject(s, First(chosen)))
    BY <1>14 DEF SystemShould, Member
  <2>2. a = ProcessBySystemId(e, id)
    BY <1>14 DEF SystemAnswer
  <2>3. ProcessBySystemId(e, id) = IF chosen = {} THEN Throws(e) ELSE One(First(chosen))
    BY <1>1, <1>14, ProcessesAnswered
  <2> HIDE DEF chosen, should, a
  <2> QED BY <1>9, <2>1, <2>2, <2>3
<1>15. QED
  <2> HIDE DEF a, should
  <2>1. CASE q \in {<<"description">>, <<"dump">>, <<"64bit">>, <<"kernel">>, <<"processes">>}
    BY <2>1, <1>4, <1>5, <1>6
  <2>2. CASE q \in Lists(Processes, {Pid[p] : p \in Processes} \ {None})
    <3>1. \/ q = <<"current">>
          \/ \E i \in Nat : q = <<"byIndex", i>>
          \/ \E id : q = <<"byId", id>>
          \/ \E id : q = <<"bySystemId", id>>
      BY <2>2, ListQuestionsAre
    <3>2. CASE \E id : q = <<"byId", id>>
      BY <3>2, <1>12, <1>13
    <3>3. CASE \E id : q = <<"bySystemId", id>>
      BY <3>3, <1>12, <1>14
    <3>4. CASE \E i \in Nat : q = <<"byIndex", i>>
      BY <3>4, <1>11
    <3>5. CASE q = <<"current">>
      BY <3>5, <1>10
    <3> QED BY <3>1, <3>2, <3>3, <3>4, <3>5
  <2> QED BY <1>3, <2>1, <2>2

(* Then isCurrent says so.                                                 *)
LEMMA HomeIsCurrent ==
  ASSUME NEW e, Sound(e), NEW o \in Objects, AtHome(e, o)
  PROVE  IsCurrent(e, o) = Gives(e, TRUE)
<1>1. /\ o.kind \in {"system", "process", "thread"}
      /\ o.system # None /\ (o.kind # "system" => o.process # None) /\ (o.kind = "thread" => o.thread # None)
  BY IdsAre DEF Objects, SystemObject, ProcessObject, ThreadObject
<1>2. /\ GetCurrentSystemId(e) = Gives(e, o.system)
      /\ o.kind # "system" => GetCurrentProcessId(e) = Gives(e, o.process)
      /\ o.kind = "thread" => GetCurrentThreadId(e) = Gives(e, o.thread)
  <2>1. CurrentSystem(e) # None => GetCurrentSystemId(e) = Gives(e, CurrentSystem(e))
    BY DEF GetCurrentSystemId
  <2>2. CurrentProcess(e) # None => GetCurrentProcessId(e) = Gives(e, CurrentProcess(e))
    BY DEF GetCurrentProcessId, Answered
  <2>3. CurrentThread(e) # None => GetCurrentThreadId(e) = Gives(e, CurrentThread(e))
    BY DEF GetCurrentThreadId, Answered
  <2>4. /\ CurrentSystem(e) = o.system
        /\ o.kind # "system" => CurrentProcess(e) = o.process
        /\ o.kind = "thread" => CurrentThread(e) = o.thread
    BY DEF AtHome
  <2> QED BY <1>1, <2>1, <2>2, <2>3, <2>4
<1>3. \A v : Gives(e, v).ok /\ Gives(e, v).e = e /\ Gives(e, v).value = v
  BY DEF Gives
<1>4. CASE o.kind = "system"
  BY <1>2, <1>3, <1>4, Zenon DEF IsCurrent, Same, Then, Yes
<1>5. CASE o.kind = "process"
  <2>1. /\ GetCurrentSystemId(e) = Gives(e, o.system)
        /\ GetCurrentProcessId(e) = Gives(e, o.process)
        /\ o.kind # "system"
    BY <1>2, <1>5
  <2>2. IsCurrent(e, o) = Same(GetCurrentProcessId(e), o.process, Yes)
    BY <1>3, <1>5, <2>1 DEF IsCurrent, Same, Then
  <2> QED BY <1>3, <2>1, <2>2 DEF Same, Then, Yes
<1>6. CASE o.kind = "thread"
  <2>1. /\ GetCurrentSystemId(e) = Gives(e, o.system)
        /\ GetCurrentProcessId(e) = Gives(e, o.process)
        /\ GetCurrentThreadId(e) = Gives(e, o.thread)
        /\ o.kind # "system" /\ o.kind # "process"
    BY <1>2, <1>6
  <2>2. IsCurrent(e, o) = Same(GetCurrentProcessId(e), o.process, LAMBDA p : Same(GetCurrentThreadId(p), o.thread, Yes))
    BY <1>3, <2>1 DEF IsCurrent, Same, Then
  <2>3. @ = Same(GetCurrentThreadId(e), o.thread, Yes)
    BY <1>3, <2>1 DEF Same, Then
  <2>4. @ = Gives(e, TRUE)
    BY <1>3, <2>1 DEF Same, Then, Yes
  <2> QED BY <2>2, <2>3, <2>4
<1>7. QED
  BY <1>1, <1>4, <1>5, <1>6

LEMMA ProcessesAnswerRight ==
  ASSUME NEW e, Sound(e), NEW p \in Processes, CurrentProcess(e) = p,
         NEW o, o = ProcessObject(SystemOf[p], p), NEW q \in Questions(o)
  PROVE  Right(e, ProcessAnswer(e, o, q), ProcessShould(e, p, q))
<1> DEFINE ids == ThreadsIn(e, p)
           One(t) == Gives(e, ThreadObject(SystemOf[p], p, t))
           a == ProcessAnswer(e, o, q)
           should == ProcessShould(e, p, q)
<1> SUFFICES Right(e, a, should)
  OBVIOUS
<1>1. /\ p # None /\ ids \in SUBSET Nat /\ IsFiniteSet(ids)
      /\ CurrentSystem(e) = SystemOf[p] /\ CurrentSystem(e) # None
  BY IdsAre, TargetsAreFinite, CurrentIs
<1>2. /\ \A v : Agrees(Gives(e, v), Yields(v))
      /\ Agrees(Throws(e), Refused)
      /\ ~Throws(e).ok
  BY DEF Agrees, Gives, Throws, Yields, Refused
<1>3. \/ q \in {<<"executable">>, <<"peb">>, <<"modules">>, <<"breakpoints">>, <<"heap">>, <<"systemId">>, <<"kernel">>,
                <<"managed">>, <<"threads">>}
      \/ q \in Lists(Threads, {Tid[t] : t \in Threads} \ {None})
  BY DEF Questions, ProcessObject
<1>4. CASE q[1] \in {"executable", "peb", "modules", "breakpoints", "heap"}
  <2>1. a = Gives(e, <<q[1], p>>) /\ should = Yields(<<q[1], p>>)
    BY <1>1, <1>4 DEF ProcessAnswer, Fact, Knows, ProcessShould
  <2> QED BY <1>2, <2>1 DEF Right
<1>5. CASE q[1] = "kernel"
  <2>1. a = Gives(e, SystemOf[p] \in Kernels) /\ should = Yields(SystemOf[p] \in Kernels)
    BY <1>1, <1>5 DEF ProcessAnswer, ProcessShould, IsKernelDebugging
  <2> QED BY <1>2, <2>1 DEF Right
<1>6. CASE q[1] = "systemId"
  <2>1. GetCurrentProcessId(e) = Gives(e, p)
    BY <1>1 DEF GetCurrentProcessId, Answered
  <2>2. /\ a = IF Pid[p] = None THEN Throws(e) ELSE Gives(e, Pid[p])
        /\ should = IF Pid[p] = None THEN Refused ELSE Yields(Pid[p])
    BY <1>6, <2>1 DEF ProcessAnswer, ProcessShould, Then, Gives, Answered
  <2> HIDE DEF a, should
  <2> QED BY <1>2, <2>2 DEF Right
<1>7. CASE q[1] = "managed"
  <2>1. IsCurrent(e, o) = Gives(e, TRUE)
    <3>1. o.kind = "process" /\ o.system = SystemOf[p] /\ o.process = p
      BY DEF ProcessObject
    <3>2. AtHome(e, o)
      BY <1>1, <3>1 DEF AtHome
    <3>3. o \in Objects
      BY DEF Objects
    <3> QED BY <3>2, <3>3, HomeIsCurrent
  <2>2. a = Gives(e, p \in Managed) /\ should = Yields(p \in Managed)
    <3>1. Gives(e, TRUE).ok /\ Gives(e, TRUE).e = e /\ Gives(e, TRUE).value = TRUE
      BY DEF Gives
    <3>2. ManagedHere(e, o) = Gives(e, TRUE /\ p \in Managed)
      BY <2>1, <3>1, Zenon DEF ManagedHere, Then
    <3>3. (TRUE /\ p \in Managed) = (p \in Managed)
      OBVIOUS
    <3>4. a = ManagedHere(e, o) /\ should = Yields(p \in Managed)
      BY <1>7 DEF ProcessAnswer, ProcessShould
    <3> HIDE DEF a, should
    <3> QED BY <3>2, <3>3, <3>4, Zenon
  <2> QED BY <1>2, <2>2 DEF Right
<1>8. CASE q[1] = "threads"
  <2>1. a = Gives(e, Cardinality(ids)) /\ should = Yields(Cardinality(ids))
    BY <1>1, <1>8, InOrderLists DEF ProcessAnswer, ProcessShould, ThreadList
  <2> QED BY <1>2, <2>1 DEF Right
<1>9. CurrentThread(e) # None => First({OrFirst(e.thread[p], ids)}) = CurrentThread(e)
  <2>1. CurrentThread(e) # None => OrFirst(e.thread[p], ids) = CurrentThread(e)
    BY <1>1 DEF CurrentThread, OrFirst
  <2>2. CurrentThread(e) # None => CurrentThread(e) \in Nat
    BY CurrentIs, TargetsAssumption
  <2> QED BY <2>1, <2>2, FirstOfOne
<1>10. ASSUME should = Yields(ThreadObject(SystemOf[p], p, First({OrFirst(e.thread[p], ids)}))),
             a = IF CurrentThread(e) = None THEN Throws(e) ELSE One(CurrentThread(e))
      PROVE  Right(e, a, should)
  <2>1. CASE CurrentThread(e) = None
    BY <1>2, <1>10, <2>1 DEF Right, Settled
  <2>2. CASE CurrentThread(e) # None
    BY <1>2, <1>9, <1>10, <2>2 DEF Right
  <2> QED BY <2>1, <2>2
<1>11. ASSUME NEW chosen, should = IF chosen = {} THEN Refused ELSE Yields(ThreadObject(SystemOf[p], p, First(chosen))),
             a = IF chosen = {} THEN Throws(e) ELSE One(First(chosen))
      PROVE  Right(e, a, should)
  BY <1>2, <1>11 DEF Right
<1>12. CASE q = <<"current">>
  <2>1. should = Yields(ThreadObject(SystemOf[p], p, First({OrFirst(e.thread[p], ids)})))
    BY <1>12 DEF ProcessShould, Member
  <2>2. a = CurrentThreadObject(e)
    BY <1>12 DEF ProcessAnswer
  <2> QED BY <1>1, <1>10, <2>1, <2>2, ThreadsAnswered
<1>13. ASSUME NEW i \in Nat, q = <<"byIndex", i>>
       PROVE  Right(e, a, should)
  <2> DEFINE chosen == {x \in ids : Cardinality({y \in ids : y < x}) = i}
  <2>1. should = IF chosen = {} THEN Refused ELSE Yields(ThreadObject(SystemOf[p], p, First(chosen)))
    BY <1>13 DEF ProcessShould, Member
  <2>2. a = ThreadByIndex(e, i)
    BY <1>13 DEF ProcessAnswer
  <2>3. ThreadByIndex(e, i) = IF chosen = {} THEN Throws(e) ELSE One(First(chosen))
    BY <1>1, ThreadsAnswered
  <2> HIDE DEF chosen, should, a
  <2> QED BY <1>11, <2>1, <2>2, <2>3
<1>14. ASSUME NEW id, q = <<"byId", id>> \/ q = <<"bySystemId", id>>, id = Unspecified
       PROVE  Right(e, a, should)
  <2>1. should = Yields(ThreadObject(SystemOf[p], p, First({OrFirst(e.thread[p], ids)})))
    <3>1. CASE q = <<"byId", Unspecified>>
      BY <3>1 DEF ProcessShould, Member
    <3>2. CASE q = <<"bySystemId", Unspecified>>
      BY <3>2 DEF ProcessShould, Member
    <3> QED BY <1>14, <3>1, <3>2
  <2>2. a \in {ThreadById(e, Unspecified), ThreadBySystemId(e, Unspecified)}
    <3>1. CASE q = <<"byId", Unspecified>>
      <4>1. a = ThreadById(e, Unspecified)
        BY <3>1 DEF ProcessAnswer
      <4> QED BY <4>1
    <3>2. CASE q = <<"bySystemId", Unspecified>>
      <4>1. a = ThreadBySystemId(e, Unspecified)
        BY <3>2 DEF ProcessAnswer
      <4> QED BY <4>1
    <3> QED BY <1>14, <3>1, <3>2
  <2>3. a = IF CurrentThread(e) = None THEN Throws(e) ELSE One(CurrentThread(e))
    BY <1>1, <2>2, ThreadsAnswered
  <2> QED BY <1>10, <2>1, <2>3
<1>15. ASSUME NEW id, q = <<"byId", id>>, id # Unspecified
       PROVE  Right(e, a, should)
  <2> DEFINE chosen == {x \in ids : x = id}
  <2>1. should = IF chosen = {} THEN Refused ELSE Yields(ThreadObject(SystemOf[p], p, First(chosen)))
    BY <1>15 DEF ProcessShould, Member
  <2>2. a = IF id \in ids THEN One(id) ELSE Throws(e)
    <3>1. a = ThreadById(e, id)
      BY <1>15 DEF ProcessAnswer
    <3> QED BY <1>1, <1>15, <3>1, ThreadsAnswered
  <2>3. chosen = {} => id \notin ids
    OBVIOUS
  <2>4. chosen # {} => id \in ids /\ First(chosen) = id
    <3>1. chosen # {} => id \in ids /\ chosen = {id}
      OBVIOUS
    <3> HIDE DEF chosen
    <3> QED BY <1>1, <3>1, FirstOfOne
  <2> HIDE DEF chosen, should, a
  <2> QED BY <1>11, <2>1, <2>2, <2>3, <2>4
<1>16. ASSUME NEW id, q = <<"bySystemId", id>>, id # Unspecified
       PROVE  Right(e, a, should)
  <2> DEFINE chosen == {x \in ids : Tid[x] = id}
  <2>1. should = IF chosen = {} THEN Refused ELSE Yields(ThreadObject(SystemOf[p], p, First(chosen)))
    BY <1>16 DEF ProcessShould, Member
  <2>2. a = ThreadBySystemId(e, id)
    BY <1>16 DEF ProcessAnswer
  <2>3. ThreadBySystemId(e, id) = IF chosen = {} THEN Throws(e) ELSE One(First(chosen))
    BY <1>1, <1>16, ThreadsAnswered
  <2> HIDE DEF chosen, should, a
  <2> QED BY <1>11, <2>1, <2>2, <2>3
<1>17. QED
  <2> HIDE DEF a, should
  <2>1. CASE q \in {<<"executable">>, <<"peb">>, <<"modules">>, <<"breakpoints">>, <<"heap">>, <<"systemId">>, <<"kernel">>,
                   <<"managed">>, <<"threads">>}
    BY <2>1, <1>4, <1>5, <1>8, <1>6, <1>7
  <2>2. CASE q \in Lists(Threads, {Tid[t] : t \in Threads} \ {None})
    <3>1. \/ q = <<"current">>
          \/ \E i \in Nat : q = <<"byIndex", i>>
          \/ \E id : q = <<"byId", id>>
          \/ \E id : q = <<"bySystemId", id>>
      BY <2>2, ListQuestionsAre
    <3>2. CASE \E id : q = <<"byId", id>>
      BY <3>2, <1>14, <1>15
    <3>3. CASE \E id : q = <<"bySystemId", id>>
      BY <3>3, <1>14, <1>16
    <3>4. CASE \E i \in Nat : q = <<"byIndex", i>>
      BY <3>4, <1>13
    <3>5. CASE q = <<"current">>
      BY <3>5, <1>12
    <3> QED BY <3>1, <3>2, <3>3, <3>4, <3>5
  <2> QED BY <1>3, <2>1, <2>2

(* What is asked of a thread that is current, but for its process.         *)
LEMMA ThreadsAnswerRight ==
  ASSUME NEW e, Sound(e), NEW t \in Threads, CurrentThread(e) = t,
         NEW o, o = ThreadObject(SystemOf[ProcessOf[t]], ProcessOf[t], t), NEW q \in Questions(o), q[1] # "process"
  PROVE  Right(e, ThreadAnswer(e, q), ThreadShould(t, q))
<1> DEFINE a == ThreadAnswer(e, q)
           should == ThreadShould(t, q)
<1> SUFFICES Right(e, a, should)
  OBVIOUS
<1>1. t # None /\ CurrentSystem(e) = SystemOf[ProcessOf[t]]
  BY IdsAre, CurrentIs
<1>2. (\A v : Agrees(Gives(e, v), Yields(v))) /\ Agrees(Throws(e), Refused)
  BY DEF Agrees, Gives, Throws, Yields, Refused
<1>3. q \in {<<"teb">>, <<"ip">>, <<"sp">>, <<"fp">>, <<"systemId">>, <<"kernel">>, <<"process">>}
  BY DEF Questions, ThreadObject
<1>4. CASE q[1] \in {"teb", "ip", "sp", "fp"}
  <2>1. a = Gives(e, <<q[1], t>>) /\ should = Yields(<<q[1], t>>)
    BY <1>1, <1>4 DEF ThreadAnswer, Fact, Knows, ThreadShould
  <2> QED BY <1>2, <2>1 DEF Right
<1>5. CASE q[1] = "kernel"
  <2>1. a = Gives(e, SystemOf[ProcessOf[t]] \in Kernels) /\ should = Yields(SystemOf[ProcessOf[t]] \in Kernels)
    BY <1>1, <1>5 DEF ThreadAnswer, ThreadShould, IsKernelDebugging
  <2> QED BY <1>2, <2>1 DEF Right
<1>6. CASE q[1] = "systemId"
  <2>1. GetCurrentThreadId(e) = Gives(e, t)
    BY <1>1 DEF GetCurrentThreadId, Answered
  <2>2. /\ a = IF Tid[t] = None THEN Throws(e) ELSE Gives(e, Tid[t])
        /\ should = IF SystemOf[ProcessOf[t]] \in Kernels THEN Refused ELSE Yields(Tid[t])
    BY <1>6, <2>1 DEF ThreadAnswer, ThreadShould, Then, Gives, Answered
  <2>3. Tid[t] = None <=> SystemOf[ProcessOf[t]] \in Kernels
    BY TargetsAssumption
  <2> HIDE DEF a, should
  <2> QED BY <1>2, <2>2, <2>3 DEF Right
<1>7. QED
  <2> HIDE DEF a, should
  <2> QED BY <1>3, <1>4, <1>5, <1>6

(* A thread finds its process if the system of it is current.              *)
LEMMA ProcessIsLookedUp ==
  ASSUME NEW e, Sound(e), NEW t \in Threads, NEW p, p = ProcessOf[t]
  PROVE  LET a == ProcessById(e, p) IN
         /\ p \in LiveProcesses(e) /\ CurrentSystem(e) = SystemOf[p] => Agrees(a, ThreadShould(t, <<"process">>))
         /\ ~(p \in LiveProcesses(e) /\ CurrentSystem(e) = SystemOf[p]) => ~a.ok
<1> DEFINE s == CurrentSystem(e)
           ids == ProcessesIn(e, s)
<1>1. p \in Processes /\ p # Unspecified /\ SystemOf[p] \in Systems /\ SystemOf[p] # None
  <2>1. p \in Processes
    BY IdsAre
  <2>2. p \in Nat
    BY <2>1, TargetsAssumption
  <2>3. -1 \notin Nat
    OBVIOUS
  <2> QED BY <2>1, <2>2, <2>3, IdsAre DEF Unspecified
<1>2. p \in ids <=> p \in LiveProcesses(e) /\ s = SystemOf[p]
  BY DEF ProcessesIn
<1>3. ThreadShould(t, <<"process">>) = Yields(ProcessObject(SystemOf[p], p))
  BY DEF ThreadShould
<1>4. /\ ~Throws(e).ok
      /\ \A v : Agrees(Gives(e, v), Yields(v))
  BY DEF Throws, Agrees, Gives, Yields
<1>5. CASE s = None
  <2>1. p \notin ids
    BY <1>1, <1>2, <1>5
  <2>2. ~Contains(ProcessList(e), p)
    BY <2>1, InOrderLists, TargetsAreFinite DEF ProcessList
  <2>3. Check(e, p, ProcessList(e)) = Throws(e)
    BY <2>2 DEF Check
  <2>4. ProcessById(e, p) = Throws(e)
    BY <1>1, <1>4, <2>3 DEF ProcessById, Then
  <2> QED BY <1>2, <1>4, <2>1, <2>4
<1>6. CASE s # None
  <2>1. ProcessById(e, p) = IF p \in ids THEN Gives(e, ProcessObject(s, p)) ELSE Throws(e)
    BY <1>1, <1>6, ProcessesAnswered
  <2> HIDE DEF s, ids
  <2>2. CASE p \in ids
    <3>1. Agrees(ProcessById(e, p), ThreadShould(t, <<"process">>))
      BY <1>2, <1>3, <1>4, <2>1, <2>2
    <3> QED BY <1>2, <2>2, <3>1 DEF s
  <2>3. CASE p \notin ids
    <3>1. ~ProcessById(e, p).ok
      BY <1>4, <2>1, <2>3
    <3> QED BY <1>2, <2>3, <3>1 DEF s
  <2> QED BY <2>2, <2>3
<1>7. QED
  BY <1>5, <1>6

-----------------------------------------------------------------------------
(* What an engine would make current: in a system, in a process.           *)
Resumes(e, s) == OrFirst(e.process[s], ProcessesIn(e, s))
Wakes(e, p) == OrFirst(e.thread[p], ThreadsIn(e, p))

(* Then the answers of an object that depend on it are the same.           *)
Keeps(e, d, o) ==
  /\ Kin(e, d)
  /\ o.kind = "system" => Resumes(d, o.system) = Resumes(e, o.system)
  /\ o.kind = "process" => Wakes(d, o.process) = Wakes(e, o.process)

LEMMA ChosenStays ==
  ASSUME NEW id, NEW ids
  PROVE  OrFirst(OrFirst(id, ids), ids) = OrFirst(id, ids)
BY DEF OrFirst

(* Choosing a process makes current in it what would have become it.       *)
LEMMA SelectProcessWakes ==
  ASSUME NEW e, Sound(e), NEW p, NEW other \in Processes
  PROVE  Wakes(SelectProcess(e, p), other) = Wakes(e, other)
<1> DEFINE d == SelectProcess(e, p)
<1>1. CASE p \in LiveProcesses(e)
  <2>1. d = Selected(e, SystemOf[p], p, Wakes(e, p))
    BY <1>1 DEF SelectProcess, Wakes
  <2>2. /\ d.live = e.live
        /\ d.thread[other] = IF other = p THEN Wakes(e, p) ELSE e.thread[other]
    <3>1. d.live = e.live /\ d.thread = [e.thread EXCEPT ![p] = Wakes(e, p)]
      BY <2>1 DEF Selected, Sound, Shaped, Fields
    <3> HIDE DEF d
    <3> QED BY <3>1 DEF Sound, Shaped
  <2> HIDE DEF d
  <2>3. ThreadsIn(d, other) = ThreadsIn(e, other)
    BY <2>2 DEF ThreadsIn
  <2>4. CASE other = p
    <3>1. d.thread[other] = Wakes(e, other)
      BY <2>2, <2>4
    <3>2. Wakes(d, other) = OrFirst(Wakes(e, other), ThreadsIn(e, other))
      BY <2>3, <3>1 DEF Wakes
    <3> QED BY <3>2, ChosenStays DEF Wakes, d
  <2>5. CASE other # p
    BY <2>2, <2>3, <2>5 DEF Wakes, d
  <2> QED BY <2>4, <2>5
<1>2. CASE p \notin LiveProcesses(e)
  BY <1>2 DEF SelectProcess
<1>3. QED
  BY <1>1, <1>2

LEMMA SelectSystemResumes ==
  ASSUME NEW e, Sound(e), NEW s
  PROVE  /\ \A p \in Processes : Wakes(SelectSystem(e, s), p) = Wakes(e, p)
         /\ \A other \in Systems : Resumes(SelectSystem(e, s), other) = Resumes(e, other)
         /\ s \in LiveSystems(e) =>
              /\ CurrentSystem(SelectSystem(e, s)) = s
              /\ Settled(SelectSystem(e, s))
<1> DEFINE d == SelectSystem(e, s)
           p == Resumes(e, s)
<1>1. CASE s \notin LiveSystems(e)
  BY <1>1 DEF SelectSystem
<1>2. CASE s \in LiveSystems(e)
  <2>1. d = SelectProcess(e, p)
    BY <1>2 DEF SelectSystem, Resumes
  <2>2. s \in Systems
    BY <1>2, TargetsAreFinite
  <2>3. p \in ProcessesIn(e, s)
    <3>1. e.process[s] # None => e.process[s] \in ProcessesIn(e, s)
      BY <2>2 DEF Sound, ProcessesIn
    <3>2. ProcessesIn(e, s) # {} /\ ProcessesIn(e, s) \in SUBSET Nat
      BY <1>2, TargetsAreFinite DEF LiveSystems, ProcessesIn
    <3>3. First(ProcessesIn(e, s)) \in ProcessesIn(e, s)
      BY <3>2, FirstIsOne
    <3> QED BY <3>1, <3>3 DEF Resumes, OrFirst
  <2>4. p \in LiveProcesses(e) /\ SystemOf[p] = s
    BY <2>3 DEF ProcessesIn
  <2>5. \A other \in Processes : Wakes(d, other) = Wakes(e, other)
    BY <2>1, SelectProcessWakes
  <2>6. d = Selected(e, s, p, Wakes(e, p))
    BY <2>1, <2>4 DEF SelectProcess, Wakes
  <2>7. /\ CurrentSystem(d) = s
        /\ Settled(d)
    <3>1. CurrentSystem(d) = s /\ CurrentThread(d) \in e.live
      BY <2>1, <2>4, SelectProcessKeeps
    <3>2. e.live \subseteq Threads
      BY DEF Sound, Shaped
    <3> QED BY <3>1, <3>2, IdsAre DEF Settled
  <2>8. ASSUME NEW other \in Systems
        PROVE  Resumes(d, other) = Resumes(e, other)
    <3>1. /\ d.live = e.live
          /\ d.process[other] = IF other = s THEN p ELSE e.process[other]
      <4>1. d.live = e.live /\ d.process = [e.process EXCEPT ![s] = p]
        BY <2>6 DEF Selected, Sound, Shaped, Fields
      <4> HIDE DEF d, p
      <4> QED BY <4>1 DEF Sound, Shaped
    <3> HIDE DEF d
    <3>2. ProcessesIn(d, other) = ProcessesIn(e, other)
      BY <3>1 DEF ProcessesIn, LiveProcesses
    <3>3. CASE other = s
      <4>1. Resumes(d, other) = OrFirst(Resumes(e, other), ProcessesIn(e, other))
        BY <3>1, <3>2, <3>3 DEF Resumes
      <4> QED BY <4>1, ChosenStays DEF Resumes
    <3>4. CASE other # s
      BY <3>1, <3>2, <3>4 DEF Resumes
    <3> QED BY <3>3, <3>4
  <2> HIDE DEF d
  <2> QED BY <2>5, <2>7, <2>8 DEF d
<1>3. QED
  BY <1>1, <1>2

LEMMA KeepsTransitive ==
  ASSUME NEW e, NEW d, NEW c, NEW o, Keeps(e, d, o), Keeps(d, c, o)
  PROVE  Keeps(e, c, o)
BY KinTransitive DEF Keeps

(* What an engine has of what may be current decides what it keeps.        *)
LEMMA AlikeKeep ==
  ASSUME NEW e, NEW d, NEW o, Kin(e, d), d.process = e.process, d.thread = e.thread
  PROVE  Keeps(e, d, o)
<1>1. /\ \A s : ProcessesIn(d, s) = ProcessesIn(e, s)
      /\ \A p : ThreadsIn(d, p) = ThreadsIn(e, p)
  BY DEF Kin, ProcessesIn, LiveProcesses, ThreadsIn
<1>2. QED
  BY <1>1 DEF Keeps, Resumes, Wakes

LEMMA SelectSystemKeepsAll ==
  ASSUME NEW e, Sound(e), NEW s, NEW o \in Objects
  PROVE  Keeps(e, SelectSystem(e, s), o)
<1>1. o.kind = "system" => o.system \in Systems
  BY DEF Objects, SystemObject, ProcessObject, ThreadObject
<1>2. o.kind = "process" => o.process \in Processes
  BY KindsAre
<1>3. QED
  BY <1>1, <1>2, SelectSystemKeeps, SelectSystemResumes DEF Keeps

LEMMA GetSystemKeeps ==
  ASSUME NEW e, Sound(e), NEW o \in Objects
  PROVE  LET a == GetCurrentSystemId(e) IN
         /\ Keeps(e, a.e, o)
         /\ a.ok => a.value = CurrentSystem(a.e) /\ CurrentSystem(a.e) # None
         /\ Settled(e) => a.ok /\ a.e = e
<1> DEFINE a == GetCurrentSystemId(e)
           first == First(LiveSystems(e))
<1>1. Keeps(e, e, o)
  BY KinReflexive DEF Keeps
<1>2. /\ \A d, v : Gives(d, v).e = d /\ Gives(d, v).ok /\ Gives(d, v).value = v
      /\ \A d : Throws(d).e = d /\ ~Throws(d).ok
  BY DEF Gives, Throws
<1>3. CASE CurrentSystem(e) # None
  <2>1. a = Gives(e, CurrentSystem(e))
    BY <1>3 DEF GetCurrentSystemId
  <2> HIDE DEF a
  <2> QED BY <1>1, <1>2, <1>3, <2>1 DEF a
<1>4. CASE CurrentSystem(e) = None
  <2>1. ~Settled(e)
    BY <1>4 DEF Settled, CurrentThread, CurrentProcess, CurrentSystem
  <2>2. CASE first = None
    <3>1. a = Throws(e)
      BY <1>4, <2>2 DEF GetCurrentSystemId
    <3> HIDE DEF a
    <3> QED BY <1>1, <1>2, <2>1, <3>1 DEF a
  <2>3. CASE first # None
    <3>1. first \in LiveSystems(e)
      <4>1. LiveSystems(e) \in SUBSET Nat
        BY TargetsAreFinite
      <4> QED BY <2>3, <4>1, FirstIsOne
    <3>2. SetCurrentSystemById(e, first) = Gives(SelectSystem(e, first), None)
      BY <3>1 DEF SetCurrentSystemById
    <3>3. a = Gives(SelectSystem(e, first), first)
      BY <1>2, <1>4, <2>3, <3>2 DEF GetCurrentSystemId, Then
    <3>4. CurrentSystem(SelectSystem(e, first)) = first
      BY <3>1, SelectSystemResumes
    <3>5. Keeps(e, SelectSystem(e, first), o)
      BY SelectSystemKeepsAll
    <3> HIDE DEF a, first
    <3> QED BY <1>2, <2>1, <2>3, <3>3, <3>4, <3>5 DEF a
  <2> QED BY <2>2, <2>3
<1>5. QED
  BY <1>3, <1>4

(* Something else is current, and it has an id.                            *)
Elsewhere(e, o) ==
  /\ CurrentSystem(e) # None /\ ~AtHome(e, o)
  /\ o.kind # "system" /\ CurrentSystem(e) = o.system => CurrentProcess(e) # None

LEMMA IsCurrentTells ==
  ASSUME NEW e, Sound(e), NEW o \in Objects
  PROVE  LET is == IsCurrent(e, o) IN
         /\ Keeps(e, is.e, o)
         /\ is.ok => is.value \in BOOLEAN
         /\ is.ok /\ is.value = TRUE => AtHome(is.e, o)
         /\ is.ok /\ is.value = FALSE => Elsewhere(is.e, o)
         /\ Settled(e) => is.ok /\ is.e = e
<1> DEFINE is == IsCurrent(e, o)
           a == GetCurrentSystemId(e)
           now == a.e
<1>1. /\ Keeps(e, now, o)
      /\ a.ok => a.value = CurrentSystem(now) /\ CurrentSystem(now) # None
      /\ Settled(e) => a.ok /\ now = e
  BY GetSystemKeeps
<1>3. o.kind \in {"system", "process", "thread"}
  BY KindsAre
<1>4. is.e = now
  BY IsCurrentAsks
<1>5. Settled(e) => CurrentProcess(e) # None /\ CurrentThread(e) # None
  BY DEF Settled, CurrentThread
<1> DEFINE sameSystem == CurrentSystem(now) = o.system
           p == CurrentProcess(now)
           t == CurrentThread(now)
<1>2. /\ Gives(now, p).e = now /\ Gives(now, p).ok /\ Gives(now, p).value = p
      /\ Gives(now, t).e = now /\ Gives(now, t).ok /\ Gives(now, t).value = t
      /\ Gives(now, TRUE).ok /\ Gives(now, TRUE).value = TRUE
      /\ Gives(now, FALSE).ok /\ Gives(now, FALSE).value = FALSE
      /\ ~Throws(now).ok
  BY DEF Gives, Throws
<1>6. CASE ~a.ok
  <2>1. is = a
    BY <1>6 DEF IsCurrent, Same, Then
  <2> HIDE DEF is, a, now
  <2> QED BY <1>1, <1>4, <1>6, <2>1 DEF is, now
<1>7. CASE a.ok /\ ~sameSystem
  <2>1. is = Gives(now, FALSE)
    BY <1>1, <1>7 DEF IsCurrent, Same, Then
  <2>2. Elsewhere(now, o)
    BY <1>1, <1>7 DEF Elsewhere, AtHome
  <2> HIDE DEF is, a, now
  <2> QED BY <1>1, <1>2, <1>4, <2>1, <2>2 DEF is
<1>8. CASE a.ok /\ sameSystem /\ o.kind = "system"
  <2>1. is = Gives(now, TRUE)
    BY <1>1, <1>8 DEF IsCurrent, Same, Then, Yes
  <2>2. AtHome(now, o)
    BY <1>8 DEF AtHome
  <2> HIDE DEF is, a, now
  <2> QED BY <1>1, <1>2, <1>4, <2>1, <2>2 DEF is
<1>9. CASE a.ok /\ sameSystem /\ o.kind # "system"
  <2>1. is = Same(Answered(now, p), o.process, LAMBDA q :
               IF o.kind = "process" THEN Yes(q) ELSE Same(GetCurrentThreadId(q), o.thread, Yes))
    BY <1>1, <1>9 DEF IsCurrent, Same, Then, GetCurrentProcessId
  <2>2. CASE p = None
    <3>1. Answered(now, p) = Throws(now)
      BY <2>2 DEF Answered
    <3>2. is = Throws(now)
      BY <1>2, <2>1, <3>1 DEF Same, Then
    <3>3. ~Settled(e)
      BY <1>1, <1>5, <2>2
    <3> HIDE DEF is, a, now, p
    <3> QED BY <1>1, <1>2, <1>4, <3>2, <3>3 DEF is
  <2>3. CASE p # None /\ p # o.process
    <3>1. Answered(now, p) = Gives(now, p)
      BY <2>3 DEF Answered
    <3>2. is = Gives(now, FALSE)
      BY <1>2, <2>1, <2>3, <3>1 DEF Same, Then
    <3>3. Elsewhere(now, o)
      BY <1>1, <1>9, <2>3 DEF Elsewhere, AtHome
    <3> HIDE DEF is, a, now, p
    <3> QED BY <1>1, <1>2, <1>4, <3>2, <3>3 DEF is
  <2>4. CASE p # None /\ p = o.process /\ o.kind = "process"
    <3>1. Answered(now, p) = Gives(now, p)
      BY <2>4 DEF Answered
    <3>2. is = Gives(now, TRUE)
      BY <1>2, <2>1, <2>4, <3>1 DEF Same, Then, Yes
    <3>3. AtHome(now, o)
      BY <1>9, <2>4 DEF AtHome
    <3> HIDE DEF is, a, now, p
    <3> QED BY <1>1, <1>2, <1>4, <3>2, <3>3 DEF is
  <2>5. CASE p # None /\ p = o.process /\ o.kind # "process"
    <3>1. Answered(now, p) = Gives(now, p)
      BY <2>5 DEF Answered
    <3>2. is = Same(Answered(now, t), o.thread, Yes)
      BY <1>2, <2>1, <2>5, <3>1 DEF Same, Then, GetCurrentThreadId
    <3>3. o.kind = "thread"
      BY <1>3, <1>9, <2>5
    <3>4. CASE t = None
      <4>1. Answered(now, t) = Throws(now)
        BY <3>4 DEF Answered
      <4>2. is = Throws(now)
        BY <1>2, <3>2, <4>1 DEF Same, Then
      <4>3. ~Settled(e)
        BY <1>1, <1>5, <3>4
      <4> HIDE DEF is, a, now, p, t
      <4> QED BY <1>1, <1>2, <1>4, <4>2, <4>3 DEF is
    <3>5. CASE t # None /\ t = o.thread
      <4>1. Answered(now, t) = Gives(now, t)
        BY <3>5 DEF Answered
      <4>2. is = Gives(now, TRUE)
        BY <1>2, <3>2, <3>5, <4>1 DEF Same, Then, Yes
      <4>3. AtHome(now, o)
        BY <1>9, <2>5, <3>5 DEF AtHome
      <4> HIDE DEF is, a, now, p, t
      <4> QED BY <1>1, <1>2, <1>4, <4>2, <4>3 DEF is
    <3>6. CASE t # None /\ t # o.thread
      <4>1. Answered(now, t) = Gives(now, t)
        BY <3>6 DEF Answered
      <4>2. is = Gives(now, FALSE)
        BY <1>2, <3>2, <3>6, <4>1 DEF Same, Then
      <4>3. Elsewhere(now, o)
        BY <1>1, <1>9, <2>5, <3>3, <3>6 DEF Elsewhere, AtHome
      <4> HIDE DEF is, a, now, p, t
      <4> QED BY <1>1, <1>2, <1>4, <4>2, <4>3 DEF is
    <3> QED BY <3>4, <3>5, <3>6
  <2> QED BY <2>2, <2>3, <2>4, <2>5
<1>10. QED
  BY <1>6, <1>7, <1>8, <1>9

(* Made current.                                                           *)
Arrives(e, a, o) == a.ok => AtHome(a.e, o) /\ Settled(a.e) /\ Keeps(e, a.e, o)

LEMMA ObjectsAre ==
  ASSUME NEW o \in Objects
  PROVE  /\ o.kind \in {"system", "process", "thread"}
         /\ o.system \in Systems
         /\ o.kind # "system" => o.process \in Processes /\ o.system = SystemOf[o.process]
         /\ o.kind = "thread" => o.thread \in Threads /\ o.process = ProcessOf[o.thread]
BY IdsAre DEF Objects, SystemObject, ProcessObject, ThreadObject

LEMMA ChoosingArrives ==
  ASSUME NEW e, Sound(e), NEW o \in Objects
  PROVE  /\ o.kind = "system" => LET a == SetCurrentSystemById(e, o.system) IN
              Arrives(e, a, o) /\ (a.ok <=> Alive(e, o))
         /\ o.kind = "process" => LET a == SetCurrentProcessById(e, o.process) IN
              Arrives(e, a, o) /\ (a.ok <=> ~IsKernelDebugging(e) /\ Alive(e, o))
         /\ o.kind = "thread" => LET a == SetCurrentThreadById(e, o.thread) IN
              Arrives(e, a, o) /\ (a.ok <=> Alive(e, o))
<1>1. e.live \subseteq Threads /\ None \notin Threads
  BY IdsAre DEF Sound, Shaped
<1>2. /\ \A d : Gives(d, None).ok /\ Gives(d, None).e = d
      /\ ~Throws(e).ok
  BY DEF Gives, Throws
<1>3. ASSUME o.kind = "system"
      PROVE  LET a == SetCurrentSystemById(e, o.system) IN Arrives(e, a, o) /\ (a.ok <=> Alive(e, o))
  <2> DEFINE a == SetCurrentSystemById(e, o.system)
             d == SelectSystem(e, o.system)
  <2>1. Alive(e, o) <=> o.system \in LiveSystems(e)
    BY <1>3 DEF Alive
  <2>2. CASE o.system \notin LiveSystems(e)
    <3>1. a = Throws(e)
      BY <2>2 DEF SetCurrentSystemById
    <3> QED BY <1>2, <2>1, <2>2, <3>1 DEF Arrives
  <2>3. CASE o.system \in LiveSystems(e)
    <3>1. a = Gives(d, None)
      BY <2>3 DEF SetCurrentSystemById
    <3>2. CurrentSystem(d) = o.system /\ Settled(d)
      BY <2>3, SelectSystemResumes
    <3>3. Keeps(e, d, o)
      BY SelectSystemKeepsAll
    <3>4. AtHome(d, o)
      BY <1>3, <3>2 DEF AtHome
    <3> HIDE DEF a, d
    <3> QED BY <1>2, <2>1, <2>3, <3>1, <3>2, <3>3, <3>4 DEF Arrives, a
  <2> QED BY <2>2, <2>3
<1>4. ASSUME o.kind = "process"
      PROVE  LET a == SetCurrentProcessById(e, o.process) IN
             Arrives(e, a, o) /\ (a.ok <=> ~IsKernelDebugging(e) /\ Alive(e, o))
  <2> DEFINE a == SetCurrentProcessById(e, o.process)
             d == SelectProcess(e, o.process)
  <2>1. Alive(e, o) <=> o.process \in LiveProcesses(e)
    BY <1>4 DEF Alive
  <2>2. CASE IsKernelDebugging(e) \/ o.process \notin LiveProcesses(e)
    <3>1. a = Throws(e)
      BY <2>2 DEF SetCurrentProcessById
    <3> QED BY <1>2, <2>1, <2>2, <3>1 DEF Arrives
  <2>3. CASE ~IsKernelDebugging(e) /\ o.process \in LiveProcesses(e)
    <3>1. a = Gives(d, None)
      BY <2>3 DEF SetCurrentProcessById
    <3>2. /\ CurrentProcess(d) = o.process /\ CurrentSystem(d) = o.system
          /\ CurrentThread(d) \in e.live
          /\ Kin(e, d)
      BY <1>4, <2>3, SelectProcessKeeps, ObjectsAre
    <3>3. Keeps(e, d, o)
      BY <1>4, <3>2, SelectProcessWakes, ObjectsAre DEF Keeps
    <3>4. AtHome(d, o) /\ Settled(d)
      BY <1>1, <1>4, <3>2 DEF AtHome, Settled
    <3> HIDE DEF a, d
    <3> QED BY <1>2, <2>1, <2>3, <3>1, <3>3, <3>4 DEF Arrives, a
  <2> QED BY <2>2, <2>3
<1>5. ASSUME o.kind = "thread"
      PROVE  LET a == SetCurrentThreadById(e, o.thread) IN Arrives(e, a, o) /\ (a.ok <=> Alive(e, o))
  <2> DEFINE a == SetCurrentThreadById(e, o.thread)
             d == SelectThread(e, o.thread)
  <2>1. Alive(e, o) <=> o.thread \in e.live
    BY <1>5 DEF Alive
  <2>2. CASE o.thread \notin e.live
    <3>1. a = Throws(e)
      BY <2>2 DEF SetCurrentThreadById
    <3> QED BY <1>2, <2>1, <2>2, <3>1 DEF Arrives
  <2>3. CASE o.thread \in e.live
    <3>1. a = Gives(d, None)
      BY <2>3 DEF SetCurrentThreadById
    <3>2. /\ CurrentThread(d) = o.thread
          /\ CurrentProcess(d) = o.process /\ CurrentSystem(d) = o.system
          /\ Kin(e, d)
      BY <1>5, <2>3, SelectThreadKeeps, ObjectsAre
    <3>3. Keeps(e, d, o)
      BY <1>5, <3>2 DEF Keeps
    <3>4. AtHome(d, o) /\ Settled(d)
      BY <1>1, <1>5, <2>3, <3>2 DEF AtHome, Settled
    <3> HIDE DEF a, d
    <3> QED BY <1>2, <2>1, <2>3, <3>1, <3>3, <3>4 DEF Arrives, a
  <2> QED BY <2>2, <2>3
<1>6. QED
  BY <1>3, <1>4, <1>5

(* A debugged kernel has one process, so it needs no switch.               *)
LEMMA SwitchingArrives ==
  ASSUME NEW e, Sound(e), NEW o \in Objects, Elsewhere(e, o)
  PROVE  LET a == SwitchContext(e, o) IN
         /\ Arrives(e, a, o)
         /\ Settled(e) /\ Alive(e, o) => a.ok
<1> DEFINE a == SwitchContext(e, o)
           s == CurrentSystem(e)
           p == CurrentProcess(e)
           t == CurrentThread(e)
<1>1. /\ o.kind \in {"system", "process", "thread"}
      /\ s \in Systems \cup {None} /\ s # None
      /\ p # None => p \in Processes /\ SystemOf[p] = s
      /\ t # None => p \in Processes /\ ProcessOf[t] = p
  BY ObjectsAre, CurrentIs DEF Elsewhere
<1>2. CASE o.kind = "system"
  <2>1. a = SetCurrentSystemById(e, o.system)
    BY <1>2 DEF SwitchContext
  <2> HIDE DEF a
  <2> QED BY <1>2, <2>1, ChoosingArrives DEF a
<1>3. CASE o.kind = "thread"
  <2> DEFINE b == SetCurrentThreadById(e, o.thread)
  <2>1. CASE t = None
    <3>1. GetCurrentThreadId(e) = Throws(e) /\ ~Throws(e).ok
      BY <2>1 DEF GetCurrentThreadId, Answered, Throws
    <3>2. a = Throws(e)
      BY <1>3, <3>1 DEF SwitchContext, Then
    <3>3. ~Settled(e)
      BY <2>1 DEF Settled
    <3> HIDE DEF a
    <3> QED BY <3>1, <3>2, <3>3 DEF Arrives, a
  <2>2. CASE t # None
    <3>1. GetCurrentThreadId(e) = Gives(e, t)
      BY <2>2 DEF GetCurrentThreadId, Answered
    <3>2. t # o.thread
      <4>1. p # None
        BY <1>1, <2>2, IdsAre
      <4>2. t = o.thread => s = o.system /\ p = o.process
        BY <1>1, <1>3, <2>2, <4>1, ObjectsAre
      <4> QED BY <1>3, <4>2 DEF Elsewhere, AtHome
    <3>3. Gives(e, t).ok /\ Gives(e, t).e = e /\ Gives(e, t).value = t
      BY DEF Gives
    <3>4. a = b
      BY <1>3, <3>1, <3>2, <3>3 DEF SwitchContext, Then
    <3> HIDE DEF a, b
    <3> QED BY <1>3, <3>4, ChoosingArrives DEF a, b
  <2> QED BY <2>1, <2>2
<1>4. CASE o.kind = "process"
  <2> DEFINE At(there) ==
               IF IsKernelDebugging(there) THEN Gives(there, None)
               ELSE Then(GetCurrentProcessId(there), LAMBDA then, x :
                      IF x # o.process THEN SetCurrentProcessById(then, o.process) ELSE Gives(then, None))
  <2>1. o.process \in Processes /\ o.system = SystemOf[o.process]
    BY <1>4, ObjectsAre
  <2>2. GetCurrentSystemId(e) = Gives(e, s) /\ Gives(e, s).ok /\ Gives(e, s).e = e /\ Gives(e, s).value = s
    BY <1>1 DEF GetCurrentSystemId, Gives
  <2>3. a = Then(IF s # o.system THEN SetCurrentSystemById(e, o.system) ELSE Gives(e, None),
                 LAMBDA there, unused : At(there))
    <3>1. a = SwitchToProcess(e, o)
      BY <1>4 DEF SwitchContext
    <3> QED BY <2>2, <3>1 DEF SwitchToProcess, Then
  <2>4. ASSUME NEW there, Sound(there), CurrentProcess(there) # None, CurrentProcess(there) # o.process,
               CurrentSystem(there) = o.system
        PROVE  At(there) = SetCurrentProcessById(there, o.process) /\ ~IsKernelDebugging(there)
    <3> DEFINE x == CurrentProcess(there)
    <3>1. ~IsKernelDebugging(there)
      BY <2>1, <2>4, CurrentIs, TargetsAssumption DEF IsKernelDebugging
    <3>2. GetCurrentProcessId(there) = Gives(there, x)
      BY <2>4 DEF GetCurrentProcessId, Answered
    <3>3. Gives(there, x).ok /\ Gives(there, x).e = there /\ Gives(there, x).value = x
      BY DEF Gives
    <3> QED BY <2>4, <3>1, <3>2, <3>3 DEF Then
  <2>5. ASSUME NEW there, CurrentProcess(there) = o.process, o.process # None
        PROVE  At(there) = Gives(there, None)
    <3>1. GetCurrentProcessId(there) = Gives(there, o.process)
      BY <2>5 DEF GetCurrentProcessId, Answered
    <3>2. Gives(there, o.process).ok /\ Gives(there, o.process).e = there /\ Gives(there, o.process).value = o.process
      BY DEF Gives
    <3> QED BY <3>1, <3>2 DEF Then
  <2> HIDE DEF At
  <2>6. o.process # None
    BY <2>1, IdsAre
  <2>7. CASE s = o.system
    <3>1. p # None /\ p # o.process
      BY <1>4, <2>7 DEF Elsewhere, AtHome
    <3>2. Gives(e, None).ok /\ Gives(e, None).e = e
      BY DEF Gives
    <3>3. a = At(e)
      BY <2>3, <2>7, <3>2 DEF Then
    <3>4. a = SetCurrentProcessById(e, o.process) /\ ~IsKernelDebugging(e)
      BY <2>4, <2>7, <3>1, <3>3
    <3> HIDE DEF a
    <3> QED BY <1>4, <3>4, ChoosingArrives DEF a
  <2>8. CASE s # o.system /\ o.system \notin LiveSystems(e)
    <3>1. SetCurrentSystemById(e, o.system) = Throws(e) /\ ~Throws(e).ok
      BY <2>8 DEF SetCurrentSystemById, Throws
    <3>2. a = Throws(e)
      BY <2>3, <2>8, <3>1 DEF Then
    <3>3. ~Alive(e, o)
      BY <1>4, <2>1, <2>8 DEF Alive, LiveSystems
    <3> HIDE DEF a
    <3> QED BY <3>1, <3>2, <3>3 DEF Arrives, a
  <2>9. CASE s # o.system /\ o.system \in LiveSystems(e)
    <3> DEFINE there == SelectSystem(e, o.system)
    <3>1. SetCurrentSystemById(e, o.system) = Gives(there, None)
      BY <2>9 DEF SetCurrentSystemById
    <3>2. \A d : Gives(d, None).ok /\ Gives(d, None).e = d
      BY DEF Gives
    <3>3. a = At(there)
      BY <2>3, <2>9, <3>1, <3>2 DEF Then
    <3>4. CurrentSystem(there) = o.system /\ Settled(there) /\ Keeps(e, there, o)
      BY <2>9, SelectSystemResumes, SelectSystemKeepsAll
    <3> HIDE DEF a, there
    <3>5. CurrentProcess(there) # None
      BY <3>4 DEF Settled, CurrentThread
    <3>6. CASE CurrentProcess(there) = o.process
      <4>1. a = Gives(there, None)
        BY <2>5, <2>6, <3>3, <3>6
      <4>2. AtHome(there, o)
        BY <1>4, <3>4, <3>6 DEF AtHome
      <4> QED BY <3>2, <3>4, <4>1, <4>2 DEF Arrives, a
    <3>7. CASE CurrentProcess(there) # o.process
      <4>1. Sound(there) /\ (Alive(e, o) => Alive(there, o))
        BY <1>4, <3>4 DEF Keeps, Kin, Alive, LiveProcesses
      <4>2. a = SetCurrentProcessById(there, o.process) /\ ~IsKernelDebugging(there)
        BY <2>4, <3>3, <3>4, <3>5, <3>7, <4>1
      <4>3. Arrives(there, a, o) /\ (Alive(there, o) => a.ok)
        BY <1>4, <4>1, <4>2, ChoosingArrives
      <4>4. a.ok => Keeps(e, a.e, o)
        BY <3>4, <4>3, KeepsTransitive DEF Arrives
      <4> QED BY <4>1, <4>3, <4>4 DEF Arrives, a
    <3> QED BY <3>6, <3>7
  <2> QED BY <2>7, <2>8, <2>9
<1>5. QED
  BY <1>1, <1>2, <1>3, <1>4

(* An answer is given by what is current when the target of the object is, *)
(* or it is refused.                                                       *)
LEMMA AskedAtHome ==
  ASSUME NEW e, Sound(e), NEW o \in Objects, NEW q, ~(o.kind = "thread" /\ q[1] = "process")
  PROVE  LET a == AnswerOf(e, o, q) IN
         \/ ~a.ok /\ (Settled(e) => ~Alive(e, o))
         \/ \E h : /\ AtHome(h, o) /\ Keeps(e, h, o)
                   /\ Settled(e) => Settled(h)
                   /\ a.ok = Asked(h, o, q).ok /\ a.value = Asked(h, o, q).value
<1> DEFINE a == AnswerOf(e, o, q)
           is == IsCurrent(e, o)
           now == is.e
           in == [now EXCEPT !.quiet = TRUE]
           there == SwitchContext(in, o)
           Goal(b) == \/ ~b.ok /\ (Settled(e) => ~Alive(e, o))
                      \/ \E h : /\ AtHome(h, o) /\ Keeps(e, h, o)
                                /\ Settled(e) => Settled(h)
                                /\ b.ok = Asked(h, o, q).ok /\ b.value = Asked(h, o, q).value
<1> SUFFICES Goal(a)
  OBVIOUS
<1>1. /\ Keeps(e, now, o)
      /\ is.ok => is.value \in BOOLEAN
      /\ is.ok /\ is.value = TRUE => AtHome(now, o)
      /\ is.ok /\ is.value = FALSE => Elsewhere(now, o)
      /\ Settled(e) => is.ok /\ now = e
  BY IsCurrentTells
<1>2. a = Then(is, LAMBDA here, current :
            IF current THEN Asked(here, o, q)
            ELSE Within(here, LAMBDA inside : Then(SwitchContext(inside, o), LAMBDA home, unused : Asked(home, o, q))))
  BY DEF AnswerOf, About
<1>3. CASE ~is.ok
  <2>1. a = is
    BY <1>2, <1>3 DEF Then
  <2> HIDE DEF a, is
  <2> QED BY <1>1, <1>3, <2>1
<1>4. CASE is.ok /\ is.value = TRUE
  <2>1. a = Asked(now, o, q)
    BY <1>2, <1>4 DEF Then
  <2>2. AtHome(now, o) /\ Keeps(e, now, o) /\ (Settled(e) => Settled(now))
    BY <1>1, <1>4
  <2> HIDE DEF a, now
  <2> QED BY <2>1, <2>2
<1>5. CASE is.ok /\ is.value = FALSE
  <2> DEFINE b == Then(there, LAMBDA home, unused : Asked(home, o, q))
  <2>1. a.ok = b.ok /\ a.value = b.value
    <3>1. a = [e |-> Restored(b.e, Saved(now)), ok |-> b.ok, value |-> b.value]
      BY <1>2, <1>5 DEF Then, Within
    <3> HIDE DEF a, b
    <3> QED BY <3>1
  <2>2. /\ Sound(now) /\ Kin(now, in)
        /\ in.process = now.process /\ in.thread = now.thread /\ in.system = now.system
    <3>1. Sound(now)
      BY <1>1 DEF Keeps, Kin
    <3>2. Kin(now, in)
      BY <3>1, QuietIsKin
    <3>3. now = [f \in Fields |-> now[f]]
      BY <3>1 DEF Sound, Shaped
    <3>4. in.process = now.process /\ in.thread = now.thread /\ in.system = now.system
      <4> HIDE DEF now
      <4> QED BY <3>3 DEF Fields
    <3> QED BY <3>1, <3>2, <3>4
  <2> HIDE DEF a, b, in, now
  <2>3. /\ CurrentSystem(in) = CurrentSystem(now) /\ CurrentProcess(in) = CurrentProcess(now)
        /\ CurrentThread(in) = CurrentThread(now)
    BY <2>2 DEF CurrentSystem, CurrentProcess, CurrentThread
  <2>4. Sound(in) /\ Elsewhere(in, o) /\ Keeps(e, in, o)
    <3>1. Elsewhere(in, o)
      BY <1>1, <1>5, <2>3 DEF Elsewhere, AtHome, now
    <3>2. Keeps(now, in, o)
      BY <2>2, AlikeKeep
    <3> QED BY <1>1, <2>2, <3>1, <3>2, KeepsTransitive DEF Kin, now
  <2>5. Arrives(in, there, o) /\ (Settled(in) /\ Alive(in, o) => there.ok)
    BY <2>4, SwitchingArrives
  <2>6. CASE there.ok
    <3>1. b = Asked(there.e, o, q)
      BY <2>6 DEF Then, b
    <3>2. AtHome(there.e, o) /\ Settled(there.e) /\ Keeps(e, there.e, o)
      BY <2>4, <2>5, <2>6, KeepsTransitive DEF Arrives
    <3> HIDE DEF there
    <3> QED BY <2>1, <3>1, <3>2
  <2>7. CASE ~there.ok
    <3>1. b = there
      BY <2>7 DEF Then, b
    <3>2. Settled(e) => Settled(in)
      BY <1>1, <2>3 DEF Settled, now
    <3>3. Alive(e, o) => Alive(in, o)
      BY <2>4 DEF Keeps, Kin, Alive, LiveProcesses, LiveSystems
    <3>4. ~b.ok /\ (Settled(e) => ~Alive(e, o))
      BY <2>5, <2>7, <3>1, <3>2, <3>3
    <3> QED BY <2>1, <3>4
  <2> QED BY <2>6, <2>7
<1>6. QED
  BY <1>1, <1>3, <1>4, <1>5

(* What is current is there.                                               *)
LEMMA HomeIsAlive ==
  ASSUME NEW e, NEW h, NEW o \in Objects, Kin(e, h), AtHome(h, o)
  PROVE  Alive(e, o)
<1>1. Sound(h) /\ h.live = e.live
  BY DEF Kin
<1>2. /\ CurrentSystem(h) # None => CurrentSystem(h) \in LiveSystems(h)
      /\ CurrentProcess(h) # None => CurrentProcess(h) \in LiveProcesses(h)
      /\ CurrentThread(h) # None => CurrentThread(h) \in h.live
  BY <1>1, CurrentIs
<1>3. LiveSystems(h) = LiveSystems(e) /\ LiveProcesses(h) = LiveProcesses(e)
  BY <1>1 DEF LiveSystems, LiveProcesses
<1>4. /\ o.kind \in {"system", "process", "thread"} /\ o.system # None
      /\ o.kind # "system" => o.process # None
      /\ o.kind = "thread" => o.thread # None
  BY ObjectsAre, IdsAre
<1>5. CASE o.kind = "system"
  BY <1>2, <1>3, <1>4, <1>5 DEF AtHome, Alive
<1>6. CASE o.kind = "process"
  BY <1>2, <1>3, <1>4, <1>6 DEF AtHome, Alive
<1>7. CASE o.kind = "thread"
  BY <1>1, <1>2, <1>4, <1>7 DEF AtHome, Alive
<1>8. QED
  BY <1>4, <1>5, <1>6, <1>7

LEMMA AskedAnswersRight ==
  ASSUME NEW h, Sound(h), NEW o \in Objects, AtHome(h, o), NEW q \in Questions(o),
         ~(o.kind = "thread" /\ q[1] = "process")
  PROVE  Right(h, Asked(h, o, q), Should(h, o, q))
<1>1. CASE o.kind = "system"
  <2>1. o.system \in Systems /\ o = SystemObject(o.system)
    BY <1>1 DEF Objects, SystemObject, ProcessObject, ThreadObject
  <2>2. CurrentSystem(h) = o.system
    BY DEF AtHome
  <2>3. Right(h, SystemAnswer(h, q), SystemShould(h, o.system, q))
    BY <2>1, <2>2, SystemsAnswerRight
  <2> QED BY <1>1, <2>3 DEF Asked, Should
<1>2. CASE o.kind = "process"
  <2>1. o.process \in Processes /\ o = ProcessObject(SystemOf[o.process], o.process)
    BY <1>2 DEF Objects, SystemObject, ProcessObject, ThreadObject
  <2>2. CurrentProcess(h) = o.process
    BY <1>2 DEF AtHome
  <2>3. Right(h, ProcessAnswer(h, o, q), ProcessShould(h, o.process, q))
    BY <2>1, <2>2, ProcessesAnswerRight
  <2> QED BY <1>2, <2>3 DEF Asked, Should
<1>3. CASE o.kind = "thread"
  <2>1. o.thread \in Threads /\ o = ThreadObject(SystemOf[ProcessOf[o.thread]], ProcessOf[o.thread], o.thread)
    BY <1>3 DEF Objects, SystemObject, ProcessObject, ThreadObject
  <2>2. CurrentThread(h) = o.thread
    BY <1>3 DEF AtHome
  <2>3. Right(h, ThreadAnswer(h, q), ThreadShould(o.thread, q))
    BY <1>3, <2>1, <2>2, ThreadsAnswerRight
  <2> QED BY <1>3, <2>3 DEF Asked, Should
<1>4. QED
  BY <1>1, <1>2, <1>3, ObjectsAre

(* It should answer where it is what it should answer from anywhere.       *)
LEMMA ShouldIsKept ==
  ASSUME NEW e, NEW h, NEW o \in Objects, Keeps(e, h, o), NEW q
  PROVE  Should(h, o, q) = Should(e, o, q)
<1>1. /\ \A s : ProcessesIn(h, s) = ProcessesIn(e, s)
      /\ \A p : ThreadsIn(h, p) = ThreadsIn(e, p)
  BY DEF Keeps, Kin, ProcessesIn, LiveProcesses, ThreadsIn
<1>2. CASE o.kind = "system"
  <2>1. OrFirst(h.process[o.system], ProcessesIn(h, o.system)) = OrFirst(e.process[o.system], ProcessesIn(e, o.system))
    BY <1>2 DEF Keeps, Resumes
  <2>2. SystemShould(h, o.system, q) = SystemShould(e, o.system, q)
    BY <1>1, <2>1 DEF SystemShould
  <2> QED BY <1>2, <2>2 DEF Should
<1>3. CASE o.kind = "process"
  <2>1. OrFirst(h.thread[o.process], ThreadsIn(h, o.process)) = OrFirst(e.thread[o.process], ThreadsIn(e, o.process))
    BY <1>3 DEF Keeps, Wakes
  <2>2. ProcessShould(h, o.process, q) = ProcessShould(e, o.process, q)
    BY <1>1, <2>1 DEF ProcessShould
  <2> QED BY <1>3, <2>2 DEF Should
<1>4. CASE o.kind = "thread"
  BY <1>4 DEF Should
<1>5. QED
  BY <1>2, <1>3, <1>4, ObjectsAre

LEMMA AnswersAreRight ==
  ASSUME NEW e, Sound(e), NEW o \in Objects, NEW q \in Questions(o)
  PROVE  LET a == AnswerOf(e, o, q) IN
         IF ~Answerable(e, o, q) THEN ~a.ok
         ELSE Agrees(a, Should(e, o, q)) \/ (MayRefuse(e, o, q) /\ ~a.ok)
<1> DEFINE a == AnswerOf(e, o, q)
<1>1. CASE o.kind = "thread" /\ q[1] = "process"
  <2> DEFINE p == o.process
  <2>1. o.thread \in Threads /\ p = ProcessOf[o.thread] /\ o.system = SystemOf[p]
    BY <1>1, ObjectsAre
  <2>2. a = ProcessById(e, p)
    BY <1>1 DEF AnswerOf
  <2>3. q = <<"process">>
    BY <1>1 DEF Questions
  <2>4. Should(e, o, q) = ThreadShould(o.thread, <<"process">>)
    BY <1>1, <2>3 DEF Should
  <2>5. /\ Answerable(e, o, q) <=> p \in LiveProcesses(e)
        /\ CurrentSystem(e) # o.system => MayRefuse(e, o, q)
    BY <1>1 DEF Answerable, MayRefuse, CurrentSystem
  <2> HIDE DEF a, p
  <2>6. /\ p \in LiveProcesses(e) /\ CurrentSystem(e) = SystemOf[p] => Agrees(a, ThreadShould(o.thread, <<"process">>))
        /\ ~(p \in LiveProcesses(e) /\ CurrentSystem(e) = SystemOf[p]) => ~a.ok
    BY <2>1, <2>2, ProcessIsLookedUp
  <2> QED BY <2>1, <2>4, <2>5, <2>6 DEF a
<1>2. CASE ~(o.kind = "thread" /\ q[1] = "process")
  <2>1. Answerable(e, o, q) <=> Alive(e, o)
    <3>1. q[1] # "process"
      BY <1>2, KindsAre, QuestionsAre
    <3> QED BY <3>1 DEF Answerable
  <2>2. ~Settled(e) => MayRefuse(e, o, q)
    BY DEF MayRefuse
  <2>3. CASE ~a.ok /\ (Settled(e) => ~Alive(e, o))
    BY <2>1, <2>2, <2>3
  <2>4. ASSUME NEW h, AtHome(h, o), Keeps(e, h, o), Settled(e) => Settled(h),
               a.ok = Asked(h, o, q).ok, a.value = Asked(h, o, q).value
        PROVE  IF ~Answerable(e, o, q) THEN ~a.ok
               ELSE Agrees(a, Should(e, o, q)) \/ (MayRefuse(e, o, q) /\ ~a.ok)
    <3>1. Kin(e, h) /\ Sound(h)
      BY <2>4 DEF Keeps, Kin
    <3>2. Alive(e, o)
      BY <2>4, <3>1, HomeIsAlive
    <3>3. Right(h, Asked(h, o, q), Should(e, o, q))
      BY <1>2, <2>4, <3>1, AskedAnswersRight, ShouldIsKept
    <3>4. Agrees(Asked(h, o, q), Should(e, o, q)) => Agrees(a, Should(e, o, q))
      <4> HIDE DEF a
      <4> QED BY <2>4 DEF Agrees
    <3>5. ~Asked(h, o, q).ok => ~a.ok
      BY <2>4
    <3> HIDE DEF a
    <3> QED BY <2>1, <2>2, <2>4, <3>2, <3>3, <3>4, <3>5 DEF Right
  <2> QED BY <1>2, <2>3, <2>4, AskedAtHome
<1>3. QED
  BY <1>1, <1>2

(* What is made current is there, and is current.                          *)
LEMMA ChoosingIsRight ==
  ASSUME NEW e, Sound(e), NEW o \in Objects
  PROVE  LET chosen == SetCurrent(e, o) IN
         /\ chosen.ok => Alive(e, o) /\ IsCurrent(chosen.e, o) = Gives(chosen.e, TRUE)
         /\ Alive(e, o) /\ Settled(e) => chosen.ok
<1> DEFINE chosen == SetCurrent(e, o)
           is == IsCurrent(e, o)
           now == is.e
<1>1. /\ chosen.ok => AtHome(chosen.e, o) /\ Kin(e, chosen.e)
      /\ Alive(e, o) /\ Settled(e) => chosen.ok
  <2>1. CASE o.kind = "system"
    <3>1. chosen = SetCurrentSystemById(e, o.system)
      BY <2>1 DEF SetCurrent, SwitchContext
    <3> HIDE DEF chosen
    <3> QED BY <2>1, <3>1, ChoosingArrives DEF Arrives, Keeps
  <2>2. CASE o.kind # "system"
    <3>1. chosen = Then(is, LAMBDA here, current : IF current THEN Gives(here, None) ELSE SwitchContext(here, o))
      BY <2>2 DEF SetCurrent
    <3>2. /\ Keeps(e, now, o)
          /\ is.ok => is.value \in BOOLEAN
          /\ is.ok /\ is.value = TRUE => AtHome(now, o)
          /\ is.ok /\ is.value = FALSE => Elsewhere(now, o)
          /\ Settled(e) => is.ok /\ now = e
      BY IsCurrentTells
    <3>3. CASE ~is.ok
      <4>1. chosen = is
        BY <3>1, <3>3 DEF Then
      <4> HIDE DEF chosen, is
      <4> QED BY <3>2, <3>3, <4>1
    <3>4. CASE is.ok /\ is.value = TRUE
      <4>1. chosen = Gives(now, None)
        BY <3>1, <3>4 DEF Then
      <4>2. Gives(now, None).ok /\ Gives(now, None).e = now
        BY DEF Gives
      <4> HIDE DEF chosen, now
      <4> QED BY <3>2, <3>4, <4>1, <4>2 DEF Keeps
    <3>5. CASE is.ok /\ is.value = FALSE
      <4>1. chosen = SwitchContext(now, o)
        BY <3>1, <3>5 DEF Then
      <4>2. Sound(now) /\ Elsewhere(now, o)
        BY <3>2, <3>5 DEF Keeps, Kin
      <4> HIDE DEF chosen, now
      <4>3. Arrives(now, chosen, o) /\ (Settled(now) /\ Alive(now, o) => chosen.ok)
        BY <4>1, <4>2, SwitchingArrives
      <4>4. chosen.ok => AtHome(chosen.e, o) /\ Kin(e, chosen.e)
        BY <3>2, <4>3, KinTransitive DEF Arrives, Keeps, now
      <4>5. Alive(e, o) /\ Settled(e) => chosen.ok
        BY <3>2, <4>3 DEF now
      <4> QED BY <4>4, <4>5
    <3> QED BY <3>2, <3>3, <3>4, <3>5
  <2> QED BY <2>1, <2>2
<1> HIDE DEF chosen
<1>2. chosen.ok => Alive(e, o)
  BY <1>1, HomeIsAlive
<1>3. chosen.ok => IsCurrent(chosen.e, o) = Gives(chosen.e, TRUE)
  BY <1>1, HomeIsCurrent DEF Kin
<1>4. QED
  BY <1>1, <1>2, <1>3 DEF chosen

-----------------------------------------------------------------------------
(* A set with 0, and with the successor of each of its elements below n,   *)
(* has all numbers to n.                                                   *)
LEMMA Climbing ==
  ASSUME NEW n \in Nat, NEW S, 0 \in S, \A k \in 0..(n - 1) : k \in S => k + 1 \in S
  PROVE  \A k \in 0..n : k \in S
<1> DEFINE others == {k \in 0..n : k \notin S}
<1> SUFFICES ASSUME others # {} PROVE FALSE
  OBVIOUS
<1>1. others \subseteq Nat
  OBVIOUS
<1>2. PICK k \in others : \A i \in others : k <= i
  <2> HIDE DEF others
  <2> QED BY <1>1, LeastExists
<1>3. k # 0 /\ k - 1 \in 0..(n - 1) /\ k - 1 \notin S
  BY <1>2
<1> QED
  BY <1>2, <1>3

(* Where the parts of a row begin, given how long they are.                *)
Begins(start, len, n) ==
  /\ start \in [0..n -> Nat] /\ start[0] = 0
  /\ \A k \in 1..n : start[k] = start[k - 1] + len[k]

BeginsAt(start, k, l) == start[k - 1] \in Nat /\ start[k] = start[k - 1] + l

LEMMA PartsBegin ==
  ASSUME NEW n \in Nat, NEW start, NEW len, Begins(start, len, n), NEW k \in 1..n
  PROVE  BeginsAt(start, k, len[k])
<1>1. k - 1 \in 0..n
  OBVIOUS
<1> QED
  BY <1>1 DEF Begins, BeginsAt

LEMMA StartsExist ==
  ASSUME NEW n \in Nat, NEW len \in [1..n -> Nat]
  PROVE  \E start : Begins(start, len, n)
<1> DEFINE S == {m \in 0..n : \E start : Begins(start, len, m)}
<1>1. 0 \in S
  <2> DEFINE start == [k \in 0..0 |-> 0]
  <2>1. Begins(start, len, 0)
    BY DEF Begins
  <2> QED BY <2>1
<1>2. ASSUME NEW m \in 0..(n - 1), m \in S PROVE m + 1 \in S
  <2>1. PICK start : Begins(start, len, m)
    BY <1>2
  <2> DEFINE next == [k \in 0..(m + 1) |-> IF k = m + 1 THEN start[m] + len[k] ELSE start[k]]
  <2>2. \A k \in 0..m : next[k] = start[k] /\ start[k] \in Nat
    BY <2>1 DEF Begins
  <2>3. next[m + 1] = start[m] + len[m + 1] /\ next[m + 1] \in Nat
    BY <2>1 DEF Begins
  <2>4. next \in [0..(m + 1) -> Nat]
    <3>1. \A k \in 0..(m + 1) : next[k] \in Nat
      <4> HIDE DEF next
      <4>1. \A k \in 0..(m + 1) : k \in 0..m \/ k = m + 1
        OBVIOUS
      <4> QED BY <2>2, <2>3, <4>1
    <3>2. next = [k \in 0..(m + 1) |-> next[k]]
      OBVIOUS
    <3> HIDE DEF next
    <3> QED BY <3>1, <3>2
  <2>5. ASSUME NEW k \in 1..(m + 1) PROVE next[k] = next[k - 1] + len[k]
    <3> HIDE DEF next
    <3>1. CASE k = m + 1
      BY <2>2, <2>3, <3>1
    <3>2. CASE k \in 1..m
      BY <2>1, <2>2, <3>2 DEF Begins
    <3> QED BY <3>1, <3>2
  <2>6. Begins(next, len, m + 1)
    <3> HIDE DEF next
    <3> QED BY <2>1, <2>2, <2>4, <2>5 DEF Begins
  <2> QED BY <2>6
<1>3. n \in S
  <2> HIDE DEF S
  <2>1. \A m \in 0..(n - 1) : m \in S => m + 1 \in S
    BY <1>2
  <2>2. \A m \in 0..n : m \in S
    BY <1>1, <2>1, Climbing
  <2> QED BY <2>2
<1> QED
  BY <1>3

LEMMA StartsAscend ==
  ASSUME NEW n \in Nat, NEW len \in [1..n -> Nat], NEW start, Begins(start, len, n),
         NEW k \in 0..n, NEW m \in k..n
  PROVE  start[k] \in Nat /\ start[m] \in Nat /\ start[k] <= start[m]
<1> DEFINE T == {i \in 0..n : k <= i => start[k] <= start[i]}
<1>1. start[k] \in Nat /\ start[m] \in Nat
  BY DEF Begins
<1>2. 0 \in T
  BY <1>1
<1>3. ASSUME NEW i \in 0..(n - 1), i \in T PROVE i + 1 \in T
  <2>1. i + 1 \in 1..n /\ (i + 1) - 1 = i
    OBVIOUS
  <2>2. start[i + 1] = start[i] + len[i + 1] /\ start[i] \in Nat /\ len[i + 1] \in Nat
    BY <2>1 DEF Begins
  <2> QED BY <1>1, <1>3, <2>2
<1>4. m \in T
  <2> HIDE DEF T
  <2>1. \A i \in 0..(n - 1) : i \in T => i + 1 \in T
    BY <1>3
  <2>2. \A i \in 0..n : i \in T
    BY <1>2, <2>1, Climbing
  <2> QED BY <2>2
<1> QED
  BY <1>1, <1>4

(* Each place of the row is in one of the parts.                           *)
InParts(i, start, len, n) == \E k \in 1..n : \E j \in 1..len[k] : i = start[k - 1] + j

LEMMA PlacesAreInParts ==
  ASSUME NEW n \in Nat, NEW len \in [1..n -> Nat], NEW start, Begins(start, len, n),
         NEW i \in 1..start[n]
  PROVE  InParts(i, start, len, n)
<1> SUFFICES \E k \in 1..n : \E j \in 1..len[k] : i = start[k - 1] + j
  BY DEF InParts
<1> DEFINE S == {m \in 0..n : i <= start[m] => \E k \in 1..n : \E j \in 1..len[k] : i = start[k - 1] + j}
<1>1. 0 \in S
  BY DEF Begins
<1>2. ASSUME NEW m \in 0..(n - 1), m \in S PROVE m + 1 \in S
  <2>1. start[m] \in Nat /\ start[m + 1] = start[m] + len[m + 1] /\ len[m + 1] \in Nat
    BY DEF Begins
  <2>2. CASE i <= start[m]
    BY <1>2, <2>2
  <2>3. CASE start[m] < i /\ i <= start[m + 1]
    <3> DEFINE j == i - start[m]
    <3>0. i \in Nat
      BY <2>1 DEF Begins
    <3>1. j \in 1..len[m + 1] /\ i = start[(m + 1) - 1] + j /\ m + 1 \in 1..n
      BY <2>1, <2>3, <3>0
    <3> QED BY <3>1
  <2>4. CASE start[m + 1] < i
    BY <2>1, <2>4
  <2> QED BY <2>1, <2>2, <2>3, <2>4
<1>3. n \in S
  <2> HIDE DEF S
  <2>1. \A m \in 0..(n - 1) : m \in S => m + 1 \in S
    BY <1>2
  <2>2. \A m \in 0..n : m \in S
    BY <1>1, <2>1, Climbing
  <2> QED BY <2>2
<1> QED
  BY <1>3

(* What a row of parts is put together from, one part after another.       *)
Joined(f, s, n) == f = [i \in 1..n |-> IF i = 1 THEN s[i] ELSE f[i - 1] \o s[i]]

LEMMA JoinedExists ==
  ASSUME NEW n \in Nat, NEW s
  PROVE  \E f : Joined(f, s, n)
<1> DEFINE S == {m \in 0..n : \E f : Joined(f, s, m)}
<1>1. 0 \in S
  <2> DEFINE f == [i \in 1..0 |-> s]
  <2>1. Joined(f, s, 0)
    BY DEF Joined
  <2> QED BY <2>1
<1>2. ASSUME NEW m \in 0..(n - 1), m \in S PROVE m + 1 \in S
  <2>1. PICK f : Joined(f, s, m)
    BY <1>2
  <2> DEFINE last == IF m + 1 = 1 THEN s[m + 1] ELSE f[m] \o s[m + 1]
             g == [i \in 1..(m + 1) |-> IF i = m + 1 THEN last ELSE f[i]]
  <2>2. ASSUME NEW i \in 1..m PROVE g[i] = IF i = 1 THEN s[i] ELSE g[i - 1] \o s[i]
    <3>1. g[i] = f[i] /\ (i # 1 => g[i - 1] = f[i - 1])
      OBVIOUS
    <3>2. f[i] = IF i = 1 THEN s[i] ELSE f[i - 1] \o s[i]
      BY <2>1 DEF Joined
    <3> HIDE DEF g
    <3> QED BY <3>1, <3>2
  <2>3. g[m + 1] = IF m + 1 = 1 THEN s[m + 1] ELSE g[(m + 1) - 1] \o s[m + 1]
    OBVIOUS
  <2>4. Joined(g, s, m + 1)
    <3>1. \A i \in 1..(m + 1) : i \in 1..m \/ i = m + 1
      OBVIOUS
    <3>2. g = [i \in 1..(m + 1) |-> g[i]]
      OBVIOUS
    <3> HIDE DEF g
    <3>3. \A i \in 1..(m + 1) : g[i] = IF i = 1 THEN s[i] ELSE g[i - 1] \o s[i]
      BY <2>2, <2>3, <3>1
    <3> QED BY <3>2, <3>3 DEF Joined
  <2> QED BY <2>4
<1>3. n \in S
  <2> HIDE DEF S
  <2>1. \A m \in 0..(n - 1) : m \in S => m + 1 \in S
    BY <1>2
  <2>2. \A m \in 0..n : m \in S
    BY <1>1, <2>1, Climbing
  <2> QED BY <2>2
<1> QED
  BY <1>3

(* FlattenSeq lays the parts out in a row.                                 *)
Parts(s, X, len, n) ==
  n \in Nat /\ s \in [1..n -> Seq(X)] /\ len \in [1..n -> Nat] /\ \A k \in 1..n : len[k] = Len(s[k])
LaidOut(row, s, X, start, n) ==
  /\ row \in Seq(X) /\ Len(row) = start[n]
  /\ \A k \in 1..n : \A j \in 1..Len(s[k]) : row[start[k - 1] + j] = s[k][j]

LEMMA FlattenSeqLaysOut ==
  ASSUME NEW n, NEW X, NEW s, NEW len, Parts(s, X, len, n), NEW start, Begins(start, len, n)
  PROVE  LaidOut(FlattenSeq(s), s, X, start, n)
<1> SUFFICES ASSUME n \in Nat, s \in [1..n -> Seq(X)], len \in [1..n -> Nat],
                    \A k \in 1..n : len[k] = Len(s[k])
             PROVE  LaidOut(FlattenSeq(s), s, X, start, n)
  BY DEF Parts
<1> USE DEF LaidOut
<1>1. s \in Seq(Seq(X)) /\ Len(s) = n
  OBVIOUS
<1>2. \A k \in 1..n : start[k] = start[k - 1] + Len(s[k]) /\ start[k - 1] \in Nat /\ start[k] \in Nat
  BY DEF Begins
<1>3. ASSUME NEW k \in 1..n, NEW m \in k..n PROVE start[k] <= start[m]
  <2>1. k \in 0..n
    OBVIOUS
  <2> QED BY <2>1, StartsAscend
<1>4. CASE n = 0
  <2>1. FlattenSeq(s) = s
    BY <1>1, <1>4 DEF FlattenSeq
  <2>2. s \in Seq(X) /\ Len(s) = start[0]
    BY <1>1, <1>4 DEF Begins
  <2> QED BY <1>4, <2>1, <2>2
<1>5. CASE n # 0
  <2> DEFINE f == CHOOSE f : Joined(f, s, n)
  <2>1. Joined(f, s, n)
    BY JoinedExists
  <2>2. FlattenSeq(s) = f[n]
    BY <1>1, <1>5 DEF FlattenSeq, Joined
  <2> HIDE DEF f
  <2>3. /\ f[1] = s[1]
        /\ \A m \in 1..(n - 1) : f[m + 1] = f[m] \o s[m + 1]
    <3>1. \A i \in 1..n : f[i] = IF i = 1 THEN s[i] ELSE f[i - 1] \o s[i]
      BY <2>1 DEF Joined
    <3>2. ASSUME NEW m \in 1..(n - 1) PROVE f[m + 1] = f[m] \o s[m + 1]
      <4>1. m + 1 \in 1..n /\ m + 1 # 1 /\ (m + 1) - 1 = m
        OBVIOUS
      <4> QED BY <3>1, <4>1
    <3>3. f[1] = s[1]
      <4>1. 1 \in 1..n
        BY <1>5
      <4> QED BY <3>1, <4>1
    <3> QED BY <3>2, <3>3
  <2> DEFINE S == {m \in 0..n : m # 0 => LaidOut(f[m], s, X, start, m)}
  <2>4. 0 \in S
    OBVIOUS
  <2>5. ASSUME NEW m \in 0..(n - 1), m \in S PROVE m + 1 \in S
    <3>0. /\ start[m] \in Nat /\ start[m + 1] = start[m] + Len(s[m + 1])
          /\ s[m + 1] \in Seq(X) /\ Len(s[m + 1]) \in Nat /\ start[0] = 0
      <4>1. m + 1 \in 1..n /\ (m + 1) - 1 = m
        OBVIOUS
      <4>2. s[m + 1] \in Seq(X)
        BY <4>1
      <4> QED BY <1>2, <4>1, <4>2 DEF Begins
    <3>1. CASE m = 0
      <4>1. f[m + 1] = s[1]
        BY <2>3, <3>1
      <4>2. LaidOut(s[1], s, X, start, 1)
        BY <3>0, <3>1
      <4> QED BY <3>1, <4>1, <4>2
    <3>2. CASE m # 0
      <4> DEFINE row == f[m]
                 part == s[m + 1]
                 next == row \o part
      <4>1. f[m + 1] = next
        <5>1. m \in 1..(n - 1)
          BY <3>2
        <5> QED BY <2>3, <5>1
      <4>2. LaidOut(row, s, X, start, m)
        BY <2>5, <3>2
      <4> HIDE DEF row, part, f
      <4>3. part \in Seq(X) /\ Len(part) \in Nat /\ start[m] \in Nat /\ start[m + 1] = start[m] + Len(part)
        BY <3>0 DEF part
      <4>4. next \in Seq(X) /\ Len(next) = start[m + 1]
        <5>1. row \in Seq(X) /\ Len(row) = start[m]
          BY <4>2
        <5>2. next \in Seq(X) /\ Len(next) = Len(row) + Len(part)
          <6>1. \A a, b \in Seq(X) : a \o b \in Seq(X) /\ Len(a \o b) = Len(a) + Len(b)
            BY ConcatProperties
          <6> QED BY <4>3, <5>1, <6>1
        <5> HIDE DEF next
        <5> QED BY <4>3, <5>1, <5>2
      <4>5. /\ \A i \in 1..start[m] : next[i] = row[i]
            /\ \A j \in 1..Len(part) : next[start[m] + j] = part[j]
        <5>1. row \in Seq(X) /\ Len(row) = start[m]
          BY <4>2
        <5>2. ASSUME NEW i \in 1..start[m] PROVE next[i] = row[i]
          BY <4>3, <5>1
        <5>3. ASSUME NEW j \in 1..Len(part) PROVE next[start[m] + j] = part[j]
          <6>1. start[m] + j \in 1..(Len(row) + Len(part)) /\ ~(start[m] + j <= Len(row)) /\ (start[m] + j) - Len(row) = j
            BY <4>3, <5>1
          <6>2. \A i \in 1..(Len(row) + Len(part)) :
                  (row \o part)[i] = IF i <= Len(row) THEN row[i] ELSE part[i - Len(row)]
            BY <4>3, <5>1, ConcatProperties
          <6> QED BY <6>1, <6>2
        <5> QED BY <5>2, <5>3
      <4> HIDE DEF next
      <4>6. ASSUME NEW k \in 1..(m + 1), NEW j \in 1..Len(s[k])
            PROVE  next[start[k - 1] + j] = s[k][j]
        <5>1. CASE k = m + 1
          <6>1. j \in 1..Len(part) /\ part[j] = s[k][j] /\ start[k - 1] = start[m]
            BY <5>1 DEF part
          <6> QED BY <4>5, <6>1
        <5>2. CASE k \in 1..m
          <6>1. row[start[k - 1] + j] = s[k][j]
            BY <4>2, <5>2
          <6>2. start[k] = start[k - 1] + Len(s[k]) /\ start[k - 1] \in Nat /\ start[k] \in Nat
            BY <1>2, <5>2
          <6>3. start[k] <= start[m]
            BY <1>3, <5>2
          <6>4. start[k - 1] + j \in 1..start[m]
            <7>1. Len(s[k]) \in Nat
              <8>1. s[k] \in Seq(X)
                BY <5>2
              <8> QED BY <8>1
            <7>2. j \in Nat /\ 1 <= j /\ j <= Len(s[k])
              BY <7>1
            <7>3. \A a, b, c, x \in Nat : 1 <= x /\ x <= b /\ a + b <= c => a + x \in 1..c
              OBVIOUS
            <7> QED BY <4>3, <6>2, <6>3, <7>1, <7>2, <7>3
          <6> QED BY <4>5, <6>1, <6>4
        <5>3. k \in 1..m \/ k = m + 1
          OBVIOUS
        <5> QED BY <5>1, <5>2, <5>3
      <4>7. LaidOut(next, s, X, start, m + 1)
        BY <4>4, <4>6
      <4> QED BY <4>1, <4>7
    <3> QED BY <3>1, <3>2
  <2>6. n \in S
    <3> HIDE DEF S
    <3>1. \A m \in 0..(n - 1) : m \in S => m + 1 \in S
      BY <2>5
    <3>2. \A m \in 0..n : m \in S
      BY <2>4, <3>1, Climbing
    <3> QED BY <3>2
  <2> QED BY <1>5, <2>2, <2>6
<1> QED
  BY <1>4, <1>5

-----------------------------------------------------------------------------
(* Where a frame stands, and how many functions are inlined there, if they *)
(* are asked for.                                                          *)
Spot(ips, k) == IF k = 1 THEN ips[k] ELSE ips[k] - 1
Deep(ips, k, inlineFrames) == IF inlineFrames THEN Len(InlinedAt(Spot(ips, k))) ELSE 0
Widths(ips, inlineFrames) == [k \in 1..Len(ips) |-> Deep(ips, k, inlineFrames) + 1]

LEMMA DeepIsNatural ==
  ASSUME NEW ips, NEW k, NEW inlineFrames
  PROVE  Deep(ips, k, inlineFrames) \in Nat
<1>1. \A f, ip : Len(SitesOf(f, ip)) \in Nat
  BY DEF SitesOf
<1>2. \A ip : Len(InlinedAt(ip)) \in Nat
  BY <1>1 DEF InlinedAt
<1> QED
  BY <1>2 DEF Deep

LEMMA WidthsAre ==
  ASSUME NEW ips \in Seq(Nat), NEW inlineFrames
  PROVE  Len(ips) \in Nat /\ Widths(ips, inlineFrames) \in [1..Len(ips) -> Nat]
BY DeepIsNatural DEF Widths

(* The list of the engine: for each frame those inlined in it, then it.    *)
Arrayed(row, ips, start, inlineFrames) ==
  \A k \in 1..Len(ips) : \A j \in 1..(Deep(ips, k, inlineFrames) + 1) :
    row[start[k - 1] + j] = [k |-> k, ip |-> ips[k], isInline |-> j <= Deep(ips, k, inlineFrames)]

LEMMA WalkedAre ==
  ASSUME NEW e, NEW mode, NEW inlineFrames \in BOOLEAN, NEW ips \in Seq(Nat), Addresses(e, mode) = ips,
         NEW start, Begins(start, Widths(ips, inlineFrames), Len(ips))
  PROVE  /\ Len(Walked(e, mode, inlineFrames)) = start[Len(ips)]
         /\ Arrayed(Walked(e, mode, inlineFrames), ips, start, inlineFrames)
<1> DEFINE n == Len(ips)
           deep(k) == Deep(ips, k, inlineFrames)
           X == [k : Nat, ip : Nat, isInline : BOOLEAN]
           listed(k) == [j \in 1..(deep(k) + 1) |-> [k |-> k, ip |-> ips[k], isInline |-> j <= deep(k)]]
           s == [k \in 1..n |-> listed(k)]
<1>1. Walked(e, mode, inlineFrames) = FlattenSeq(s)
  <2>1. DOMAIN ips = 1..n
    OBVIOUS
  <2> DEFINE sites(k) == IF ~inlineFrames \/ FunctionsAt(Spot(ips, k)) = {} THEN 0
                         ELSE Len(SitesOf(FunctionAt(Spot(ips, k)), Spot(ips, k)))
  <2>2. \A k : sites(k) = deep(k)
    <3>1. Len(<<>>) = 0
      OBVIOUS
    <3> QED BY <3>1 DEF Deep, InlinedAt, HasSymbols
  <2>3. Walked(e, mode, inlineFrames)
          = FlattenSeq([k \in DOMAIN ips |->
                          [i \in 1..(sites(k) + 1) |-> [k |-> k, ip |-> ips[k], isInline |-> i <= sites(k)]]])
    BY DEF Walked, Spot
  <2> HIDE DEF sites, deep
  <2> QED BY <2>1, <2>2, <2>3
<1>2. \A k : deep(k) \in Nat
  BY DeepIsNatural
<1> HIDE DEF deep
<1>3. ASSUME NEW k \in 1..n
      PROVE  listed(k) \in Seq(X) /\ Len(listed(k)) = deep(k) + 1
  <2>1. \A j \in 1..(deep(k) + 1) : [k |-> k, ip |-> ips[k], isInline |-> j <= deep(k)] \in X
    OBVIOUS
  <2> HIDE DEF X
  <2>2. deep(k) + 1 \in Nat
    BY <1>2
  <2>3. listed(k) \in [1..(deep(k) + 1) -> X]
    BY <2>1
  <2> HIDE DEF listed
  <2> QED BY <2>2, <2>3
<1> HIDE DEF X
<1>4. n \in Nat /\ s \in [1..n -> Seq(X)]
  <2> HIDE DEF listed
  <2> QED BY <1>3
<1>5. /\ Widths(ips, inlineFrames) \in [1..n -> Nat]
      /\ \A k \in 1..n : Widths(ips, inlineFrames)[k] = deep(k) + 1
  BY WidthsAre DEF Widths, deep
<1>6. \A k \in 1..n : Len(s[k]) = deep(k) + 1
  <2> HIDE DEF listed
  <2> QED BY <1>3
<1>7. \A k \in 1..n : \A j \in 1..(deep(k) + 1) : s[k][j] = [k |-> k, ip |-> ips[k], isInline |-> j <= deep(k)]
  OBVIOUS
<1> DEFINE entries == FlattenSeq(s)
<1> HIDE DEF s, listed
<1>8. /\ entries \in Seq(X) /\ Len(entries) = start[n]
      /\ \A k \in 1..n : \A j \in 1..Len(s[k]) : entries[start[k - 1] + j] = s[k][j]
  <2>1. Parts(s, X, Widths(ips, inlineFrames), n)
    BY <1>4, <1>5, <1>6 DEF Parts
  <2>2. LaidOut(entries, s, X, start, n)
    <3> HIDE DEF n
    <3>1. Begins(start, Widths(ips, inlineFrames), n)
      BY DEF n
    <3> QED BY <2>1, <3>1, FlattenSeqLaysOut
  <2> HIDE DEF entries
  <2> QED BY <2>2 DEF LaidOut
<1>9. /\ Len(entries) = start[n]
      /\ \A k \in 1..n : \A j \in 1..(deep(k) + 1) :
           entries[start[k - 1] + j] = [k |-> k, ip |-> ips[k], isInline |-> j <= deep(k)]
  <2> HIDE DEF entries
  <2>1. ASSUME NEW k \in 1..n, NEW j \in 1..(deep(k) + 1)
        PROVE  entries[start[k - 1] + j] = [k |-> k, ip |-> ips[k], isInline |-> j <= deep(k)]
    <3>1. j \in 1..Len(s[k])
      BY <1>6
    <3>2. entries[start[k - 1] + j] = s[k][j]
      BY <1>8, <3>1
    <3> QED BY <1>7, <3>2
  <2>2. n \in Nat /\ Len(entries) = start[n]
    BY <1>4, <1>8
  <2> QED BY <2>1, <2>2
<1>10. Len(entries) = start[Len(ips)] /\ Arrayed(entries, ips, start, inlineFrames)
  <2> HIDE DEF entries
  <2> QED BY <1>9 DEF deep, Arrayed
<1> HIDE DEF entries
<1> QED
  BY <1>1, <1>10 DEF entries

(* The first so many of a row.                                             *)
Begun(row, n, first) == Len(first) = n /\ DOMAIN first = 1..n /\ \A i \in 1..n : first[i] = row[i]

LEMMA SubSeqBegins ==
  ASSUME NEW row, NEW n \in Nat
  PROVE  Begun(row, n, SubSeq(row, 1, n))
<1>1. Len(SubSeq(row, 1, n)) = n
  OBVIOUS
<1>2. DOMAIN SubSeq(row, 1, n) = 1..n
  OBVIOUS
<1>3. ASSUME NEW i \in 1..n PROVE SubSeq(row, 1, n)[i] = row[i]
  OBVIOUS
<1> QED
  BY <1>1, <1>2, <1>3 DEF Begun

(* There is as much of it as there is room for.                            *)
LEMMA EntriesAre ==
  ASSUME NEW e, NEW mode, NEW inlineFrames \in BOOLEAN, NEW ips \in Seq(Nat), Addresses(e, mode) = ips,
         NEW start, Begins(start, Widths(ips, inlineFrames), Len(ips))
  PROVE  LET entries == Entries(e, mode, inlineFrames) IN
         /\ Len(entries) = AtMost(start[Len(ips)]) /\ DOMAIN entries = 1..Len(entries)
         /\ Len(entries) \in Nat /\ Len(entries) <= start[Len(ips)] /\ start[Len(ips)] \in Nat
         /\ \A k \in 1..Len(ips) : \A j \in 1..(Deep(ips, k, inlineFrames) + 1) :
              start[k - 1] + j <= Len(entries) =>
                entries[start[k - 1] + j] = [k |-> k, ip |-> ips[k], isInline |-> j <= Deep(ips, k, inlineFrames)]
<1> DEFINE all == Walked(e, mode, inlineFrames)
           n == AtMost(Len(all))
           entries == Entries(e, mode, inlineFrames)
<1>1. Len(all) = start[Len(ips)] /\ Arrayed(all, ips, start, inlineFrames)
  BY WalkedAre
<1>2. start[Len(ips)] \in Nat
  <2>1. Len(ips) \in Nat
    OBVIOUS
  <2> QED BY <2>1 DEF Begins
<1>3. n \in Nat /\ n <= start[Len(ips)]
  <2>1. MaxFrames \in Nat
    BY StacksAssumption
  <2>2. Len(all) = start[Len(ips)]
    BY <1>1
  <2> HIDE DEF all
  <2> QED BY <1>2, <2>1, <2>2 DEF AtMost
<1>4. entries = SubSeq(all, 1, n)
  BY DEF Entries
<1> HIDE DEF all, n, entries
<1>5. Begun(all, n, entries)
  BY <1>3, <1>4, SubSeqBegins
<1>6. Len(entries) = n /\ DOMAIN entries = 1..Len(entries) /\ \A i \in 1..n : entries[i] = all[i]
  BY <1>5 DEF Begun
<1>7. ASSUME NEW k \in 1..Len(ips), NEW j \in 1..(Deep(ips, k, inlineFrames) + 1), start[k - 1] + j <= n
      PROVE  entries[start[k - 1] + j] = [k |-> k, ip |-> ips[k], isInline |-> j <= Deep(ips, k, inlineFrames)]
  <2>1. start[k - 1] \in Nat
    BY WidthsAre, PartsBegin DEF BeginsAt
  <2>0. j \in Nat /\ 1 <= j
    BY DeepIsNatural
  <2>2. start[k - 1] + j \in 1..n
    BY <1>3, <1>7, <2>0, <2>1
  <2>3. entries[start[k - 1] + j] = all[start[k - 1] + j]
    BY <1>6, <2>2
  <2>4. all[start[k - 1] + j] = [k |-> k, ip |-> ips[k], isInline |-> j <= Deep(ips, k, inlineFrames)]
    BY <1>1 DEF Arrayed
  <2> QED BY <2>3, <2>4
<1>8. n = AtMost(start[Len(ips)])
  BY <1>1 DEF n
<1> QED
  BY <1>2, <1>3, <1>6, <1>7, <1>8 DEF entries

(* The frames a thread stands in, likewise.                                *)
LEMMA LogicalIs ==
  ASSUME NEW ips \in Seq(Nat), NEW start, Begins(start, Widths(ips, TRUE), Len(ips))
  PROVE  /\ Len(Logical(ips)) = start[Len(ips)]
         /\ \A k \in 1..Len(ips) : \A j \in 1..(Deep(ips, k, TRUE) + 1) :
              Logical(ips)[start[k - 1] + j] = <<k, Deep(ips, k, TRUE) + 1 - j>>
<1> DEFINE n == Len(ips)
           deep(k) == Deep(ips, k, TRUE)
           listed(k) == [j \in 1..(deep(k) + 1) |-> <<k, deep(k) + 1 - j>>]
           s == [k \in 1..n |-> listed(k)]
<1>1. Logical(ips) = FlattenSeq(s)
  <2>1. DOMAIN ips = 1..n
    OBVIOUS
  <2> QED BY <2>1 DEF Logical, Deep, Spot
<1>2. \A k : deep(k) \in Nat
  BY DeepIsNatural
<1> HIDE DEF deep
<1>3. ASSUME NEW k \in 1..n
      PROVE  listed(k) \in Seq(Nat \X Int) /\ Len(listed(k)) = deep(k) + 1
  <2>1. deep(k) + 1 \in Nat
    BY <1>2
  <2>2. listed(k) \in [1..(deep(k) + 1) -> Nat \X Int]
    BY <1>2
  <2> HIDE DEF listed
  <2> QED BY <2>1, <2>2
<1>4. n \in Nat /\ s \in [1..n -> Seq(Nat \X Int)]
  <2> HIDE DEF listed
  <2> QED BY <1>3
<1>5. \A k \in 1..n : Len(s[k]) = deep(k) + 1
  <2> HIDE DEF listed
  <2> QED BY <1>3
<1>6. /\ Widths(ips, TRUE) \in [1..n -> Nat]
      /\ \A k \in 1..n : Widths(ips, TRUE)[k] = deep(k) + 1
  BY WidthsAre DEF Widths, deep
<1>7. \A k \in 1..n : \A j \in 1..(deep(k) + 1) : s[k][j] = <<k, deep(k) + 1 - j>>
  OBVIOUS
<1> DEFINE row == FlattenSeq(s)
<1> HIDE DEF s, listed
<1>8. /\ Len(row) = start[n]
      /\ \A k \in 1..n : \A j \in 1..Len(s[k]) : row[start[k - 1] + j] = s[k][j]
  <2>1. Parts(s, Nat \X Int, Widths(ips, TRUE), n)
    BY <1>4, <1>5, <1>6 DEF Parts
  <2>2. LaidOut(row, s, Nat \X Int, start, n)
    <3> HIDE DEF n
    <3>1. Begins(start, Widths(ips, TRUE), n)
      BY DEF n
    <3> QED BY <2>1, <3>1, FlattenSeqLaysOut
  <2> HIDE DEF row
  <2> QED BY <2>2 DEF LaidOut
<1>9. \A k \in 1..n : \A j \in 1..(deep(k) + 1) : row[start[k - 1] + j] = <<k, deep(k) + 1 - j>>
  <2> HIDE DEF row
  <2> QED BY <1>5, <1>7, <1>8
<1> QED
  BY <1>1, <1>8, <1>9 DEF deep

(* The depth of an entry is how far the frame it is inlined in is, if that *)
(* is there.                                                               *)
Fits(start, k, entries) == start[k] <= Len(entries)

LEMMA DepthIs ==
  ASSUME NEW e, NEW mode, NEW inlineFrames \in BOOLEAN, NEW ips \in Seq(Nat), Addresses(e, mode) = ips,
         NEW start, Begins(start, Widths(ips, inlineFrames), Len(ips)),
         NEW k \in 1..Len(ips), NEW j \in 1..(Deep(ips, k, inlineFrames) + 1),
         Fits(start, k, Entries(e, mode, inlineFrames))
  PROVE  LET entries == Entries(e, mode, inlineFrames)
             i == start[k - 1] + j
             deep == Deep(ips, k, inlineFrames) IN
         /\ Depth(entries, i) = deep + 1 - j
         /\ entries[i + Depth(entries, i)].k = k
<1> DEFINE entries == Entries(e, mode, inlineFrames)
           i == start[k - 1] + j
           deep == Deep(ips, k, inlineFrames)
           d == deep + 1 - j
           IsDepth(x) == ~entries[i + x].isInline /\ \A m \in 0..(x - 1) : entries[i + m].isInline
<1>1. deep \in Nat /\ j \in Nat /\ d \in 0..deep /\ 1 <= j
  BY DeepIsNatural
<1>2. /\ start[k - 1] \in Nat /\ start[k] = start[k - 1] + deep + 1 /\ start[k] <= Len(entries)
      /\ Len(entries) \in Nat
  <2>1. Len(ips) \in Nat /\ Widths(ips, inlineFrames) \in [1..Len(ips) -> Nat]
    BY WidthsAre
  <2>2. start[k] <= Len(entries)
    BY DEF Fits
  <2>3. start[k - 1] \in Nat /\ start[k] = start[k - 1] + Widths(ips, inlineFrames)[k]
    <3>1. BeginsAt(start, k, Widths(ips, inlineFrames)[k])
      BY <2>1, PartsBegin
    <3> QED BY <3>1 DEF BeginsAt
  <2>4. Widths(ips, inlineFrames)[k] = deep + 1
    BY DEF Widths
  <2>5. Len(entries) \in Nat
    BY EntriesAre
  <2> HIDE DEF entries, deep
  <2> QED BY <1>1, <2>2, <2>3, <2>4, <2>5
<1>3. \A m \in 1..(deep + 1) : entries[start[k - 1] + m] = [k |-> k, ip |-> ips[k], isInline |-> m <= deep]
  <2>1. \A m \in 1..(deep + 1) : start[k - 1] + m <= Len(entries) =>
          entries[start[k - 1] + m] = [k |-> k, ip |-> ips[k], isInline |-> m <= deep]
    BY EntriesAre
  <2> HIDE DEF entries, deep
  <2>2. \A m \in 1..(deep + 1) : start[k - 1] + m <= Len(entries)
    BY <1>1, <1>2
  <2> QED BY <2>1, <2>2
<1> HIDE DEF entries, deep
<1>4. \A m \in 0..d : /\ m < d => entries[i + m].isInline
                      /\ m = d => ~entries[i + m].isInline
                      /\ entries[i + m].k = k
  <2> TAKE m \in 0..d
  <2>1. j + m \in 1..(deep + 1) /\ start[k - 1] + (j + m) = i + m /\ (j + m <= deep <=> m < d)
    BY <1>1, <1>2
  <2> HIDE DEF i, d
  <2>2. entries[i + m] = [k |-> k, ip |-> ips[k], isInline |-> j + m <= deep]
    BY <1>3, <2>1
  <2>3. entries[i + m].k = k /\ entries[i + m].isInline = (j + m <= deep)
    BY <2>2
  <2>4. m = d => ~(m < d)
    BY <1>1 DEF d
  <2> QED BY <2>1, <2>3, <2>4
<1>5. d \in 0..(Len(entries) - i) /\ IsDepth(d)
  <2>1. d \in 0..(Len(entries) - i)
    BY <1>1, <1>2
  <2>2. d \in Nat
    BY <1>1
  <2> HIDE DEF d, i
  <2> QED BY <1>4, <2>1, <2>2
<1>6. ASSUME NEW x \in 0..(Len(entries) - i), IsDepth(x) PROVE x = d
  <2>1. d \in Nat /\ x \in Nat
    BY <1>1
  <2>2. x < d => FALSE
    <3> HIDE DEF d, i
    <3> QED BY <1>4, <1>6, <2>1
  <2>3. d < x => FALSE
    <3>1. d < x => d \in 0..(x - 1) /\ d \in 0..d
      BY <2>1
    <3> HIDE DEF d, i
    <3> QED BY <1>4, <1>6, <3>1
  <2> HIDE DEF d
  <2> QED BY <2>1, <2>2, <2>3
<1>7. Depth(entries, i) = d
  <2>1. Depth(entries, i) = CHOOSE x \in 0..(Len(entries) - i) : IsDepth(x)
    BY DEF Depth
  <2> HIDE DEF IsDepth, i, d
  <2> QED BY <1>5, <1>6, <2>1
<1>8. entries[i + d].k = k
  <2>1. d \in 0..d
    BY <1>1
  <2> HIDE DEF i, d
  <2> QED BY <1>4, <2>1
<1> QED
  BY <1>7, <1>8 DEF entries, deep

-----------------------------------------------------------------------------
(* The stack a thread should give at a stop, where its code runs in its    *)
(* own mode.                                                               *)
FramesOf(ips, inlineFrames) == IF inlineFrames THEN Logical(ips) ELSE [k \in DOMAIN ips |-> <<k, 0>>]

StandsIn(o, epoch) == Traces[<<o.thread, OwnMode[o.thread]>>][epoch + 1]

IsWhole(e, o, inlineFrames, a) ==
  LET logical == FramesOf(StandsIn(o, e.epoch), inlineFrames) IN
  /\ Len(a.value) = AtMost(Len(logical))
  /\ \A i \in DOMAIN a.value :
       LET f == a.value[i] IN
       /\ f.number = i - 1
       /\ i + logical[i][2] <= Len(a.value) =>
            /\ f.at = <<e.epoch, o.thread, OwnMode[o.thread], logical[i][1]>>
            /\ Shallow(f) => f.cpu = WOW64 /\ e.event # o.thread
            /\ ~Shallow(f) /\ f.cpu # WOW64 => f.inline = logical[i][2]

Stopped(e) == e.mode = "" /\ e.epoch \in 0..MaxEpoch
Reachable(e, o) == <<o.thread, e.epoch>> \notin Unreadable /\ e.event # None

(* How the frames of a thread and the entries of the engine correspond.    *)
Correspond(entries, logical) ==
  /\ Len(entries) = AtMost(Len(logical)) /\ DOMAIN entries = 1..Len(entries) /\ Len(entries) \in Nat
  /\ \A i \in 1..Len(entries) :
       /\ entries[i].k = logical[i][1]
       /\ i + logical[i][2] <= Len(entries) =>
            entries[i + Depth(entries, i)].k = logical[i][1] /\ Depth(entries, i) = logical[i][2]

LEMMA FramesAre ==
  ASSUME NEW e, NEW mode, NEW inlineFrames \in BOOLEAN, NEW ips \in Seq(Nat), Addresses(e, mode) = ips
  PROVE  Correspond(Entries(e, mode, inlineFrames), FramesOf(ips, inlineFrames))
<1> DEFINE entries == Entries(e, mode, inlineFrames)
           logical == FramesOf(ips, inlineFrames)
           n == Len(ips)
           len == Widths(ips, inlineFrames)
<1>1. n \in Nat /\ len \in [1..n -> Nat]
  BY WidthsAre
<1>2. PICK start : Begins(start, len, n)
  <2> HIDE DEF n, len
  <2> QED BY <1>1, StartsExist
<1>3. /\ Len(entries) = AtMost(start[n]) /\ DOMAIN entries = 1..Len(entries)
      /\ Len(entries) \in Nat /\ Len(entries) <= start[n] /\ start[n] \in Nat
  BY <1>2, EntriesAre
<1>4. /\ Len(logical) = start[n]
      /\ \A k \in 1..n : \A j \in 1..(Deep(ips, k, inlineFrames) + 1) :
           logical[start[k - 1] + j] = <<k, Deep(ips, k, inlineFrames) + 1 - j>>
  <2>1. CASE inlineFrames
    <3>1. inlineFrames = TRUE
      BY <2>1
    <3>2. Begins(start, Widths(ips, TRUE), Len(ips)) /\ logical = Logical(ips)
      BY <1>2, <3>1 DEF FramesOf
    <3>3. /\ Len(Logical(ips)) = start[Len(ips)]
          /\ \A k \in 1..Len(ips) : \A j \in 1..(Deep(ips, k, TRUE) + 1) :
               Logical(ips)[start[k - 1] + j] = <<k, Deep(ips, k, TRUE) + 1 - j>>
      BY <3>2, LogicalIs
    <3> HIDE DEF logical
    <3> QED BY <3>1, <3>2, <3>3
  <2>2. CASE ~inlineFrames
    <3>1. logical = [k \in 1..n |-> <<k, 0>>]
      BY <2>2 DEF FramesOf
    <3>2. \A k \in 1..n : Deep(ips, k, inlineFrames) = 0 /\ len[k] = 1
      BY <2>2 DEF Deep, Widths
    <3> DEFINE T == {k \in 0..n : start[k] = k}
    <3> HIDE DEF n, len, logical
    <3>3. \A k \in 0..n : k \in T
      <4>1. 0 \in T
        BY <1>1, <1>2 DEF Begins
      <4>2. ASSUME NEW k \in 0..(n - 1), k \in T PROVE k + 1 \in T
        <5>1. k + 1 \in 1..n /\ (k + 1) - 1 = k
          BY <1>1
        <5>2. start[k + 1] = start[k] + 1
          BY <1>2, <3>2, <5>1 DEF Begins
        <5> QED BY <4>2, <5>1, <5>2
      <4>3. \A k \in 0..(n - 1) : k \in T => k + 1 \in T
        BY <4>2
      <4> HIDE DEF T
      <4> QED BY <1>1, <4>1, <4>3, Climbing
    <3>4. Len(logical) = start[n]
      <4>1. Len([k \in 1..n |-> <<k, 0>>]) = n
        BY <1>1
      <4> QED BY <1>1, <3>1, <3>3, <4>1
    <3>5. ASSUME NEW k \in 1..n, NEW j \in 1..(Deep(ips, k, inlineFrames) + 1)
          PROVE  logical[start[k - 1] + j] = <<k, Deep(ips, k, inlineFrames) + 1 - j>>
      <4>1. j = 1 /\ start[k - 1] = k - 1 /\ (k - 1) + 1 = k
        BY <1>1, <3>2, <3>3
      <4> QED BY <3>1, <3>2, <4>1
    <3> QED BY <3>4, <3>5
  <2> QED BY <2>1, <2>2
<1>5. ASSUME NEW i \in 1..Len(entries)
      PROVE  /\ entries[i].k = logical[i][1]
             /\ i + logical[i][2] <= Len(entries) =>
                  entries[i + Depth(entries, i)].k = logical[i][1] /\ Depth(entries, i) = logical[i][2]
  <2>1. PICK k \in 1..n : \E j \in 1..len[k] : i = start[k - 1] + j
    <3> HIDE DEF n, len, entries, logical
    <3>1. i \in 1..start[n]
      BY <1>3
    <3>2. InParts(i, start, len, n)
      BY <1>1, <1>2, <3>1, PlacesAreInParts
    <3> QED BY <3>2 DEF InParts
  <2>2. PICK j \in 1..len[k] : i = start[k - 1] + j
    BY <2>1
  <2>3. j \in 1..(Deep(ips, k, inlineFrames) + 1)
    BY DEF Widths
  <2>4. logical[i] = <<k, Deep(ips, k, inlineFrames) + 1 - j>>
    BY <1>4, <2>2, <2>3
  <2>5. entries[i].k = k
    <3>1. entries[i] = [k |-> k, ip |-> ips[k], isInline |-> j <= Deep(ips, k, inlineFrames)]
      <4>1. start[k - 1] + j <= Len(entries) =>
              entries[start[k - 1] + j] = [k |-> k, ip |-> ips[k], isInline |-> j <= Deep(ips, k, inlineFrames)]
        BY <1>2, <2>3, EntriesAre
      <4>2. i <= Len(entries)
        BY <1>3
      <4> HIDE DEF entries
      <4> QED BY <2>2, <4>1, <4>2
    <3> QED BY <3>1
  <2>6. ASSUME i + logical[i][2] <= Len(entries)
        PROVE  Depth(entries, i) = Deep(ips, k, inlineFrames) + 1 - j /\ entries[i + Depth(entries, i)].k = k
    <3>1. start[k] <= Len(entries)
      <4>1. logical[i][2] = Deep(ips, k, inlineFrames) + 1 - j
        BY <2>4
      <4>2. start[k - 1] \in Nat /\ start[k] = start[k - 1] + len[k]
        <5> HIDE DEF len, entries, logical, n
        <5>1. BeginsAt(start, k, len[k])
          BY <1>1, <1>2, PartsBegin
        <5> QED BY <5>1 DEF BeginsAt
      <4>4. len[k] = Deep(ips, k, inlineFrames) + 1
        BY DEF Widths
      <4>3. Deep(ips, k, inlineFrames) \in Nat
        BY DeepIsNatural
      <4> HIDE DEF entries, logical, len, n
      <4> QED BY <1>3, <2>2, <2>3, <2>6, <4>1, <4>2, <4>3, <4>4
    <3> QED BY <1>2, <2>2, <2>3, <3>1, DepthIs DEF Fits
  <2>7. logical[i][1] = k /\ logical[i][2] = Deep(ips, k, inlineFrames) + 1 - j
    BY <2>4
  <2> HIDE DEF entries, logical
  <2> QED BY <2>5, <2>6, <2>7
<1> HIDE DEF entries, logical
<1>6. Correspond(entries, logical)
  BY <1>3, <1>4, <1>5 DEF Correspond
<1> QED
  BY <1>6 DEF entries, logical

(* Of the thread that is current the engine lists the whole stack, and     *)
(* the frames are made of that.                                            *)
LEMMA StackIs ==
  ASSUME NEW h, NEW o, o.thread \in Threads, o.system = SystemOf[ProcessOf[o.thread]],
         CurrentThread(h) = o.thread, CurrentSystem(h) = o.system,
         Stopped(h), NEW inlineFrames \in BOOLEAN
  PROVE  LET a == GetStack(h, inlineFrames) IN
         /\ Reachable(h, o) => a.ok
         /\ a.ok => IsWhole(h, o, inlineFrames, a)
<1> DEFINE t == o.thread
           mode == OwnMode[t]
           cpu == ContextFor(Processor[o.system], mode)
           ips == StandsIn(o, h.epoch)
           entries == Entries(h, mode, inlineFrames)
           logical == FramesOf(ips, inlineFrames)
           a == GetStack(h, inlineFrames)
<1>1. t # None /\ mode # "" /\ cpu.mode = mode /\ <<t, mode>> \in DOMAIN Traces /\ ips \in Seq(Nat)
  <2>1. h.epoch + 1 \in 1..(MaxEpoch + 1)
    <3>1. MaxEpoch \in Nat
      BY StacksAssumption
    <3>2. h.epoch \in 0..MaxEpoch
      BY DEF Stopped
    <3> QED BY <3>1, <3>2
  <2> QED BY <2>1, IdsAre, StacksAssumption DEF StandsIn
<1>2. CurrentContext(h) = cpu /\ cpu # NoContext
  <2>1. EffectiveMode(h) = mode
    BY DEF EffectiveMode, Stopped
  <2>2. CurrentContext(h) = cpu
    BY <1>1, <2>1 DEF CurrentContext
  <2>3. NoContext.mode = ""
    BY DEF NoContext
  <2> HIDE DEF cpu, mode
  <2> QED BY <1>1, <2>2, <2>3
<1>3. Addresses(h, mode) = ips
  BY <1>1 DEF Addresses, StandsIn
<1>4. Correspond(entries, logical)
  <2> HIDE DEF mode, ips
  <2> QED BY <1>1, <1>3, FramesAre
<1>5. a = Stack(h, cpu, inlineFrames)
  <2> HIDE DEF cpu
  <2> QED BY <1>2 DEF GetStack
<1>6. \A k : FrameAt(h, mode, k) = <<h.epoch, t, mode, k>>
  BY DEF FrameAt
<1> DEFINE others == [i \in DOMAIN entries |-> Wow64Frame(h, entries, i)]
           own == [i \in DOMAIN entries |-> ImplFrame(h, cpu, entries, i)]
<1>7. \/ a = Throws(h) /\ ~Reachable(h, o)
      \/ a = Gives(Quiet(h, FALSE), others) /\ cpu = WOW64 /\ h.event # t
      \/ a = Gives(Quiet(h, FALSE), own)
  <2>1. WOW64.mode = "I386"
    BY DEF WOW64
  <2>2. Readable(h) <=> <<t, h.epoch>> \notin Unreadable
    BY DEF Readable
  <2>3. CASE cpu = WOW64 /\ (h.event = None \/ (h.event # t /\ ~Readable(h)))
    <3>1. a = Throws(h)
      <4> HIDE DEF cpu, a
      <4> QED BY <1>5, <2>3 DEF Stack
    <3> QED BY <2>2, <2>3, <3>1 DEF Reachable
  <2>4. CASE cpu = WOW64 /\ h.event \notin {None, t} /\ Readable(h)
    <3>1. a = Gives(Quiet(h, FALSE), others)
      <4>1. Stack(h, WOW64, inlineFrames)
              = Stacked(h, Entries(h, "I386", inlineFrames), LAMBDA list, i : Wow64Frame(h, list, i))
        BY <2>4 DEF Stack
      <4>2. mode = "I386"
        BY <1>1, <2>1, <2>4
      <4> HIDE DEF cpu, a, mode
      <4> QED BY <1>5, <2>4, <4>1, <4>2 DEF Stacked
    <3> QED BY <2>4, <3>1
  <2>5. CASE ~(cpu = WOW64 /\ h.event # t)
    <3>1. a = Gives(Quiet(h, FALSE), own)
      <4> HIDE DEF cpu, a
      <4>0. t # None
        BY <1>1
      <4>1. Stack(h, cpu, inlineFrames)
              = Stacked(h, Entries(h, cpu.mode, inlineFrames), LAMBDA list, i : ImplFrame(h, cpu, list, i))
        BY <2>5, <4>0 DEF Stack
      <4> HIDE DEF mode
      <4> QED BY <1>1, <1>5, <4>1 DEF Stacked
    <3> QED BY <3>1
  <2> QED BY <2>3, <2>4, <2>5
<1> DEFINE All(value) ==
             /\ Len(value) = AtMost(Len(logical))
             /\ \A i \in DOMAIN value :
                  LET f == value[i] IN
                  /\ f.number = i - 1
                  /\ i + logical[i][2] <= Len(value) =>
                       /\ f.at = <<h.epoch, t, mode, logical[i][1]>>
                       /\ Shallow(f) => f.cpu = WOW64 /\ h.event # t
                       /\ ~Shallow(f) /\ f.cpu # WOW64 => f.inline = logical[i][2]
<1>8. \A b : IsWhole(h, o, inlineFrames, b) <=> All(b.value)
  BY DEF IsWhole
<1> HIDE DEF a, logical, entries, ips
<1> USE DEF Correspond
<1>9. All(own)
  <2>1. Len(own) = AtMost(Len(logical)) /\ Len(own) = Len(entries) /\ DOMAIN own = 1..Len(entries)
    <3> DEFINE F(i) == ImplFrame(h, cpu, entries, i)
    <3> HIDE DEF F
    <3>1. Len([i \in 1..Len(entries) |-> F(i)]) = Len(entries)
      BY <1>4
    <3> QED BY <1>4, <3>1 DEF F
  <2>2. ASSUME NEW i \in 1..Len(entries)
        PROVE  LET f == own[i] IN
               /\ f.number = i - 1
               /\ i + logical[i][2] <= Len(entries) =>
                    /\ f.at = <<h.epoch, t, mode, logical[i][1]>>
                    /\ f.context = f.at /\ f.inline = logical[i][2]
    <3>1. own[i] = ImplFrame(h, cpu, entries, i)
      <4> HIDE DEF cpu
      <4>1. i \in DOMAIN entries
        <5> HIDE DEF own, others, cpu, mode, t
        <5> QED BY <1>4
      <4> QED BY <4>1
    <3> DEFINE f == ImplFrame(h, cpu, entries, i)
    <3>2. /\ f.number = i - 1 /\ f.at = FrameAt(h, cpu.mode, entries[i + Depth(entries, i)].k)
          /\ f.context = FrameAt(h, cpu.mode, entries[i].k) /\ f.inline = Depth(entries, i)
      <4> HIDE DEF cpu
      <4> QED BY DEF ImplFrame, Frame
    <3>3. cpu.mode = mode
      BY <1>1
    <3> HIDE DEF f, own, cpu, mode
    <3> QED BY <1>4, <1>6, <3>1, <3>2, <3>3 DEF f
  <2> HIDE DEF own, mode
  <2> QED BY <2>1, <2>2 DEF Shallow
<1>10. ASSUME cpu = WOW64, h.event # t
       PROVE  All(others)
  <2>1. Len(others) = AtMost(Len(logical)) /\ DOMAIN others = 1..Len(entries)
    <3> DEFINE F(i) == Wow64Frame(h, entries, i)
    <3> HIDE DEF F
    <3>1. Len([i \in 1..Len(entries) |-> F(i)]) = Len(entries)
      BY <1>4
    <3> QED BY <1>4, <3>1 DEF F
  <2>2. mode = "I386"
    <3> HIDE DEF cpu, mode
    <3> QED BY <1>1, <1>10 DEF WOW64
  <2>3. ASSUME NEW i \in 1..Len(entries)
        PROVE  LET f == others[i] IN
               /\ f.number = i - 1 /\ f.at = <<h.epoch, t, mode, logical[i][1]>> /\ f.cpu = WOW64
    <3>1. others[i] = Wow64Frame(h, entries, i)
      <4> HIDE DEF cpu, mode
      <4>1. i \in DOMAIN entries
        <5> HIDE DEF own, others, cpu, mode, t
        <5> QED BY <1>4
      <4> QED BY <4>1
    <3> DEFINE f == Wow64Frame(h, entries, i)
    <3>2. f.number = i - 1 /\ f.at = FrameAt(h, "I386", entries[i].k) /\ f.cpu = WOW64
      BY DEF Wow64Frame, Frame
    <3> HIDE DEF f, others, mode
    <3> QED BY <1>4, <1>6, <2>2, <3>1, <3>2 DEF f
  <2> HIDE DEF others, mode, cpu
  <2> QED BY <1>10, <2>1, <2>3
<1> HIDE DEF own, others, All, cpu
<1>11. ASSUME NEW value, a = Gives(Quiet(h, FALSE), value), All(value)
       PROVE  a.ok /\ IsWhole(h, o, inlineFrames, a)
  <2>1. a.ok /\ a.value = value
    BY <1>11 DEF Gives
  <2> QED BY <1>8, <1>11, <2>1
<1>12. (Reachable(h, o) => a.ok) /\ (a.ok => IsWhole(h, o, inlineFrames, a))
  <2>1. CASE a = Gives(Quiet(h, FALSE), own)
    BY <1>9, <1>11, <2>1
  <2>2. CASE a = Gives(Quiet(h, FALSE), others) /\ cpu = WOW64 /\ h.event # t
    BY <1>10, <1>11, <2>2
  <2>3. CASE a = Throws(h) /\ ~Reachable(h, o)
    <3>1. ~a.ok
      BY <2>3 DEF Throws
    <3> QED BY <2>3, <3>1
  <2> QED BY <1>7, <2>1, <2>2, <2>3
<1> QED
  BY <1>12 DEF a

(* A stack is given by what is current when the thread of the object is,   *)
(* or it is refused.                                                       *)
LEMMA StackAtHome ==
  ASSUME NEW e, Sound(e), NEW o \in Objects, NEW inlineFrames
  PROVE  LET a == StackOf(e, o, inlineFrames) IN
         \/ ~a.ok /\ (Settled(e) => ~Alive(e, o))
         \/ \E h : /\ AtHome(h, o) /\ Kin(e, h)
                   /\ a.ok = GetStack(h, inlineFrames).ok /\ a.value = GetStack(h, inlineFrames).value
<1> DEFINE a == StackOf(e, o, inlineFrames)
           is == IsCurrent(e, o)
           now == is.e
           in == [now EXCEPT !.quiet = TRUE]
           there == SwitchContext(in, o)
           Goal(b) == \/ ~b.ok /\ (Settled(e) => ~Alive(e, o))
                      \/ \E h : /\ AtHome(h, o) /\ Kin(e, h)
                                /\ b.ok = GetStack(h, inlineFrames).ok /\ b.value = GetStack(h, inlineFrames).value
<1> SUFFICES Goal(a)
  OBVIOUS
<1>1. /\ Kin(e, now)
      /\ is.ok => is.value \in BOOLEAN
      /\ is.ok /\ is.value = TRUE => AtHome(now, o)
      /\ is.ok /\ is.value = FALSE => Elsewhere(now, o)
      /\ Settled(e) => is.ok /\ now = e
  BY IsCurrentTells DEF Keeps
<1>2. a = Then(is, LAMBDA here, current :
            IF current THEN GetStack(here, inlineFrames)
            ELSE Within(here, LAMBDA inside :
                   Then(SwitchContext(inside, o), LAMBDA home, unused : GetStack(home, inlineFrames))))
  BY DEF StackOf, About
<1>3. CASE ~is.ok
  <2>1. a = is
    BY <1>2, <1>3 DEF Then
  <2> HIDE DEF a, is
  <2> QED BY <1>1, <1>3, <2>1
<1>4. CASE is.ok /\ is.value = TRUE
  <2>1. a = GetStack(now, inlineFrames)
    BY <1>2, <1>4 DEF Then
  <2>2. AtHome(now, o) /\ Kin(e, now)
    BY <1>1, <1>4
  <2> HIDE DEF a, now
  <2> QED BY <2>1, <2>2
<1>5. CASE is.ok /\ is.value = FALSE
  <2> DEFINE b == Then(there, LAMBDA home, unused : GetStack(home, inlineFrames))
  <2>1. a.ok = b.ok /\ a.value = b.value
    <3>1. a = [e |-> Restored(b.e, Saved(now)), ok |-> b.ok, value |-> b.value]
      BY <1>2, <1>5 DEF Then, Within
    <3> HIDE DEF a, b
    <3> QED BY <3>1
  <2>2. /\ Sound(now) /\ Kin(now, in)
        /\ in.process = now.process /\ in.thread = now.thread /\ in.system = now.system
    <3>1. Sound(now)
      BY <1>1 DEF Kin
    <3>2. Kin(now, in)
      BY <3>1, QuietIsKin
    <3>3. now = [f \in Fields |-> now[f]]
      BY <3>1 DEF Sound, Shaped
    <3>4. in.process = now.process /\ in.thread = now.thread /\ in.system = now.system
      <4> HIDE DEF now
      <4> QED BY <3>3 DEF Fields
    <3> QED BY <3>1, <3>2, <3>4
  <2> HIDE DEF a, b, in, now
  <2>3. /\ CurrentSystem(in) = CurrentSystem(now) /\ CurrentProcess(in) = CurrentProcess(now)
        /\ CurrentThread(in) = CurrentThread(now)
    BY <2>2 DEF CurrentSystem, CurrentProcess, CurrentThread
  <2>4. Sound(in) /\ Elsewhere(in, o) /\ Kin(e, in)
    <3>1. Elsewhere(in, o)
      BY <1>1, <1>5, <2>3 DEF Elsewhere, AtHome, now
    <3> QED BY <1>1, <2>2, <3>1, KinTransitive DEF Kin, now
  <2>5. Arrives(in, there, o) /\ (Settled(in) /\ Alive(in, o) => there.ok)
    BY <2>4, SwitchingArrives
  <2>6. CASE there.ok
    <3>1. b = GetStack(there.e, inlineFrames)
      BY <2>6 DEF Then, b
    <3>2. AtHome(there.e, o) /\ Kin(e, there.e)
      BY <2>4, <2>5, <2>6, KinTransitive DEF Arrives, Keeps
    <3> HIDE DEF there
    <3> QED BY <2>1, <3>1, <3>2
  <2>7. CASE ~there.ok
    <3>1. b = there
      BY <2>7 DEF Then, b
    <3>2. Settled(e) => Settled(in)
      BY <1>1, <2>3 DEF Settled, now
    <3>3. Alive(e, o) => Alive(in, o)
      BY <2>4 DEF Kin, Alive, LiveProcesses, LiveSystems
    <3>4. ~b.ok /\ (Settled(e) => ~Alive(e, o))
      BY <2>5, <2>7, <3>1, <3>2, <3>3
    <3> QED BY <2>1, <3>4
  <2> QED BY <2>6, <2>7
<1>6. QED
  BY <1>1, <1>3, <1>4, <1>5

LEMMA StacksAreRight ==
  ASSUME NEW e, Sound(e), e.epoch \in 0..MaxEpoch, NEW o \in StackObjects, NEW inlineFrames \in BOOLEAN
  PROVE  StackIsRight(e, o, inlineFrames)
<1> DEFINE a == StackOf(e, o, inlineFrames)
<1>1. o \in Objects /\ o.kind = "thread"
  BY DEF StackObjects
<1>2. o.thread \in Threads /\ o.system = SystemOf[ProcessOf[o.thread]]
  BY <1>1, ObjectsAre
<1>3. StackIsRight(e, o, inlineFrames)
        <=> /\ Alive(e, o) /\ Settled(e) /\ e.mode = "" /\ Reachable(e, o) => a.ok
            /\ a.ok /\ e.mode = "" => IsWhole(e, o, inlineFrames, a)
  BY DEF StackIsRight, Reachable, IsWhole, FramesOf, StandsIn
<1>4. CASE ~a.ok /\ (Settled(e) => ~Alive(e, o))
  <2> HIDE DEF a
  <2> QED BY <1>3, <1>4
<1>5. ASSUME NEW h, AtHome(h, o), Kin(e, h),
             a.ok = GetStack(h, inlineFrames).ok, a.value = GetStack(h, inlineFrames).value
      PROVE  StackIsRight(e, o, inlineFrames)
  <2> DEFINE b == GetStack(h, inlineFrames)
  <2> HIDE DEF a
  <2>1. CurrentThread(h) = o.thread /\ CurrentSystem(h) = o.system
    BY <1>1, <1>5 DEF AtHome
  <2>2. h.mode = e.mode /\ h.epoch = e.epoch /\ h.event = e.event
    BY <1>5 DEF Kin
  <2>3. e.mode = "" => (Reachable(h, o) => b.ok) /\ (b.ok => IsWhole(h, o, inlineFrames, b))
    BY <1>2, <2>1, <2>2, StackIs DEF Stopped
  <2>4. Reachable(h, o) <=> Reachable(e, o)
    BY <2>2 DEF Reachable
  <2>5. IsWhole(h, o, inlineFrames, b) <=> IsWhole(e, o, inlineFrames, a)
    <3> HIDE DEF b
    <3>1. a.value = b.value
      BY <1>5 DEF b
    <3> QED BY <2>2, <3>1 DEF IsWhole
  <2>6. a.ok = b.ok
    BY <1>5
  <2> HIDE DEF b
  <2> QED BY <1>3, <2>3, <2>4, <2>5, <2>6
<1> QED
  BY <1>1, <1>4, <1>5, StackAtHome

-----------------------------------------------------------------------------
(* The debuggee runs at most as often as the bound says.                   *)
LEMMA EpochIsKept ==
  ASSUME Sound(engine), engine.epoch \in 0..MaxEpoch, [Next]_vars
  PROVE  engine'.epoch \in 0..MaxEpoch
<1>1. CASE UNCHANGED engine
  BY <1>1
<1>2. ASSUME NEW ended, NEW t, Run(ended, t)
      PROVE  engine'.epoch \in 0..MaxEpoch
  <2> DEFINE gone == Forget(engine, ended)
             d == SelectThread(gone, t)
  <2>1. gone.epoch = engine.epoch /\ Sound(gone)
    <3>1. Sound(gone)
      BY ForgettingKeeps
    <3> QED BY <3>1 DEF Forget, Sound, Shaped, Fields
  <2> HIDE DEF gone
  <2>2. d.epoch = engine.epoch /\ Sound(d)
    BY <2>1, SelectThreadKeeps DEF Kin
  <2>3. engine' = [d EXCEPT !.event = t, !.epoch = @ + 1, !.mode = ""] /\ engine.epoch < MaxEpoch
    BY <1>2 DEF Run, gone
  <2> HIDE DEF d
  <2>4. engine'.epoch = engine.epoch + 1
    BY <2>2, <2>3 DEF Sound, Shaped, Fields
  <2>5. MaxEpoch \in Nat
    BY StacksAssumption
  <2> QED BY <2>3, <2>4, <2>5
<1>3. ASSUME NEW p, Leave(p)
      PROVE  engine'.epoch = engine.epoch
  BY <1>3 DEF Leave, Forget, Sound, Shaped, Fields
<1>4. ASSUME NEW o \in Objects, Choose(o)
      PROVE  engine'.epoch = engine.epoch
  BY <1>4, SetCurrentKeeps DEF Choose, Becomes, Kin
<1>5. ASSUME NEW o \in Objects, NEW q \in Questions(o), Ask(o, q)
      PROVE  engine'.epoch = engine.epoch
  BY <1>5, AnswersAreSteady DEF Ask, Becomes, Steady, Kin
<1>6. ASSUME NEW q \in FactQuestions, AskFact(q)
      PROVE  engine'.epoch = engine.epoch
  BY <1>6, FactsOfAreSteady DEF AskFact, Becomes, Steady, Kin
<1>7. ASSUME NEW o \in StackObjects, NEW inlineFrames, KeepStack(o, inlineFrames)
      PROVE  engine'.epoch = engine.epoch
  BY <1>7, StacksAreSteady DEF KeepStack, Keep, Steady, Kin, StackObjects
<1>8. ASSUME NEW i, ChooseFrame(i) \/ ChooseFrameByIndex(i) \/ ResetFrame
      PROVE  engine'.epoch = engine.epoch
  <2>1. engine' = engine \/ \E n : engine' = [engine EXCEPT !.scope = n]
    BY <1>8 DEF ChooseFrame, ChooseFrameByIndex, ResetFrame, Becomes, SetCurrentStackFrame,
                SetCurrentStackFrameByIndex, ResetCurrentStackFrame, Gives, Throws
  <2> QED BY <2>1, ScopeIsKin DEF Kin
<1>9. ASSUME NEW mode, SetCPUMode(mode)
      PROVE  engine'.epoch = engine.epoch
  BY <1>9 DEF SetCPUMode, Sound, Shaped, Fields
<1>10. CASE ReadFrame
  BY <1>10, FrameIsKin DEF ReadFrame, Becomes, Kin
<1>11. CASE SwitchCPUMode
  BY <1>9, <1>11 DEF SwitchCPUMode
<1>12. QED
  <2>1. \A choices : Among(choices) \subseteq choices
    BY DEF Among
  <2>2. CASE Next
    BY <1>1, <1>2, <1>3, <1>4, <1>5, <1>6, <1>7, <1>8, <1>9, <1>10, <1>11, <2>1, <2>2 DEF Next, Look, Looked
  <2> QED BY <1>1, <2>2 DEF vars

(* An object answers about the target it was made for: whatever is asked   *)
(* of it, and whatever else is current, the answer is what is the case of  *)
(* its own target; if that is gone, or nothing is current to start from,   *)
(* it refuses; and the object that was made current is current.  The stack *)
(* of a thread object is that of its thread: however many frames there     *)
(* are, and functions inlined in them, each is there once, in order,       *)
(* numbered from 0, and an inlined one says how far it is from the frame   *)
(* it is inlined in, as far as there is room; and if the thread lives,     *)
(* something is current and its context can be read, the stack is given.   *)
THEOREM ObjectsAnswerForTheirOwn == Spec => HandlesAnswer
<1> DEFINE Inv == Sound(engine) /\ engine.epoch \in 0..MaxEpoch
<1>1. Init => Inv
  <2>1. ASSUME Init PROVE engine.epoch = 0
    BY <2>1 DEF Init, Fields
  <2>2. MaxEpoch \in Nat
    BY StacksAssumption
  <2> QED BY <2>1, <2>2, BeginsSound
<1>2. Inv /\ [Next]_vars => Inv'
  BY StepsKeepSound, EpochIsKept
<1>3. ASSUME Sound(engine), NEW o \in Objects
      PROVE  AnswersForItsOwn(engine, o)
  BY <1>3, AnswersAreRight, ChoosingIsRight DEF AnswersForItsOwn
<1>4. ASSUME Inv, NEW o \in StackObjects, NEW inlineFrames \in BOOLEAN
      PROVE  StackIsRight(engine, o, inlineFrames)
  BY <1>4, StacksAreRight
<1>5. Inv => (looking' /\ ~looking =>
                /\ \A o \in Objects : AnswersForItsOwn(engine, o)
                /\ \A o \in StackObjects, inlineFrames \in BOOLEAN : StackIsRight(engine, o, inlineFrames))
  BY <1>3, <1>4
<1>6. QED
  BY <1>1, <1>2, <1>5, PTL DEF Spec, HandlesAnswer
============================================================================
