--------------------------- MODULE ProcessMonitor ---------------------------
(***************************************************************************)
(* The life of debuggees: what the engine has, what the process map of     *)
(* source/processmon.cpp has, and what the subscribers have been told.     *)
(*                                                                         *)
(* The map (m_processMap) holds what kdlib caches about a process.  An     *)
(* entry is made by processStart, dropped by processStop, and also made by *)
(* any lookup that misses (getProcess finds or creates), so a handler that *)
(* looks something up while onProcessExit is delivered brings the entry of *)
(* the dying process back.  The engine gives ids out again, so an entry    *)
(* carries the era (the incarnation of the id) it was made in.             *)
(*                                                                         *)
(* Operations of source/win/dbgeng.cpp and events of dbgmgr.cpp are made   *)
(* of steps; while a step delivers an event, handlers may look things up.  *)
(* Everything here happens on the one thread that owns the engine; other   *)
(* threads only meet at the locks, which EventDispatch models.             *)
(***************************************************************************)
EXTENDS Naturals, FiniteSets

CONSTANTS
  Processes,       \* engine ids of processes, ordered as std::map orders them
  None,            \* no current process
  CurrentId,       \* CURRENT_PROCESS_ID, the id -1 that stands for the current
  MaxEras,         \* bound: incarnations of one id
  Givens           \* the sets of circumstances considered

ASSUME ProcessesAssumption ==
  /\ Processes \subseteq Nat
  /\ None \notin Processes
  /\ CurrentId \notin Processes \cup {None}

ASSUME BoundAssumption == MaxEras \in Nat

Circumstances == {"lookups", "failures", "defaultIds"}

ASSUME GivensAssumption == Givens \subseteq SUBSET Circumstances

VARIABLES
  alive,       \* processes (and dumps) the engine has
  current,     \* the engine's current process
  era,         \* era[p]: how often the engine gave out id p
  processMap,  \* processMap[p]: era in which p's entry was made, 0 for none
  told,        \* processes whose start was announced, and not yet their exit
  status,      \* the execution status last announced
  op,          \* the running lifecycle operation and its next step
  given        \* never changes: the circumstances of this behaviour

vars == <<alive, current, era, processMap, told, status, op, given>>

(* Handlers look up modules, types or breakpoints.                         *)
HandlerLookups == "lookups" \in given

(* An engine call of a lifecycle operation may fail.                       *)
EngineFails == "failures" \in given

(* Callers may leave the process id to its default argument.               *)
DefaultIds == "defaultIds" \in given

NoEntry == 0

Entries == {p \in Processes : processMap[p] # NoEntry}

Idle == [kind |-> "none", id |-> None, step |-> "idle"]

Kinds == {"start", "exit", "remove", "removeAll"}

(* starting, exiting: an event is being delivered, then the engine goes on.*)
Steps == {"created", "starting", "exiting", "loop", "engine", "report"}

TypeOK ==
  /\ alive \subseteq Processes
  /\ current \in Processes \cup {None}
  /\ era \in [Processes -> Nat]
  /\ processMap \in [Processes -> Nat]
  /\ told \subseteq Processes
  /\ status \in {"debuggee", "noDebuggee"}
  /\ op \in {Idle} \cup [kind : Kinds, id : Processes \cup {None, CurrentId}, step : Steps]
  /\ given \in Givens

AtRest == op.step = "idle"

Proceed(step) == op' = [op EXCEPT !.step = step]
-----------------------------------------------------------------------------
(* The callbacks run by ProcessMonitor: a change of the map, then the      *)
(* event.  The step "starting" or "exiting" lasts while it is delivered.   *)

(* Fault: an entry that is already there is kept.                          *)
ProcessStart_Reuses(p) ==
  /\ processMap' = [processMap EXCEPT ![p] = IF @ = NoEntry THEN era[p] ELSE @]
  /\ told' = told \cup {p}

(* Fault: the event carries the id -1 instead of the process's own.        *)
ProcessStart_CurrentId(p) ==
  /\ processMap' = [processMap EXCEPT ![p] = era[p]]
  /\ told' = told \cup {CurrentId}

ProcessStart(p) ==
  /\ processMap' = [processMap EXCEPT ![p] = era[p]]
  /\ told' = told \cup {p}

(* Fault: the event is delivered, the entry stays.                         *)
ProcessStop_KeepsEntry(id) ==
  /\ UNCHANGED processMap
  /\ told' = told \ {id}

(* The id is used as it came: CurrentId is no key of the map.              *)
ProcessStop(id) ==
  /\ processMap' = [p \in Processes |-> IF p = id THEN NoEntry ELSE processMap[p]]
  /\ told' = told \ {id}

(* getProcess, reached from a handler or from the caller's own code: the   *)
(* entry of the current process is made if it is missing.                  *)
Lookup ==
  /\ AtRest \/ HandlerLookups
  /\ current # None
  /\ processMap[current] = NoEntry
  /\ processMap' = [processMap EXCEPT ![current] = era[current]]
  /\ UNCHANGED <<alive, current, era, told, status, op, given>>

(* The engine drops processes and makes one that is left current.          *)
EngineDrops(gone) ==
  /\ alive' = alive \ gone
  /\ current' \in (IF alive' = {} THEN {None} ELSE alive')
  /\ UNCHANGED era

(* ChangeEngineState passes NO_DEBUGGEE on once: it is dropped when that   *)
(* was the status before.                                                  *)
ReportNoDebuggee == status' = "noDebuggee"
-----------------------------------------------------------------------------
(* A process the engine creates or attaches to, or a dump it opens: the    *)
(* engine reports DEBUG_STATUS_GO, then kdlib hears of the process, from   *)
(* the CreateProcess event or from loadDump or attachKernel itself.        *)
EngineCreates(p) ==
  /\ AtRest
  /\ p \notin alive
  /\ era[p] < MaxEras
  /\ alive' = alive \cup {p}
  /\ current' = p
  /\ era' = [era EXCEPT ![p] = @ + 1]
  /\ status' = "debuggee"
  /\ op' = [kind |-> "start", id |-> p, step |-> "created"]
  /\ UNCHANGED <<processMap, told, given>>

(* Fault: a process that a lookup has already entered is not announced.    *)
AnnounceStart_OnlyNew ==
  /\ op.step = "created"
  /\ IF op.id \in Entries THEN UNCHANGED <<processMap, told>> ELSE ProcessStart(op.id)
  /\ Proceed("starting")
  /\ UNCHANGED <<alive, current, era, status, given>>

AnnounceStart ==
  /\ op.step = "created"
  /\ ProcessStart(op.id)
  /\ Proceed("starting")
  /\ UNCHANGED <<alive, current, era, status, given>>

StartEnds ==
  /\ op.step = "starting"
  /\ op' = Idle
  /\ UNCHANGED <<alive, current, era, processMap, told, status, given>>

(* The ExitProcess event: the engine still has the process.                *)
ExitProcess(p) ==
  /\ AtRest
  /\ p \in alive
  /\ current' = p
  /\ ProcessStop(p)
  /\ op' = [kind |-> "exit", id |-> p, step |-> "exiting"]
  /\ UNCHANGED <<alive, era, status, given>>

(* Fault: the process is removed without a word to the monitor.            *)
RemoveProcess_SkipsStop(id) ==
  /\ AtRest
  /\ IF id = CurrentId THEN DefaultIds /\ current # None ELSE id \in alive
  /\ current' = IF id = CurrentId THEN current ELSE id
  /\ UNCHANGED <<processMap, told>>
  /\ op' = [kind |-> "remove", id |-> id, step |-> "exiting"]
  /\ UNCHANGED <<alive, era, status, given>>

(* The engine removes it, and reports by itself that it was the last one.  *)
ExitEnds ==
  /\ op.kind = "exit"
  /\ EngineDrops({op.id})
  /\ IF alive' = {} THEN ReportNoDebuggee ELSE UNCHANGED status
  /\ op' = Idle
  /\ UNCHANGED <<processMap, told, given>>
-----------------------------------------------------------------------------
(* terminateProcess, detachProcess and closeDump differ in the engine      *)
(* calls only.  SetCurrentProcessId fails for an id the engine has not.    *)
RemoveProcess(id) ==
  /\ AtRest
  /\ IF id = CurrentId THEN DefaultIds /\ current # None ELSE id \in alive
  /\ current' = IF id = CurrentId THEN current ELSE id
  /\ ProcessStop(id)
  /\ op' = [kind |-> "remove", id |-> id, step |-> "exiting"]
  /\ UNCHANGED <<alive, era, status, given>>

EngineRemoves ==
  /\ op.kind = "remove" /\ op.step = "exiting"
  /\ EngineDrops({current})
  /\ Proceed("report")
  /\ UNCHANGED <<processMap, told, status, given>>

(* Fault: the status is reported while another process is still there.     *)
ReportIfLast_Always ==
  /\ op.kind = "remove" /\ op.step = "report"
  /\ ReportNoDebuggee
  /\ op' = Idle
  /\ UNCHANGED <<alive, current, era, processMap, told, given>>

(* The status is reported if the map, not the engine, has no process left. *)
ReportIfLast ==
  /\ op.kind = "remove" /\ op.step = "report"
  /\ IF Entries = {} THEN ReportNoDebuggee ELSE UNCHANGED status
  /\ op' = Idle
  /\ UNCHANGED <<alive, current, era, processMap, told, given>>

(* terminateAllProcesses, detachAllProcesses: first every entry of the     *)
(* map, lowest id first, then one engine call, then the status.            *)
RemoveAll ==
  /\ AtRest
  /\ op' = [kind |-> "removeAll", id |-> None, step |-> "loop"]
  /\ UNCHANGED <<alive, current, era, processMap, told, status, given>>

StopNext ==
  /\ op.kind = "removeAll" /\ op.step \in {"loop", "exiting"}
  /\ \E p \in Entries :
       /\ \A q \in Entries : p <= q
       /\ ProcessStop(p)
       /\ op' = [op EXCEPT !.id = p, !.step = "exiting"]
  /\ UNCHANGED <<alive, current, era, status, given>>

LoopEnds ==
  /\ op.kind = "removeAll" /\ op.step \in {"loop", "exiting"}
  /\ Entries = {}
  /\ Proceed("engine")
  /\ UNCHANGED <<alive, current, era, processMap, told, status, given>>

EngineRemovesAll ==
  /\ op.step = "engine"
  /\ EngineDrops(alive)
  /\ ReportNoDebuggee
  /\ op' = Idle
  /\ UNCHANGED <<processMap, told, given>>

(* An engine call fails: DbgEngException leaves what was done as it is.    *)
EngineCallFails ==
  /\ EngineFails
  /\ op.step = "engine" \/ (op.kind = "remove" /\ op.step = "exiting")
  /\ op' = Idle
  /\ UNCHANGED <<alive, current, era, processMap, told, status, given>>

(* The caller selects another process.                                     *)
SetCurrentProcess(p) ==
  /\ AtRest
  /\ p \in alive \ {current}
  /\ current' = p
  /\ UNCHANGED <<alive, era, processMap, told, status, op, given>>
-----------------------------------------------------------------------------
Init ==
  /\ alive = {}
  /\ current = None
  /\ era = [p \in Processes |-> 0]
  /\ processMap = [p \in Processes |-> NoEntry]
  /\ told = {}
  /\ status = "noDebuggee"
  /\ op = Idle
  /\ given \in Givens

(* What follows once an operation or event began.                          *)
Continue ==
  \/ AnnounceStart \/ StartEnds \/ ExitEnds
  \/ EngineRemoves \/ ReportIfLast
  \/ StopNext \/ LoopEnds \/ EngineRemovesAll
  \/ EngineCallFails

Next ==
  \/ Continue
  \/ Lookup
  \/ RemoveAll
  \/ \E p \in Processes : EngineCreates(p) \/ ExitProcess(p) \/ SetCurrentProcess(p)
  \/ \E id \in Processes \cup {CurrentId} : RemoveProcess(id)

Spec == Init /\ [][Next]_vars

(* Handlers and engine calls return.                                       *)
FairSpec == Spec /\ WF_vars(Continue)
-----------------------------------------------------------------------------
(* An announced process is served by an entry of its own incarnation: no   *)
(* module, type or breakpoint cached for an earlier process of that id is  *)
(* ever seen through it, whatever handlers looked up and whatever failed.  *)
AnnouncedAreFresh == ~DefaultIds => \A p \in told : processMap[p] = era[p]

(* Between operations a process whose start was announced and whose exit   *)
(* was not is still there: subscribers may keep using its id.              *)
ToldAreAlive == ~DefaultIds /\ AtRest => told \subseteq alive

(* Between operations subscribers know every process the engine has, when  *)
(* no engine call failed half way; and NoDebuggee was announced only if it *)
(* has none: the count that decides it is the map's, not the engine's.     *)
AliveAreTold ==
  ~DefaultIds /\ ~EngineFails /\ AtRest =>
    alive \subseteq told /\ (status = "noDebuggee" => alive = {})

(* When the last process is gone NoDebuggee has been announced, and no     *)
(* entry is left over for the next process with that id to inherit.        *)
QuietWhenGone == AtRest /\ alive = {} => status = "noDebuggee" /\ Entries = {}

(* So it is when callers name their process, engine calls succeed and      *)
(* handlers bring no entry back.                                           *)
QuietWhenUndisturbed == given = {} => QuietWhenGone

(* Then onProcessExit is also delivered once for each onProcessStart.      *)
ExitFollowsStart ==
  [][given = {} /\ op'.step = "exiting" /\ op' # op => op'.id \in told]_vars

(* Every lifecycle operation ends, whatever fails: processAllTerminate and *)
(* processAllDetach do not loop for ever unless handlers look things up.   *)
OperationEnds == (~HandlerLookups /\ ~AtRest) ~> AtRest
=============================================================================
