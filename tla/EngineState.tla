---------------------------- MODULE EngineState ----------------------------
(***************************************************************************)
(* What subscribers are told of the engine's execution status and current  *)
(* thread, and when they are kept in the dark on purpose.                  *)
(*                                                                         *)
(* DebugManager::ChangeEngineState (source/win/dbgmgr.cpp) passes a change *)
(* on if it differs from what it saw before, and not while quiet.  Three   *)
(* pieces of code use the one quiet flag:                                  *)
(*   ContextAutoRestoreIf (autoswitch.cpp) sets it, and puts back what it  *)
(*     found when the scope is left, after it restored the thread;         *)
(*   the stack readers of cpucontext.cpp set it, and then clear it, unless *)
(*     the context of a 32 bit thread cannot be read on the way;           *)
(*   targetStepOut (dbgeng.cpp) sets it, steps, and then clears it, unless *)
(*     one of the calls in its loop throws.                                *)
(* They nest: target objects read the stack of another thread inside a     *)
(* scope, and handlers of events that are not silenced (breakpoints,       *)
(* modules, exceptions) run while a step-out is under way.                 *)
(*                                                                         *)
(* The engine is external: its notification of the current thread is taken *)
(* to follow the one of DEBUG_STATUS_BREAK, and thread ids to be unique    *)
(* across processes.                                                       *)
(***************************************************************************)
EXTENDS Naturals, Sequences, SequencesExt

CONSTANTS
  Threads,           \* the engine's thread ids
  AnyThread,         \* DEBUG_ANY_ID
  MaxScopes,         \* bound: nested ContextAutoRestoreIf objects
  Givens             \* the sets of circumstances considered

ASSUME ThreadsAssumption == Threads # {} /\ AnyThread \notin Threads

ASSUME BoundAssumption == MaxScopes \in Nat

Circumstances ==
  {"reads", "nested", "throws", "disturbed", "unreadable", "unreadableInside"}

ASSUME GivensAssumption == Givens \subseteq SUBSET Circumstances

VARIABLES
  engineStatus,    \* the engine's execution status
  current,         \* the engine's current thread
  previousStatus,  \* m_previousExecutionStatus
  previousThread,  \* m_previousCurrentThread
  quiet,           \* m_quietNotification
  scopes,          \* the open scopes, innermost last, with what they saved
  stepping,        \* is targetStepOut running?
  toldStatus,      \* the status subscribers know
  toldThread,      \* the thread subscribers know to be current
  given            \* never changes: the circumstances of this behaviour

status == <<engineStatus, previousStatus, toldStatus>>
thread == <<current, previousThread, toldThread>>
control == <<quiet, scopes, stepping, given>>
vars == <<status, thread, control>>

(* A stack is read inside a scope or a step-out.                           *)
ScopedReads == "reads" \in given

(* A scope is opened inside a scope.                                       *)
Nested == "nested" \in given

(* A handler may throw a DbgException.                                     *)
HandlersThrow == "throws" \in given

(* A step-out may lose its thread or its process, or a call of it may fail.*)
StepOutDisturbed == "disturbed" \in given

(* The context of a 32 bit thread may not be readable outside a scope, and *)
(* inside one.                                                             *)
FramesUnreadable == "unreadable" \in given

ScopedFramesUnreadable == "unreadableInside" \in given

Statuses == {"go", "break", "noDebuggee"}

TypeOK ==
  /\ engineStatus \in Statuses
  /\ current \in Threads
  /\ previousStatus \in Statuses \cup {"goNotHandled"}
  /\ previousThread \in Threads
  /\ quiet \in BOOLEAN
  /\ scopes \in Seq([quiet : BOOLEAN, thread : Threads])
  /\ stepping \in BOOLEAN
  /\ toldStatus \in Statuses
  /\ toldThread \in Threads
  /\ given \in Givens

Within == scopes # <<>> \/ stepping
-----------------------------------------------------------------------------
(* Fault: nothing at all leads out of NO_DEBUGGEE.                         *)
PassesStatus_NeverBack(s) == s # previousStatus /\ previousStatus # "noDebuggee"

(* ChangeEngineState, execution status: nothing but DEBUG_STATUS_GO leads  *)
(* out of NO_DEBUGGEE.                                                     *)
PassesStatus(s) ==
  s # previousStatus /\ (previousStatus = "noDebuggee" => s = "go")

ChangeStatus(s) ==
  IF PassesStatus(s)
  THEN /\ previousStatus' = s
       /\ toldStatus' = IF quiet THEN toldStatus ELSE s
  ELSE UNCHANGED <<previousStatus, toldStatus>>

(* A handler throws: the change has been delivered to those before it, and *)
(* is not remembered.                                                      *)
ChangeStatusThrows(s) ==
  /\ HandlersThrow
  /\ PassesStatus(s) /\ ~quiet
  /\ toldStatus' = s
  /\ UNCHANGED previousStatus

(* Fault: DEBUG_ANY_ID is taken for a thread.                              *)
Notice_AnyThread(t, lastStatus, known) ==
  IF lastStatus = "break" /\ previousThread # t
  THEN /\ previousThread' = t
       /\ toldThread' = IF quiet THEN known ELSE t
  ELSE previousThread' = previousThread /\ toldThread' = known

(* ChangeEngineState, current thread: ignored unless the status seen last  *)
(* is BREAK.  known is the thread subscribers know of already.             *)
Notice(t, lastStatus, known) ==
  IF lastStatus = "break" /\ previousThread # t /\ t # AnyThread
  THEN /\ previousThread' = t
       /\ toldThread' = IF quiet THEN known ELSE t
  ELSE previousThread' = previousThread /\ toldThread' = known

(* SetCurrentThreadId: the engine notifies if the thread changes.          *)
SwitchTo(t) ==
  /\ current' = t
  /\ IF t = current
     THEN UNCHANGED <<previousThread, toldThread>>
     ELSE Notice(t, previousStatus, toldThread)
-----------------------------------------------------------------------------
(* The target runs: targetGo, a step, or the next step of targetStepOut.   *)
Go ==
  /\ engineStatus # "go"
  /\ scopes = <<>>
  /\ stepping => engineStatus = "break"
  /\ engineStatus' = "go"
  /\ ChangeStatus("go") \/ ChangeStatusThrows("go")
  /\ UNCHANGED <<thread, control>>

(* It stops in a thread.  Subscribers who hear of the stop look up which.  *)
Break(t) ==
  /\ engineStatus = "go"
  /\ scopes = <<>>
  /\ stepping => StepOutDisturbed \/ t = current
  /\ engineStatus' = "break"
  /\ current' = t
  /\ ChangeStatus("break") \/ ChangeStatusThrows("break")
  /\ Notice(t, previousStatus', IF toldStatus' = toldStatus THEN toldThread ELSE t)
  /\ UNCHANGED control

(* Threads changed, none of them in particular.                            *)
ThreadsChange ==
  /\ Notice(AnyThread, previousStatus, toldThread)
  /\ UNCHANGED <<status, current, control>>

(* The last process is gone.                                               *)
NoDebuggee ==
  /\ engineStatus # "noDebuggee"
  /\ scopes = <<>>
  /\ stepping => StepOutDisturbed /\ engineStatus = "go"
  /\ engineStatus' = "noDebuggee"
  /\ ChangeStatus("noDebuggee") \/ ChangeStatusThrows("noDebuggee")
  /\ UNCHANGED <<thread, control>>

(* kdlib calls ChangeEngineState itself when it has removed the last       *)
(* process, whatever the engine said.                                      *)
ReportNoDebuggee ==
  /\ engineStatus = "noDebuggee"
  /\ scopes = <<>> /\ ~stepping
  /\ ChangeStatus("noDebuggee") \/ ChangeStatusThrows("noDebuggee")
  /\ UNCHANGED <<engineStatus, thread, control>>
-----------------------------------------------------------------------------
(* Code that runs while the engine waits for it: between two commands, or  *)
(* in an event handler while the target is not broken in yet.              *)

SetCurrentThread(t) ==
  /\ engineStatus # "noDebuggee"
  /\ stepping /\ scopes = <<>> => StepOutDisturbed
  /\ t # current
  /\ SwitchTo(t)
  /\ UNCHANGED <<status, control>>

(* Fault: a scope does not silence the code inside it.                     *)
OpenScope_Loud ==
  /\ engineStatus # "noDebuggee"
  /\ scopes # <<>> => Nested
  /\ Len(scopes) < MaxScopes
  /\ scopes' = Append(scopes, [quiet |-> quiet, thread |-> current])
  /\ UNCHANGED <<status, thread, quiet, stepping, given>>

OpenScope ==
  /\ engineStatus # "noDebuggee"
  /\ scopes # <<>> => Nested
  /\ Len(scopes) < MaxScopes
  /\ scopes' = Append(scopes, [quiet |-> quiet, thread |-> current])
  /\ quiet' = TRUE
  /\ UNCHANGED <<status, thread, stepping, given>>

(* Fault: the scope leaves the thread as it is.                            *)
CloseScope_KeepsThread ==
  /\ scopes # <<>>
  /\ scopes' = Front(scopes)
  /\ quiet' = Last(scopes).quiet
  /\ UNCHANGED <<status, thread, stepping, given>>

(* Fault: the scope sets the flag instead of putting it back.              *)
CloseScope_StaysQuiet ==
  /\ scopes # <<>>
  /\ scopes' = Front(scopes)
  /\ SwitchTo(Last(scopes).thread)
  /\ quiet' = TRUE
  /\ UNCHANGED <<status, stepping, given>>

(* The thread is restored before the flag.                                 *)
CloseScope ==
  /\ scopes # <<>>
  /\ scopes' = Front(scopes)
  /\ SwitchTo(Last(scopes).thread)
  /\ quiet' = Last(scopes).quiet
  /\ UNCHANGED <<status, stepping, given>>

(* getStack, getStackFrame: the flag is cleared, not put back, whether the *)
(* engine can walk the stack or not.                                       *)
ReadStack ==
  /\ engineStatus # "noDebuggee"
  /\ Within => ScopedReads
  /\ quiet
  /\ quiet' = FALSE
  /\ UNCHANGED <<status, thread, scopes, stepping, given>>

(* getStackFrame of a 32 bit thread other than the one of the last event:  *)
(* ReadWow64Context throws between the two, and the flag stays set.        *)
ReadFrameThrows ==
  /\ engineStatus # "noDebuggee"
  /\ Within => ScopedReads
  /\ scopes = <<>> => FramesUnreadable
  /\ scopes # <<>> => ScopedFramesUnreadable
  /\ quiet' = TRUE
  /\ UNCHANGED <<status, thread, scopes, stepping, given>>

StepOutBegins ==
  /\ engineStatus = "break"
  /\ ~Within
  /\ stepping' = TRUE
  /\ quiet' = TRUE
  /\ UNCHANGED <<status, thread, scopes, given>>

StepOutEnds ==
  /\ stepping
  /\ engineStatus = "break"
  /\ scopes = <<>>
  /\ stepping' = FALSE
  /\ quiet' = FALSE
  /\ UNCHANGED <<status, thread, scopes, given>>

(* Disasm, SetExecutionStatus or WaitForEvent throws out of the loop, the  *)
(* target being broken in, running or gone, and the flag stays as it is.   *)
StepOutThrows ==
  /\ stepping
  /\ scopes = <<>>
  /\ StepOutDisturbed
  /\ stepping' = FALSE
  /\ UNCHANGED <<status, thread, quiet, scopes, given>>
-----------------------------------------------------------------------------
(* The constructor stores 3, its own enumeration's NoDebuggee, which the   *)
(* engine's enumeration calls GO_NOT_HANDLED; and thread 0.                *)
Init ==
  /\ engineStatus = "noDebuggee"
  /\ previousStatus = "goNotHandled"
  /\ toldStatus = "noDebuggee"
  /\ current \in Threads
  /\ previousThread = current
  /\ toldThread = current
  /\ quiet = FALSE
  /\ scopes = <<>>
  /\ stepping = FALSE
  /\ given \in Givens

Next ==
  \/ Go
  \/ NoDebuggee
  \/ ReportNoDebuggee
  \/ ThreadsChange
  \/ OpenScope
  \/ CloseScope
  \/ ReadStack
  \/ ReadFrameThrows
  \/ StepOutBegins
  \/ StepOutEnds
  \/ StepOutThrows
  \/ \E t \in Threads : Break(t) \/ SetCurrentThread(t)

Spec == Init /\ [][Next]_vars
-----------------------------------------------------------------------------
(* Notifications are back on whenever no scope is open and no step-out     *)
(* runs: no sequence of scopes, readers and throwing handlers loses the    *)
(* flag, nor a frame that cannot be read while a scope is open.  A frame   *)
(* that cannot be read outside of them does, and a step-out that fails.    *)
QuietBalanced ==
  ~StepOutDisturbed /\ ~FramesUnreadable /\ ~Within => ~quiet

(* Outside scopes and step-outs subscribers know the status, although some *)
(* of its changes were kept from them; not if one of them throws, nor once *)
(* the flag is lost.                                                       *)
StatusInSync ==
  ~StepOutDisturbed /\ ~FramesUnreadable /\ ~HandlersThrow /\ ~Within
    => toldStatus = engineStatus

(* Outside scopes and step-outs subscribers know the current thread of a   *)
(* target that is broken in.  A reader inside a nested scope spoils it: the*)
(* switch back to the thread of the scope around it is then announced.  So *)
(* does a reader that throws where another has let subscribers hear of a   *)
(* thread visited: the switch back is silent again.                        *)
ThreadInSync ==
  ~StepOutDisturbed /\ ~HandlersThrow /\ ~FramesUnreadable /\ ~ScopedFramesUnreadable
    /\ ~(ScopedReads /\ Nested) /\ ~Within /\ engineStatus = "break"
      => toldThread = current

(* Subscribers never hear of the threads that are visited inside a scope   *)
(* in which no stack is read.                                              *)
SilentScopes == [][~ScopedReads /\ scopes # <<>> => toldThread' = toldThread]_vars
=============================================================================
