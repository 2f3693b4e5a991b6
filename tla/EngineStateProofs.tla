------------------------- MODULE EngineStateProofs -------------------------
(***************************************************************************)
(* Unless an error path loses the quiet flag, it is never lost and         *)
(* subscribers are never left with an old execution status or thread; and  *)
(* they never hear of the threads visited in a silent scope.  All this for *)
(* any set of threads and any nesting of scopes.                           *)
(*                                                                         *)
(* Open scopes hide the value the flag and the current thread will have    *)
(* when they are all closed; the invariants speak of those values, Base    *)
(* and BaseThread, which readers inside a scope cannot change.             *)
(***************************************************************************)
EXTENDS EngineState, SequenceTheorems, TLAPS

Base == IF scopes = <<>> THEN quiet ELSE scopes[1].quiet

QuietInv ==
  /\ stepping => engineStatus # "noDebuggee"
  /\ ~stepping => ~Base

StatusInv ==
  /\ previousStatus = engineStatus
       \/ (previousStatus = "goNotHandled" /\ engineStatus = "noDebuggee")
  /\ ~stepping => toldStatus = engineStatus
  /\ stepping => toldStatus = "break" \/ (toldStatus = engineStatus /\ ~Base)

BaseThread == IF scopes = <<>> THEN current ELSE scopes[1].thread

SilentInv ==
  /\ scopes # <<>> => quiet
  /\ \A i \in 2..Len(scopes) : scopes[i].quiet

(* A reader may let subscribers hear of the threads visited in the rest of *)
(* its scope; they then know the very thread the scope will switch from.   *)
ThreadInv ==
  /\ engineStatus = "break" => previousThread = current
  /\ engineStatus = "break" \/ stepping =>
       \/ toldThread = BaseThread
       \/ /\ scopes # <<>> /\ ~quiet
          /\ engineStatus = "break" /\ toldThread = current

(* They hold in the circumstances they can hold in.                        *)
QuietIf == ~StepOutDisturbed /\ ~FramesUnreadable => QuietInv

StatusIf ==
  ~StepOutDisturbed /\ ~FramesUnreadable /\ ~HandlersThrow => StatusInv

SilentIf == ~ScopedReads => SilentInv

SingleIf == ~Nested => Len(scopes) <= 1

ThreadIf ==
  ~StepOutDisturbed /\ ~HandlersThrow /\ ~FramesUnreadable /\ ~ScopedFramesUnreadable
    /\ ~(ScopedReads /\ Nested)
      => ThreadInv
-----------------------------------------------------------------------------
(* Front keeps everything but the last element, where it was.              *)
LEMMA FrontElements ==
  ASSUME NEW S, NEW s \in Seq(S), s # <<>>
  PROVE  /\ Len(s) \in Nat \ {0}
         /\ Front(s) \in Seq(S)
         /\ Len(Front(s)) = Len(s) - 1
         /\ \A i \in 1..Len(s) - 1 : Front(s)[i] = s[i]
<1>1. Len(s) \in Nat \ {0}
  BY EmptySeq, LenProperties
<1>2. /\ Front(s) \in Seq(S)
      /\ Len(Front(s)) = Len(s) - 1
      /\ \A i \in 1..Len(s) - 1 : Front(s)[i] = s[i]
  <2> DEFINE n == Len(s) - 1
  <2>1. n \in Int /\ \A i \in 1..n : s[i] \in S
    BY <1>1, ElementOfSeq
  <2>2. /\ SubSeq(s, 1, n) \in Seq(S)
        /\ Len(SubSeq(s, 1, n)) = IF 1 <= n THEN n - 1 + 1 ELSE 0
        /\ \A i \in 1..(n - 1 + 1) : SubSeq(s, 1, n)[i] = s[1 + i - 1]
    BY <2>1, SubSeqProperties
  <2>3. \A i \in 1..n : SubSeq(s, 1, n)[i] = s[i]
    BY <1>1, <2>2
  <2>a. n \in Nat
    BY <1>1
  <2>4. Len(SubSeq(s, 1, n)) = n
    <3> HIDE DEF n
    <3>1. CASE n = 0
      BY <2>2, <3>1
    <3>2. CASE n # 0
      BY <2>a, <2>2, <3>2
    <3> QED
      BY <3>1, <3>2
  <2>5. Front(s) = SubSeq(s, 1, n)
    BY DEF Front
  <2> HIDE DEF n
  <2> QED
    BY <2>2, <2>3, <2>4, <2>5 DEF n
<1> QED
  BY <1>1, <1>2

(* Front of a sequence with more than one element has the same first one.  *)
LEMMA FrontFirst ==
  ASSUME NEW S, NEW s \in Seq(S), s # <<>>
  PROVE  /\ Len(s) = 1 => Front(s) = <<>>
         /\ Len(s) # 1 => Front(s) # <<>> /\ Front(s)[1] = s[1]
<1>1. /\ Len(s) \in Nat \ {0}
      /\ Front(s) \in Seq(S)
      /\ Len(Front(s)) = Len(s) - 1
      /\ \A i \in 1..Len(s) - 1 : Front(s)[i] = s[i]
  BY FrontElements
<1>2. Front(s) = <<>> <=> Len(Front(s)) = 0
  BY <1>1, EmptySeq
<1> QED
  BY <1>1, <1>2

(* Opening and closing a scope leave the flag below the scopes alone, if   *)
(* the saved flag is put back when the outermost one is closed.            *)
LEMMA OpenKeepsBase ==
  ASSUME TypeOK, OpenScope
  PROVE  /\ Base' = Base
         /\ scopes' \in Seq([quiet : BOOLEAN, thread : Threads])
<1> DEFINE s == [quiet |-> quiet, thread |-> current]
<1>1. s \in [quiet : BOOLEAN, thread : Threads] /\ s.quiet = quiet
  BY DEF TypeOK
<1>2. scopes' = Append(scopes, s) /\ scopes \in Seq([quiet : BOOLEAN, thread : Threads])
  BY DEF OpenScope, TypeOK
<1> HIDE DEF s
<1>3. scopes' # <<>> /\ scopes'[1] = IF scopes = <<>> THEN s ELSE scopes[1]
  BY <1>1, <1>2
<1> QED
  BY <1>1, <1>2, <1>3 DEF Base

(* Closing a scope leaves the flag saved by the outermost one alone.      *)
LEMMA CloseKeepsBase ==
  ASSUME TypeOK, CloseScope
  PROVE  /\ Base' = Base
         /\ scopes' \in Seq([quiet : BOOLEAN, thread : Threads])
         /\ quiet' \in BOOLEAN
         /\ Last(scopes).thread \in Threads
<1>1. /\ scopes # <<>>
      /\ scopes' = Front(scopes)
      /\ quiet' = Last(scopes).quiet
      /\ scopes \in Seq([quiet : BOOLEAN, thread : Threads])
  BY DEF CloseScope, TypeOK
<1>2. Last(scopes) \in [quiet : BOOLEAN, thread : Threads] /\ Last(scopes) = scopes[Len(scopes)]
  <2> DEFINE R == [quiet : BOOLEAN, thread : Threads]
  <2>1. scopes \in Seq(R) /\ Len(scopes) \in 1..Len(scopes)
    <3>1. scopes \in Seq(R) /\ scopes # <<>>
      BY <1>1
    <3>2. Len(scopes) \in Nat \ {0}
      BY <3>1, EmptySeq
    <3> QED
      BY <3>1, <3>2
  <2> HIDE DEF R
  <2>2. scopes[Len(scopes)] \in R
    BY <2>1, ElementOfSeq
  <2> QED
    BY <2>2 DEF Last, R
<1>3. /\ scopes' \in Seq([quiet : BOOLEAN, thread : Threads])
      /\ Len(scopes) = 1 => scopes' = <<>>
      /\ Len(scopes) # 1 => scopes' # <<>> /\ scopes'[1] = scopes[1]
  BY <1>1, FrontElements, FrontFirst
<1> QED
  BY <1>1, <1>2, <1>3 DEF Base

(* Opening a scope adds what it saves, and keeps the others.               *)
LEMMA OpenAddsOne ==
  ASSUME TypeOK, OpenScope
  PROVE  /\ Len(scopes) \in Nat
         /\ Len(scopes') = Len(scopes) + 1
         /\ \A i \in 1..Len(scopes) : scopes'[i] = scopes[i]
         /\ scopes'[Len(scopes) + 1].quiet = quiet
         /\ scopes' # <<>>
         /\ scopes'[1].thread = BaseThread
<1> DEFINE s == [quiet |-> quiet, thread |-> current]
<1>1. s \in [quiet : BOOLEAN, thread : Threads] /\ s.quiet = quiet /\ s.thread = current
  BY DEF TypeOK
<1>2. scopes' = Append(scopes, s) /\ scopes \in Seq([quiet : BOOLEAN, thread : Threads])
  BY DEF OpenScope, TypeOK
<1> HIDE DEF s
<1>3. /\ Len(scopes) \in Nat
      /\ Len(scopes') = Len(scopes) + 1
      /\ \A i \in 1..Len(scopes) : scopes'[i] = scopes[i]
      /\ scopes'[Len(scopes) + 1] = s
      /\ scopes' # <<>>
      /\ scopes'[1] = IF scopes = <<>> THEN s ELSE scopes[1]
  BY <1>1, <1>2
<1> QED
  BY <1>1, <1>3 DEF BaseThread

(* Closing a scope drops the innermost one and nothing else.               *)
LEMMA CloseDropsLast ==
  ASSUME TypeOK, CloseScope
  PROVE  /\ Len(scopes) \in Nat \ {0}
         /\ Len(scopes') = Len(scopes) - 1
         /\ \A i \in 1..Len(scopes) - 1 : scopes'[i] = scopes[i]
         /\ Last(scopes) = scopes[Len(scopes)]
         /\ scopes' = <<>> <=> Len(scopes) = 1
         /\ BaseThread = scopes[1].thread
         /\ scopes[1].thread \in Threads
<1>1. scopes # <<>> /\ scopes' = Front(scopes)
      /\ scopes \in Seq([quiet : BOOLEAN, thread : Threads])
  BY DEF CloseScope, TypeOK
<1>2. /\ Len(scopes) \in Nat \ {0}
      /\ scopes' \in Seq([quiet : BOOLEAN, thread : Threads])
      /\ Len(scopes') = Len(scopes) - 1
      /\ \A i \in 1..Len(scopes) - 1 : scopes'[i] = scopes[i]
  BY <1>1, FrontElements
<1>3. scopes' = <<>> <=> Len(scopes) = 1
  BY <1>2
<1>4. scopes[1].thread \in Threads
  <2> DEFINE R == [quiet : BOOLEAN, thread : Threads]
  <2>1. scopes[1] \in R
    <3>1. scopes \in Seq(R) /\ 1 \in 1..Len(scopes)
      BY <1>1, <1>2
    <3> HIDE DEF R
    <3> QED
      BY <3>1, ElementOfSeq
  <2>2. \A r \in R : r.thread \in Threads
    OBVIOUS
  <2> QED
    BY <2>1, <2>2
<1>5. Last(scopes) = scopes[Len(scopes)]
  BY DEF Last
<1>6. BaseThread = scopes[1].thread
  BY <1>1 DEF BaseThread
<1> QED
  BY <1>2, <1>3, <1>4, <1>5, <1>6

(* A notification keeps the types of what it changes.                      *)
LEMMA NoticeType ==
  ASSUME TypeOK, NEW t \in Threads \cup {AnyThread}, NEW s, NEW known \in Threads,
         Notice(t, s, known)
  PROVE  previousThread' \in Threads /\ toldThread' \in Threads
  BY ThreadsAssumption DEF Notice, TypeOK

(* A switch of threads keeps the types of what it changes.                *)
LEMMA SwitchType ==
  ASSUME TypeOK, NEW t \in Threads, SwitchTo(t)
  PROVE  current' = t /\ previousThread' \in Threads /\ toldThread' \in Threads
  BY NoticeType DEF SwitchTo, TypeOK

(* A change of status keeps the types of what it changes.                 *)
LEMMA ChangeType ==
  ASSUME TypeOK, NEW s \in Statuses, ChangeStatus(s) \/ ChangeStatusThrows(s)
  PROVE  /\ previousStatus' \in Statuses \cup {"goNotHandled"}
         /\ toldStatus' \in Statuses
  BY DEF ChangeStatus, ChangeStatusThrows, TypeOK
-----------------------------------------------------------------------------
(* Initially nothing is open and nothing has been said.                    *)
LEMMA InitInvariant == Init => TypeOK /\ QuietInv /\ StatusInv
<1>1. <<>> \in Seq([quiet : BOOLEAN, thread : Threads])
  OBVIOUS
<1> QED
  BY <1>1 DEF Init, QuietInv, StatusInv, TypeOK, Base, Statuses

(* The circumstances of a behaviour do not change.                         *)
LEMMA GivenIsRigid == [Next]_vars => given' = given
BY DEF Next, vars, control, Go, NoDebuggee, ReportNoDebuggee, ThreadsChange, OpenScope,
       CloseScope, ReadStack, ReadFrameThrows, StepOutBegins, StepOutEnds, StepOutThrows,
       Break, SetCurrentThread

(* Every step keeps the types, and the flag below the scopes, whatever     *)
(* handlers read or throw, unless a step-out fails or a frame cannot be    *)
(* read outside the scopes.                                                *)
LEMMA QuietStep ==
  ASSUME TypeOK, QuietIf, [Next]_vars
  PROVE  TypeOK' /\ QuietIf'
<1> USE GivenIsRigid DEF QuietInv, QuietIf, StepOutDisturbed, FramesUnreadable
<1>1. CASE Go
  <2>1. engineStatus' = "go" /\ UNCHANGED <<thread, control>>
    BY <1>1 DEF Go
  <2> QED
    BY <1>1, <2>1, ChangeType DEF Go, TypeOK, thread, control, Base, Statuses
<1>2. CASE NoDebuggee
  BY <1>2, ChangeType DEF NoDebuggee, TypeOK, thread, control, Base, Statuses
<1>3. CASE ReportNoDebuggee
  BY <1>3, ChangeType DEF ReportNoDebuggee, TypeOK, thread, control, Base, Statuses
<1>4. CASE ThreadsChange
  BY <1>4, NoticeType DEF ThreadsChange, TypeOK, status, control, Base
<1>5. CASE OpenScope
  BY <1>5, OpenKeepsBase DEF OpenScope, TypeOK, status, thread
<1>6. CASE CloseScope
  <2>1. current' \in Threads /\ previousThread' \in Threads /\ toldThread' \in Threads
    BY <1>6, CloseKeepsBase, SwitchType DEF CloseScope
  <2> QED
    BY <1>6, <2>1, CloseKeepsBase DEF CloseScope, TypeOK, status
<1>7. CASE ReadStack
  BY <1>7 DEF ReadStack, TypeOK, status, thread, Base
<1>8. CASE StepOutBegins
  BY <1>8 DEF StepOutBegins, TypeOK, status, thread, Base
<1>9. CASE StepOutEnds
  BY <1>9 DEF StepOutEnds, TypeOK, status, thread, Base
<1>10. CASE StepOutThrows
  BY <1>10 DEF StepOutThrows, TypeOK, status, thread, Base
<1>11. ASSUME NEW t \in Threads, Break(t) PROVE TypeOK' /\ QuietIf'
  <2>1. toldStatus' \in Statuses /\ previousStatus' \in Statuses \cup {"goNotHandled"}
    BY <1>11, ChangeType DEF Break, Statuses
  <2>2. previousThread' \in Threads /\ toldThread' \in Threads
    BY <1>11, NoticeType DEF Break, TypeOK
  <2> QED
    BY <1>11, <2>1, <2>2 DEF Break, TypeOK, control, Base, Statuses
<1>12. ASSUME NEW t \in Threads, SetCurrentThread(t) PROVE TypeOK' /\ QuietIf'
  BY <1>12, SwitchType DEF SetCurrentThread, TypeOK, status, control, Base
<1>13. CASE UNCHANGED vars
  BY <1>13 DEF vars, status, thread, control, TypeOK, Base
<1>14. CASE ReadFrameThrows
  BY <1>14 DEF ReadFrameThrows, Within, TypeOK, status, thread, Base
<1> QED
  BY <1>1, <1>2, <1>3, <1>4, <1>5, <1>6, <1>7, <1>8, <1>9, <1>10, <1>11, <1>12, <1>13,
     <1>14
     DEF Next

(* Unless a handler throws, every step keeps what subscribers know of the  *)
(* status: while a step-out runs silently they believe in the break it     *)
(* started from, and it ends in one.                                       *)
LEMMA StatusStep ==
  ASSUME TypeOK, QuietIf, StatusIf, [Next]_vars
  PROVE  StatusIf'
<1> SUFFICES ASSUME ~StepOutDisturbed, ~FramesUnreadable, ~HandlersThrow,
                    QuietInv, StatusInv
             PROVE  StatusInv'
  BY GivenIsRigid DEF StatusIf, QuietIf, StepOutDisturbed, FramesUnreadable, HandlersThrow
<1> USE DEF QuietInv, StatusInv
<1>1. CASE Go
  BY <1>1 DEF Go, ChangeStatus, ChangeStatusThrows, PassesStatus, control, Base
<1>2. CASE NoDebuggee
  BY <1>2 DEF NoDebuggee, ChangeStatus, ChangeStatusThrows, PassesStatus, control, Base
<1>3. CASE ReportNoDebuggee
  BY <1>3 DEF ReportNoDebuggee, ChangeStatus, ChangeStatusThrows, PassesStatus, control,
              Base
<1>4. CASE ThreadsChange
  BY <1>4 DEF ThreadsChange, status, control, Base
<1>5. CASE OpenScope
  BY <1>5, OpenKeepsBase DEF OpenScope, status
<1>6. CASE CloseScope
  BY <1>6, CloseKeepsBase DEF CloseScope, status
<1>7. CASE ReadStack
  BY <1>7 DEF ReadStack, status, Base
<1>8. CASE StepOutBegins
  BY <1>8 DEF StepOutBegins, Within, status
<1>9. CASE StepOutEnds
  BY <1>9 DEF StepOutEnds, status
<1>10. CASE StepOutThrows
  BY <1>10 DEF StepOutThrows
<1>11. ASSUME NEW t \in Threads, Break(t) PROVE StatusInv'
  BY <1>11 DEF Break, ChangeStatus, ChangeStatusThrows, PassesStatus, control, Base
<1>12. ASSUME NEW t \in Threads, SetCurrentThread(t) PROVE StatusInv'
  BY <1>12 DEF SetCurrentThread, status, control, Base
<1>13. CASE UNCHANGED vars
  BY <1>13 DEF vars, status, control, Base
<1>14. CASE ReadFrameThrows
  BY <1>14 DEF ReadFrameThrows, status, Base
<1> QED
  BY <1>1, <1>2, <1>3, <1>4, <1>5, <1>6, <1>7, <1>8, <1>9, <1>10, <1>11, <1>12, <1>13,
     <1>14
     DEF Next

(* Unless a stack is read inside a scope, every step keeps the flag set in *)
(* all scopes, and finds it set in all that are left but the outermost.    *)
LEMMA SilentStep ==
  ASSUME TypeOK, SilentIf, [Next]_vars
  PROVE  SilentIf'
<1> SUFFICES ASSUME ~ScopedReads, SilentInv
             PROVE  SilentInv'
  BY GivenIsRigid DEF SilentIf, ScopedReads
<1> USE DEF SilentInv
<1>1. CASE UNCHANGED <<quiet, scopes>>
  BY <1>1
<1>2. CASE OpenScope
  <2>1. quiet'
    BY <1>2 DEF OpenScope
  <2>2. ASSUME NEW i \in 2..Len(scopes') PROVE scopes'[i].quiet
    <3>1. CASE i \in 2..Len(scopes)
      BY <1>2, <3>1, OpenAddsOne
    <3>2. CASE i = Len(scopes) + 1
      BY <1>2, <3>2, OpenAddsOne
    <3> QED
      BY <1>2, <3>1, <3>2, OpenAddsOne
  <2> QED
    BY <2>1, <2>2
<1>3. CASE CloseScope
  <2>1. scopes' # <<>> => quiet'
    BY <1>3, CloseDropsLast DEF CloseScope
  <2>2. ASSUME NEW i \in 2..Len(scopes') PROVE scopes'[i].quiet
    BY <1>3, CloseDropsLast
  <2> QED
    BY <2>1, <2>2
<1>4. CASE ~Within /\ scopes' = scopes
  BY <1>4 DEF Within, TypeOK
<1>5. CASE StepOutEnds
  BY <1>5 DEF StepOutEnds, TypeOK
<1>6. CASE ReadStack
  BY <1>4, <1>6 DEF ReadStack
<1>7. CASE StepOutBegins \/ ReadFrameThrows
  BY <1>4, <1>7 DEF StepOutBegins, ReadFrameThrows
<1>8. CASE UNCHANGED vars
  BY <1>1, <1>8 DEF vars, control
<1>9. CASE \/ Go \/ NoDebuggee \/ ReportNoDebuggee \/ ThreadsChange \/ StepOutThrows
           \/ \E t \in Threads : Break(t) \/ SetCurrentThread(t)
  BY <1>1, <1>9 DEF Go, NoDebuggee, ReportNoDebuggee, ThreadsChange, StepOutThrows, Break,
                    SetCurrentThread, control
<1> QED
  BY <1>2, <1>3, <1>5, <1>6, <1>7, <1>8, <1>9 DEF Next

(* Without nesting there is at most one scope.                             *)
LEMMA SingleStep ==
  ASSUME TypeOK, SingleIf, [Next]_vars
  PROVE  SingleIf'
<1> SUFFICES ASSUME ~Nested, Len(scopes) <= 1
             PROVE  Len(scopes') <= 1
  BY GivenIsRigid DEF SingleIf, Nested
<1>1. CASE OpenScope
  <2>1. Len(scopes) = 0
    BY <1>1 DEF OpenScope
  <2>2. Len(scopes') = Len(scopes) + 1
    BY <1>1, OpenAddsOne
  <2> QED
    BY <2>1, <2>2
<1>2. CASE CloseScope
  <2>1. Len(scopes) \in Nat /\ Len(scopes') = Len(scopes) - 1
    BY <1>2, CloseDropsLast
  <2> QED
    BY <2>1
<1>3. CASE scopes' = scopes
  BY <1>3
<1>4. CASE UNCHANGED vars
  BY <1>3, <1>4 DEF vars, control
<1>5. CASE \/ Go \/ NoDebuggee \/ ReportNoDebuggee \/ ThreadsChange \/ ReadStack
           \/ ReadFrameThrows \/ StepOutBegins \/ StepOutEnds \/ StepOutThrows
           \/ \E t \in Threads : Break(t) \/ SetCurrentThread(t)
  BY <1>3, <1>5 DEF Go, NoDebuggee, ReportNoDebuggee, ThreadsChange, ReadStack,
                    ReadFrameThrows, StepOutBegins, StepOutEnds, StepOutThrows, Break, SetCurrentThread,
                    control
<1> QED
  BY <1>1, <1>2, <1>4, <1>5 DEF Next

(* Unless a handler or a reader throws or a scope is opened in one read in,*)
(* every step keeps what subscribers know of the thread: that of the       *)
(* outermost scope, to which the scopes will switch back.                  *)
LEMMA ThreadStep ==
  ASSUME TypeOK, QuietIf, StatusIf, SilentIf, SingleIf, ThreadIf, [Next]_vars
  PROVE  ThreadIf'
<1> SUFFICES ASSUME ~StepOutDisturbed, ~HandlersThrow, ~FramesUnreadable,
                    ~ScopedFramesUnreadable, ~(ScopedReads /\ Nested),
                    QuietInv, StatusInv, ThreadInv
             PROVE  ThreadInv'
  BY GivenIsRigid DEF ThreadIf, StatusIf, QuietIf, StepOutDisturbed, HandlersThrow,
                      FramesUnreadable, ScopedFramesUnreadable, ScopedReads, Nested
<1> USE DEF ThreadInv, BaseThread
<1>1. CASE Go
  BY <1>1 DEF Go, thread, control
<1>2. CASE NoDebuggee
  BY <1>2 DEF NoDebuggee, thread, control, QuietInv
<1>3. CASE ReportNoDebuggee
  BY <1>3 DEF ReportNoDebuggee, thread, control
<1>4. CASE ThreadsChange
  BY <1>4 DEF ThreadsChange, Notice, status, control
<1>5. CASE OpenScope
  <2>1. scopes # <<>> => quiet
    BY <1>5 DEF OpenScope, SilentIf, SilentInv
  <2>2. BaseThread' = BaseThread
    BY <1>5, OpenAddsOne
  <2> QED
    BY <1>5, <2>1, <2>2 DEF OpenScope, status, thread
<1>6. CASE CloseScope
  <2>1. PICK t \in Threads : t = Last(scopes).thread /\ SwitchTo(t) /\ current' = t
    BY <1>6, CloseKeepsBase DEF CloseScope, SwitchTo
  <2>2. t # AnyThread
    BY ThreadsAssumption
  <2>3. engineStatus' = engineStatus /\ previousStatus' = previousStatus /\ stepping' = stepping
    BY <1>6 DEF CloseScope, status
  <2>4. engineStatus' = "break" => previousThread' = current'
    BY <2>1, <2>2, <2>3 DEF SwitchTo, Notice, StatusInv
  <2>5. CASE quiet
    <3>1. toldThread' = toldThread
      BY <2>1, <2>5 DEF SwitchTo, Notice
    <3>2. BaseThread' = BaseThread
      BY <1>6, <2>1, CloseDropsLast
    <3> QED
      BY <2>3, <2>4, <2>5, <3>1, <3>2
  <2>6. CASE ~quiet
    <3>1. Len(scopes) = 1
      BY <1>6, <2>6, CloseDropsLast DEF CloseScope, SilentIf, SilentInv, SingleIf
    <3>2. scopes' = <<>> /\ BaseThread = t
      BY <1>6, <2>1, <3>1, CloseDropsLast
    <3>3. engineStatus = "break" \/ stepping => toldThread' = t
      BY <2>1, <2>2, <2>6, <3>2 DEF SwitchTo, Notice, StatusInv
    <3> QED
      BY <2>1, <2>3, <2>4, <3>2, <3>3
  <2> QED
    BY <2>5, <2>6 DEF TypeOK
<1>7. CASE ReadStack
  BY <1>7 DEF ReadStack, status, thread
<1>8. CASE StepOutBegins
  BY <1>8 DEF StepOutBegins, Within, status, thread
<1>9. CASE StepOutEnds
  BY <1>9 DEF StepOutEnds, status, thread
<1>10. CASE StepOutThrows
  BY <1>10 DEF StepOutThrows, QuietInv
<1>11. ASSUME NEW t \in Threads, Break(t) PROVE ThreadInv'
  <2>1. engineStatus' = "break" /\ current' = t /\ scopes' = <<>> /\ scopes = <<>>
    BY <1>11 DEF Break, control
  <2>2. t # AnyThread
    BY ThreadsAssumption
  <2>3. previousStatus' = "break" /\ toldStatus' = IF quiet THEN toldStatus ELSE "break"
    BY <1>11 DEF Break, ChangeStatus, ChangeStatusThrows, PassesStatus, StatusInv
  <2>4. Notice(t, "break", IF toldStatus' = toldStatus THEN toldThread ELSE t)
    BY <1>11, <2>3 DEF Break
  <2>5. previousThread' = t
    BY <2>2, <2>4 DEF Notice
  <2>6. toldThread' = t
    <3>1. CASE stepping
      BY <1>11, <2>1, <2>4, <3>1 DEF Break, Notice
    <3>2. CASE ~stepping
      <4>1. ~quiet /\ toldStatus = "go"
        BY <1>11, <2>1, <3>2 DEF Break, QuietInv, StatusInv, Base
      <4> QED
        BY <2>3, <2>4, <4>1 DEF Notice
    <3> QED
      BY <3>1, <3>2
  <2> QED
    BY <2>1, <2>5, <2>6
<1>12. ASSUME NEW t \in Threads, SetCurrentThread(t) PROVE ThreadInv'
  <2>1. /\ current' = t /\ t # current /\ t # AnyThread
        /\ Notice(t, previousStatus, toldThread)
        /\ UNCHANGED <<status, control>>
    BY <1>12, ThreadsAssumption DEF SetCurrentThread, SwitchTo
  <2>2. engineStatus = "break" => previousThread' = t
    BY <2>1 DEF Notice, StatusInv
  <2>3. CASE scopes = <<>>
    <3>1. ~stepping
      BY <1>12, <2>3 DEF SetCurrentThread
    <3>2. ~quiet
      BY <2>3, <3>1 DEF QuietInv, Base
    <3>3. engineStatus = "break" => toldThread' = t
      BY <2>1, <3>2 DEF Notice, StatusInv
    <3> QED
      BY <2>1, <2>2, <2>3, <3>1, <3>3 DEF status, control
  <2>4. CASE scopes # <<>>
    <3>1. CASE quiet
      BY <2>1, <2>2, <2>4, <3>1 DEF Notice, status, control
    <3>2. CASE ~quiet /\ engineStatus = "break"
      BY <2>1, <2>2, <2>4, <3>2 DEF Notice, StatusInv, status, control
    <3>3. CASE engineStatus # "break"
      BY <2>1, <2>4, <3>3 DEF Notice, StatusInv, status, control
    <3> QED
      BY <3>1, <3>2, <3>3 DEF TypeOK
  <2> QED
    BY <2>3, <2>4
<1>13. CASE UNCHANGED vars
  BY <1>13 DEF vars, status, thread, control
<1>14. CASE ReadFrameThrows
  BY <1>14 DEF ReadFrameThrows
<1> QED
  BY <1>1, <1>2, <1>3, <1>4, <1>5, <1>6, <1>7, <1>8, <1>9, <1>10, <1>11, <1>12, <1>13,
     <1>14
     DEF Next
-----------------------------------------------------------------------------
(* The quiet flag is back whenever no scope is open and no step-out runs,  *)
(* although stack readers clear it or lose it inside the scopes and        *)
(* handlers throw, unless one loses it outside or a step-out fails.        *)
THEOREM QuietIsBalanced == Spec => [](TypeOK /\ QuietBalanced)
<1>1. Init => TypeOK /\ QuietIf
  BY InitInvariant DEF QuietIf
<1>2. TypeOK /\ QuietIf /\ [Next]_vars => TypeOK' /\ QuietIf'
  BY QuietStep
<1>3. QuietIf => QuietBalanced
  BY DEF QuietIf, QuietInv, Base, QuietBalanced, Within
<1> QED
  BY <1>1, <1>2, <1>3, PTL DEF Spec

(* Outside scopes and step-outs subscribers know the execution status, as  *)
(* long as no handler throws and no error path loses the flag.             *)
THEOREM StatusIsInSync == Spec => []StatusInSync
<1>1. Init => TypeOK /\ QuietIf /\ StatusIf
  BY InitInvariant DEF QuietIf, StatusIf
<1>2. TypeOK /\ QuietIf /\ StatusIf /\ [Next]_vars => TypeOK' /\ QuietIf' /\ StatusIf'
  BY QuietStep, StatusStep
<1>3. StatusIf => StatusInSync
  BY DEF StatusIf, StatusInv, StatusInSync, Within
<1> QED
  BY <1>1, <1>2, <1>3, PTL DEF Spec

(* All that the module keeps has its type, whatever handlers do, read or   *)
(* throw.                                                                  *)
THEOREM TypeCorrect == Spec => []TypeOK
BY QuietIsBalanced, PTL

(* Outside scopes and step-outs subscribers know the current thread of a   *)
(* target that is broken in, wherever the scopes have been meanwhile, as   *)
(* long as no handler, reader or step-out fails.                           *)
THEOREM ThreadIsInSync == Spec => []ThreadInSync
<1> DEFINE IInv == TypeOK /\ QuietIf /\ StatusIf /\ SilentIf /\ SingleIf /\ ThreadIf
<1>1. Init => IInv
  <2> SUFFICES ASSUME Init PROVE IInv
    OBVIOUS
  <2>1. TypeOK /\ QuietIf /\ StatusIf
    BY InitInvariant DEF QuietIf, StatusIf
  <2>2. scopes = <<>> /\ Len(scopes) = 0 /\ engineStatus = "noDebuggee" /\ ~stepping
    BY DEF Init
  <2> QED
    BY <2>1, <2>2 DEF SilentIf, SilentInv, SingleIf, ThreadIf, ThreadInv
<1>2. IInv /\ [Next]_vars => IInv'
  BY QuietStep, StatusStep, SilentStep, SingleStep, ThreadStep
<1>3. IInv => ThreadInSync
  BY DEF QuietIf, QuietInv, ThreadIf, ThreadInv, BaseThread, ThreadInSync, Within
<1> QED
  BY <1>1, <1>2, <1>3, PTL DEF Spec

(* Subscribers never hear of the threads that are visited inside a scope   *)
(* in which no stack is read, however deep the scopes are nested.          *)
THEOREM ScopesAreSilent == Spec => SilentScopes
<1> DEFINE IInv == TypeOK /\ QuietIf /\ SilentIf
           Silent == ~ScopedReads /\ scopes # <<>> => toldThread' = toldThread
<1>1. Init => IInv
  <2>1. Init => scopes = <<>> /\ Len(scopes) = 0
    BY DEF Init
  <2> QED
    BY <2>1, InitInvariant DEF QuietIf, SilentIf, SilentInv
<1>2. IInv /\ [Next]_vars => IInv'
  BY QuietStep, SilentStep
<1>3. IInv /\ [Next]_vars => [Silent]_vars
  <2> SUFFICES ASSUME TypeOK, SilentIf, [Next]_vars, ~ScopedReads, scopes # <<>>
               PROVE  toldThread' = toldThread
    OBVIOUS
  <2>1. quiet
    BY DEF SilentIf, SilentInv
  <2> QED
    BY <2>1 DEF Next, vars, thread, Go, NoDebuggee, ReportNoDebuggee, ThreadsChange, Notice,
                OpenScope, CloseScope, SwitchTo, ReadStack, ReadFrameThrows,
                StepOutBegins, StepOutEnds, StepOutThrows, Break, SetCurrentThread
<1> QED
  BY <1>1, <1>2, <1>3, PTL DEF Spec, SilentScopes
=============================================================================
