------------------------- MODULE EventDispatchProofs -------------------------
(***************************************************************************)
(* Proofs about EventDispatch, for any threads, handlers, breakpoints and  *)
(* any choice of what user code may call: the type invariant, that no list *)
(* iterator dangles, that the two locks implement HandlerRegistry, and     *)
(* which programs keep them from being waited for in a cycle.              *)
(***************************************************************************)
EXTENDS EventDispatch, SequenceTheorems, TLAPS
-----------------------------------------------------------------------------
(* ToSet of a sequence, index by index.                                    *)
LEMMA ToSetOfSeq ==
  ASSUME NEW S, NEW s \in Seq(S)
  PROVE  /\ ToSet(s) = {s[i] : i \in 1..Len(s)}
         /\ ToSet(s) \subseteq S
BY DEF ToSet

(* Append adds one element to the set of elements.                         *)
LEMMA ToSetAppend ==
  ASSUME NEW S, NEW s \in Seq(S), NEW e \in S
  PROVE  /\ Append(s, e) \in Seq(S)
         /\ ToSet(Append(s, e)) = ToSet(s) \cup {e}
<1>1. /\ Append(s, e) \in Seq(S)
      /\ Len(Append(s, e)) = Len(s) + 1
      /\ \A i \in 1..Len(s) : Append(s, e)[i] = s[i]
      /\ Append(s, e)[Len(s) + 1] = e
  BY AppendProperties
<1>2. 1..Len(Append(s, e)) = 1..Len(s) \cup {Len(s) + 1}
  BY <1>1
<1>3. ToSet(Append(s, e)) = {Append(s, e)[i] : i \in 1..Len(Append(s, e))}
  BY <1>1, ToSetOfSeq
<1>4. ToSet(s) = {s[i] : i \in 1..Len(s)}
  BY ToSetOfSeq
<1> QED
  BY <1>1, <1>2, <1>3, <1>4

(* Front keeps everything but the last element, where it was.              *)
LEMMA FrontElements ==
  ASSUME NEW S, NEW s \in Seq(S), s # <<>>
  PROVE  /\ Len(s) \in Nat \ {0}
         /\ Front(s) \in Seq(S)
         /\ Len(Front(s)) = Len(s) - 1
         /\ \A i \in 1..Len(s) - 1 : Front(s)[i] = s[i]
<1>1. Len(s) \in Nat \ {0}
  BY EmptySeq, LenProperties
<1>2. /\ Front(s) \in Seq(S)
      /\ Len(Front(s)) = Len(s) - 1
      /\ \A i \in 1..Len(s) - 1 : Front(s)[i] = s[i]
  <2> DEFINE n == Len(s) - 1
  <2>1. n \in Int /\ \A i \in 1..n : s[i] \in S
    BY <1>1, ElementOfSeq
  <2>2. /\ SubSeq(s, 1, n) \in Seq(S)
        /\ Len(SubSeq(s, 1, n)) = IF 1 <= n THEN n - 1 + 1 ELSE 0
        /\ \A i \in 1..(n - 1 + 1) : SubSeq(s, 1, n)[i] = s[1 + i - 1]
    BY <2>1, SubSeqProperties
  <2>3. \A i \in 1..n : SubSeq(s, 1, n)[i] = s[i]
    BY <1>1, <2>2
  <2>a. n \in Nat
    BY <1>1
  <2>4. Len(SubSeq(s, 1, n)) = n
    <3> HIDE DEF n
    <3>1. CASE n = 0
      BY <2>2, <3>1
    <3>2. CASE n # 0
      BY <2>a, <2>2, <3>2
    <3> QED
      BY <3>1, <3>2
  <2>5. Front(s) = SubSeq(s, 1, n)
    BY DEF Front
  <2> HIDE DEF n
  <2> QED
    BY <2>2, <2>3, <2>4, <2>5 DEF n
<1> QED
  BY <1>1, <1>2

(* Front of a sequence with more than one element has the same first one.  *)
LEMMA FrontFirst ==
  ASSUME NEW S, NEW s \in Seq(S), s # <<>>
  PROVE  /\ Len(s) = 1 => Front(s) = <<>>
         /\ Len(s) # 1 => Front(s) # <<>> /\ Front(s)[1] = s[1]
<1>1. /\ Len(s) \in Nat \ {0}
      /\ Front(s) \in Seq(S)
      /\ Len(Front(s)) = Len(s) - 1
      /\ \A i \in 1..Len(s) - 1 : Front(s)[i] = s[i]
  BY FrontElements
<1>2. Front(s) = <<>> <=> Len(Front(s)) = 0
  BY <1>1, EmptySeq
<1> QED
  BY <1>1, <1>2

(* Front drops the last element and nothing else.                          *)
LEMMA ToSetFront ==
  ASSUME NEW S, NEW s \in Seq(S), s # <<>>
  PROVE  /\ Front(s) \in Seq(S)
         /\ Last(s) \in S
         /\ Last(s) \in ToSet(s)
         /\ ToSet(s) = ToSet(Front(s)) \cup {Last(s)}
<1>1. Len(s) \in Nat \ {0}
  BY EmptySeq, LenProperties
<1>2. /\ Front(s) \in Seq(S)
      /\ Len(Front(s)) = Len(s) - 1
      /\ \A i \in 1..Len(s) - 1 : Front(s)[i] = s[i]
  BY FrontElements
<1>3. 1..Len(s) = 1..Len(Front(s)) \cup {Len(s)}
  BY <1>1, <1>2
<1>4. ToSet(Front(s)) = {Front(s)[i] : i \in 1..Len(Front(s))}
  BY <1>2, ToSetOfSeq
<1>5. ToSet(s) = {s[i] : i \in 1..Len(s)}
  BY ToSetOfSeq
<1>6. Last(s) = s[Len(s)]
  BY DEF Last
<1> QED
  BY <1>1, <1>2, <1>3, <1>4, <1>5, <1>6, ElementOfSeq

(* Removing the element at position i of a list without repetitions.       *)
LEMMA RemoveAtProperties ==
  ASSUME NEW S, NEW s \in Seq(S), NEW k \in 1..Len(s),
         \A i, j \in 1..Len(s) : s[i] = s[j] => i = j
  PROVE  /\ RemoveAt(s, k) \in Seq(S)
         /\ ToSet(RemoveAt(s, k)) = ToSet(s) \ {s[k]}
         /\ \A i, j \in 1..Len(RemoveAt(s, k)) :
              RemoveAt(s, k)[i] = RemoveAt(s, k)[j] => i = j
<1> DEFINE n == Len(s)
           a == SubSeq(s, 1, k - 1)
           b == SubSeq(s, k + 1, n)
           r == a \o b
<1>1. n \in Nat /\ k \in 1..n
  BY LenProperties
<1>2. \A i \in 1..n : s[i] \in S
  BY ElementOfSeq
<1>3. /\ a \in Seq(S)
      /\ Len(a) = k - 1
      /\ \A i \in 1..(k - 1) : a[i] = s[i]
  <2>1. \A i \in 1..(k - 1) : s[i] \in S
    BY <1>1, <1>2
  <2>2. /\ SubSeq(s, 1, k - 1) \in Seq(S)
        /\ Len(SubSeq(s, 1, k - 1)) = IF 1 <= k - 1 THEN (k - 1) - 1 + 1 ELSE 0
        /\ \A i \in 1..((k - 1) - 1 + 1) : SubSeq(s, 1, k - 1)[i] = s[1 + i - 1]
    BY <1>1, <2>1, SubSeqProperties
  <2> QED
    BY <1>1, <2>2
<1>4. /\ b \in Seq(S)
      /\ Len(b) = n - k
      /\ \A i \in 1..(n - k) : b[i] = s[k + i]
  <2>1. \A i \in (k + 1)..n : s[i] \in S
    BY <1>1, <1>2
  <2>2. /\ SubSeq(s, k + 1, n) \in Seq(S)
        /\ Len(SubSeq(s, k + 1, n)) = IF k + 1 <= n THEN n - (k + 1) + 1 ELSE 0
        /\ \A i \in 1..(n - (k + 1) + 1) : SubSeq(s, k + 1, n)[i] = s[(k + 1) + i - 1]
    BY <1>1, <2>1, SubSeqProperties
  <2> QED
    BY <1>1, <2>2
<1> HIDE DEF n, a, b
<1>5. /\ r \in Seq(S)
      /\ Len(r) = n - 1
      /\ \A i \in 1..(n - 1) : r[i] = IF i < k THEN s[i] ELSE s[i + 1]
  <2>1. /\ r \in Seq(S)
        /\ Len(r) = Len(a) + Len(b)
        /\ \A i \in 1..(Len(a) + Len(b)) :
             r[i] = IF i <= Len(a) THEN a[i] ELSE b[i - Len(a)]
    <3> HIDE DEF r
    <3>0. a \in Seq(S) /\ b \in Seq(S)
      BY <1>3, <1>4
    <3>1. /\ a \o b \in Seq(S)
          /\ Len(a \o b) = Len(a) + Len(b)
          /\ \A i \in 1..(Len(a) + Len(b)) :
               (a \o b)[i] = IF i <= Len(a) THEN a[i] ELSE b[i - Len(a)]
      BY <3>0, ConcatProperties, Zenon
    <3>2. r = a \o b
      BY DEF r
    <3> QED
      BY <3>1, <3>2
  <2> HIDE DEF r
  <2>2. Len(a) + Len(b) = n - 1
    BY <1>1, <1>3, <1>4
  <2>3. ASSUME NEW i \in 1..(n - 1)
        PROVE  r[i] = IF i < k THEN s[i] ELSE s[i + 1]
    <3>1. CASE i < k
      <4>1. i \in 1..(k - 1) /\ i \in 1..(Len(a) + Len(b)) /\ i <= Len(a)
        BY <1>1, <1>3, <2>2, <3>1
      <4>2. r[i] = a[i]
        BY <2>1, <4>1
      <4> QED
        BY <1>3, <3>1, <4>1, <4>2
    <3>2. CASE ~(i < k)
      <4>1. r[i] = b[i - (k - 1)]
        BY <1>1, <1>3, <2>1, <2>2, <3>2
      <4>2. i - (k - 1) \in 1..(n - k) /\ k + (i - (k - 1)) = i + 1
        BY <1>1, <3>2
      <4> QED
        BY <1>4, <3>2, <4>1, <4>2
    <3> QED
      BY <3>1, <3>2
  <2> QED
    BY <2>1, <2>2, <2>3
<1> HIDE DEF r
<1>6. ToSet(r) = {r[i] : i \in 1..(n - 1)}
  BY <1>5, ToSetOfSeq
<1>7. ToSet(s) = {s[i] : i \in 1..n}
  BY ToSetOfSeq DEF n
<1>8. ToSet(r) \subseteq ToSet(s) \ {s[k]}
  <2>1. \A i \in 1..(n - 1) : r[i] \in ToSet(s) /\ r[i] # s[k]
    BY <1>1, <1>5, <1>7 DEF n
  <2> QED
    BY <1>6, <2>1
<1>9. ASSUME NEW x \in ToSet(s) \ {s[k]} PROVE x \in ToSet(r)
  <2>1. PICK i \in 1..n : s[i] = x
    BY <1>7
  <2>2. CASE i < k
    BY <1>1, <1>5, <1>6, <2>1, <2>2
  <2>3. CASE i > k
    <3>1. i - 1 \in 1..(n - 1) /\ r[i - 1] = s[i]
      BY <1>1, <1>5, <2>3
    <3> QED
      BY <1>6, <2>1, <3>1
  <2> QED
    BY <1>1, <2>1, <2>2, <2>3
<1>10. \A i, j \in 1..(n - 1) : r[i] = r[j] => i = j
  <2> SUFFICES ASSUME NEW i \in 1..(n - 1), NEW j \in 1..(n - 1), r[i] = r[j]
               PROVE  i = j
    OBVIOUS
  <2> DEFINE p == IF i < k THEN i ELSE i + 1
             q == IF j < k THEN j ELSE j + 1
  <2>1. p \in 1..n /\ q \in 1..n
    BY <1>1
  <2>2. s[p] = s[q]
    BY <1>1, <1>5
  <2>3. p = q
    BY <2>1, <2>2 DEF n
  <2> QED
    BY <1>1, <2>3
<1>11. RemoveAt(s, k) = r
  BY DEF RemoveAt, r, a, b, n
<1> QED
  BY <1>5, <1>8, <1>9, <1>10, <1>11
-----------------------------------------------------------------------------

(* A handler is in the list at most once.                                  *)
Distinct ==
  \A i, j \in 1..Len(callbacks) : callbacks[i] = callbacks[j] => i = j

(* A pending registration is of a new handler, a pending removal of one    *)
(* its thread is not inside of, and no two threads ask for the same.       *)
PendingLegal ==
  \A t \in Threads :
    /\ Pends(t, "register") =>
         /\ pending[t].at \notin ToSet(callbacks)
         /\ \A u \in Threads \ {t} : pending[u] # pending[t]
    /\ Pends(t, "unregister") => pending[t].at \notin Running(t)

(* The inductive invariant.  IteratorsLive is not inductive alone: the     *)
(* remover's lock excludes other threads only while DispatchExclusive      *)
(* makes lock holders unique, its own frames only by PendingLegal, and     *)
(* that in turn needs the list to hold a handler once.                     *)
IInv ==
  /\ TypeOK
  /\ DispatchExclusive
  /\ IteratorsLive
  /\ Distinct
  /\ PendingLegal

-----------------------------------------------------------------------------
(* The three ways a step changes its thread's stack.                       *)

(* Push adds one frame to the thread's frames.                             *)
LEMMA PushFrame ==
  ASSUME TypeOK, NEW t \in Threads, NEW f \in Frames, Push(t, f)
  PROVE  /\ stack' \in [Threads -> Seq(Frames)]
         /\ ToSet(stack'[t]) = ToSet(stack[t]) \cup {f}
         /\ \A u \in Threads \ {t} : stack'[u] = stack[u]
<1>1. stack \in [Threads -> Seq(Frames)]
  BY DEF TypeOK
<1>2. stack' = [stack EXCEPT ![t] = Append(stack[t], f)]
  BY DEF Push
<1>3. Append(stack[t], f) \in Seq(Frames)
      /\ ToSet(Append(stack[t], f)) = ToSet(stack[t]) \cup {f}
  BY <1>1, ToSetAppend
<1> QED
  BY <1>1, <1>2, <1>3

(* Pop removes the top frame, other occurrences of it may remain.          *)
LEMMA PopFrame ==
  ASSUME TypeOK, NEW t \in Threads, stack[t] # <<>>, Pop(t)
  PROVE  /\ stack' \in [Threads -> Seq(Frames)]
         /\ ToSet(stack[t]) = ToSet(stack'[t]) \cup {Last(stack[t])}
         /\ \A u \in Threads \ {t} : stack'[u] = stack[u]
<1>1. stack \in [Threads -> Seq(Frames)]
  BY DEF TypeOK
<1>2. stack' = [stack EXCEPT ![t] = Front(stack[t])]
  BY DEF Pop
<1>3. Front(stack[t]) \in Seq(Frames)
      /\ ToSet(stack[t]) = ToSet(Front(stack[t])) \cup {Last(stack[t])}
  BY <1>1, ToSetFront
<1> QED
  BY <1>1, <1>2, <1>3

(* Replace exchanges the top frame for another one.                        *)
LEMMA ReplaceFrame ==
  ASSUME TypeOK, NEW t \in Threads, NEW f \in Frames, stack[t] # <<>>, Replace(t, f)
  PROVE  /\ stack' \in [Threads -> Seq(Frames)]
         /\ ToSet(stack'[t]) \subseteq ToSet(stack[t]) \cup {f}
         /\ \A u \in Threads \ {t} : stack'[u] = stack[u]
<1>1. stack \in [Threads -> Seq(Frames)]
  BY DEF TypeOK
<1>2. stack' = [stack EXCEPT ![t] = Append(Front(stack[t]), f)]
  BY DEF Replace
<1>3. Front(stack[t]) \in Seq(Frames) /\ ToSet(Front(stack[t])) \subseteq ToSet(stack[t])
  BY <1>1, ToSetFront
<1>4. Append(Front(stack[t]), f) \in Seq(Frames)
      /\ ToSet(Append(Front(stack[t]), f)) = ToSet(Front(stack[t])) \cup {f}
  BY <1>3, ToSetAppend
<1> QED
  BY <1>1, <1>2, <1>3, <1>4

(* The top frame is one of the thread's frames.                            *)
LEMMA TopFrame ==
  ASSUME TypeOK, NEW t \in Threads, stack[t] # <<>>
  PROVE  Last(stack[t]) \in Frames /\ Last(stack[t]) \in ToSet(stack[t])
BY ToSetFront DEF TypeOK

(* ++it yields a handler of the list, or the end.                          *)
LEMMA NextNodeInList ==
  ASSUME TypeOK, NEW h, NextNode(h) # None
  PROVE  NextNode(h) \in Handlers /\ NextNode(h) \in ToSet(callbacks)
<1>1. callbacks \in Seq(Handlers) /\ Len(callbacks) \in Nat
  BY LenProperties DEF TypeOK
<1> DEFINE k == CHOOSE i \in 1..(Len(callbacks) - 1) : callbacks[i] = h
<1>2. \E i \in 1..(Len(callbacks) - 1) : callbacks[i] = h
  BY DEF NextNode
<1>3. k \in 1..(Len(callbacks) - 1)
  BY <1>2
<1>4. NextNode(h) = callbacks[1 + k]
  BY <1>2 DEF NextNode
<1> HIDE DEF k
<1>5. 1 + k \in 1..Len(callbacks)
  BY <1>1, <1>3
<1> QED
  BY <1>1, <1>4, <1>5, ElementOfSeq, ToSetOfSeq

(* std::list::remove on a list without repetitions.                        *)
LEMMA WithoutHandlerProperties ==
  ASSUME TypeOK, Distinct, NEW h
  PROVE  /\ WithoutHandler(callbacks, h) \in Seq(Handlers)
         /\ ToSet(WithoutHandler(callbacks, h)) = ToSet(callbacks) \ {h}
         /\ \A i, j \in 1..Len(WithoutHandler(callbacks, h)) :
              WithoutHandler(callbacks, h)[i] = WithoutHandler(callbacks, h)[j] => i = j
<1>1. callbacks \in Seq(Handlers)
  BY DEF TypeOK
<1>2. CASE h \notin ToSet(callbacks)
  BY <1>1, <1>2 DEF WithoutHandler, Distinct
<1>3. CASE h \in ToSet(callbacks)
  <2> DEFINE k == CHOOSE i \in DOMAIN callbacks : callbacks[i] = h
  <2>1. \E i \in DOMAIN callbacks : callbacks[i] = h
    BY <1>3 DEF ToSet
  <2>2. k \in DOMAIN callbacks /\ callbacks[k] = h
    BY <2>1
  <2>3. WithoutHandler(callbacks, h) = RemoveAt(callbacks, k)
    BY <1>3 DEF WithoutHandler
  <2> HIDE DEF k
  <2>4. k \in 1..Len(callbacks)
    BY <1>1, <2>2
  <2> QED
    BY <1>1, <2>2, <2>3, <2>4, RemoveAtProperties DEF Distinct
<1> QED
  BY <1>2, <1>3

(* The head of a list that is not empty is a handler of the list.          *)
LEMMA HeadInList ==
  ASSUME TypeOK, callbacks # <<>>
  PROVE  Head(callbacks) \in Handlers /\ Head(callbacks) \in ToSet(callbacks)
<1>1. callbacks \in Seq(Handlers) /\ Len(callbacks) \in Nat \ {0}
  BY LenProperties, EmptySeq DEF TypeOK
<1>2. Head(callbacks) = callbacks[1] /\ 1 \in 1..Len(callbacks)
  BY <1>1
<1> QED
  BY <1>1, <1>2, ElementOfSeq, ToSetOfSeq

(* In any stack: it contains a loop iff it is inside some handler.         *)
LEMMA LoopIffInside ==
  ASSUME NEW s \in Seq(Frames)
  PROVE  (\E f \in ToSet(s) : f.op = "dispatch")
           <=> {h \in Handlers : [op |-> "dispatch", at |-> h] \in ToSet(s)} # {}
<1>1. ToSet(s) \subseteq Frames
  BY ToSetOfSeq
<1>2. ASSUME NEW f \in ToSet(s), f.op = "dispatch"
      PROVE  f.at \in Handlers /\ [op |-> "dispatch", at |-> f.at] \in ToSet(s)
  BY <1>1, <1>2 DEF Frames
<1> QED
  BY <1>2

(* A thread holds the callbacks lock iff it is inside a handler.           *)
LEMMA HoldsIffRunning ==
  /\ TypeOK => \A t \in Threads : HoldsCallbacksLock(t) <=> Running(t) # {}
  /\ TypeOK' => \A t \in Threads : HoldsCallbacksLock(t)' <=> Running(t)' # {}
BY LoopIffInside DEF HoldsCallbacksLock, InOp, Running, TypeOK

(* The lock is free for t iff no other thread is inside a handler.         *)
LEMMA FreeMeansOthersOutside ==
  ASSUME TypeOK, NEW t \in Threads, CallbacksLockFree(t)
  PROVE  \A u \in Threads \ {t} : Running(u) = {}
BY HoldsIffRunning DEF CallbacksLockFree

-----------------------------------------------------------------------------
(* Type correctness.                                                       *)

(* What a step does to pending keeps its type.                             *)
LEMMA PendingType ==
  ASSUME TypeOK, NEW t \in Threads,
         Done(t) \/ Continue(t, "dispatch") \/ UNCHANGED pending
  PROVE  pending' \in [Threads -> Requests \cup {Idle}]
BY DEF TypeOK, Done, Continue, Requests

(* The argument of a pending operation.                                    *)
LEMMA PendingArgument ==
  ASSUME TypeOK, NEW t \in Threads
  PROVE  /\ pending[t].op \in {"register", "unregister"} => pending[t].at \in Handlers
         /\ pending[t].op \in {"insertBp", "removeBp", "hit"} => pending[t].at \in Breakpoints
BY DEF TypeOK, Requests, Idle

(* Every step of a thread keeps the types.                                 *)
LEMMA StepTypeOK ==
  ASSUME TypeOK, Distinct, NEW t \in Threads, Step(t)
  PROVE  TypeOK'
<1>1. CASE RegisterEventsCallback(t)
  <2>1. callbacks' \in Seq(Handlers)
    BY <1>1, PendingArgument, AppendProperties DEF RegisterEventsCallback, TypeOK, Pends
  <2> QED
    BY <1>1, <2>1, PendingType DEF RegisterEventsCallback, TypeOK
<1>2. CASE RemoveEventsCallback(t)
  <2>1. callbacks' \in Seq(Handlers)
    BY <1>2, WithoutHandlerProperties DEF RemoveEventsCallback
  <2> QED
    BY <1>2, <2>1, PendingType DEF RemoveEventsCallback, TypeOK
<1>3. CASE BeginDispatch(t)
  <2>1. CASE callbacks = <<>>
    BY <1>3, <2>1, PendingType DEF BeginDispatch, TypeOK
  <2>2. CASE callbacks # <<>>
    <3>1. [op |-> "dispatch", at |-> Head(callbacks)] \in Frames
      BY <2>2, HeadInList DEF Frames
    <3>2. stack' \in [Threads -> Seq(Frames)]
      BY <1>3, <2>2, <3>1, PushFrame DEF BeginDispatch
    <3> QED
      BY <1>3, <3>2, PendingType DEF BeginDispatch, TypeOK
  <2> QED
    BY <2>1, <2>2
<1>4. CASE HandlerReturns(t)
  <2> DEFINE next == NextNode(Last(stack[t]).at)
  <2>1. CASE next = None
    <3>1. stack' \in [Threads -> Seq(Frames)]
      BY <1>4, <2>1, PopFrame DEF HandlerReturns, InFrame
    <3> QED
      BY <1>4, <3>1, PendingType DEF HandlerReturns, TypeOK
  <2>2. CASE next # None
    <3>1. [op |-> "dispatch", at |-> next] \in Frames
      BY <2>2, NextNodeInList DEF Frames
    <3>2. stack' \in [Threads -> Seq(Frames)]
      BY <1>4, <2>2, <3>1, ReplaceFrame DEF HandlerReturns, InFrame
    <3> QED
      BY <1>4, <3>2, PendingType DEF HandlerReturns, TypeOK
  <2> QED
    BY <2>1, <2>2
<1>5. CASE RegisterBreakpoint(t)
  <2>1. breakpoints' \subseteq Breakpoints
    BY <1>5, PendingArgument DEF RegisterBreakpoint, TypeOK, Pends
  <2> QED
    BY <1>5, <2>1, PendingType DEF RegisterBreakpoint, TypeOK
<1>6. CASE RemoveBreakpoint(t)
  <2>1. [op |-> "onRemove", at |-> pending[t].at] \in Frames
    BY <1>6, PendingArgument DEF RemoveBreakpoint, Pends, Frames
  <2>2. stack' \in [Threads -> Seq(Frames)]
    BY <1>6, <2>1, PushFrame DEF RemoveBreakpoint, TypeOK
  <2> QED
    BY <1>6, <2>2, PendingType DEF RemoveBreakpoint, TypeOK
<1>7. CASE OnRemoveReturns(t)
  BY <1>7, PopFrame, PendingType DEF OnRemoveReturns, InFrame, TypeOK
<1>8. CASE BreakpointHit(t)
  <2>1. [op |-> "hit", at |-> pending[t].at] \in Frames
    BY <1>8, PendingArgument DEF BreakpointHit, Pends, Frames
  <2>2. stack' \in [Threads -> Seq(Frames)]
    BY <1>8, <2>1, PushFrame DEF BreakpointHit, TypeOK
  <2> QED
    BY <1>8, <2>2, PendingType DEF BreakpointHit, TypeOK
<1>9. CASE OnHitReturns(t)
  BY <1>9, PopFrame, PendingType DEF OnHitReturns, InFrame, TypeOK
<1> QED
  BY <1>1, <1>2, <1>3, <1>4, <1>5, <1>6, <1>7, <1>8, <1>9 DEF Step

(* So does a new request.                                                  *)
LEMMA CallTypeOK ==
  ASSUME TypeOK, NEW t \in Threads, NEW r \in Requests, Call(t, r)
  PROVE  TypeOK'
BY DEF Call, TypeOK

-----------------------------------------------------------------------------
(* The safety invariant.                                                   *)

(* A step that leaves the list alone and enters no handler keeps IInv.     *)
LEMMA QuietStep ==
  ASSUME IInv, TypeOK', callbacks' = callbacks,
         \A u \in Threads : Running(u)' \subseteq Running(u),
         \A u \in Threads :
           \/ pending'[u] = pending[u]
           \/ pending'[u].op \notin {"register", "unregister"}
  PROVE  IInv'
<1>1. DispatchExclusive'
  BY HoldsIffRunning DEF IInv, DispatchExclusive
<1>2. IteratorsLive'
  BY DEF IInv, IteratorsLive
<1>3. Distinct'
  BY DEF IInv, Distinct
<1>4. PendingLegal'
  BY DEF IInv, PendingLegal, Pends
<1> QED
  BY <1>1, <1>2, <1>3, <1>4 DEF IInv

(* A thread that holds or takes the lock may enter any handler of the list *)
(* and loses no request.                                                   *)
LEMMA EnteringStep ==
  ASSUME IInv, TypeOK', callbacks' = callbacks, NEW t \in Threads,
         \A u \in Threads \ {t} : Running(u) = {} /\ Running(u)' = {},
         Running(t)' \subseteq ToSet(callbacks),
         pending'[t].op \notin {"register", "unregister"},
         \A u \in Threads \ {t} : pending'[u] = pending[u]
  PROVE  IInv'
<1>1. DispatchExclusive'
  BY HoldsIffRunning DEF IInv, DispatchExclusive
<1>2. IteratorsLive'
  BY DEF IInv, IteratorsLive
<1>3. Distinct'
  BY DEF IInv, Distinct
<1>4. PendingLegal'
  BY DEF IInv, PendingLegal, Pends
<1> QED
  BY <1>1, <1>2, <1>3, <1>4 DEF IInv

(* registerEventsCallback.                                                 *)
LEMMA RegisterInv ==
  ASSUME IInv, NEW t \in Threads, RegisterEventsCallback(t), TypeOK'
  PROVE  IInv'
<1> DEFINE h == pending[t].at
<1>1. h \in Handlers /\ callbacks \in Seq(Handlers) /\ h \notin ToSet(callbacks)
  BY PendingArgument DEF IInv, TypeOK, PendingLegal, RegisterEventsCallback, Pends
<1>2. \A u \in Threads : Running(u)' = Running(u)
  BY DEF RegisterEventsCallback, Running
<1>3. ToSet(callbacks') = ToSet(callbacks) \cup {h}
  BY <1>1, ToSetAppend DEF RegisterEventsCallback
<1>4. DispatchExclusive'
  BY <1>2, HoldsIffRunning DEF IInv, DispatchExclusive
<1>5. IteratorsLive'
  BY <1>2, <1>3 DEF IInv, IteratorsLive
<1>6. Distinct'
  <2>1. /\ Len(callbacks') = Len(callbacks) + 1
        /\ \A i \in 1..Len(callbacks) : callbacks'[i] = callbacks[i]
        /\ callbacks'[Len(callbacks) + 1] = h
    BY <1>1, AppendProperties DEF RegisterEventsCallback
  <2>2. Len(callbacks) \in Nat /\ \A i \in 1..Len(callbacks) : callbacks[i] # h
    BY <1>1, ToSetOfSeq, LenProperties
  <2> QED
    BY <2>1, <2>2 DEF IInv, Distinct
<1>7. PendingLegal'
  <2> SUFFICES ASSUME NEW u \in Threads
               PROVE  /\ pending'[u].op = "register" =>
                           /\ pending'[u].at \notin ToSet(callbacks')
                           /\ \A v \in Threads \ {u} : pending'[v] # pending'[u]
                      /\ pending'[u].op = "unregister" => pending'[u].at \notin Running(u)'
    BY DEF PendingLegal, Pends
  <2>1. pending' = [pending EXCEPT ![t] = Idle] /\ pending \in [Threads -> Requests \cup {Idle}]
    BY DEF RegisterEventsCallback, Done, IInv, TypeOK
  <2>2. CASE u = t
    BY <2>1, <2>2 DEF Idle
  <2>3. CASE u # t
    <3>1. pending'[u] = pending[u]
      BY <2>1, <2>3
    <3>2. ASSUME pending[u].op = "register" PROVE pending[u].at # h
      <4>1. pending[u] # pending[t]
        BY <2>3, <3>2 DEF IInv, PendingLegal, Pends
      <4>2. pending[t].op = "register"
        BY DEF RegisterEventsCallback, Pends
      <4> QED
        BY <2>1, <3>2, <4>1, <4>2 DEF Requests, Idle
    <3>3. ASSUME pending[u].op = "register", NEW v \in Threads \ {u}
          PROVE  pending'[v] # pending[u]
      BY <2>1, <3>3 DEF IInv, PendingLegal, Pends, Idle
    <3> QED
      BY <1>2, <1>3, <3>1, <3>2, <3>3 DEF IInv, PendingLegal, Pends
  <2> QED
    BY <2>2, <2>3
<1> QED
  BY <1>4, <1>5, <1>6, <1>7 DEF IInv

(* removeEventsCallback: the lock keeps the other threads' iterators off   *)
(* the node, PendingLegal the thread's own.                                *)
LEMMA RemoveInv ==
  ASSUME IInv, NEW t \in Threads, RemoveEventsCallback(t), TypeOK'
  PROVE  IInv'
<1> DEFINE h == pending[t].at
<1>1. \A u \in Threads : Running(u)' = Running(u)
  BY DEF RemoveEventsCallback, Running
<1>2. ToSet(callbacks') = ToSet(callbacks) \ {h}
  BY WithoutHandlerProperties DEF IInv, RemoveEventsCallback
<1>3. DispatchExclusive'
  BY <1>1, HoldsIffRunning DEF IInv, DispatchExclusive
<1>4. IteratorsLive'
  <2>1. \A u \in Threads \ {t} : Running(u) = {}
    BY FreeMeansOthersOutside DEF IInv, RemoveEventsCallback
  <2>2. h \notin Running(t)
    BY DEF IInv, PendingLegal, RemoveEventsCallback
  <2> QED
    BY <1>1, <1>2, <2>1, <2>2 DEF IInv, IteratorsLive
<1>5. Distinct'
  BY WithoutHandlerProperties DEF IInv, RemoveEventsCallback, Distinct
<1>6. PendingLegal'
  BY <1>1, <1>2 DEF IInv, PendingLegal, Pends, RemoveEventsCallback, Done, Idle, TypeOK
<1> QED
  BY <1>3, <1>4, <1>5, <1>6 DEF IInv

(* An event loop starts: the list's first handler is entered.              *)
LEMMA BeginDispatchInv ==
  ASSUME IInv, NEW t \in Threads, BeginDispatch(t), TypeOK'
  PROVE  IInv'
<1>1. TypeOK /\ callbacks' = callbacks
  BY DEF IInv, BeginDispatch
<1>2. pending' = [pending EXCEPT ![t] = Idle]
  BY DEF BeginDispatch, Done
<1>3. pending'[t] = Idle /\ \A u \in Threads \ {t} : pending'[u] = pending[u]
  BY <1>1, <1>2 DEF TypeOK
<1>4. pending'[t].op \notin {"register", "unregister"}
  BY <1>3 DEF Idle
<1>5. CASE callbacks = <<>>
  <2>1. \A u \in Threads : Running(u)' = Running(u)
    BY <1>5 DEF BeginDispatch, Running
  <2> QED
    BY <1>1, <1>3, <1>4, <2>1, QuietStep
<1>6. CASE callbacks # <<>>
  <2> DEFINE f == [op |-> "dispatch", at |-> Head(callbacks)]
  <2>1. f \in Frames /\ Head(callbacks) \in ToSet(callbacks)
    BY <1>1, <1>6, HeadInList DEF Frames
  <2>2. Push(t, f)
    BY <1>6 DEF BeginDispatch
  <2>3. /\ ToSet(stack'[t]) = ToSet(stack[t]) \cup {f}
        /\ \A u \in Threads \ {t} : stack'[u] = stack[u]
    BY <1>1, <2>1, <2>2, PushFrame
  <2>4. Running(t)' \subseteq Running(t) \cup {Head(callbacks)}
    BY <2>3 DEF Running
  <2>5. Running(t)' \subseteq ToSet(callbacks)
    BY <2>1, <2>4 DEF IInv, IteratorsLive
  <2>6. \A u \in Threads \ {t} : Running(u) = {} /\ Running(u)' = {}
    BY <1>1, <2>3, FreeMeansOthersOutside DEF BeginDispatch, Running
  <2> QED
    BY <1>1, <1>3, <1>4, <2>5, <2>6, EnteringStep
<1> QED
  BY <1>5, <1>6

(* A handler returns: its frame goes or moves on to a node of the list.    *)
LEMMA HandlerReturnsInv ==
  ASSUME IInv, NEW t \in Threads, HandlerReturns(t), TypeOK'
  PROVE  IInv'
<1> DEFINE next == NextNode(Last(stack[t]).at)
<1>1. TypeOK /\ callbacks' = callbacks /\ pending' = pending /\ stack[t] # <<>>
  BY DEF IInv, HandlerReturns, InFrame
<1>2. CASE next = None
  <2>1. Pop(t)
    BY <1>2 DEF HandlerReturns
  <2>2. /\ ToSet(stack'[t]) \subseteq ToSet(stack[t])
        /\ \A u \in Threads \ {t} : stack'[u] = stack[u]
    BY <1>1, <2>1, PopFrame
  <2>3. \A u \in Threads : Running(u)' \subseteq Running(u)
    BY <2>2 DEF Running
  <2> QED
    BY <1>1, <2>3, QuietStep
<1>3. CASE next # None
  <2> DEFINE f == [op |-> "dispatch", at |-> next]
  <2>1. f \in Frames /\ next \in ToSet(callbacks)
    BY <1>1, <1>3, NextNodeInList DEF Frames
  <2>2. Replace(t, f)
    BY <1>3 DEF HandlerReturns
  <2>3. /\ ToSet(stack'[t]) \subseteq ToSet(stack[t]) \cup {f}
        /\ \A u \in Threads \ {t} : stack'[u] = stack[u]
    BY <1>1, <2>1, <2>2, ReplaceFrame
  <2>4. Running(t)' \subseteq Running(t) \cup {next}
    BY <2>3 DEF Running
  <2>5. Running(t)' \subseteq ToSet(callbacks)
    BY <2>1, <2>4 DEF IInv, IteratorsLive
  <2>6. HoldsCallbacksLock(t)
    BY <1>1, TopFrame DEF HandlerReturns, InFrame, HoldsCallbacksLock, InOp
  <2>7. \A u \in Threads \ {t} : Running(u) = {}
    BY <1>1, <2>6, HoldsIffRunning DEF IInv, DispatchExclusive
  <2>8. \A u \in Threads \ {t} : Running(u)' = {}
    BY <2>3, <2>7 DEF Running
  <2>9. pending'[t].op \notin {"register", "unregister"}
    BY <1>1 DEF HandlerReturns, Pends
  <2> QED
    BY <1>1, <2>5, <2>7, <2>8, <2>9, EnteringStep
<1> QED
  BY <1>2, <1>3

(* The operations on breakpoints neither touch the list nor enter an event *)
(* handler: a frame they push is not that of an event loop.                *)
LEMMA BreakpointStepInv ==
  ASSUME IInv, NEW t \in Threads, TypeOK',
         \/ RegisterBreakpoint(t) \/ RemoveBreakpoint(t) \/ OnRemoveReturns(t)
         \/ BreakpointHit(t) \/ OnHitReturns(t)
  PROVE  IInv'
<1>1. TypeOK /\ callbacks' = callbacks
  BY DEF IInv, RegisterBreakpoint, RemoveBreakpoint, OnRemoveReturns, BreakpointHit, OnHitReturns
<1>2. Done(t) \/ Continue(t, "dispatch") \/ UNCHANGED pending
  BY DEF RegisterBreakpoint, RemoveBreakpoint, OnRemoveReturns, BreakpointHit, OnHitReturns
<1>3. \A u \in Threads :
        pending'[u] = pending[u] \/ pending'[u].op \notin {"register", "unregister"}
  BY <1>1, <1>2 DEF Done, Continue, Idle, TypeOK
<1>4. \A u \in Threads : Running(u)' \subseteq Running(u)
  <2>1. CASE UNCHANGED stack
    BY <2>1 DEF Running
  <2>2. ASSUME NEW f \in Frames, f.op # "dispatch", Push(t, f)
        PROVE  \A u \in Threads : Running(u)' \subseteq Running(u)
    <3>1. /\ ToSet(stack'[t]) = ToSet(stack[t]) \cup {f}
          /\ \A u \in Threads \ {t} : stack'[u] = stack[u]
      BY <1>1, <2>2, PushFrame
    <3>2. \A h \in Handlers : [op |-> "dispatch", at |-> h] # f
      BY <2>2
    <3> QED
      BY <3>1, <3>2 DEF Running
  <2>3. CASE stack[t] # <<>> /\ Pop(t)
    <3>1. /\ ToSet(stack'[t]) \subseteq ToSet(stack[t])
          /\ \A u \in Threads \ {t} : stack'[u] = stack[u]
      BY <1>1, <2>3, PopFrame
    <3> QED
      BY <3>1 DEF Running
  <2>4. CASE RegisterBreakpoint(t)
    BY <2>1, <2>4 DEF RegisterBreakpoint
  <2>5. CASE RemoveBreakpoint(t)
    <3>1. [op |-> "onRemove", at |-> pending[t].at] \in Frames
      BY <1>1, <2>5, PendingArgument DEF RemoveBreakpoint, Pends, Frames
    <3> QED
      BY <2>1, <2>2, <2>5, <3>1 DEF RemoveBreakpoint
  <2>6. CASE OnRemoveReturns(t)
    BY <2>3, <2>6 DEF OnRemoveReturns, InFrame
  <2>7. CASE BreakpointHit(t)
    <3>1. [op |-> "hit", at |-> pending[t].at] \in Frames
      BY <1>1, <2>7, PendingArgument DEF BreakpointHit, Pends, Frames
    <3> QED
      BY <2>1, <2>2, <2>7, <3>1 DEF BreakpointHit
  <2>8. CASE OnHitReturns(t)
    BY <2>3, <2>8 DEF OnHitReturns, InFrame
  <2> QED
    BY <2>4, <2>5, <2>6, <2>7, <2>8
<1> QED
  BY <1>1, <1>3, <1>4, QuietStep

(* A new request is one LegalUse allows.                                   *)
LEMMA CallInv ==
  ASSUME IInv, NEW t \in Threads, NEW r \in Requests, Call(t, r), TypeOK'
  PROVE  IInv'
<1>1. /\ callbacks' = callbacks
      /\ \A u \in Threads : Running(u)' = Running(u)
  BY DEF Call, Running
<1>2. DispatchExclusive'
  BY <1>1, HoldsIffRunning DEF IInv, DispatchExclusive
<1>3. IteratorsLive'
  BY <1>1 DEF IInv, IteratorsLive
<1>4. Distinct'
  BY <1>1 DEF IInv, Distinct
<1>5. PendingLegal'
  <2>1. pending'[t] = r /\ \A u \in Threads \ {t} : pending'[u] = pending[u]
    BY DEF Call, IInv, TypeOK
  <2>2. r.op = "register" => r.at \notin ToSet(callbacks) /\ \A u \in Threads : pending[u] # r
    BY DEF Call, LegalUse
  <2>3. r.op = "unregister" => r.at \notin Running(t)
    BY DEF Call, LegalUse
  <2> QED
    BY <1>1, <2>1, <2>2, <2>3 DEF IInv, PendingLegal, Pends
<1> QED
  BY <1>2, <1>3, <1>4, <1>5 DEF IInv

-----------------------------------------------------------------------------
(* The invariant holds initially.                                          *)
LEMMA InitInv == Init => IInv
<1> SUFFICES ASSUME Init PROVE IInv
  OBVIOUS
<1>1. TypeOK
  BY DEF Init, TypeOK, Idle
<1>2. \A t \in Threads : Running(t) = {}
  BY DEF Init, Running, ToSet
<1>3. DispatchExclusive
  BY <1>1, <1>2, HoldsIffRunning DEF DispatchExclusive
<1>4. IteratorsLive
  BY <1>2 DEF IteratorsLive
<1>5. Distinct
  BY DEF Init, Distinct
<1>6. PendingLegal
  BY DEF Init, PendingLegal, Pends, Idle
<1> QED
  BY <1>1, <1>3, <1>4, <1>5, <1>6 DEF IInv

(* Every step of the program keeps it.                                     *)
LEMMA NextInv == IInv /\ [Next]_vars => IInv'
<1> SUFFICES ASSUME IInv, [Next]_vars PROVE IInv'
  OBVIOUS
<1>1. ASSUME NEW t \in Threads, Step(t) PROVE IInv'
  <2>1. TypeOK'
    BY <1>1, StepTypeOK DEF IInv
  <2> QED
    BY <1>1, <2>1, RegisterInv, RemoveInv, BeginDispatchInv, HandlerReturnsInv, BreakpointStepInv
       DEF Step
<1>2. ASSUME NEW t \in Threads, NEW r \in Requests, Call(t, r) PROVE IInv'
  BY <1>2, CallTypeOK, CallInv DEF IInv
<1>3. CASE UNCHANGED vars
  BY <1>3 DEF vars, IInv, TypeOK, DispatchExclusive, IteratorsLive, Distinct, PendingLegal,
              HoldsCallbacksLock, InOp, Running, Pends
<1> QED
  BY <1>1, <1>2, <1>3 DEF Next

(* The inductive invariant holds in every reachable state.                 *)
THEOREM Invariance == Spec => []IInv
<1>1. Init => IInv
  BY InitInv
<1>2. IInv /\ [Next]_vars => IInv'
  BY NextInv
<1> QED
  BY <1>1, <1>2, PTL DEF Spec

(* Every variable keeps its type: in particular a frame's iterator is never*)
(* the end of the list, so no event loop calls through end().              *)
THEOREM TypeCorrect == Spec => []TypeOK
<1>1. IInv => TypeOK
  BY DEF IInv
<1> QED
  BY <1>1, Invariance, PTL

(* No event loop's iterator points to an erased node, for any number of    *)
(* threads and handlers and whatever the handlers call.                    *)
THEOREM IteratorsStayLive == Spec => []IteratorsLive
<1>1. IInv => IteratorsLive
  BY DEF IInv
<1> QED
  BY <1>1, Invariance, PTL

(* While one thread delivers an event no other thread is in a handler.     *)
THEOREM DispatchIsExclusive == Spec => []DispatchExclusive
<1>1. IInv => DispatchExclusive
  BY DEF IInv
<1> QED
  BY <1>1, Invariance, PTL

-----------------------------------------------------------------------------
(* A breakpoint that leaves the map is hit by no other thread: the remover *)
(* had to find the breakpoint lock free.                                   *)
LEMMA RemovalStep ==
  ASSUME TypeOK, [Next]_vars
  PROVE  \A b \in breakpoints \ breakpoints', u \in Threads :
           [op |-> "hit", at |-> b] \in ToSet(stack[u])
             => pending[u] = [op |-> "removeBp", at |-> b]
<1> SUFFICES ASSUME NEW b \in breakpoints \ breakpoints', NEW u \in Threads,
                    [op |-> "hit", at |-> b] \in ToSet(stack[u])
             PROVE  pending[u] = [op |-> "removeBp", at |-> b]
  OBVIOUS
<1>1. PICK t \in Threads : RemoveBreakpoint(t)
  <2>1. breakpoints' # breakpoints
    OBVIOUS
  <2> QED
    BY <2>1 DEF vars, Next, Step, Call, RegisterEventsCallback, RemoveEventsCallback,
         BeginDispatch, HandlerReturns, RegisterBreakpoint, OnRemoveReturns, BreakpointHit,
         OnHitReturns
<1>2. HoldsBreakpointLock(u)
  BY DEF HoldsBreakpointLock, InOp
<1>3. u = t
  BY <1>1, <1>2 DEF RemoveBreakpoint, BreakpointLockFree
<1>4. b = pending[t].at /\ pending[t].op = "removeBp"
  BY <1>1 DEF RemoveBreakpoint, Pends
<1> QED
  BY <1>3, <1>4 DEF TypeOK, Requests, Idle

(* remove() returns only when no other thread is inside the breakpoint's   *)
(* onHit, so its owner may free the callback.                              *)
THEOREM RemovalIsQuiescent == Spec => RemovalQuiescent
<1>1. TypeOK /\ [Next]_vars =>
        [\A b \in breakpoints \ breakpoints', u \in Threads :
           [op |-> "hit", at |-> b] \in ToSet(stack[u])
             => pending[u] = [op |-> "removeBp", at |-> b]]_vars
  BY RemovalStep
<1> QED
  BY <1>1, TypeCorrect, PTL DEF Spec, RemovalQuiescent
-----------------------------------------------------------------------------
(* The order of the two locks.  What their holders may come to call decides*)
(* it: a rule keeps one side of the cycle out.                             *)

(* A stack has only frames of the kinds K above any frame of kind op, and  *)
(* only the operations W are asked for there.                              *)
Above(s, op, K) ==
  \A i, j \in 1..Len(s) : i < j /\ s[i].op = op => s[j].op \in K

Confined(t, op, K, W) ==
  Above(stack[t], op, K) /\ (InOp(t, op) => pending[t].op \in W)

(* K and W are closed under what the callbacks call: a removal runs        *)
(* onRemove, an event runs handlers, and nothing in there is hit.          *)
Closed(op, K, W) ==
  /\ \A k \in K \cup {op} : mayCall[k] \subseteq W
  /\ "none" \in W
  /\ "removeBp" \in W => "onRemove" \in K
  /\ "dispatch" \in W => "dispatch" \in K
  /\ "hit" \notin K \cup W

(* Adding a frame of a kind in K.                                          *)
LEMMA AboveAppend ==
  ASSUME NEW s \in Seq(Frames), NEW f \in Frames, NEW op, NEW K, Above(s, op, K),
         (\E g \in ToSet(s) : g.op = op) => f.op \in K
  PROVE  Above(Append(s, f), op, K)
<1>1. /\ Len(s) \in Nat
      /\ Len(Append(s, f)) = Len(s) + 1
      /\ \A i \in 1..Len(s) : Append(s, f)[i] = s[i]
      /\ Append(s, f)[Len(s) + 1] = f
  BY AppendProperties, LenProperties
<1>2. \A i \in 1..Len(s) : s[i] \in ToSet(s)
  BY ToSetOfSeq
<1> DEFINE a == Append(s, f)
<1> HIDE DEF a
<1>3. ASSUME NEW i \in 1..Len(a), NEW j \in 1..Len(a), i < j, a[i].op = op
      PROVE  a[j].op \in K
  <2>1. i \in 1..Len(s) /\ s[i].op = op
    BY <1>1, <1>3 DEF a
  <2>2. CASE j \in 1..Len(s)
    BY <1>1, <1>3, <2>1, <2>2 DEF Above, a
  <2>3. CASE j = Len(s) + 1
    BY <1>1, <1>2, <2>1, <2>3 DEF a
  <2> QED
    BY <1>1, <2>2, <2>3 DEF a
<1> QED
  BY <1>3 DEF Above, a

(* Dropping the top frame.                                                 *)
LEMMA AboveFront ==
  ASSUME NEW s \in Seq(Frames), s # <<>>, NEW op, NEW K, Above(s, op, K)
  PROVE  /\ Above(Front(s), op, K)
         /\ (\E g \in ToSet(Front(s)) : g.op = op) => Last(s).op \in K
<1>1. /\ Len(s) \in Nat \ {0}
      /\ Front(s) \in Seq(Frames)
      /\ Len(Front(s)) = Len(s) - 1
      /\ \A i \in 1..Len(s) - 1 : Front(s)[i] = s[i]
  BY FrontElements
<1>2. Last(s) = s[Len(s)]
  BY DEF Last
<1> DEFINE b == Front(s)
<1> HIDE DEF b
<1>3. Above(b, op, K)
  BY <1>1 DEF Above, b
<1>4. ToSet(b) = {b[i] : i \in 1..Len(b)}
  BY <1>1, ToSetOfSeq DEF b
<1>5. ASSUME NEW i \in 1..Len(b), b[i].op = op PROVE Last(s).op \in K
  BY <1>1, <1>2, <1>5 DEF Above, b
<1> QED
  BY <1>3, <1>4, <1>5 DEF b

(* The top frame of a stack that has a frame of kind op.                   *)
LEMMA AboveTop ==
  ASSUME NEW s \in Seq(Frames), NEW op, NEW K, Above(s, op, K),
         \E g \in ToSet(s) : g.op = op
  PROVE  s # <<>> /\ Last(s).op \in K \cup {op}
<1>1. PICK i \in 1..Len(s) : s[i].op = op
  BY ToSetOfSeq
<1>2. Len(s) \in Nat
  BY LenProperties
<1>3. s # <<>>
  BY <1>1, <1>2
<1>4. CASE i = Len(s)
  BY <1>1, <1>4 DEF Last
<1>5. CASE i # Len(s)
  BY <1>1, <1>2, <1>5 DEF Last, Above
<1> QED
  BY <1>3, <1>4, <1>5

(* A thread changes no stack but its own.                                  *)
LEMMA OwnStackOnly ==
  ASSUME TypeOK, NEW t \in Threads, Step(t)
  PROVE  \A u \in Threads \ {t} : stack'[u] = stack[u]
BY DEF TypeOK, Step, RegisterEventsCallback, RemoveEventsCallback, BeginDispatch, HandlerReturns,
       RegisterBreakpoint, RemoveBreakpoint, OnRemoveReturns, BreakpointHit, OnHitReturns,
       Push, Pop, Replace

(* A step of the thread keeps it confined.                                 *)
LEMMA ConfinedStep ==
  ASSUME TypeOK, NEW t \in Threads, Step(t),
         NEW op \in {"dispatch", "hit"}, NEW K, NEW W, Closed(op, K, W), Confined(t, op, K, W)
  PROVE  Confined(t, op, K, W)'
<1>1. /\ stack \in [Threads -> Seq(Frames)]
      /\ pending \in [Threads -> Requests \cup {Idle}]
      /\ Above(stack[t], op, K)
      /\ InOp(t, op) => pending[t].op \in W
      /\ "none" \in W
  BY DEF TypeOK, Confined, Closed
<1>2. Done(t) => pending'[t].op = "none"
  BY <1>1 DEF Done, Idle
<1>3. Continue(t, "dispatch") => pending'[t].op = "dispatch"
  BY <1>1 DEF Continue
<1>4. ASSUME stack' = stack, InOp(t, op) => pending'[t].op \in W
      PROVE  Confined(t, op, K, W)'
  BY <1>1, <1>4 DEF Confined, InOp
<1>5. ASSUME NEW f \in Frames, Push(t, f), Done(t), InOp(t, op) => f.op \in K
      PROVE  Confined(t, op, K, W)'
  <2>1. stack'[t] = Append(stack[t], f)
    BY <1>1, <1>5 DEF Push
  <2>2. Above(stack'[t], op, K)
    BY <1>1, <1>5, <2>1, AboveAppend DEF InOp
  <2> QED
    BY <1>1, <1>2, <1>5, <2>2 DEF Confined
<1>6. ASSUME stack[t] # <<>>, Pop(t),
             \/ pending' = pending /\ pending[t].op = "none"
             \/ Last(stack[t]).op \notin K
      PROVE  Confined(t, op, K, W)'
  <2>1. stack'[t] = Front(stack[t])
    BY <1>1, <1>6 DEF Pop
  <2>2. /\ Above(stack'[t], op, K)
        /\ (\E g \in ToSet(stack'[t]) : g.op = op) => Last(stack[t]).op \in K
    BY <1>1, <1>6, <2>1, AboveFront
  <2> QED
    BY <1>1, <1>6, <2>2 DEF Confined, InOp
<1>7. ASSUME NEW f \in Frames, stack[t] # <<>>, Replace(t, f), f.op = Last(stack[t]).op,
             pending' = pending, pending[t].op = "none"
      PROVE  Confined(t, op, K, W)'
  <2>1. stack'[t] = Append(Front(stack[t]), f)
    BY <1>1, <1>7 DEF Replace
  <2>2. /\ Above(Front(stack[t]), op, K)
        /\ (\E g \in ToSet(Front(stack[t])) : g.op = op) => f.op \in K
        /\ Front(stack[t]) \in Seq(Frames)
    BY <1>1, <1>7, AboveFront, ToSetFront
  <2>3. Above(stack'[t], op, K)
    BY <2>1, <2>2, AboveAppend
  <2> QED
    BY <1>1, <1>7, <2>3 DEF Confined
<1>8. CASE RegisterEventsCallback(t)
  BY <1>1, <1>2, <1>4, <1>8 DEF RegisterEventsCallback
<1>9. CASE RemoveEventsCallback(t)
  BY <1>1, <1>2, <1>4, <1>9 DEF RemoveEventsCallback
<1>10. CASE BeginDispatch(t)
  <2>1. CASE callbacks = <<>>
    BY <1>1, <1>2, <1>4, <1>10, <2>1 DEF BeginDispatch
  <2>2. CASE callbacks # <<>>
    <3> DEFINE f == [op |-> "dispatch", at |-> Head(callbacks)]
    <3>1. f \in Frames /\ f.op = "dispatch"
      BY <2>2, HeadInList DEF Frames
    <3>2. Push(t, f) /\ Done(t) /\ pending[t].op = "dispatch"
      BY <1>10, <2>2 DEF BeginDispatch, Pends
    <3>3. InOp(t, op) => f.op \in K
      BY <1>1, <3>1, <3>2 DEF Closed
    <3> HIDE DEF f
    <3> QED
      BY <1>5, <3>1, <3>2, <3>3
  <2> QED
    BY <2>1, <2>2
<1>11. CASE HandlerReturns(t)
  <2> DEFINE next == NextNode(Last(stack[t]).at)
  <2>1. /\ stack[t] # <<>> /\ Last(stack[t]).op = "dispatch"
        /\ pending' = pending /\ pending[t].op = "none"
    BY <1>11 DEF HandlerReturns, InFrame, Pends
  <2>2. CASE next = None
    <3>1. Pop(t)
      BY <1>11, <2>2 DEF HandlerReturns
    <3> QED
      BY <1>6, <2>1, <3>1
  <2>3. CASE next # None
    <3> DEFINE f == [op |-> "dispatch", at |-> next]
    <3>1. f \in Frames /\ f.op = "dispatch"
      BY <2>3, NextNodeInList DEF Frames
    <3>2. Replace(t, f)
      BY <1>11, <2>3 DEF HandlerReturns
    <3> HIDE DEF f
    <3> QED
      BY <1>7, <2>1, <3>1, <3>2
  <2> QED
    BY <2>2, <2>3
<1>12. CASE RegisterBreakpoint(t)
  BY <1>1, <1>2, <1>4, <1>12 DEF RegisterBreakpoint
<1>13. CASE RemoveBreakpoint(t)
  <2>1. CASE pending[t].at \notin breakpoints
    BY <1>1, <1>2, <1>4, <1>13, <2>1 DEF RemoveBreakpoint
  <2>2. CASE pending[t].at \in breakpoints
    <3> DEFINE f == [op |-> "onRemove", at |-> pending[t].at]
    <3>1. f \in Frames /\ f.op = "onRemove"
      BY <2>2 DEF Frames, TypeOK
    <3>2. Push(t, f) /\ Done(t) /\ pending[t].op = "removeBp"
      BY <1>13, <2>2 DEF RemoveBreakpoint, Pends
    <3>3. InOp(t, op) => f.op \in K
      BY <1>1, <3>1, <3>2 DEF Closed
    <3> HIDE DEF f
    <3> QED
      BY <1>5, <3>1, <3>2, <3>3
  <2> QED
    BY <2>1, <2>2
<1>14. CASE OnRemoveReturns(t)
  BY <1>6, <1>14 DEF OnRemoveReturns, InFrame, Pends
<1>15. CASE BreakpointHit(t)
  <2>1. pending[t].op = "hit" /\ ~InOp(t, op)
    BY <1>1, <1>15 DEF BreakpointHit, Pends, Closed
  <2>2. CASE pending[t].at \notin breakpoints
    BY <1>4, <1>15, <2>1, <2>2 DEF BreakpointHit
  <2>3. CASE pending[t].at \in breakpoints
    <3> DEFINE f == [op |-> "hit", at |-> pending[t].at]
    <3>1. f \in Frames
      BY <2>3 DEF Frames, TypeOK
    <3>2. Push(t, f) /\ Done(t)
      BY <1>15, <2>3 DEF BreakpointHit
    <3> HIDE DEF f
    <3> QED
      BY <1>5, <2>1, <3>1, <3>2
  <2> QED
    BY <2>2, <2>3
<1>16. CASE OnHitReturns(t)
  <2>1. stack[t] # <<>> /\ Last(stack[t]).op = "hit" /\ Pop(t)
    BY <1>16 DEF OnHitReturns, InFrame
  <2>2. Last(stack[t]).op \notin K
    BY <2>1 DEF Closed
  <2> QED
    BY <1>6, <2>1, <2>2
<1> QED
  BY <1>8, <1>9, <1>10, <1>11, <1>12, <1>13, <1>14, <1>15, <1>16 DEF Step

(* So does what its top frame may ask for.                                 *)
LEMMA ConfinedCall ==
  ASSUME TypeOK, NEW t \in Threads, NEW r \in Requests, Call(t, r),
         NEW op \in {"dispatch", "hit"}, NEW K, NEW W, Closed(op, K, W), Confined(t, op, K, W)
  PROVE  Confined(t, op, K, W)'
<1>1. stack' = stack /\ pending'[t] = r /\ MayCall(t, r.op)
  BY DEF Call, TypeOK
<1>2. ASSUME InOp(t, op) PROVE r.op \in W
  <2>1. stack[t] # <<>> /\ Last(stack[t]).op \in K \cup {op}
    BY <1>2, AboveTop DEF InOp, Confined, TypeOK
  <2> QED
    BY <1>1, <2>1 DEF MayCall, Closed
<1> QED
  BY <1>1, <1>2 DEF Confined, InOp

(* What callbacks may call does not change.                                *)
LEMMA MayCallIsRigid == [Next]_vars => mayCall' = mayCall
BY DEF Next, vars, Step, Call, RegisterEventsCallback, RemoveEventsCallback, BeginDispatch,
       HandlerReturns, RegisterBreakpoint, RemoveBreakpoint, OnRemoveReturns, BreakpointHit,
       OnHitReturns

(* Every step keeps every thread confined.                                 *)
LEMMA ConfinedNext ==
  ASSUME TypeOK, [Next]_vars, NEW op \in {"dispatch", "hit"}, NEW K, NEW W,
         Closed(op, K, W), \A t \in Threads : Confined(t, op, K, W)
  PROVE  \A t \in Threads : Confined(t, op, K, W)'
<1> TAKE t \in Threads
<1>1. ASSUME stack'[t] = stack[t], pending'[t] = pending[t] PROVE Confined(t, op, K, W)'
  BY <1>1 DEF Confined, InOp
<1>2. ASSUME NEW u \in Threads, Step(u) PROVE Confined(t, op, K, W)'
  <2>1. CASE u = t
    BY <1>2, <2>1, ConfinedStep
  <2>2. CASE u # t
    <3>1. stack'[t] = stack[t]
      BY <1>2, <2>2, OwnStackOnly
    <3>2. pending'[t] = pending[t]
      BY <1>2, <2>2 DEF TypeOK, Step, RegisterEventsCallback, RemoveEventsCallback,
         BeginDispatch, HandlerReturns, RegisterBreakpoint, RemoveBreakpoint, OnRemoveReturns,
         BreakpointHit, OnHitReturns, Done, Continue
    <3> QED
      BY <1>1, <3>1, <3>2
  <2> QED
    BY <2>1, <2>2
<1>3. ASSUME NEW u \in Threads, NEW r \in Requests, Call(u, r) PROVE Confined(t, op, K, W)'
  <2>1. CASE u = t
    BY <1>3, <2>1, ConfinedCall
  <2>2. CASE u # t
    BY <1>1, <1>3, <2>2 DEF Call, TypeOK
  <2> QED
    BY <2>1, <2>2
<1>4. CASE UNCHANGED vars
  BY <1>1, <1>4 DEF vars
<1> QED
  BY <1>2, <1>3, <1>4 DEF Next

(* The frames and requests inside an onHit and inside an event handler.    *)
InsideHit == IF "removeBp" \in mayCall["hit"] THEN {"onRemove"} ELSE {}

AskedInHit == {"none"} \cup mayCall["hit"] \cup UNION {mayCall[k] : k \in InsideHit}

LockOrder ==
  /\ HitsStayOff(mayCall) =>
       \A t \in Threads : Confined(t, "hit", InsideHit, AskedInHit)
  /\ HandlersStayOff(mayCall) =>
       \A t \in Threads : Confined(t, "dispatch", {"dispatch"}, {"none"} \cup mayCall["dispatch"])

(* The rules close them.                                                   *)
LEMMA RulesClose ==
  /\ HitsStayOff(mayCall) =>
       /\ Closed("hit", InsideHit, AskedInHit)
       /\ AskedInHit \subseteq {"none", "insertBp", "removeBp"}
  /\ HandlersStayOff(mayCall) =>
       Closed("dispatch", {"dispatch"}, {"none"} \cup mayCall["dispatch"])
<1>1. ASSUME HitsStayOff(mayCall)
      PROVE  /\ Closed("hit", InsideHit, AskedInHit)
             /\ AskedInHit \subseteq {"none", "insertBp", "removeBp"}
  <2>1. \A k \in InsideHit : k = "onRemove" /\ "removeBp" \in mayCall["hit"]
    BY DEF InsideHit
  <2>2. \A k \in InsideHit : mayCall[k] \subseteq {"insertBp", "removeBp"}
    BY <1>1, <2>1 DEF HitsStayOff
  <2>3. AskedInHit \subseteq {"none", "insertBp", "removeBp"}
    BY <1>1, <2>2 DEF AskedInHit, HitsStayOff
  <2>4. "removeBp" \in AskedInHit => "onRemove" \in InsideHit
    <3>1. CASE "removeBp" \in mayCall["hit"]
      BY <3>1 DEF InsideHit
    <3>2. CASE "removeBp" \notin mayCall["hit"]
      BY <2>1, <3>2 DEF AskedInHit
    <3> QED
      BY <3>1, <3>2
  <2>5. \A k \in InsideHit \cup {"hit"} : mayCall[k] \subseteq AskedInHit
    BY DEF AskedInHit
  <2> QED
    BY <2>1, <2>3, <2>4, <2>5 DEF Closed, AskedInHit
<1>2. ASSUME HandlersStayOff(mayCall)
      PROVE  Closed("dispatch", {"dispatch"}, {"none"} \cup mayCall["dispatch"])
  BY <1>2 DEF HandlersStayOff, Closed
<1> QED
  BY <1>1, <1>2

(* Every step keeps the order.                                             *)
LEMMA LockOrderStep ==
  ASSUME TypeOK, LockOrder, [Next]_vars
  PROVE  LockOrder'
<1>1. mayCall' = mayCall /\ InsideHit' = InsideHit /\ AskedInHit' = AskedInHit
  BY MayCallIsRigid DEF InsideHit, AskedInHit
<1>2. ASSUME HitsStayOff(mayCall)
      PROVE  \A t \in Threads : Confined(t, "hit", InsideHit, AskedInHit)'
  <2> DEFINE K == InsideHit
             W == AskedInHit
  <2>1. Closed("hit", K, W) /\ \A t \in Threads : Confined(t, "hit", K, W)
    BY <1>2, RulesClose DEF LockOrder
  <2> QED
    BY <1>1, <2>1, ConfinedNext DEF Confined
<1>3. ASSUME HandlersStayOff(mayCall)
      PROVE  \A t \in Threads :
               Confined(t, "dispatch", {"dispatch"}, {"none"} \cup mayCall["dispatch"])'
  <2>1. /\ Closed("dispatch", {"dispatch"}, {"none"} \cup mayCall["dispatch"])
        /\ \A t \in Threads :
             Confined(t, "dispatch", {"dispatch"}, {"none"} \cup mayCall["dispatch"])
    BY <1>3, RulesClose DEF LockOrder
  <2> QED
    BY <1>1, <2>1, ConfinedNext DEF Confined
<1> QED
  BY <1>1, <1>2, <1>3 DEF LockOrder, HitsStayOff, HandlersStayOff

(* No two threads wait for each other's lock, for any number of threads    *)
(* and any depth of callbacks in callbacks, if in every program considered *)
(* the callbacks of one of the two sides stay off the other side's lock.   *)
THEOREM NoLockCycles ==
  ASSUME \A r \in CallRules : HitsStayOff(r) \/ HandlersStayOff(r)
  PROVE  Spec => []NoLockCycle
<1>1. Init => LockOrder
  <2> SUFFICES ASSUME Init, NEW t \in Threads
               PROVE  \A op, K, W : Confined(t, op, K, W)
    BY DEF LockOrder
  <2>1. stack[t] = <<>> /\ Len(<<>>) = 0 /\ ToSet(stack[t]) = {}
    BY DEF Init, ToSet
  <2> QED
    BY <2>1 DEF Confined, Above, InOp
<1>2. TypeOK /\ LockOrder /\ [Next]_vars => LockOrder'
  BY LockOrderStep
<1>3. TypeOK /\ LockOrder => NoLockCycle
  <2> SUFFICES ASSUME TypeOK, LockOrder, NEW t \in Threads, NEW u \in Threads,
                      WaitsForBreakpointLock(t), HoldsBreakpointLock(u),
                      WaitsForCallbacksLock(u), HoldsCallbacksLock(t)
               PROVE  FALSE
    BY DEF NoLockCycle
  <2>1. CASE HitsStayOff(mayCall)
    BY <2>1, RulesClose DEF LockOrder, Confined, HoldsBreakpointLock, WaitsForCallbacksLock
  <2>2. CASE HandlersStayOff(mayCall)
    BY <2>2 DEF LockOrder, Confined, HoldsCallbacksLock, WaitsForBreakpointLock,
                HandlersStayOff
  <2> QED
    BY <2>1, <2>2 DEF TypeOK
<1> QED
  BY <1>1, <1>2, <1>3, TypeCorrect, PTL DEF Spec
-----------------------------------------------------------------------------
(* EventDispatch implements HandlerRegistry.                               *)

(* A step that leaves the list alone is a Run of the registry: what the    *)
(* thread may enter follows from the invariant after the step.             *)
LEMMA RunsHandlers ==
  ASSUME TypeOK, IInv', NEW t \in Threads, callbacks' = callbacks,
         \A u \in Threads \ {t} : stack'[u] = stack[u]
  PROVE  Registry!Next
<1>1. \A u \in Threads \ {t} : Running(u)' = Running(u)
  BY DEF Running
<1>2. Running(t)' \subseteq ToSet(callbacks)
  BY DEF IInv, IteratorsLive
<1>3. Running(t)' # {} => \A u \in Threads \ {t} : Running(u) = {}
  BY <1>1, HoldsIffRunning DEF IInv, DispatchExclusive
<1>4. Running(t)' \in SUBSET Handlers
  BY DEF Running
<1>5. [u \in Threads |-> Running(u)'] = [[u \in Threads |-> Running(u)] EXCEPT ![t] = Running(t)']
  BY <1>1
<1>6. Registry!Run(t, Running(t)')
  BY <1>2, <1>3, <1>5 DEF Registry!Run
<1> QED
  BY <1>4, <1>6 DEF Registry!Next

(* Initially nothing is registered and nobody runs.                        *)
LEMMA RefinementInit == Init => Registry!Init
BY DEF Init, Registry!Init, Running, ToSet

(* Every step of the locks is a step of the registry or a stutter.         *)
LEMMA RefinementStep ==
  ASSUME IInv, IInv', [Next]_vars
  PROVE  [Registry!Next]_(Registry!vars)
<1>1. ASSUME NEW t \in Threads, Step(t) PROVE Registry!Next
  <2>1. CASE RegisterEventsCallback(t)
    <3> DEFINE h == pending[t].at
    <3>1. h \in Handlers /\ callbacks \in Seq(Handlers)
      BY <2>1, PendingArgument DEF IInv, TypeOK, RegisterEventsCallback, Pends
    <3>2. ToSet(callbacks') = ToSet(callbacks) \cup {h}
      BY <2>1, <3>1, ToSetAppend DEF RegisterEventsCallback
    <3>3. [u \in Threads |-> Running(u)'] = [u \in Threads |-> Running(u)]
      BY <2>1 DEF RegisterEventsCallback, Running
    <3>4. Registry!Register(h)
      BY <3>2, <3>3 DEF Registry!Register
    <3> QED
      BY <3>1, <3>4 DEF Registry!Next
  <2>2. CASE RemoveEventsCallback(t)
    <3> DEFINE h == pending[t].at
    <3>1. h \in Handlers
      BY <2>2, PendingArgument DEF IInv, RemoveEventsCallback, Pends
    <3>2. ToSet(callbacks') = ToSet(callbacks) \ {h}
      BY <2>2, WithoutHandlerProperties DEF IInv, RemoveEventsCallback
    <3>3. [u \in Threads |-> Running(u)'] = [u \in Threads |-> Running(u)]
      BY <2>2 DEF RemoveEventsCallback, Running
    <3>4. \A u \in Threads \ {t} : h \notin Running(u)
      BY <2>2, FreeMeansOthersOutside DEF IInv, RemoveEventsCallback
    <3>5. Registry!Remove(t, h)
      BY <3>2, <3>3, <3>4 DEF Registry!Remove
    <3> QED
      BY <3>1, <3>5 DEF Registry!Next
  <2>3. CASE callbacks' = callbacks
    BY <1>1, <2>3, OwnStackOnly, RunsHandlers DEF IInv
  <2> QED
    BY <1>1, <2>1, <2>2, <2>3 DEF Step, BeginDispatch, HandlerReturns, RegisterBreakpoint,
       RemoveBreakpoint, OnRemoveReturns, BreakpointHit, OnHitReturns
<1>2. ASSUME NEW t \in Threads, NEW r \in Requests, Call(t, r) PROVE UNCHANGED Registry!vars
  BY <1>2 DEF Call, Registry!vars, Running
<1>3. CASE UNCHANGED vars
  BY <1>3 DEF vars, Registry!vars, Running
<1> QED
  BY <1>1, <1>2, <1>3 DEF Next

(* The list, the iterators and the lock keep the promise to the owners of  *)
(* handlers, for any number of threads, handlers and breakpoints.          *)
THEOREM RegistryImplemented == Spec => ImplementsRegistry
<1>1. Init => Registry!Init
  BY RefinementInit
<1>2. IInv /\ IInv' /\ [Next]_vars => [Registry!Next]_(Registry!vars)
  BY RefinementStep
<1> QED
  BY <1>1, <1>2, Invariance, PTL DEF Spec, ImplementsRegistry, Registry!Spec
=============================================================================
