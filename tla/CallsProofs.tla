---------------------------- MODULE CallsProofs -----------------------------
(***************************************************************************)
(* Proofs about Calls, for any functions, arguments and threads: a call    *)
(* that returns something has run the function with the arguments that     *)
(* were meant and returns its result, and nothing is left of a call.       *)
(*                                                                         *)
(* The argument: whatever prepares the call only writes below the stack    *)
(* pointer it found (Keeps), so what was laid down earlier stays; the      *)
(* loop that passes the arguments takes exactly the bytes the compiler     *)
(* counts (OnStack), so each argument is where the function looks for it.  *)
(***************************************************************************)
EXTENDS Calls, SequenceTheorems, WellFoundedInduction, TLAPS

(* Registers and stack of a thread.                                        *)
IsThread(t) ==
  /\ t = [ip |-> t.ip, sp |-> t.sp, registers |-> t.registers]
  /\ t.sp \in Int
  /\ t.registers = [r \in RegisterNames |-> t.registers[r]]
  /\ \A r \in RegisterNames : DOMAIN t.registers[r] = 1..Word

IsMachine(m) ==
  /\ m = Prepared(m.thread, m.memory)
  /\ IsThread(m.thread)
  /\ DOMAIN m.memory \subseteq Int

(* p is m after something was put below its stack pointer.                 *)
Keeps(m, p) ==
  /\ IsMachine(p) /\ p.thread.sp <= m.thread.sp
  /\ DOMAIN m.memory \subseteq DOMAIN p.memory
  /\ \A a \in DOMAIN p.memory : a >= m.thread.sp => a \in DOMAIN m.memory /\ p.memory[a] = m.memory[a]

(* Some bytes lie in the part of the stack that is in use.                 *)
Holds(mem, at, bytes) ==
  \A k \in 1..Len(bytes) : at + k - 1 \in DOMAIN mem /\ mem[at + k - 1] = bytes[k]

Lies(m, at, bytes) == at \in Int /\ at >= m.thread.sp /\ IsList(bytes) /\ Holds(m.memory, at, bytes)

(* What castArgs makes of an argument: what it means, or the address of    *)
(* that if it is an array.                                                 *)
Carries(j, bytes, m) ==
  /\ IsList(bytes) /\ Len(bytes) >= Size(call.params[j]) /\ ~IsHuge(Len(bytes))
  /\ Size(call.params[j]) <= Word => Len(bytes) <= Word
  /\ Size(call.params[j]) > Word => Len(bytes) = Size(call.params[j])
  /\ Kind(Arguments[j].type) # "array" => First(bytes, Size(call.params[j])) = Meant(j)
  /\ Kind(Arguments[j].type) = "array" =>
       /\ Size(call.params[j]) = Word /\ Meant(j) = Arguments[j].bytes
       /\ bytes = Address(bytes[1][2]) /\ Lies(m, bytes[1][2], Arguments[j].bytes)
-----------------------------------------------------------------------------
(* A function on 1..n is as long as that.                                  *)
LEMMA LenOfFunction ==
  ASSUME NEW n \in Nat, NEW s, s = [k \in 1..n |-> s[k]]
  PROVE  Len(s) = n /\ IsList(s)
<1> DEFINE S == {s[k] : k \in 1..n}
<1>1. s \in [1..n -> S]
  OBVIOUS
<1>2. s \in Seq(S)
  BY <1>1, SeqDef
<1>3. Len(s) \in Nat /\ DOMAIN s = 1..Len(s) /\ DOMAIN s = 1..n
  <2> HIDE DEF S
  <2> QED BY <1>2, LenProperties
<1>4. QED
  BY <1>3 DEF IsList

(* The lists of bytes the model is made of.                                *)
LEMMA BytesAre ==
  ASSUME NEW n \in Nat, NEW what, NEW j
  PROVE  /\ Len(Bytes(what, j, n)) = n /\ IsList(Bytes(what, j, n))
         /\ \A k \in 1..n : Bytes(what, j, n)[k] = <<what, j, k>>
<1> DEFINE b == Bytes(what, j, n)
<1>1. b = [k \in 1..n |-> b[k]] /\ \A k \in 1..n : b[k] = <<what, j, k>>
  BY DEF Bytes
<1> HIDE DEF b
<1>2. Len(b) = n /\ IsList(b)
  BY <1>1, LenOfFunction
<1> QED
  BY <1>1, <1>2 DEF b

(* A number that is given another size keeps the bytes there is room for.  *)
LEMMA ConvertedIs ==
  ASSUME NEW n \in Nat, NEW v
  PROVE  /\ Len(Converted(v, n)) = n /\ IsList(Converted(v, n))
         /\ \A k \in 1..n : k <= Len(v.bytes) => Converted(v, n)[k] = v.bytes[k]
<1> DEFINE b == Converted(v, n)
<1>1. b = [k \in 1..n |-> b[k]] /\ \A k \in 1..n : k <= Len(v.bytes) => b[k] = v.bytes[k]
  BY DEF Converted
<1> HIDE DEF b
<1>2. Len(b) = n /\ IsList(b)
  BY <1>1, LenOfFunction
<1> QED
  BY <1>1, <1>2 DEF b

(* An address says where it points to.                                     *)
LEMMA AddressIs ==
  ASSUME NEW a
  PROVE  /\ Len(Address(a)) = Word /\ IsList(Address(a))
         /\ IsAddress(Address(a)) /\ Address(a)[1][2] = a
         /\ First(Address(a), Word) = Address(a)
<1>1. Word \in Nat /\ 1 \in 1..Word
  BY DEF Word, WordOf
<1>2. /\ Len(Address(a)) = Word /\ IsList(Address(a))
      /\ \A k \in 1..Word : Address(a)[k] = <<"at", a, k>>
  BY <1>1, BytesAre DEF Address
<1>3. First(Address(a), Word) = Address(a)
  BY <1>1 DEF First, Address, Bytes
<1> QED
  BY <1>1, <1>2, <1>3 DEF IsAddress

(* What is read is what lies there.                                        *)
LEMMA ReadsWhatLies ==
  ASSUME NEW m, NEW at, NEW bytes, Lies(m, at, bytes), NEW n \in 0..Len(bytes)
  PROVE  Read(m.memory, at, n) = First(bytes, n)
BY DEF Read, First, Lies, Holds, IsList

-----------------------------------------------------------------------------
(* Sizes of the stack's elements.                                          *)
LEMMA Aligned ==
  ASSUME NEW n \in Nat
  PROVE  /\ AlignStackPointer(n) \in Nat /\ AlignStackPointer(n) >= n
         /\ n > 0 /\ n <= Word => AlignStackPointer(n) = Word
         /\ ~IsHuge(n) => AlignStackPointer(n % ShortRange) % ShortRange = AlignStackPointer(n)
         /\ AlignStackPointer(n % ShortRange) % ShortRange \in Nat
<1>1. CASE Word = 4
  <2>1. AlignStackPointer(n) \in Nat /\ AlignStackPointer(n) >= n /\ (n <= ShortRange - 8 => AlignStackPointer(n) < ShortRange)
    BY <1>1 DEF AlignStackPointer, ShortRange
  <2>2. n > 0 /\ n <= Word => AlignStackPointer(n) = Word
    BY <1>1 DEF AlignStackPointer
  <2>3. ~IsHuge(n) => AlignStackPointer(n % ShortRange) % ShortRange = AlignStackPointer(n)
    BY <2>1 DEF IsHuge, ShortRange
  <2>4. AlignStackPointer(n % ShortRange) % ShortRange \in Nat
    BY <1>1 DEF AlignStackPointer, ShortRange
  <2> QED
    BY <2>1, <2>2, <2>3, <2>4
<1>2. CASE Word = 8
  <2>1. AlignStackPointer(n) \in Nat /\ AlignStackPointer(n) >= n /\ (n <= ShortRange - 8 => AlignStackPointer(n) < ShortRange)
    BY <1>2 DEF AlignStackPointer, ShortRange
  <2>2. n > 0 /\ n <= Word => AlignStackPointer(n) = Word
    BY <1>2 DEF AlignStackPointer
  <2>3. ~IsHuge(n) => AlignStackPointer(n % ShortRange) % ShortRange = AlignStackPointer(n)
    BY <2>1 DEF IsHuge, ShortRange
  <2>4. AlignStackPointer(n % ShortRange) % ShortRange \in Nat
    BY <1>2 DEF AlignStackPointer, ShortRange
  <2> QED
    BY <2>1, <2>2, <2>3, <2>4
<1> QED
  BY <1>1, <1>2 DEF Word, WordOf

-----------------------------------------------------------------------------
(* What the operations on the stack do.                                    *)
LEMMA KeepsReflexive ==
  ASSUME NEW m, IsMachine(m)
  PROVE  Keeps(m, m)
BY DEF Keeps, IsMachine, IsThread

(* What two steps one after the other keep, both keep.                     *)
LEMMA KeepsTransitive ==
  ASSUME NEW m, NEW p, NEW q, IsMachine(m), Keeps(m, p), Keeps(p, q)
  PROVE  Keeps(m, q)
<1>1. m.thread.sp \in Int /\ p.thread.sp \in Int /\ q.thread.sp \in Int /\ IsMachine(q)
  BY DEF Keeps, IsMachine, IsThread
<1>2. DOMAIN q.memory \subseteq Int
  BY DEF Keeps, IsMachine
<1> QED
  BY <1>1, <1>2 DEF Keeps

(* What lies in the stack stays there.                                     *)
LEMMA StillLies ==
  ASSUME NEW m, NEW p, IsMachine(m), Keeps(m, p), NEW at, NEW bytes, Lies(m, at, bytes)
  PROVE  Lies(p, at, bytes)
<1>1. m.thread.sp \in Int /\ p.thread.sp \in Int /\ at \in Int /\ Len(bytes) \in Nat
  BY DEF Keeps, IsMachine, IsThread, Lies, IsList
<1>2. \A k \in 1..Len(bytes) : at + k - 1 >= m.thread.sp
  BY <1>1 DEF Lies
<1>3. ASSUME NEW k \in 1..Len(bytes)
      PROVE  at + k - 1 \in DOMAIN p.memory /\ p.memory[at + k - 1] = bytes[k]
  <2>1. at + k - 1 \in DOMAIN m.memory /\ m.memory[at + k - 1] = bytes[k]
    BY DEF Lies, Holds
  <2>2. at + k - 1 \in DOMAIN p.memory /\ at + k - 1 >= m.thread.sp
    BY <1>2, <2>1 DEF Keeps
  <2> QED
    BY <2>1, <2>2 DEF Keeps
<1>4. at >= p.thread.sp
  BY <1>1 DEF Keeps, Lies
<1> QED
  BY <1>1, <1>3, <1>4 DEF Lies, Holds

(* stackAlloc moves the stack pointer, by as much as asked for unless its  *)
(* unsigned short cannot count that.                                       *)
LEMMA Allocated ==
  ASSUME NEW m, IsMachine(m), NEW n \in Nat
  PROVE  /\ Keeps(m, StackAlloc(m, n))
         /\ ~IsHuge(n) => StackAlloc(m, n).thread.sp = m.thread.sp - AlignStackPointer(n)
         /\ StackAlloc(m, n).memory = m.memory
         /\ StackAlloc(m, n).thread.registers = m.thread.registers
<1> DEFINE d == AlignStackPointer(n % ShortRange) % ShortRange
           p == StackAlloc(m, n)
<1>1. d \in Nat /\ (~IsHuge(n) => d = AlignStackPointer(n))
  BY Aligned
<1>2. p = [m EXCEPT !.thread.sp = @ - d]
  BY DEF StackAlloc
<1> HIDE DEF d, p
<1>3. /\ m = [thread |-> m.thread, memory |-> m.memory]
      /\ m.thread = [ip |-> m.thread.ip, sp |-> m.thread.sp, registers |-> m.thread.registers]
  BY DEF IsMachine, IsThread, Prepared
<1>4. p = [thread |-> [ip |-> m.thread.ip, sp |-> m.thread.sp - d, registers |-> m.thread.registers], memory |-> m.memory]
  BY <1>2, <1>3
<1>5. IsMachine(p) /\ p.thread.sp = m.thread.sp - d /\ p.memory = m.memory /\ p.thread.registers = m.thread.registers
  BY <1>1, <1>4 DEF IsMachine, IsThread, Prepared
<1>6. Keeps(m, p)
  BY <1>1, <1>5 DEF Keeps, IsMachine, IsThread
<1> QED
  BY <1>1, <1>5, <1>6 DEF p

(* Bytes are written below what was in use.                                *)
LEMMA Written ==
  ASSUME NEW m, IsMachine(m), NEW at \in Int, NEW bytes, IsList(bytes)
  PROVE  /\ IsMachine(Put(m, at, bytes))
         /\ Put(m, at, bytes).thread = m.thread
         /\ Put(m, at, bytes).memory = Over(m.memory, at, bytes)
<1>1. /\ m = [thread |-> m.thread, memory |-> m.memory]
  BY DEF IsMachine, Prepared
<1>2. Put(m, at, bytes) = [thread |-> m.thread, memory |-> Over(m.memory, at, bytes)]
  BY <1>1 DEF Put
<1>3. DOMAIN Over(m.memory, at, bytes) \subseteq Int
  BY DEF Over, Span, IsMachine, IsList
<1> QED
  BY <1>2, <1>3 DEF IsMachine, Prepared

(* What has been written is there, and the rest is as before.              *)
LEMMA OverIs ==
  ASSUME NEW mem, NEW at \in Int, NEW bytes, IsList(bytes)
  PROVE  /\ DOMAIN Over(mem, at, bytes) = DOMAIN mem \cup at..(at + Len(bytes) - 1)
         /\ \A a \in at..(at + Len(bytes) - 1) : Over(mem, at, bytes)[a] = bytes[a - at + 1]
         /\ Holds(Over(mem, at, bytes), at, bytes)
         /\ \A a \in DOMAIN mem : a \notin at..(at + Len(bytes) - 1) => Over(mem, at, bytes)[a] = mem[a]
<1>1. /\ DOMAIN Over(mem, at, bytes) = DOMAIN mem \cup at..(at + Len(bytes) - 1)
      /\ \A a \in at..(at + Len(bytes) - 1) : Over(mem, at, bytes)[a] = bytes[a - at + 1]
      /\ \A a \in DOMAIN mem : a \notin at..(at + Len(bytes) - 1) => Over(mem, at, bytes)[a] = mem[a]
  BY DEF Over, Span
<1>2. Len(bytes) \in Nat
  BY DEF IsList
<1>3. ASSUME NEW k \in 1..Len(bytes)
      PROVE  at + k - 1 \in DOMAIN Over(mem, at, bytes) /\ Over(mem, at, bytes)[at + k - 1] = bytes[k]
  <2>1. at + k - 1 \in at..(at + Len(bytes) - 1) /\ (at + k - 1) - at + 1 = k
    BY <1>2
  <2> QED
    BY <1>1, <2>1
<1> QED
  BY <1>1, <1>3 DEF Holds

(* A value that is pushed lies on the stack, unless it is huge.            *)
LEMMA Pushed ==
  ASSUME NEW m, IsMachine(m), NEW bytes, IsList(bytes)
  PROVE  /\ IsMachine(Push(m, bytes))
         /\ ~IsHuge(Len(bytes)) =>
              /\ Keeps(m, Push(m, bytes))
              /\ Push(m, bytes).thread.sp = m.thread.sp - AlignStackPointer(Len(bytes))
              /\ Lies(Push(m, bytes), Push(m, bytes).thread.sp, bytes)
         /\ Push(m, bytes).thread.registers = m.thread.registers
<1> DEFINE n == Len(bytes)
           c == StackAlloc(m, n)
           p == Push(m, bytes)
<1>1. n \in Nat
  BY DEF IsList
<1>2. /\ Keeps(m, c)
      /\ ~IsHuge(n) => c.thread.sp = m.thread.sp - AlignStackPointer(n)
      /\ c.memory = m.memory
      /\ c.thread.registers = m.thread.registers
  BY <1>1, Allocated
<1>3. IsMachine(c) /\ c.thread.sp \in Int
  BY <1>2 DEF Keeps, IsMachine, IsThread
<1>4. p = Put(c, c.thread.sp, bytes)
  BY DEF Push
<1> HIDE DEF c, p
<1>5. /\ IsMachine(p) /\ p.thread = c.thread
      /\ p.memory = Over(m.memory, c.thread.sp, bytes)
  BY <1>2, <1>3, <1>4, Written
<1>6. /\ DOMAIN p.memory = DOMAIN m.memory \cup c.thread.sp..(c.thread.sp + n - 1)
      /\ Holds(p.memory, c.thread.sp, bytes)
      /\ \A a \in DOMAIN m.memory : a \notin c.thread.sp..(c.thread.sp + n - 1) => p.memory[a] = m.memory[a]
  <2> DEFINE at == c.thread.sp
             mem == m.memory
  <2>1. at \in Int /\ p.memory = Over(mem, at, bytes)
    BY <1>3, <1>5
  <2> HIDE DEF at, mem
  <2>2. /\ DOMAIN Over(mem, at, bytes) = DOMAIN mem \cup at..(at + n - 1)
        /\ Holds(Over(mem, at, bytes), at, bytes)
        /\ \A a \in DOMAIN mem : a \notin at..(at + n - 1) => Over(mem, at, bytes)[a] = mem[a]
    BY <2>1, OverIs
  <2> QED
    BY <2>1, <2>2 DEF at, mem
<1>7. ASSUME ~IsHuge(n)
      PROVE  Keeps(m, p) /\ Lies(p, p.thread.sp, bytes)
  <2>1. AlignStackPointer(n) \in Nat /\ AlignStackPointer(n) >= n
    BY <1>1, Aligned
  <2>2. m.thread.sp \in Int /\ DOMAIN m.memory \subseteq Int
    BY DEF IsMachine, IsThread
  <2>3. c.thread.sp = m.thread.sp - AlignStackPointer(n)
    BY <1>2, <1>7
  <2>4. \A a \in c.thread.sp..(c.thread.sp + n - 1) : a < m.thread.sp
    BY <1>1, <2>1, <2>2, <2>3
  <2>5. \A a \in DOMAIN p.memory : a >= m.thread.sp => a \in DOMAIN m.memory /\ p.memory[a] = m.memory[a]
    <3>1. \A a \in c.thread.sp..(c.thread.sp + n - 1) : ~(a >= m.thread.sp)
      BY <1>1, <1>3, <2>2, <2>4
    <3> QED
      BY <1>6, <3>1
  <2>6. p.thread.sp <= m.thread.sp
    BY <1>5, <2>1, <2>2, <2>3
  <2>7. Keeps(m, p)
    BY <1>5, <1>6, <2>5, <2>6 DEF Keeps
  <2>8. Lies(p, p.thread.sp, bytes)
    BY <1>3, <1>5, <1>6 DEF Lies
  <2> QED
    BY <2>7, <2>8
<1> QED
  BY <1>2, <1>5, <1>7 DEF p

(* writeBytes to a register changes its low bytes, and no other register.  *)
LEMMA RegisterSet ==
  ASSUME NEW m, IsMachine(m), NEW r \in RegisterNames, NEW bytes, IsList(bytes)
  PROVE  /\ Keeps(m, SetRegister(m, r, bytes))
         /\ SetRegister(m, r, bytes).thread.sp = m.thread.sp
         /\ SetRegister(m, r, bytes).memory = m.memory
         /\ \A k \in 1..Word : k <= Len(bytes) => SetRegister(m, r, bytes).thread.registers[r][k] = bytes[k]
         /\ \A s \in RegisterNames \ {r} : SetRegister(m, r, bytes).thread.registers[s] = m.thread.registers[s]
<1> DEFINE new == [k \in DOMAIN m.thread.registers[r] |-> IF k <= Len(bytes) THEN bytes[k] ELSE m.thread.registers[r][k]]
           p == SetRegister(m, r, bytes)
<1>1. DOMAIN new = 1..Word /\ \A k \in 1..Word : k <= Len(bytes) => new[k] = bytes[k]
  BY DEF IsMachine, IsThread
<1>2. p = [m EXCEPT !.thread.registers[r] = new]
  BY DEF SetRegister
<1> HIDE DEF new, p
<1>3. /\ m = [thread |-> m.thread, memory |-> m.memory]
      /\ m.thread = [ip |-> m.thread.ip, sp |-> m.thread.sp, registers |-> m.thread.registers]
      /\ m.thread.registers = [s \in RegisterNames |-> m.thread.registers[s]]
  BY DEF IsMachine, IsThread, Prepared
<1>4. p = [thread |-> [ip |-> m.thread.ip, sp |-> m.thread.sp, registers |-> [m.thread.registers EXCEPT ![r] = new]],
           memory |-> m.memory]
  BY <1>2, <1>3
<1>5. /\ p.thread.sp = m.thread.sp /\ p.memory = m.memory
      /\ p.thread.registers = [m.thread.registers EXCEPT ![r] = new]
      /\ p = Prepared(p.thread, p.memory)
      /\ p.thread = [ip |-> p.thread.ip, sp |-> p.thread.sp, registers |-> p.thread.registers]
  BY <1>4 DEF Prepared
<1>6. /\ p.thread.registers = [s \in RegisterNames |-> p.thread.registers[s]]
      /\ p.thread.registers[r] = new
      /\ \A s \in RegisterNames \ {r} : p.thread.registers[s] = m.thread.registers[s]
  BY <1>3, <1>5
<1>7. \A s \in RegisterNames : DOMAIN p.thread.registers[s] = 1..Word
  BY <1>1, <1>6 DEF IsMachine, IsThread
<1>8. IsMachine(p)
  BY <1>5, <1>6, <1>7 DEF IsMachine, IsThread
<1>9. Keeps(m, p)
  BY <1>5, <1>8 DEF Keeps, IsMachine, IsThread
<1> QED
  BY <1>1, <1>5, <1>6, <1>9 DEF p

(* callX64 aligns the stack so that it is aligned again once an odd number *)
(* of arguments is on it.                                                  *)
LEMMA StackAligned ==
  ASSUME NEW m, IsMachine(m), NEW n \in Nat
  PROVE  /\ Keeps(m, AlignStack(m, n))
         /\ (AlignStack(m, n).thread.sp + (IF n > 4 /\ n % 2 # 0 THEN 8 ELSE 0)) % 16 = 0
<1> DEFINE new == ((m.thread.sp \div 16) * 16) - (IF n > 4 /\ n % 2 # 0 THEN 8 ELSE 0)
           p == AlignStack(m, n)
<1>1. new \in Int /\ new <= m.thread.sp /\ (new + (IF n > 4 /\ n % 2 # 0 THEN 8 ELSE 0)) % 16 = 0
  <2> m.thread.sp \in Int
    BY DEF IsMachine, IsThread
  <2> QED OBVIOUS
<1>2. /\ m = [thread |-> m.thread, memory |-> m.memory]
      /\ m.thread = [ip |-> m.thread.ip, sp |-> m.thread.sp, registers |-> m.thread.registers]
  BY DEF IsMachine, IsThread, Prepared
<1>3. p = [m EXCEPT !.thread.sp = new]
  BY DEF AlignStack
<1> HIDE DEF new, p
<1>4. p = [thread |-> [ip |-> m.thread.ip, sp |-> new, registers |-> m.thread.registers], memory |-> m.memory]
  BY <1>2, <1>3
<1>5. IsMachine(p) /\ p.thread.sp = new /\ p.memory = m.memory
  BY <1>1, <1>4 DEF IsMachine, IsThread, Prepared
<1>6. Keeps(m, p)
  BY <1>1, <1>5 DEF Keeps, IsMachine, IsThread
<1> QED
  BY <1>1, <1>5, <1>6 DEF p, new
-----------------------------------------------------------------------------
(* Loops.  A set with 0, and with the successor of each of its elements    *)
(* below n, has all numbers to n.                                          *)
LEMMA Induction ==
  ASSUME NEW n \in Nat, NEW S, 0 \in S, \A k \in 0..(n - 1) : k \in S => k + 1 \in S
  PROVE  \A k \in 0..n : k \in S
<1> DEFINE less == {pair \in Nat \X Nat : pair[1] < pair[2]}
           others == {k \in 0..n : k \notin S}
<1> SUFFICES ASSUME others # {} PROVE FALSE
  OBVIOUS
<1>1. IsWellFoundedOn(less, Nat)
  BY NatLessThanWellFounded DEF OpToRel
<1>2. others \subseteq Nat
  OBVIOUS
<1>3. PICK k \in others : \A i \in others : <<i, k>> \notin less
  <2> HIDE DEF less, others
  <2> QED BY <1>1, <1>2, WFMin
<1>4. k # 0 /\ k - 1 \in 0..(n - 1) /\ k - 1 \notin S
  OBVIOUS
<1>5. k - 1 \in others /\ <<k - 1, k>> \in less
  BY <1>4
<1> QED
  BY <1>3, <1>5

(* The steps of the loops of the model.                                    *)
StepOf(what, list, x, k) ==
  CASE what = "pass" -> PassOne(x, Len(list) + 1 - k, list[Len(list) + 1 - k])
    [] what = "copy" -> CopyBig(x, Len(list) + 1 - k, list[Len(list) + 1 - k])
    [] what = "cast" -> IF x.ok THEN CastArg(x.m, call.params[k], Arguments[k]) ELSE x
    [] what = "stack" -> x + (IF RegisterOf(k) = NoRegister THEN AlignStackPointer(SizeAt(Passed[k])) ELSE 0)

IsLoop(f, what, list, x, n) == f = [k \in 0..n |-> IF k = 0 THEN x ELSE StepOf(what, list, f[k - 1], k)]

(* There is a function of the number of steps that describes a loop.       *)
LEMMA LoopExists ==
  ASSUME NEW what, NEW list, NEW x, NEW n \in Nat
  PROVE  \E f : IsLoop(f, what, list, x, n)
<1> DEFINE F(f, l) == [k \in 0..l |-> IF k = 0 THEN x ELSE StepOf(what, list, f[k - 1], k)]
           S == {l \in 0..n : \E f : f = F(f, l)}
<1>1. 0 \in S
  <2> DEFINE f == [k \in 0..0 |-> x]
  <2>1. f = F(f, 0)
    OBVIOUS
  <2>2. \E h : h = F(h, 0)
    BY <2>1
  <2> QED BY <2>2
<1>2. ASSUME NEW l \in 0..(n - 1), l \in S PROVE l + 1 \in S
  <2>1. PICK f : f = F(f, l)
    BY <1>2
  <2> DEFINE last == StepOf(what, list, f[l], l + 1)
             g == [k \in 0..(l + 1) |-> IF k = l + 1 THEN last ELSE f[k]]
  <2>2. g[0] = x
    BY <2>1
  <2>3. ASSUME NEW k \in 1..l PROVE g[k] = StepOf(what, list, g[k - 1], k)
    <3>1. g[k] = f[k] /\ g[k - 1] = f[k - 1]
      OBVIOUS
    <3>2. f[k] = StepOf(what, list, f[k - 1], k)
      BY <2>1
    <3> QED BY <3>1, <3>2
  <2>4. g[l + 1] = StepOf(what, list, g[(l + 1) - 1], l + 1)
    OBVIOUS
  <2>5. g = F(g, l + 1)
    <3>1. \A k \in 0..(l + 1) : k = 0 \/ k \in 1..l \/ k = l + 1
      OBVIOUS
    <3>2. \A k \in 0..(l + 1) : g[k] = IF k = 0 THEN x ELSE StepOf(what, list, g[k - 1], k)
      <4> HIDE DEF g, last
      <4> QED BY <2>2, <2>3, <2>4, <3>1
    <3>3. g = [k \in 0..(l + 1) |-> g[k]]
      OBVIOUS
    <3> HIDE DEF g
    <3> QED BY <3>2, <3>3
  <2>6. \E h : h = F(h, l + 1)
    BY <2>5
  <2> QED
    BY <2>6
<1>3. n \in S
  <2> HIDE DEF S
  <2>1. \A k \in 0..(n - 1) : k \in S => k + 1 \in S
    BY <1>2
  <2>2. \A k \in 0..n : k \in S
    BY <1>1, <2>1, Induction
  <2> QED
    BY <2>2
<1>4. PICK f : f = F(f, n)
  BY <1>3
<1>5. IsLoop(f, what, list, x, n)
  BY <1>4 DEF IsLoop
<1> QED
  BY <1>5

(* The loop that passes the arguments.                                     *)
Passing(m, list) == Backward(PassOne, m, list)

(* It begins with what it is given, and does a step after the other.       *)
LEMMA PassingLoop ==
  ASSUME NEW m, NEW list, Len(list) \in Nat
  PROVE  /\ Passing(m, list)[0] = m
         /\ \A k \in 1..Len(list) :
              Passing(m, list)[k] =
                PassOne(Passing(m, list)[k - 1], Len(list) + 1 - k, list[Len(list) + 1 - k])
<1> DEFINE n == Len(list)
           F(f) == [k \in 0..n |-> IF k = 0 THEN m ELSE PassOne(f[k - 1], n + 1 - k, list[n + 1 - k])]
           at == Passing(m, list)
<1>1. \A f : IsLoop(f, "pass", list, m, n) => f = F(f)
  BY DEF IsLoop, StepOf
<1>2. \E f : f = F(f)
  <2> HIDE DEF F
  <2> QED BY <1>1, LoopExists
<1>3. at = CHOOSE f : f = F(f)
  BY DEF Passing, Backward
<1>4. at = F(at)
  <2> HIDE DEF F, at
  <2> QED BY <1>2, <1>3
<1>5. at = [k \in 0..n |-> IF k = 0 THEN m ELSE PassOne(at[k - 1], n + 1 - k, list[n + 1 - k])]
  BY <1>4
<1> HIDE DEF at
<1> QED
  BY <1>5 DEF at

(* The loop that copies the arguments that do not fit a register.          *)
LEMMA CopyingLoop ==
  ASSUME NEW m, NEW list, Len(list) \in Nat
  PROVE  /\ Copied(m, list)[0] = m
         /\ \A k \in 1..Len(list) :
              Copied(m, list)[k] = CopyBig(Copied(m, list)[k - 1], Len(list) + 1 - k, list[Len(list) + 1 - k])
<1> DEFINE n == Len(list)
           F(f) == [k \in 0..n |-> IF k = 0 THEN m ELSE CopyBig(f[k - 1], n + 1 - k, list[n + 1 - k])]
           at == Copied(m, list)
<1>1. \A f : IsLoop(f, "copy", list, m, n) => f = F(f)
  BY DEF IsLoop, StepOf
<1>2. \E f : f = F(f)
  <2> HIDE DEF F
  <2> QED BY <1>1, LoopExists
<1>3. at = CHOOSE f : f = F(f)
  BY DEF Copied, Backward
<1>4. at = F(at)
  <2> HIDE DEF F, at
  <2> QED BY <1>2, <1>3
<1>5. at = [k \in 0..n |-> IF k = 0 THEN m ELSE CopyBig(at[k - 1], n + 1 - k, list[n + 1 - k])]
  BY <1>4
<1> HIDE DEF at
<1> QED
  BY <1>5 DEF at

(* The loop that converts them.                                            *)
LEMMA CastingLoop ==
  ASSUME NEW m, Len(call.params) \in Nat
  PROVE  /\ Casts(m)[0] = Cast(m, Nothing)
         /\ \A k \in 1..Len(call.params) :
              Casts(m)[k] = IF Casts(m)[k - 1].ok THEN CastArg(Casts(m)[k - 1].m, call.params[k], Arguments[k])
                            ELSE Casts(m)[k - 1]
<1> DEFINE n == Len(call.params)
           x == Cast(m, Nothing)
           F(f) == [i \in 0..n |->
                      IF i = 0 THEN x
                      ELSE IF f[i - 1].ok THEN CastArg(f[i - 1].m, call.params[i], Arguments[i]) ELSE f[i - 1]]
           at == Casts(m)
<1>1. \A f : IsLoop(f, "cast", Nothing, x, n) => f = F(f)
  BY DEF IsLoop, StepOf
<1>2. \E f : f = F(f)
  <2> HIDE DEF F, x
  <2> QED BY <1>1, LoopExists
<1>3. at = CHOOSE f : f = F(f)
  BY DEF Casts
<1>4. at = F(at)
  <2> HIDE DEF F, at
  <2> QED BY <1>2, <1>3
<1>5. at = [i \in 0..n |->
              IF i = 0 THEN x
              ELSE IF at[i - 1].ok THEN CastArg(at[i - 1].m, call.params[i], Arguments[i]) ELSE at[i - 1]]
  BY <1>4
<1> HIDE DEF at, x
<1> QED
  BY <1>5 DEF at, x

(* The bytes of stack that the compiler counts.                            *)
LEMMA OnStackIs ==
  ASSUME Places \in Nat
  PROVE  /\ OnStack[0] = 0
         /\ \A q \in 1..Places :
              OnStack[q] = OnStack[q - 1]
                           + (IF RegisterOf(q) = NoRegister THEN AlignStackPointer(SizeAt(Passed[q])) ELSE 0)
<1> DEFINE F(f) == [q \in 0..Places |->
                      IF q = 0 THEN 0
                      ELSE f[q - 1]
                           + (IF RegisterOf(q) = NoRegister THEN AlignStackPointer(SizeAt(Passed[q])) ELSE 0)]
<1>1. \A f : IsLoop(f, "stack", Nothing, 0, Places) => f = F(f)
  BY DEF IsLoop, StepOf
<1>2. \E f : f = F(f)
  <2> HIDE DEF F
  <2> QED BY <1>1, LoopExists
<1>3. OnStack = CHOOSE f : f = F(f)
  BY DEF OnStack
<1>4. OnStack = F(OnStack)
  <2> HIDE DEF F
  <2> QED BY <1>2, <1>3
<1> QED
  BY <1>4
-----------------------------------------------------------------------------
(* What is given.                                                          *)
LEMMA TypesAre ==
  ASSUME NEW t
  PROVE  /\ t \in CommonTypes(call.mode) =>
              /\ Size(t) \in Nat \ {0}
              /\ Kind(t) \in {"base", "enum"} => Size(t) \in Plain
              /\ Kind(t) = "pointer" => Size(t) = Word
              /\ Kind(t) \in {"base", "enum", "pointer", "udt"}
         /\ t \in ParameterTypes(call.mode) => t \in CommonTypes(call.mode) \/ (Kind(t) = "float" /\ Size(t) \in {4, 8})
         /\ t \in ArgumentTypes(call.mode) => t \in CommonTypes(call.mode) \/ (Kind(t) = "array" /\ Size(t) \in Nat)
         /\ t \in ResultTypes(call.mode) => t \in ParameterTypes(call.mode) \/ (Kind(t) = "void" /\ Size(t) = 0)
<1>1. Word \in {4, 8}
  BY DEF Word, WordOf
<1>2. ASSUME t \in CommonTypes(call.mode)
      PROVE  /\ Size(t) \in Nat \ {0}
             /\ Kind(t) \in {"base", "enum"} => Size(t) \in Plain
             /\ Kind(t) = "pointer" => Size(t) = Word
             /\ Kind(t) \in {"base", "enum", "pointer", "udt"}
  <2>1. CASE t \in {"base", "enum"} \X Plain
    BY <2>1 DEF Plain, Kind, Size
  <2>2. CASE t = <<"pointer", WordOf(call.mode)>>
    BY <1>1, <2>2 DEF Word, Kind, Size
  <2>3. CASE t \in {"udt"} \X (Nat \ {0})
    BY <2>3 DEF Kind, Size
  <2> QED
    BY <1>2, <2>1, <2>2, <2>3 DEF CommonTypes
<1>3. t \in {"float"} \X {4, 8} => Kind(t) = "float" /\ Size(t) \in {4, 8}
  BY DEF Kind, Size
<1>4. t \in {"array"} \X Nat => Kind(t) = "array" /\ Size(t) \in Nat
  BY DEF Kind, Size
<1>5. t = <<"void", 0>> => Kind(t) = "void" /\ Size(t) = 0
  BY DEF Kind, Size
<1> QED
  BY <1>2, <1>3, <1>4, <1>5 DEF ParameterTypes, ArgumentTypes, ResultTypes

(* The parameters, the result and the place of the caller.                 *)
LEMMA CallIs ==
  ASSUME call \in Given
  PROVE  /\ Len(call.params) \in Nat
         /\ \A j \in 1..Len(call.params) : call.params[j] \in ParameterTypes(call.mode)
         /\ call.returns \in ResultTypes(call.mode)
         /\ call.convention = "ThisCall" => call.method
         /\ call.method => Len(call.params) > 0 /\ Kind(call.params[1]) = "pointer"
         /\ call.at \in {"here", "function"}
BY GivenAssumption DEF IsCall, IsList

(* The arguments are values, that of a method too.                         *)
LEMMA ArgumentsAre ==
  ASSUME call \in Given
  PROVE  /\ IsList(Arguments)
         /\ \A j \in 1..Len(Arguments) :
              /\ Arguments[j].type \in ArgumentTypes(call.mode)
              /\ IsList(Arguments[j].bytes) /\ Len(Arguments[j].bytes) = Size(Arguments[j].type)
<1> DEFINE n == Len(call.args)
<1>1. IsList(call.args) /\ n \in Nat /\ call.bound \in BOOLEAN /\ \A j \in 1..n : IsValue(call.args[j], call.mode)
  BY GivenAssumption DEF IsCall, IsList
<1>2. ASSUME NEW v, IsValue(v, call.mode)
      PROVE  IsList(v.bytes) /\ Len(v.bytes) = Size(v.type) /\ v.type \in ArgumentTypes(call.mode)
  BY <1>2 DEF IsValue
<1>3. IsValue(This, call.mode)
  <2>1. This.type \in ArgumentTypes(call.mode) /\ Size(This.type) = 8
    BY DEF This, ArgumentTypes, CommonTypes, Plain, Size
  <2>2. This.bytes = [k \in 1..8 |-> This.bytes[k]]
    BY DEF This
  <2>3. Len(This.bytes) = 8 /\ IsList(This.bytes)
    BY <2>2, LenOfFunction
  <2> QED
    BY <2>1, <2>3 DEF IsValue
<1>4. CASE ~call.bound
  BY <1>1, <1>2, <1>4 DEF Arguments
<1>5. CASE call.bound
  <2> DEFINE all == [j \in 1..(n + 1) |-> IF j = 1 THEN This ELSE call.args[j - 1]]
  <2>1. Arguments = all
    BY <1>5 DEF Arguments
  <2>2. Len(all) = n + 1 /\ IsList(all)
    <3>1. all = [j \in 1..(n + 1) |-> all[j]]
      OBVIOUS
    <3>2. n + 1 \in Nat
      BY <1>1
    <3> HIDE DEF all, n
    <3> QED BY <3>1, <3>2, LenOfFunction
  <2>3. \A j \in 1..(n + 1) : IsValue(all[j], call.mode)
    BY <1>1, <1>3
  <2> HIDE DEF all
  <2> QED
    BY <1>2, <2>1, <2>2, <2>3
<1> QED
  BY <1>4, <1>5
-----------------------------------------------------------------------------
(* castArgs.                                                               *)
LEMMA StillCarries ==
  ASSUME NEW m, NEW p, IsMachine(m), Keeps(m, p), NEW j, NEW bytes, Carries(j, bytes, m)
  PROVE  Carries(j, bytes, p)
BY StillLies DEF Carries

(* The size of a register.                                                 *)
LEMMA WordIs == Word \in {4, 8} /\ Word \in Nat /\ Word > 0
BY DEF Word, WordOf

(* A number has no more bytes than its size.                               *)
LEMMA FirstOfConverted ==
  ASSUME NEW v, NEW n \in Nat
  PROVE  First(Converted(v, n), n) = Converted(v, n)
BY DEF First, Converted

(* An argument is converted to what it means, or refused; and only the     *)
(* stack below is written to.                                              *)
LEMMA CastsOne ==
  ASSUME call \in Given, NEW m, IsMachine(m), NEW j \in 1..Len(call.params), j \in 1..Len(Arguments)
  PROVE  LET c == CastArg(m, call.params[j], Arguments[j]) IN
         /\ IsMachine(c.m)
         /\ c.ok => IsList(c.arg)
         /\ ~IsHuge(Size(Arguments[j].type)) => Keeps(m, c.m) /\ (c.ok => Carries(j, c.arg, c.m))
<1> DEFINE t == call.params[j]
           v == Arguments[j]
           c == CastArg(m, t, v)
           Goal == /\ IsMachine(c.m)
                   /\ c.ok => IsList(c.arg)
                   /\ ~IsHuge(Size(v.type)) => Keeps(m, c.m) /\ (c.ok => Carries(j, c.arg, c.m))
<1> SUFFICES Goal
  OBVIOUS
<1>1. t \in ParameterTypes(call.mode)
  BY CallIs
<1>2. v.type \in ArgumentTypes(call.mode) /\ IsList(v.bytes) /\ Len(v.bytes) = Size(v.type)
  BY ArgumentsAre
<1>3. Keeps(m, m)
  BY KeepsReflexive
<1> HIDE DEF t, v, c
<1>4. ASSUME c = Refused(m)
      PROVE  Goal
  BY <1>3, <1>4 DEF Refused
<1>5. ASSUME NEW n \in Nat, c = Cast(m, Converted(v, n)), IsNumber(v), n = Size(t), n <= 8
      PROVE  Goal
  <2>1. c.m = m /\ c.ok /\ c.arg = Converted(v, n)
    BY <1>5 DEF Cast
  <2>2. Len(c.arg) = n /\ IsList(c.arg) /\ First(c.arg, n) = Converted(v, n)
    BY <2>1, ConvertedIs, FirstOfConverted
  <2>3. Kind(v.type) \notin {"array", "udt"}
    BY <1>5 DEF IsNumber
  <2>4. Meant(j) = Converted(v, n)
    BY <1>5, <2>3 DEF Meant, v, t
  <2>5. ~IsHuge(n)
    BY <1>5 DEF IsHuge, ShortRange
  <2>6. Carries(j, c.arg, m)
    BY <1>5, <2>2, <2>3, <2>4, <2>5 DEF Carries, v, t
  <2> QED
    BY <1>3, <2>1, <2>2, <2>6
<1>6. CASE Kind(t) \in {"base", "float"}
  <2>1. c = CastBaseArg(m, t, v)
    BY <1>6 DEF CastArg, c
  <2>2. CASE Kind(t) = "base" /\ IsNumber(v)
    <3>1. c = Cast(m, Converted(v, Size(t)))
      BY <2>1, <2>2 DEF CastBaseArg
    <3>2. Size(t) \in Nat /\ Size(t) <= 8
      BY <1>1, <2>2, TypesAre DEF Plain
    <3> QED
      BY <1>5, <2>2, <3>1, <3>2
  <2>3. CASE ~(Kind(t) = "base" /\ IsNumber(v))
    BY <1>4, <2>1, <2>3 DEF CastBaseArg
  <2> QED
    BY <2>2, <2>3
<1>7. CASE Kind(t) \in {"pointer", "array"}
  <2>1. c = CastPtrArg(m, v)
    BY <1>7 DEF CastArg, c
  <2>2. Size(t) = Word /\ Word \in Nat /\ Word <= 8 /\ ~IsHuge(Word)
    BY <1>1, <1>7, TypesAre, WordIs DEF IsHuge, ShortRange
  <2>3. CASE Kind(v.type) \in {"pointer", "base"}
    <3>1. c = Cast(m, Converted(v, Word))
      BY <2>1, <2>3 DEF CastPtrArg
    <3> QED
      BY <1>5, <2>2, <2>3, <3>1 DEF IsNumber
  <2>4. CASE Kind(v.type) = "array"
    <3> DEFINE p == Push(m, v.bytes)
               at == p.thread.sp
    <3>1. c = Cast(p, Address(at))
      BY <2>1, <2>4 DEF CastPtrArg
    <3>2. IsMachine(p) /\ (~IsHuge(Len(v.bytes)) => Keeps(m, p) /\ Lies(p, at, v.bytes))
      BY <1>2, Pushed
    <3> HIDE DEF p, at
    <3>3. c.m = p /\ c.ok /\ c.arg = Address(at)
      BY <3>1 DEF Cast
    <3>4. IsList(c.arg) /\ Len(c.arg) = Word /\ c.arg[1][2] = at
      BY <3>3, AddressIs
    <3>5. Meant(j) = v.bytes
      BY <2>4 DEF Meant, v
    <3>6. Lies(p, at, v.bytes) => Carries(j, c.arg, p)
      BY <2>2, <2>4, <3>3, <3>4, <3>5 DEF Carries, v, t
    <3> QED
      BY <1>2, <3>2, <3>3, <3>4, <3>6
  <2>5. CASE Kind(v.type) \notin {"pointer", "base", "array"}
    <3>1. c = Refused(m)
      BY <2>1, <2>5 DEF CastPtrArg
    <3> QED
      BY <1>4, <3>1
  <2> QED
    BY <2>3, <2>4, <2>5
<1>8. CASE Kind(t) = "udt"
  <2>1. c = CastUdt(m, t, v)
    BY <1>8 DEF CastArg, c
  <2>2. Size(t) \in Nat \ {0} /\ Word \in Nat
    BY <1>1, <1>8, TypesAre, WordIs
  <2>5. ~IsHuge(Word)
    BY WordIs DEF IsHuge, ShortRange
  <2>3. CASE t # v.type
    BY <1>4, <2>1, <2>3 DEF CastUdt
  <2>4. CASE t = v.type
    <3>1. Meant(j) = v.bytes /\ Kind(v.type) # "array"
      BY <1>8, <2>4 DEF Meant, v
    <3>2. \A b : (\A k \in 1..Size(t) : b[k] = v.bytes[k]) => First(b, Size(t)) = v.bytes
      BY <1>2, <2>4 DEF First, IsList
    <3>3. CASE Size(t) <= Word
      <4>1. c = Cast(m, Converted(v, Word))
        BY <2>1, <2>2, <2>4, <3>3 DEF CastUdt
      <4>2. c.m = m /\ c.ok /\ c.arg = Converted(v, Word)
        BY <4>1 DEF Cast
      <4>3. Len(c.arg) = Word /\ IsList(c.arg) /\ \A k \in 1..Word : k <= Len(v.bytes) => c.arg[k] = v.bytes[k]
        <5> DEFINE x == Converted(v, Word)
        <5>1. Len(x) = Word /\ IsList(x) /\ \A k \in 1..Word : k <= Len(v.bytes) => x[k] = v.bytes[k]
          BY <2>2, ConvertedIs
        <5> HIDE DEF x
        <5> QED BY <4>2, <5>1 DEF x
      <4>4. First(c.arg, Size(t)) = v.bytes
        <5>1. \A k \in 1..Size(t) : k \in 1..Word /\ k <= Len(v.bytes)
          BY <1>2, <2>2, <2>4, <3>3
        <5> QED BY <3>2, <4>3, <5>1
      <4>5. Carries(j, c.arg, m)
        BY <2>2, <2>5, <3>1, <3>3, <4>3, <4>4 DEF Carries, v, t
      <4> QED
        BY <1>3, <4>2, <4>3, <4>5
    <3>4. CASE Size(t) > Word
      <4>1. c = Cast(m, v.bytes)
        BY <2>1, <2>2, <2>4, <3>4 DEF CastUdt
      <4>2. c.m = m /\ c.ok /\ c.arg = v.bytes
        BY <4>1 DEF Cast
      <4>3. First(c.arg, Size(t)) = v.bytes
        BY <3>2, <4>2
      <4>4. ~IsHuge(Size(v.type)) => Carries(j, c.arg, m)
        BY <1>2, <2>2, <2>4, <3>1, <3>4, <4>2, <4>3 DEF Carries, v, t
      <4> QED
        BY <1>2, <1>3, <4>2, <4>4
    <3> QED
      BY <2>2, <3>3, <3>4
  <2> QED
    BY <2>3, <2>4
<1>9. CASE Kind(t) \notin {"base", "float", "pointer", "array", "udt"}
  <2>1. c = Refused(m)
    BY <1>9 DEF CastArg, c
  <2> QED
    BY <1>4, <2>1
<1> QED
  BY <1>6, <1>7, <1>8, <1>9

(* stackAlloc can count each of the arguments.                             *)
NoneHuge == \A j \in 1..Len(Arguments) : ~IsHuge(Size(Arguments[j].type))

(* castArgs converts all of the arguments, or fails.                       *)
LEMMA CastsAll ==
  ASSUME call \in Given, NEW m, IsMachine(m)
  PROVE  LET c == CastArgs(m) IN
         /\ IsMachine(c.m)
         /\ c.ok => /\ Len(Arguments) = Len(call.params)
                    /\ IsList(c.args) /\ Len(c.args) = Len(call.params)
                    /\ \A j \in 1..Len(call.params) : IsList(c.args[j])
         /\ NoneHuge => Keeps(m, c.m)
         /\ NoneHuge /\ c.ok => \A j \in 1..Len(call.params) : Carries(j, c.args[j], c.m)
<1> DEFINE n == Len(call.params)
           c == CastArgs(m)
<1>1. n \in Nat /\ Keeps(m, m)
  BY CallIs, KeepsReflexive
<1>2. CASE Len(Arguments) # n
  <2>1. c.m = m /\ ~c.ok
    BY <1>2 DEF CastArgs
  <2> QED
    BY <1>1, <2>1
<1>3. CASE Len(Arguments) = n
  <2> DEFINE at == Casts(m)
             P(k) == /\ IsMachine(at[k].m)
                     /\ at[k].ok => \A j \in 1..k : IsList(at[j].arg)
                     /\ NoneHuge => Keeps(m, at[k].m)
                     /\ NoneHuge /\ at[k].ok => \A j \in 1..k : Carries(j, at[j].arg, at[k].m)
             S == {k \in 0..n : P(k)}
  <2>1. /\ at[0] = Cast(m, Nothing)
        /\ \A k \in 1..n : at[k] = IF at[k - 1].ok THEN CastArg(at[k - 1].m, call.params[k], Arguments[k]) ELSE at[k - 1]
    BY <1>1, CastingLoop
  <2> HIDE DEF at
  <2>2. P(0)
    BY <1>1, <2>1 DEF Cast
  <2>3. ASSUME NEW k \in 0..(n - 1), P(k)
        PROVE  P(k + 1)
    <3>1. k + 1 \in 1..n /\ (k + 1) - 1 = k
      BY <1>1
    <3>2. at[k + 1] = IF at[k].ok THEN CastArg(at[k].m, call.params[k + 1], Arguments[k + 1]) ELSE at[k]
      BY <2>1, <3>1
    <3>3. \A j \in 1..(k + 1) : j \in 1..k \/ j = k + 1
      OBVIOUS
    <3>4. CASE ~at[k].ok
      BY <2>3, <3>2, <3>4
    <3>5. CASE at[k].ok
      <4> DEFINE d == CastArg(at[k].m, call.params[k + 1], Arguments[k + 1])
      <4>1. /\ IsMachine(d.m)
            /\ d.ok => IsList(d.arg)
            /\ NoneHuge => Keeps(at[k].m, d.m) /\ (d.ok => Carries(k + 1, d.arg, d.m))
        BY <1>3, <2>3, <3>1, CastsOne DEF NoneHuge
      <4>2. at[k + 1] = d
        BY <3>2, <3>5
      <4> HIDE DEF d
      <4>3. d.ok => \A j \in 1..(k + 1) : IsList(at[j].arg)
        BY <2>3, <3>3, <3>5, <4>1, <4>2
      <4>4. NoneHuge => Keeps(m, d.m)
        BY <2>3, <4>1, KeepsTransitive
      <4>5. ASSUME NoneHuge, d.ok, NEW j \in 1..(k + 1)
            PROVE  Carries(j, at[j].arg, d.m)
        <5>1. CASE j = k + 1
          BY <4>1, <4>2, <4>5, <5>1
        <5>2. CASE j \in 1..k
          BY <2>3, <3>5, <4>1, <4>5, <5>2, StillCarries
        <5> QED BY <3>3, <5>1, <5>2
      <4> QED
        BY <4>1, <4>2, <4>3, <4>4, <4>5
    <3> QED
      BY <3>4, <3>5
  <2>4. P(n)
    <3> HIDE DEF P
    <3>1. 0 \in S /\ \A k \in 0..(n - 1) : k \in S => k + 1 \in S
      BY <1>1, <2>2, <2>3
    <3> HIDE DEF S, n
    <3>2. \A k \in 0..n : k \in S
      BY <1>1, <3>1, Induction
    <3>3. n \in S
      BY <1>1, <3>2
    <3> QED
      BY <3>3 DEF S
  <2>5. /\ c.m = at[n].m /\ c.ok = at[n].ok
        /\ c.args = [j \in 1..n |-> at[j].arg]
    BY <1>3 DEF CastArgs, at
  <2>6. Len(c.args) = n /\ IsList(c.args) /\ \A j \in 1..n : c.args[j] = at[j].arg
    <3>1. c.args = [j \in 1..n |-> c.args[j]] /\ \A j \in 1..n : c.args[j] = at[j].arg
      BY <2>5
    <3> HIDE DEF c, n
    <3> QED BY <1>1, <3>1, LenOfFunction
  <2> HIDE DEF c
  <2> QED
    BY <1>3, <2>4, <2>5, <2>6 DEF c
<1> QED
  BY <1>2, <1>3
-----------------------------------------------------------------------------
(* Passing the arguments.                                                  *)
LEMMA PassedAre ==
  ASSUME call \in Given, Supported, ~CalledOtherwise
  PROVE  /\ Places \in Nat /\ Places >= Len(call.params)
         /\ \A q \in 1..Places : Passed[q] \in 0..Len(call.params) /\ (Passed[q] = 0 => IsHidden)
         /\ ~IsHidden => Places = Len(call.params) /\ \A q \in 1..Places : Passed[q] = q
         /\ IsHidden => /\ Places = Len(call.params) + 1
                        /\ AddressPlace = HiddenPlace /\ HiddenPlace \in 1..2 /\ HiddenPlace <= Places
                        /\ \A q \in 1..Places : Passed[q] = IF q < HiddenPlace THEN q ELSE IF q = HiddenPlace THEN 0 ELSE q - 1
<1> DEFINE n == Len(call.params)
<1>1. n \in Nat /\ (call.convention = "ThisCall" => call.method) /\ (call.method => n > 0)
  BY CallIs
<1>2. CASE ~IsHidden
  <2>1. Places = n /\ \A q \in 1..Places : Passed[q] = q
    BY <1>2 DEF Places, Passed
  <2> QED
    BY <1>1, <1>2, <2>1
<1>3. CASE IsHidden
  <2>1. AddressPlace = HiddenPlace /\ HiddenPlace \in 1..2 /\ HiddenPlace <= n + 1
    <3>1. call.method => call.mode = "I386" /\ call.convention = "ThisCall"
      BY <1>3 DEF CalledOtherwise
    <3> QED
      BY <1>1, <3>1 DEF AddressPlace, HiddenPlace
  <2>2. Places = n + 1
    BY <1>3 DEF Places
  <2>3. \A q \in 1..Places : Passed[q] = IF q < HiddenPlace THEN q ELSE IF q = HiddenPlace THEN 0 ELSE q - 1
    BY <1>1, <1>3, <2>1, <2>2 DEF Passed
  <2>4. \A q \in 1..Places : Passed[q] \in 0..n
    BY <1>1, <2>1, <2>2, <2>3
  <2> QED
    BY <1>1, <1>3, <2>1, <2>2, <2>3, <2>4
<1> QED
  BY <1>2, <1>3

(* Which places are in registers.                                          *)
X64Register(q) == <<"rcx", "rdx", "r8", "r9">>[q]

(* The four are different registers.                                       *)
LEMMA X64RegistersDiffer ==
  ASSUME call.mode = "AMD64"
  PROVE  /\ \A q \in 1..4 : X64Register(q) \in RegisterNames /\ X64Register(q) # NoRegister
         /\ \A q, s \in 1..4 : X64Register(q) = X64Register(s) => q = s
<1>1. \A q \in 1..4 : q = 1 \/ q = 2 \/ q = 3 \/ q = 4
  OBVIOUS
<1>2. X64Register(1) = "rcx" /\ X64Register(2) = "rdx" /\ X64Register(3) = "r8" /\ X64Register(4) = "r9"
  BY DEF X64Register
<1> QED
  BY <1>1, <1>2 DEF RegisterNames, NoRegister

(* By calling convention; where kdlib and the compiler agree, a fast call  *)
(* has no argument in a register.                                          *)
LEMMA RegistersAre ==
  ASSUME call \in Given, Supported, ~CalledOtherwise, NEW q \in 1..Places
  PROVE  /\ call.mode = "AMD64" => RegisterOf(q) = IF q <= 4 THEN X64Register(q) ELSE NoRegister
         /\ call.mode = "I386" /\ call.convention = "ThisCall" => RegisterOf(q) = IF q = 1 THEN "ecx" ELSE NoRegister
         /\ call.mode = "I386" /\ call.convention # "ThisCall" => RegisterOf(q) = NoRegister
<1>1. CASE call.mode = "AMD64"
  BY <1>1 DEF RegisterOf, X64Register
<1>2. CASE call.mode = "I386" /\ call.convention = "ThisCall"
  BY <1>2 DEF RegisterOf
<1>3. CASE call.mode = "I386" /\ call.convention = "NearFast"
  <2>1. ~IsHidden /\ \A j \in 1..Len(call.params) : ~FitsFast(j)
    BY <1>3 DEF CalledOtherwise
  <2>2. ~FitsFast(Passed[q])
    BY <2>1, PassedAre
  <2> QED
    BY <1>3, <2>2 DEF RegisterOf
<1>4. CASE call.mode = "I386" /\ call.convention \notin {"ThisCall", "NearFast"}
  BY <1>4 DEF RegisterOf
<1> QED
  BY <1>1, <1>2, <1>3, <1>4 DEF Supported

(* No two places share a register.                                         *)
LEMMA RegistersDiffer ==
  ASSUME call \in Given, Supported, ~CalledOtherwise, NEW q \in 1..Places, RegisterOf(q) # NoRegister
  PROVE  /\ RegisterOf(q) \in RegisterNames
         /\ \A s \in 1..Places : RegisterOf(s) = RegisterOf(q) => s = q
<1>1. CASE call.mode = "AMD64"
  <2>1. q \in 1..4 /\ RegisterOf(q) = X64Register(q)
    BY <1>1, RegistersAre, PassedAre
  <2>2. ASSUME NEW s \in 1..Places, RegisterOf(s) = RegisterOf(q)
        PROVE  s = q
    <3>1. s \in 1..4 /\ RegisterOf(s) = X64Register(s)
      BY <1>1, <2>2, RegistersAre, PassedAre
    <3> QED
      BY <1>1, <2>1, <2>2, <3>1, X64RegistersDiffer
  <2> QED
    BY <1>1, <2>1, <2>2, X64RegistersDiffer
<1>2. CASE call.mode = "I386"
  <2>1. call.convention = "ThisCall" /\ RegisterOf(q) = "ecx"
    BY <1>2, RegistersAre
  <2>2. \A s \in 1..Places : RegisterOf(s) = RegisterOf(q) => s = 1
    BY <1>2, <2>1, RegistersAre
  <2> QED
    BY <1>2, <2>1, <2>2 DEF RegisterNames
<1> QED
  BY <1>1, <1>2 DEF Supported

(* A step of the loop leaves registers and stack as they should be.        *)
LEMMA PassesMachine ==
  ASSUME Supported, NEW m, IsMachine(m), NEW q \in Nat \ {0}, NEW bytes, IsList(bytes)
  PROVE  IsMachine(PassOne(m, q, bytes))
<1>1. IsMachine(Push(m, bytes))
  BY Pushed
<1>2. CASE call.mode = "AMD64" /\ q <= 4
  <2>1. q \in 1..4 /\ X64Register(q) \in RegisterNames
    BY <1>2, X64RegistersDiffer
  <2>2. PassOne(m, q, bytes) = SetRegister(m, X64Register(q), bytes)
    BY <1>2 DEF PassOne, X64Register
  <2> QED
    BY <2>1, <2>2, RegisterSet DEF Keeps
<1>3. CASE call.mode = "I386" /\ call.convention = "ThisCall" /\ q = 1
  <2>1. PassOne(m, q, bytes) = SetRegister(m, "ecx", bytes) /\ "ecx" \in RegisterNames
    BY <1>3 DEF PassOne, RegisterNames
  <2> QED
    BY <2>1, RegisterSet DEF Keeps
<1>4. CASE call.mode = "I386" /\ call.convention = "NearFast"
  <2>1. PassOne(m, q, bytes) = Push(FastRegister(m, q, bytes), bytes)
    BY <1>4 DEF PassOne
  <2>2. IsMachine(FastRegister(m, q, bytes))
    <3>1. CASE q <= 2 /\ Len(bytes) <= 4
      <4>1. q = 1 \/ q = 2
        BY <3>1
      <4>2. <<"edx", "ecx">>[q] \in RegisterNames
        BY <1>4, <4>1 DEF RegisterNames
      <4> QED
        BY <3>1, <4>2, RegisterSet DEF FastRegister, Keeps
    <3>2. CASE ~(q <= 2 /\ Len(bytes) <= 4)
      BY <3>2 DEF FastRegister
    <3> QED
      BY <3>1, <3>2
  <2> QED
    BY <2>1, <2>2, Pushed
<1>5. CASE /\ ~(call.mode = "AMD64" /\ q <= 4)
           /\ ~(call.mode = "I386" /\ call.convention = "ThisCall" /\ q = 1)
           /\ ~(call.mode = "I386" /\ call.convention = "NearFast")
  <2>1. PassOne(m, q, bytes) = Push(m, bytes)
    BY <1>5 DEF PassOne
  <2> QED
    BY <1>1, <2>1
<1> QED
  BY <1>2, <1>3, <1>4, <1>5

(* An argument is where the function looks for it: in its register, or at  *)
(* an address.                                                             *)
IsIn(m, r, bytes) == \A k \in 1..Word : k <= Len(bytes) => m.thread.registers[r][k] = bytes[k]
IsAt(m, q, at, bytes) == IF RegisterOf(q) = NoRegister THEN Lies(m, at, bytes) ELSE IsIn(m, RegisterOf(q), bytes)

(* The bytes of stack of a place.                                          *)
Taken(q) == IF RegisterOf(q) = NoRegister THEN AlignStackPointer(SizeAt(Passed[q])) ELSE 0

(* Bytes that take as much of the stack as the compiler counts.            *)
IsSized(q, bytes) ==
  /\ IsList(bytes) /\ ~IsHuge(Len(bytes))
  /\ AlignStackPointer(Len(bytes)) = AlignStackPointer(SizeAt(Passed[q]))

(* The registers of the other places.                                      *)
OthersStay(m, p, q) ==
  \A s \in 1..Places : s # q /\ RegisterOf(s) # NoRegister =>
    p.thread.registers[RegisterOf(s)] = m.thread.registers[RegisterOf(s)]

(* A step of the loop puts an argument where the function looks for it.    *)
LEMMA PassesOne ==
  ASSUME call \in Given, Supported, ~CalledOtherwise,
         NEW m, IsMachine(m), NEW q \in 1..Places, NEW bytes, IsSized(q, bytes)
  PROVE  LET p == PassOne(m, q, bytes) IN
         /\ Keeps(m, p)
         /\ p.thread.sp = m.thread.sp - Taken(q)
         /\ IsAt(p, q, p.thread.sp, bytes)
         /\ OthersStay(m, p, q)
<1> DEFINE p == PassOne(m, q, bytes)
           Goal == /\ Keeps(m, p)
                   /\ p.thread.sp = m.thread.sp - Taken(q)
                   /\ IsAt(p, q, p.thread.sp, bytes)
                   /\ OthersStay(m, p, q)
<1> SUFFICES Goal
  OBVIOUS
<1> HIDE DEF p
<1>1. IsList(bytes) /\ ~IsHuge(Len(bytes)) /\ AlignStackPointer(Len(bytes)) = AlignStackPointer(SizeAt(Passed[q]))
  BY DEF IsSized
<1>2. m.thread.sp \in Int
  BY DEF IsMachine, IsThread
<1>3. ASSUME RegisterOf(q) # NoRegister, p = SetRegister(m, RegisterOf(q), bytes)
      PROVE  Goal
  <2> DEFINE r == RegisterOf(q)
  <2>1. r \in RegisterNames /\ \A s \in 1..Places : RegisterOf(s) = r => s = q
    BY <1>3, RegistersDiffer
  <2> HIDE DEF r
  <2>2. /\ Keeps(m, SetRegister(m, r, bytes))
        /\ SetRegister(m, r, bytes).thread.sp = m.thread.sp
        /\ \A k \in 1..Word : k <= Len(bytes) => SetRegister(m, r, bytes).thread.registers[r][k] = bytes[k]
        /\ \A s \in RegisterNames \ {r} : SetRegister(m, r, bytes).thread.registers[s] = m.thread.registers[s]
    BY <1>1, <2>1, RegisterSet
  <2>3. p = SetRegister(m, r, bytes) /\ r # NoRegister
    BY <1>3 DEF r
  <2>4. IsIn(p, r, bytes)
    BY <2>2, <2>3 DEF IsIn
  <2>5. IsAt(p, q, p.thread.sp, bytes)
    BY <2>3, <2>4 DEF IsAt, r
  <2>6. OthersStay(m, p, q)
    <3>1. \A s \in 1..Places : s # q /\ RegisterOf(s) # NoRegister => RegisterOf(s) \in RegisterNames \ {r}
      BY <2>1, RegistersDiffer
    <3> QED
      BY <2>2, <2>3, <3>1 DEF OthersStay
  <2>7. p.thread.sp = m.thread.sp - Taken(q)
    BY <1>2, <2>2, <2>3 DEF Taken, r
  <2> QED
    BY <2>2, <2>3, <2>5, <2>6, <2>7
<1>4. ASSUME RegisterOf(q) = NoRegister, NEW c, IsMachine(c), Keeps(m, c), c.thread.sp = m.thread.sp,
             OthersStay(m, c, q), p = Push(c, bytes)
      PROVE  Goal
  <2>1. /\ Keeps(c, p) /\ p.thread.sp = c.thread.sp - AlignStackPointer(Len(bytes))
        /\ Lies(p, p.thread.sp, bytes)
        /\ p.thread.registers = c.thread.registers
    BY <1>1, <1>4, Pushed
  <2>2. Keeps(m, p)
    BY <1>4, <2>1, KeepsTransitive
  <2>3. OthersStay(m, p, q)
    BY <1>4, <2>1 DEF OthersStay
  <2>4. p.thread.sp = m.thread.sp - Taken(q) /\ IsAt(p, q, p.thread.sp, bytes)
    BY <1>1, <1>4, <2>1 DEF Taken, IsAt
  <2> QED
    BY <2>2, <2>3, <2>4
<1>5. Keeps(m, m) /\ OthersStay(m, m, q)
  BY KeepsReflexive DEF OthersStay
<1>6. CASE call.mode = "AMD64" /\ q <= 4
  <2>1. RegisterOf(q) = X64Register(q) /\ q \in 1..4
    BY <1>6, RegistersAre, PassedAre
  <2>2. p = SetRegister(m, X64Register(q), bytes) /\ X64Register(q) # NoRegister
    BY <1>6, <2>1, X64RegistersDiffer DEF PassOne, X64Register, p
  <2> QED
    BY <1>3, <2>1, <2>2
<1>7. CASE call.mode = "I386" /\ call.convention = "ThisCall" /\ q = 1
  <2>1. RegisterOf(q) = "ecx"
    BY <1>7, RegistersAre
  <2>2. p = SetRegister(m, "ecx", bytes)
    BY <1>7 DEF PassOne, p
  <2> QED
    BY <1>3, <2>1, <2>2 DEF NoRegister
<1>8. CASE call.mode = "I386" /\ call.convention = "NearFast"
  <2> DEFINE c == FastRegister(m, q, bytes)
  <2>1. p = Push(c, bytes)
    BY <1>8 DEF PassOne, p
  <2>2. \A s \in 1..Places : RegisterOf(s) = NoRegister
    BY <1>8, RegistersAre
  <2>3. Keeps(m, c) /\ c.thread.sp = m.thread.sp
    <3>1. CASE q <= 2 /\ Len(bytes) <= 4
      <4>1. q = 1 \/ q = 2
        BY <3>1, PassedAre
      <4>2. <<"edx", "ecx">>[q] \in RegisterNames
        BY <1>8, <4>1 DEF RegisterNames
      <4> QED
        BY <1>1, <3>1, <4>2, RegisterSet DEF FastRegister
    <3>2. CASE ~(q <= 2 /\ Len(bytes) <= 4)
      BY <1>5, <3>2 DEF FastRegister
    <3> QED
      BY <3>1, <3>2
  <2> HIDE DEF c
  <2>4. IsMachine(c) /\ OthersStay(m, c, q)
    BY <2>2, <2>3 DEF Keeps, OthersStay
  <2> QED
    BY <1>4, <2>1, <2>2, <2>3, <2>4
<1>9. CASE /\ ~(call.mode = "AMD64" /\ q <= 4)
           /\ ~(call.mode = "I386" /\ call.convention = "ThisCall" /\ q = 1)
           /\ ~(call.mode = "I386" /\ call.convention = "NearFast")
  <2>1. p = Push(m, bytes)
    BY <1>9 DEF PassOne, p
  <2>2. RegisterOf(q) = NoRegister
    BY <1>9, RegistersAre DEF Supported
  <2> QED
    BY <1>4, <1>5, <2>1, <2>2
<1> QED
  BY <1>6, <1>7, <1>8, <1>9

(* The compiler's count.                                                   *)
LEMMA Counted ==
  ASSUME call \in Given, Supported, ~CalledOtherwise
  PROVE  /\ OnStack[0] = 0
         /\ \A q \in 1..Places : OnStack[q] = OnStack[q - 1] + Taken(q) /\ Taken(q) \in Nat
         /\ \A q \in 0..Places : OnStack[q] \in Nat
<1>1. Places \in Nat
  BY PassedAre
<1>2. OnStack[0] = 0 /\ \A q \in 1..Places : OnStack[q] = OnStack[q - 1] + Taken(q)
  BY <1>1, OnStackIs DEF Taken
<1>3. ASSUME NEW q \in 1..Places
      PROVE  Taken(q) \in Nat
  <2>1. Passed[q] \in 0..Len(call.params) /\ Len(call.params) \in Nat
    BY PassedAre, CallIs
  <2>2. SizeAt(Passed[q]) \in Nat
    <3>1. CASE Passed[q] = 0 \/ IsIndirect(Passed[q])
      BY <3>1, WordIs DEF SizeAt
    <3>2. CASE Passed[q] # 0 /\ ~IsIndirect(Passed[q])
      <4>1. call.params[Passed[q]] \in ParameterTypes(call.mode)
        BY <2>1, <3>2, CallIs
      <4> QED
        BY <3>2, <4>1, TypesAre DEF SizeAt
    <3> QED
      BY <3>1, <3>2
  <2> QED
    BY <2>2, Aligned DEF Taken
<1>4. \A q \in 0..Places : OnStack[q] \in Nat
  <2> DEFINE S == {q \in 0..Places : OnStack[q] \in Nat}
  <2>1. 0 \in S
    BY <1>1, <1>2
  <2>2. ASSUME NEW k \in 0..(Places - 1), k \in S
        PROVE  k + 1 \in S
    <3>1. k + 1 \in 1..Places /\ (k + 1) - 1 = k
      BY <1>1
    <3>2. OnStack[k + 1] = OnStack[k] + Taken(k + 1) /\ Taken(k + 1) \in Nat
      BY <1>2, <1>3, <3>1
    <3> QED
      BY <2>2, <3>1, <3>2
  <2>3. \A q \in 0..Places : q \in S
    <3> HIDE DEF S
    <3> QED BY <1>1, <2>1, <2>2, Induction
  <2> QED
    BY <2>3
<1> QED
  BY <1>2, <1>3, <1>4

(* The loop that passes the arguments leaves each where the function looks *)
(* for it, and the stack as much lower as the compiler counts.             *)
LEMMA PassesAll ==
  ASSUME call \in Given, Supported, ~CalledOtherwise, NEW m, IsMachine(m),
         NEW all, IsList(all), Len(all) = Places, \A q \in 1..Places : IsSized(q, all[q])
  PROVE  LET p == PassAll(m, all) IN
         /\ Keeps(m, p)
         /\ p.thread.sp = m.thread.sp - OnStack[Places]
         /\ \A q \in 1..Places : IsAt(p, q, p.thread.sp + OnStack[q - 1], all[q])
<1> DEFINE n == Places
           at == Passing(m, all)
           base == m.thread.sp - OnStack[n]
           P(k) == /\ Keeps(m, at[k])
                   /\ at[k].thread.sp = base + OnStack[n - k]
                   /\ \A q \in 1..n : q > n - k => IsAt(at[k], q, base + OnStack[q - 1], all[q])
           S == {k \in 0..n : P(k)}
<1>1. n \in Nat /\ Len(all) \in Nat
  BY PassedAre
<1>2. m.thread.sp \in Int
  BY DEF IsMachine, IsThread
<1>3. /\ OnStack[0] = 0
      /\ \A q \in 1..n : OnStack[q] = OnStack[q - 1] + Taken(q) /\ Taken(q) \in Nat
      /\ \A q \in 0..n : OnStack[q] \in Nat
  BY Counted
<1>4. at[0] = m /\ \A k \in 1..n : at[k] = PassOne(at[k - 1], n + 1 - k, all[n + 1 - k])
  BY <1>1, PassingLoop
<1> HIDE DEF at, n
<1>5. P(0)
  <2>1. Keeps(m, m) /\ n - 0 = n /\ base + OnStack[n] = m.thread.sp
    BY <1>1, <1>2, <1>3, KeepsReflexive
  <2>2. \A q \in 1..n : ~(q > n - 0)
    BY <1>1
  <2> QED
    BY <1>4, <2>1, <2>2
<1>6. base \in Int
  BY <1>1, <1>2, <1>3
<1> HIDE DEF base
<1>7. ASSUME NEW k \in 0..(n - 1), P(k)
      PROVE  P(k + 1)
  <2> DEFINE q == n - k
             p == at[k + 1]
             s == at[k]
  <2>1. k + 1 \in 1..n /\ (k + 1) - 1 = k /\ n + 1 - (k + 1) = q /\ q \in 1..n /\ n - (k + 1) = q - 1 /\ q - 1 \in 0..n
    BY <1>1
  <2>2. p = PassOne(s, q, all[q])
    BY <1>4, <2>1
  <2>3. Keeps(m, s) /\ s.thread.sp = base + OnStack[q] /\ IsMachine(s)
        /\ \A i \in 1..n : i > q => IsAt(s, i, base + OnStack[i - 1], all[i])
    BY <1>7 DEF Keeps
  <2> HIDE DEF q, p, s
  <2>4. /\ Keeps(s, p) /\ p.thread.sp = s.thread.sp - Taken(q)
        /\ IsAt(p, q, p.thread.sp, all[q]) /\ OthersStay(s, p, q)
    BY <2>1, <2>2, <2>3, PassesOne DEF n
  <2>5. Keeps(m, p)
    BY <2>3, <2>4, KeepsTransitive
  <2>6. p.thread.sp = base + OnStack[q - 1]
    <3>1. OnStack[q] = OnStack[q - 1] + Taken(q) /\ Taken(q) \in Nat /\ OnStack[q - 1] \in Nat
      BY <1>3, <2>1
    <3> QED
      BY <1>6, <2>3, <2>4, <3>1
  <2>7. ASSUME NEW i \in 1..n, i > q
        PROVE  IsAt(p, i, base + OnStack[i - 1], all[i])
    <3>1. IsAt(s, i, base + OnStack[i - 1], all[i]) /\ i # q
      BY <2>1, <2>3, <2>7
    <3>2. CASE RegisterOf(i) = NoRegister
      <4>1. Lies(s, base + OnStack[i - 1], all[i])
        BY <3>1, <3>2 DEF IsAt
      <4>2. Lies(p, base + OnStack[i - 1], all[i])
        BY <2>3, <2>4, <4>1, StillLies
      <4> QED
        BY <3>2, <4>2 DEF IsAt
    <3>3. CASE RegisterOf(i) # NoRegister
      BY <2>4, <3>1, <3>3 DEF IsAt, IsIn, OthersStay, n
    <3> QED
      BY <3>2, <3>3
  <2>8. \A i \in 1..n : i > q - 1 => i = q \/ i > q
    BY <2>1
  <2>9. \A i \in 1..n : i > q - 1 => IsAt(p, i, base + OnStack[i - 1], all[i])
    BY <2>4, <2>6, <2>7, <2>8
  <2> QED
    BY <2>1, <2>5, <2>6, <2>9 DEF p
<1>8. P(n)
  <2> HIDE DEF P
  <2>1. 0 \in S /\ \A k \in 0..(n - 1) : k \in S => k + 1 \in S
    BY <1>1, <1>5, <1>7
  <2> HIDE DEF S
  <2>2. \A k \in 0..n : k \in S
    BY <1>1, <2>1, Induction
  <2>3. n \in S
    BY <1>1, <2>2
  <2> QED
    BY <2>3 DEF S
<1>9. PassAll(m, all) = at[n]
  BY DEF PassAll, Passing, at, n
<1>10. n - n = 0 /\ \A q \in 1..n : q > n - n
  BY <1>1
<1>11. base + OnStack[0] = base
  BY <1>3, <1>6
<1> QED
  BY <1>8, <1>9, <1>10, <1>11 DEF base, n

(* Whatever they are, they leave registers and a stack.                    *)
LEMMA PassesAllMachine ==
  ASSUME Supported, NEW m, IsMachine(m), NEW all, IsList(all), \A q \in 1..Len(all) : IsList(all[q])
  PROVE  IsMachine(PassAll(m, all))
<1> DEFINE n == Len(all)
           at == Passing(m, all)
           S == {k \in 0..n : IsMachine(at[k])}
<1>1. n \in Nat
  BY DEF IsList
<1>2. at[0] = m /\ \A k \in 1..n : at[k] = PassOne(at[k - 1], n + 1 - k, all[n + 1 - k])
  BY <1>1, PassingLoop
<1> HIDE DEF at
<1>3. 0 \in S
  BY <1>1, <1>2
<1>4. ASSUME NEW k \in 0..(n - 1), k \in S
      PROVE  k + 1 \in S
  <2>1. k + 1 \in 1..n /\ (k + 1) - 1 = k /\ n - k \in 1..n /\ n + 1 - (k + 1) = n - k /\ n - k \in Nat \ {0}
    BY <1>1
  <2>2. at[k + 1] = PassOne(at[k], n - k, all[n - k])
    BY <1>2, <2>1
  <2>3. IsMachine(at[k + 1])
    BY <1>4, <2>1, <2>2, PassesMachine
  <2> QED
    BY <2>1, <2>3
<1>5. \A k \in 0..n : k \in S
  <2> HIDE DEF S, n
  <2> QED BY <1>1, <1>3, <1>4, Induction
<1>6. n \in S
  BY <1>1, <1>5
<1> QED
  BY <1>6 DEF PassAll, Passing, at
-----------------------------------------------------------------------------
(* callX64 copies each large argument to where its address says.           *)
LEMMA CopiesAll ==
  ASSUME NEW m, IsMachine(m), NEW args, IsList(args), \A i \in 1..Len(args) : IsList(args[i])
  PROVE  LET c == Copied(m, args) IN
         /\ \A k \in 0..Len(args) : IsMachine(c[k])
         /\ (\A i \in 1..Len(args) : ~IsHuge(Len(args[i]))) =>
              /\ Keeps(m, c[Len(args)])
              /\ \A i \in 1..Len(args) : IsBig(i, args[i]) =>
                   Lies(c[Len(args)], c[Len(args) + 1 - i].thread.sp, args[i])
<1> DEFINE n == Len(args)
           at == Copied(m, args)
           fit == \A i \in 1..n : ~IsHuge(Len(args[i]))
           P(k) == /\ IsMachine(at[k])
                   /\ fit => /\ Keeps(m, at[k])
                             /\ \A i \in 1..n : i > n - k /\ IsBig(i, args[i]) =>
                                  Lies(at[k], at[n + 1 - i].thread.sp, args[i])
           S == {k \in 0..n : P(k)}
<1>1. n \in Nat
  BY DEF IsList
<1>2. at[0] = m /\ \A k \in 1..n : at[k] = CopyBig(at[k - 1], n + 1 - k, args[n + 1 - k])
  BY <1>1, CopyingLoop
<1> HIDE DEF at, n
<1>3. P(0)
  <2>1. \A i \in 1..n : ~(i > n - 0)
    BY <1>1
  <2> QED
    BY <1>2, <2>1, KeepsReflexive
<1>4. ASSUME NEW k \in 0..(n - 1), P(k)
      PROVE  P(k + 1)
  <2> DEFINE q == n - k
             s == at[k]
             p == at[k + 1]
  <2>1. k + 1 \in 1..n /\ (k + 1) - 1 = k /\ n + 1 - (k + 1) = q /\ q \in 1..n /\ n - (k + 1) = q - 1 /\ n + 1 - q = k + 1
    BY <1>1
  <2>2. p = CopyBig(s, q, args[q])
    BY <1>2, <2>1
  <2>3. IsMachine(s) /\ IsList(args[q])
    BY <1>4, <2>1 DEF n
  <2>4. fit => Keeps(m, s) /\ \A i \in 1..n : i > q /\ IsBig(i, args[i]) => Lies(s, at[n + 1 - i].thread.sp, args[i])
    BY <1>4
  <2> HIDE DEF p, s, q, fit
  <2>5. /\ IsMachine(p)
        /\ fit => Keeps(s, p) /\ (IsBig(q, args[q]) => Lies(p, p.thread.sp, args[q]))
    <3>1. CASE IsBig(q, args[q])
      <4>1. p = Push(s, args[q])
        BY <2>2, <3>1 DEF CopyBig
      <4>2. fit => ~IsHuge(Len(args[q]))
        BY <2>1 DEF fit
      <4> QED
        BY <2>3, <4>1, <4>2, Pushed
    <3>2. CASE ~IsBig(q, args[q])
      BY <2>2, <2>3, <3>2, KeepsReflexive DEF CopyBig
    <3> QED
      BY <3>1, <3>2
  <2>6. fit => Keeps(m, p)
    BY <2>4, <2>5, KeepsTransitive
  <2>7. ASSUME fit, NEW i \in 1..n, i > q - 1, IsBig(i, args[i])
        PROVE  Lies(p, at[n + 1 - i].thread.sp, args[i])
    <3>1. CASE i = q
      BY <2>1, <2>5, <2>7, <3>1 DEF p
    <3>2. CASE i # q
      <4>1. i > q
        BY <2>1, <2>7, <3>2
      <4>2. Lies(s, at[n + 1 - i].thread.sp, args[i])
        BY <2>4, <2>7, <4>1
      <4> QED
        BY <2>3, <2>5, <2>7, <4>2, StillLies
    <3> QED
      BY <3>1, <3>2
  <2>8. \A i \in 1..n : i > n - (k + 1) => i > q - 1
    BY <2>1
  <2> QED
    BY <2>5, <2>6, <2>7, <2>8 DEF p
<1>5. \A k \in 0..n : P(k)
  <2> HIDE DEF P
  <2>1. 0 \in S /\ \A k \in 0..(n - 1) : k \in S => k + 1 \in S
    BY <1>1, <1>3, <1>4
  <2>2. \A k \in 0..n : k \in S
    <3> HIDE DEF S
    <3> QED BY <1>1, <2>1, Induction
  <2> QED
    BY <2>2
<1>6. n \in 0..n /\ \A i \in 1..n : i > n - n
  BY <1>1
<1>7. P(n)
  BY <1>5, <1>6
<1>8. fit => Keeps(m, at[n]) /\ \A i \in 1..n : IsBig(i, args[i]) => Lies(at[n], at[n + 1 - i].thread.sp, args[i])
  BY <1>6, <1>7
<1> QED
  BY <1>5, <1>8 DEF n, at
-----------------------------------------------------------------------------
(* The steps of callX86 and callX64: the stack with the copies, what is    *)
(* passed, and the stack before and after it is passed.                    *)
Prior(m, args) == IF call.mode = "AMD64" THEN Copied(m, args)[Len(args)] ELSE m
Refs(m, args) == IF call.mode = "AMD64" THEN ByReference(m, args) ELSE args
All(m, args) == WithAddress(Refs(m, args), Roomy(m, args).thread.sp)
Base(m, args) == IF call.mode = "AMD64" THEN AlignStack(Roomy(m, args), Len(All(m, args))) ELSE Roomy(m, args)
Full(m, args) == PassAll(Base(m, args), All(m, args))

(* Arguments as castArgs gives them.                                       *)
AreLists(args) == IsList(args) /\ Len(args) = Len(call.params) /\ \A j \in 1..Len(args) : IsList(args[j])

(* The call is those steps.                                                *)
LEMMA MadeIs ==
  ASSUME NEW m, NEW args
  PROVE  /\ Made(m, args) = MakeCall(IF call.mode = "AMD64" THEN StackAlloc(Full(m, args), 32) ELSE Full(m, args))
         /\ Roomy(m, args) = WithRoom(Prior(m, args))
<1>1. CASE call.mode = "AMD64"
  BY <1>1 DEF Made, CallX64, Full, Base, All, Refs, Roomy, Prior
<1>2. CASE call.mode # "AMD64"
  BY <1>2 DEF Made, CallX86, Full, Base, All, Refs, Roomy, Prior
<1> QED
  BY <1>1, <1>2

(* What is passed: the arguments, or addresses of their copies, and where  *)
(* the result shall be.                                                    *)
LEMMA AllAre ==
  ASSUME call \in Given, NEW m, NEW args, AreLists(args)
  PROVE  LET all == All(m, args)
             refs == Refs(m, args) IN
         /\ IsList(all) /\ Len(all) = (IF IsLarge THEN Len(args) + 1 ELSE Len(args))
         /\ \A q \in 1..Len(all) : IsList(all[q])
         /\ \A j \in 1..Len(args) :
              refs[j] = IF call.mode = "AMD64" /\ IsBig(j, args[j])
                        THEN Address(Copied(m, args)[Len(args) + 1 - j].thread.sp) ELSE args[j]
         /\ ~IsLarge => all = refs
         /\ IsLarge => \A q \in 1..Len(all) :
                         all[q] = IF q < AddressPlace THEN refs[q]
                                  ELSE IF q = AddressPlace THEN Address(Roomy(m, args).thread.sp) ELSE refs[q - 1]
<1> DEFINE all == All(m, args)
           refs == Refs(m, args)
           n == Len(args)
           a == Roomy(m, args).thread.sp
<1>1. n \in Nat /\ IsList(args) /\ \A j \in 1..n : IsList(args[j])
  BY DEF AreLists, IsList
<1>2. AddressPlace \in 1..2 /\ AddressPlace <= n + 1
  BY <1>1, CallIs DEF AddressPlace, AreLists
<1>3. \A j \in 1..n : refs[j] = IF call.mode = "AMD64" /\ IsBig(j, args[j])
                                THEN Address(Copied(m, args)[n + 1 - j].thread.sp) ELSE args[j]
  BY DEF Refs, ByReference
<1>4. refs = [j \in 1..n |-> refs[j]]
  BY <1>1 DEF Refs, ByReference, IsList
<1>5. all = WithAddress(refs, a)
  BY DEF All
<1> HIDE DEF all, refs, n, a
<1>6. Len(refs) = n /\ IsList(refs)
  BY <1>1, <1>4, LenOfFunction
<1>7. \A j \in 1..n : IsList(refs[j])
  BY <1>1, <1>3, AddressIs
<1>8. CASE ~IsLarge
  <2>1. all = refs
    BY <1>5, <1>8 DEF WithAddress
  <2> QED
    BY <1>3, <1>6, <1>7, <1>8, <2>1 DEF all, refs, n
<1>9. CASE IsLarge
  <2>1. all = [q \in 1..(n + 1) |-> CASE q < AddressPlace -> refs[q] [] q = AddressPlace -> Address(a)
                                      [] q > AddressPlace -> refs[q - 1]]
    BY <1>5, <1>6, <1>9 DEF WithAddress
  <2>2. \A q \in 1..(n + 1) : q < AddressPlace \/ q = AddressPlace \/ q > AddressPlace
    BY <1>1, <1>2
  <2>3. \A q \in 1..(n + 1) : all[q] = IF q < AddressPlace THEN refs[q]
                                      ELSE IF q = AddressPlace THEN Address(a) ELSE refs[q - 1]
    BY <1>1, <1>2, <2>1, <2>2
  <2>4. all = [q \in 1..(n + 1) |-> all[q]] /\ n + 1 \in Nat
    BY <1>1, <2>1
  <2>5. Len(all) = n + 1 /\ IsList(all)
    BY <2>4, LenOfFunction
  <2>6. \A q \in 1..(n + 1) : /\ q < AddressPlace => q \in 1..n
                              /\ q > AddressPlace => q - 1 \in 1..n
    BY <1>1, <1>2
  <2>7. \A q \in 1..(n + 1) : IsList(all[q])
    BY <1>7, <2>2, <2>3, <2>6, AddressIs
  <2> QED
    BY <1>3, <1>9, <2>3, <2>5, <2>7 DEF all, refs, n, a
<1> QED
  BY <1>8, <1>9

(* The address to return to is pushed last.                                *)
LEMMA MakesCall ==
  ASSUME NEW p, IsMachine(p)
  PROVE  LET c == MakeCall(p) IN
         /\ Keeps(p, c) /\ c.thread.ip = "function"
         /\ c.thread.sp = p.thread.sp - Word
         /\ c.thread.registers = p.thread.registers
         /\ Lies(c, c.thread.sp, Bytes("return", 0, Word))
<1> DEFINE b == Bytes("return", 0, Word)
           s == Push(p, b)
           c == MakeCall(p)
<1>1. IsList(b) /\ Len(b) = Word /\ ~IsHuge(Len(b)) /\ AlignStackPointer(Len(b)) = Word
  <2>1. IsList(b) /\ Len(b) = Word
    BY WordIs, BytesAre
  <2>2. ~IsHuge(Word)
    BY WordIs DEF IsHuge, ShortRange
  <2>3. AlignStackPointer(Word) = Word
    BY WordIs, Aligned
  <2> QED
    BY <2>1, <2>2, <2>3
<1> HIDE DEF b
<1>2. /\ Keeps(p, s) /\ s.thread.sp = p.thread.sp - Word /\ Lies(s, s.thread.sp, b)
      /\ s.thread.registers = p.thread.registers
  BY <1>1, Pushed
<1>3. c = [s EXCEPT !.thread.ip = "function"]
  BY DEF MakeCall, b
<1> HIDE DEF s, c
<1>4. IsMachine(s)
  BY <1>2 DEF Keeps
<1>5. /\ s = [thread |-> s.thread, memory |-> s.memory]
      /\ s.thread = [ip |-> s.thread.ip, sp |-> s.thread.sp, registers |-> s.thread.registers]
  BY <1>4 DEF IsMachine, IsThread, Prepared
<1>6. c = [thread |-> [ip |-> "function", sp |-> s.thread.sp, registers |-> s.thread.registers], memory |-> s.memory]
  BY <1>3, <1>5
<1>7. IsMachine(c) /\ c.thread.sp = s.thread.sp /\ c.memory = s.memory /\ c.thread.registers = s.thread.registers
      /\ c.thread.ip = "function"
  BY <1>4, <1>6 DEF IsMachine, IsThread, Prepared
<1>8. Keeps(p, c)
  BY <1>2, <1>7 DEF Keeps
<1>9. Lies(c, c.thread.sp, b)
  BY <1>2, <1>7 DEF Lies
<1> QED
  BY <1>2, <1>7, <1>8, <1>9 DEF c, b

(* Whatever is passed, it is the function that runs.                       *)
LEMMA MachineMade ==
  ASSUME call \in Given, Supported, NEW m, IsMachine(m), NEW args, AreLists(args)
  PROVE  /\ IsMachine(Made(m, args)) /\ Made(m, args).thread.ip = "function"
         /\ Read(Made(m, args).memory, Made(m, args).thread.sp, Word) = Bytes("return", 0, Word)
<1>1. IsList(args) /\ (\A j \in 1..Len(args) : IsList(args[j])) /\ Len(args) \in Nat /\ Len(args) \in 0..Len(args)
  BY DEF AreLists, IsList
<1>2. IsMachine(Prior(m, args))
  BY <1>1, CopiesAll DEF Prior
<1>3. Size(call.returns) \in Nat
  BY CallIs, TypesAre
<1>4. IsMachine(Roomy(m, args))
  BY <1>2, <1>3, MadeIs, Allocated DEF WithRoom, Keeps
<1>5. IsList(All(m, args)) /\ \A q \in 1..Len(All(m, args)) : IsList(All(m, args)[q])
  BY AllAre
<1>6. IsMachine(Base(m, args))
  BY <1>4, <1>5, StackAligned DEF Base, Keeps, IsList
<1>7. IsMachine(Full(m, args))
  BY <1>5, <1>6, PassesAllMachine DEF Full
<1> DEFINE p == IF call.mode = "AMD64" THEN StackAlloc(Full(m, args), 32) ELSE Full(m, args)
<1>8. IsMachine(p)
  BY <1>7, Allocated DEF Keeps
<1>9. Made(m, args) = MakeCall(p)
  BY MadeIs
<1> HIDE DEF p
<1> DEFINE c == MakeCall(p)
           b == Bytes("return", 0, Word)
<1>10. IsMachine(c) /\ c.thread.ip = "function" /\ Lies(c, c.thread.sp, b)
  BY <1>8, MakesCall DEF Keeps
<1>11. Len(b) = Word /\ Word \in 0..Word
  BY WordIs, BytesAre
<1>12. First(b, Word) = b
  BY DEF First, Bytes
<1> HIDE DEF c, b
<1>13. Read(c.memory, c.thread.sp, Word) = b
  BY <1>10, <1>11, <1>12, ReadsWhatLies
<1> QED
  BY <1>9, <1>10, <1>13 DEF c, b
-----------------------------------------------------------------------------
(* Compiler and kdlib agree on which results are written where an address  *)
(* says.                                                                   *)
LEMMA LargeIsHidden ==
  ASSUME call \in Given, ~CalledOtherwise
  PROVE  /\ IsLarge <=> IsHidden
         /\ Size(call.returns) \in Nat /\ ~IsHuge(Size(call.returns))
<1>1. call.returns \in ResultTypes(call.mode)
  BY CallIs
<1>2. Size(call.returns) \in Nat /\ (Kind(call.returns) = "udt" => Size(call.returns) > 0)
      /\ (Kind(call.returns) # "udt" => Size(call.returns) <= 8)
  BY <1>1, TypesAre, WordIs DEF Plain
<1>3. ~(Kind(call.returns) = "udt" /\ Size(call.returns) \in {3, 5, 6, 7})
  BY DEF CalledOtherwise, IsOdd
<1>4. \A n \in Nat : n > 0 /\ n \notin {3, 5, 6, 7} => (n > 8 <=> n \notin Plain)
  BY DEF Plain
<1>5. ~IsHuge(Size(call.returns))
  BY DEF CalledOtherwise
<1>6. CASE Kind(call.returns) = "udt"
  <2>1. IsHidden /\ call.method => IsLarge
    BY DEF CalledOtherwise
  <2>2. Size(call.returns) > 8 <=> Size(call.returns) \notin Plain
    BY <1>2, <1>3, <1>4, <1>6
  <2>3. IsLarge <=> Size(call.returns) > 8
    BY DEF IsLarge
  <2>4. IsHidden <=> call.method \/ Size(call.returns) \notin Plain
    BY <1>6 DEF IsHidden
  <2> QED
    BY <1>2, <1>5, <2>1, <2>2, <2>3, <2>4
<1>7. CASE Kind(call.returns) # "udt"
  BY <1>2, <1>5, <1>7 DEF IsLarge, IsHidden
<1> QED
  BY <1>6, <1>7

(* What is passed of an argument whose copy, if there is one, is at a.     *)
AsPassed(j, bytes, a) == IF call.mode = "AMD64" /\ IsBig(j, bytes) THEN Address(a) ELSE bytes

(* They agree on which arguments are passed by reference, and on their     *)
(* sizes.                                                                  *)
LEMMA SizesFit ==
  ASSUME call \in Given, Supported, ~CalledOtherwise,
         NEW m, NEW j \in 1..Len(call.params), NEW b, Carries(j, b, m), NEW a
  PROVE  LET x == AsPassed(j, b, a) IN
         /\ IsIndirect(j) <=> call.mode = "AMD64" /\ IsBig(j, b)
         /\ IsIndirect(j) => Len(b) = Size(call.params[j])
         /\ SizeAt(j) \in 0..Len(x) /\ AlignStackPointer(Len(x)) = AlignStackPointer(SizeAt(j))
         /\ IsList(x) /\ ~IsHuge(Len(x))
         /\ call.mode = "AMD64" => SizeAt(j) <= 8
         /\ Kind(call.params[j]) = "pointer" => SizeAt(j) = Word
<1> DEFINE s == Size(call.params[j])
           n == Len(b)
           x == AsPassed(j, b, a)
           Goal == /\ IsIndirect(j) <=> call.mode = "AMD64" /\ IsBig(j, b)
                   /\ IsIndirect(j) => Len(b) = Size(call.params[j])
                   /\ SizeAt(j) \in 0..Len(x) /\ AlignStackPointer(Len(x)) = AlignStackPointer(SizeAt(j))
                   /\ IsList(x) /\ ~IsHuge(Len(x))
                   /\ call.mode = "AMD64" => SizeAt(j) <= 8
                   /\ Kind(call.params[j]) = "pointer" => SizeAt(j) = Word
<1> SUFFICES Goal
  OBVIOUS
<1> HIDE DEF x
<1>1. call.params[j] \in ParameterTypes(call.mode) /\ j # 0
  BY CallIs
<1>2. /\ s \in Nat \ {0} /\ Word \in {4, 8}
      /\ Kind(call.params[j]) # "udt" => s \in Plain
      /\ Kind(call.params[j]) = "pointer" => s = Word
  BY <1>1, TypesAre, WordIs DEF Plain
<1>3. /\ IsList(b) /\ n \in Nat /\ n >= s /\ ~IsHuge(n)
      /\ s <= Word => n <= Word
      /\ s > Word => n = s
  BY DEF Carries, IsList
<1>4. Len(Address(a)) = Word /\ IsList(Address(a))
  BY AddressIs
<1>5. \A i \in Nat \ {0} : i <= Word => AlignStackPointer(i) = Word
  BY Aligned
<1>6. ~IsHuge(Word)
  BY WordIs DEF IsHuge, ShortRange
<1>7. CASE call.mode = "AMD64"
  <2>1. Word = 8 /\ ~IsOdd(call.params[j]) /\ (j > 4 => s <= 8)
    <3>1. ~(j > 4 /\ s > 8) /\ ~IsOdd(call.params[j]) /\ Word = 8
      BY <1>7 DEF CalledOtherwise, Word, WordOf
    <3> QED
      BY <1>2, <3>1
  <2>2. s \in Plain <=> s <= 8
    <3>1. CASE Kind(call.params[j]) # "udt"
      BY <1>2, <3>1 DEF Plain
    <3>2. CASE Kind(call.params[j]) = "udt"
      <4>1. s \notin {3, 5, 6, 7}
        BY <2>1, <3>2 DEF IsOdd
      <4> QED
        BY <1>2, <4>1 DEF Plain
    <3> QED
      BY <3>1, <3>2
  <2>3. IsIndirect(j) <=> s > 8
    BY <1>1, <1>2, <1>7, <2>2 DEF IsIndirect
  <2>4. IsBig(j, b) <=> s > 8
    BY <1>2, <1>3, <2>1 DEF IsBig
  <2>5. CASE s > 8
    <3>1. x = Address(a) /\ SizeAt(j) = 8
      BY <1>1, <1>7, <2>1, <2>3, <2>4, <2>5 DEF SizeAt, x, AsPassed
    <3>2. Len(x) = 8 /\ IsList(x) /\ ~IsHuge(Len(x)) /\ n = s
      BY <1>3, <1>4, <1>6, <2>1, <2>5, <3>1
    <3> QED
      BY <1>2, <1>7, <2>1, <2>3, <2>4, <2>5, <3>1, <3>2
  <2>6. CASE s <= 8
    <3>1. x = b /\ SizeAt(j) = s /\ n <= 8
      BY <1>1, <1>2, <1>3, <1>7, <2>1, <2>3, <2>4, <2>6 DEF SizeAt, x, AsPassed
    <3>2. AlignStackPointer(n) = 8 /\ AlignStackPointer(s) = 8
      BY <1>2, <1>3, <1>5, <2>1, <2>6, <3>1
    <3> QED
      BY <1>2, <1>3, <1>7, <2>1, <2>3, <2>4, <2>6, <3>1, <3>2
  <2> QED
    BY <1>2, <2>5, <2>6
<1>8. CASE call.mode # "AMD64"
  <2>1. ~IsIndirect(j) /\ x = b /\ SizeAt(j) = s
    BY <1>1, <1>8 DEF IsIndirect, SizeAt, x, AsPassed
  <2>2. AlignStackPointer(n) = AlignStackPointer(s)
    BY <1>2, <1>3, <1>5
  <2> QED
    BY <1>2, <1>3, <1>8, <2>1, <2>2
<1> QED
  BY <1>7, <1>8

(* What castArgs has to leave for the rest of the call.                    *)
IsReady(m, args) ==
  /\ IsMachine(m) /\ AreLists(args) /\ Len(Arguments) = Len(call.params)
  /\ \A j \in 1..Len(call.params) : Carries(j, args[j], m)

(* What is in each place.                                                  *)
LEMMA PlacesAre ==
  ASSUME call \in Given, Supported, ~CalledOtherwise, NEW m, NEW args, IsReady(m, args)
  PROVE  /\ Len(All(m, args)) = Places
         /\ \A q \in 1..Places :
              /\ IsSized(q, All(m, args)[q])
              /\ SizeAt(Passed[q]) \in 0..Len(All(m, args)[q])
              /\ All(m, args)[q] = IF Passed[q] = 0 THEN Address(Roomy(m, args).thread.sp) ELSE Refs(m, args)[Passed[q]]
              /\ RegisterOf(q) # NoRegister => SizeAt(Passed[q]) <= Word
<1> DEFINE all == All(m, args)
           refs == Refs(m, args)
           n == Len(call.params)
           a == Roomy(m, args).thread.sp
<1>1. n \in Nat /\ Len(args) = n /\ AreLists(args) /\ \A j \in 1..n : Carries(j, args[j], m)
  BY CallIs DEF IsReady, AreLists
<1>2. /\ IsList(all) /\ Len(all) = (IF IsLarge THEN n + 1 ELSE n)
      /\ \A j \in 1..n :
           refs[j] = IF call.mode = "AMD64" /\ IsBig(j, args[j])
                     THEN Address(Copied(m, args)[n + 1 - j].thread.sp) ELSE args[j]
      /\ ~IsLarge => all = refs
      /\ IsLarge => \A q \in 1..Len(all) :
                      all[q] = IF q < AddressPlace THEN refs[q]
                               ELSE IF q = AddressPlace THEN Address(a) ELSE refs[q - 1]
  BY <1>1, AllAre
<1> HIDE DEF all, refs, n, a
<1>3. Len(all) = Places
  BY <1>2, LargeIsHidden, PassedAre DEF n
<1>4. \A q \in 1..Places : all[q] = IF Passed[q] = 0 THEN Address(a) ELSE refs[Passed[q]]
  <2>1. CASE ~IsHidden
    <3>1. all = refs /\ \A q \in 1..Places : Passed[q] = q
      BY <1>2, <2>1, LargeIsHidden, PassedAre
    <3>2. \A q \in 1..Places : q # 0
      BY PassedAre
    <3> QED
      BY <3>1, <3>2
  <2>2. CASE IsHidden
    <3>1. /\ \A q \in 1..Places : all[q] = IF q < AddressPlace THEN refs[q]
                                           ELSE IF q = AddressPlace THEN Address(a) ELSE refs[q - 1]
          /\ AddressPlace = HiddenPlace /\ HiddenPlace \in 1..2
          /\ \A q \in 1..Places : Passed[q] = IF q < HiddenPlace THEN q ELSE IF q = HiddenPlace THEN 0 ELSE q - 1
      BY <1>2, <1>3, <2>2, LargeIsHidden, PassedAre
    <3>2. \A q \in 1..Places : /\ q < HiddenPlace => q # 0
                               /\ q # HiddenPlace /\ ~(q < HiddenPlace) => q - 1 # 0
      BY <3>1, PassedAre
    <3> QED
      BY <3>1, <3>2
  <2> QED
    BY <2>1, <2>2
<1>5. ASSUME NEW q \in 1..Places
      PROVE  IsSized(q, all[q]) /\ SizeAt(Passed[q]) \in 0..Len(all[q])
             /\ (RegisterOf(q) # NoRegister => SizeAt(Passed[q]) <= Word)
  <2> DEFINE j == Passed[q]
  <2>1. j \in 0..n
    BY PassedAre DEF n
  <2>2. CASE j = 0
    <3>1. all[q] = Address(a) /\ SizeAt(j) = Word
      BY <1>4, <2>2 DEF SizeAt
    <3>2. Len(all[q]) = Word /\ IsList(all[q])
      BY <3>1, AddressIs
    <3>3. ~IsHuge(Word) /\ Word \in 0..Word
      BY WordIs DEF IsHuge, ShortRange
    <3> QED
      BY <3>1, <3>2, <3>3, WordIs DEF IsSized
  <2>3. CASE j # 0
    <3>1. j \in 1..n
      BY <1>1, <2>1, <2>3
    <3>2. all[q] = refs[j]
      BY <1>4, <2>3
    <3> HIDE DEF j
    <3> DEFINE b == args[j]
               at == Copied(m, args)[n + 1 - j].thread.sp
               x == AsPassed(j, b, at)
    <3>3. Carries(j, b, m) /\ all[q] = x
      BY <1>1, <1>2, <3>1, <3>2 DEF AsPassed
    <3> HIDE DEF b, at
    <3>4. /\ SizeAt(j) \in 0..Len(x) /\ AlignStackPointer(Len(x)) = AlignStackPointer(SizeAt(j))
          /\ IsList(x) /\ ~IsHuge(Len(x))
          /\ call.mode = "AMD64" => SizeAt(j) <= 8
          /\ Kind(call.params[j]) = "pointer" => SizeAt(j) = Word
      BY <3>1, <3>3, SizesFit DEF n
    <3> HIDE DEF x
    <3>5. RegisterOf(q) # NoRegister => SizeAt(j) <= Word
      <4>1. CASE call.mode = "AMD64"
        BY <3>4, <4>1 DEF Word, WordOf
      <4>2. CASE call.mode = "I386"
        <5>1. ASSUME RegisterOf(q) # NoRegister PROVE SizeAt(j) <= Word
          <6>1. call.convention = "ThisCall" /\ q = 1
            BY <4>2, <5>1, RegistersAre
          <6>2. j = 1
            BY <2>3, <6>1, PassedAre DEF j, HiddenPlace
          <6>3. Kind(call.params[1]) = "pointer"
            BY <6>1, CallIs
          <6> QED
            BY <3>4, <6>2, <6>3, WordIs
        <5> QED
          BY <5>1
      <4> QED
        BY <4>1, <4>2 DEF Supported
    <3> QED
      BY <3>3, <3>4, <3>5 DEF IsSized, j
  <2> QED
    BY <2>2, <2>3
<1> QED
  BY <1>3, <1>4, <1>5 DEF all, refs, a

(* On 64 bits each argument after the fourth takes eight bytes.            *)
LEMMA CountedX64 ==
  ASSUME call \in Given, Supported, ~CalledOtherwise, call.mode = "AMD64"
  PROVE  OnStack[Places] = IF Places <= 4 THEN 0 ELSE 8 * (Places - 4)
<1> DEFINE n == Places
           S == {q \in 0..n : OnStack[q] = IF q <= 4 THEN 0 ELSE 8 * (q - 4)}
<1>1. n \in Nat
  BY PassedAre
<1>2. OnStack[0] = 0 /\ \A q \in 1..n : OnStack[q] = OnStack[q - 1] + Taken(q)
  BY Counted
<1>3. ASSUME NEW q \in 1..n
      PROVE  Taken(q) = IF q <= 4 THEN 0 ELSE 8
  <2>1. RegisterOf(q) = IF q <= 4 THEN X64Register(q) ELSE NoRegister
    BY RegistersAre
  <2>2. CASE q <= 4
    <3>1. q \in 1..4
      BY <1>1, <2>2
    <3> QED
      BY <2>1, <2>2, <3>1, X64RegistersDiffer DEF Taken
  <2>3. CASE ~(q <= 4)
    <3>1. Word = 8 /\ \A i \in Nat \ {0} : i <= 8 => AlignStackPointer(i) = 8
      <4>1. Word = 8
        BY DEF Word, WordOf
      <4> QED BY <4>1, Aligned
    <3>2. SizeAt(Passed[q]) \in Nat \ {0} /\ SizeAt(Passed[q]) <= 8
      BY <3>1 DEF SizeAt, IsIndirect, Plain
    <3> QED
      BY <2>1, <2>3, <3>1, <3>2 DEF Taken
  <2> QED
    BY <2>2, <2>3
<1> HIDE DEF n
<1>4. 0 \in S
  BY <1>1, <1>2
<1>5. ASSUME NEW k \in 0..(n - 1), k \in S
      PROVE  k + 1 \in S
  <2>1. k + 1 \in 1..n /\ (k + 1) - 1 = k /\ k \in Nat
    BY <1>1
  <2>2. OnStack[k + 1] = OnStack[k] + (IF k + 1 <= 4 THEN 0 ELSE 8)
    BY <1>2, <1>3, <2>1
  <2>3. OnStack[k] = IF k <= 4 THEN 0 ELSE 8 * (k - 4)
    BY <1>5
  <2>4. OnStack[k + 1] = IF k + 1 <= 4 THEN 0 ELSE 8 * ((k + 1) - 4)
    BY <2>1, <2>2, <2>3
  <2> QED
    BY <2>1, <2>4
<1>6. \A k \in 0..n : k \in S
  <2> HIDE DEF S
  <2> QED BY <1>1, <1>4, <1>5, Induction
<1>7. n \in S
  BY <1>1, <1>6
<1> QED
  BY <1>7 DEF n

(* The call prepared: nothing that was in use has changed, and what the    *)
(* function needs is where it looks for it.                                *)
LEMMA MadeWell ==
  ASSUME call \in Given, Supported, ~CalledOtherwise, NEW m, NEW args, IsReady(m, args)
  PROVE  LET made == Made(m, args)
             room == Roomy(m, args).thread.sp
             sp == made.thread.sp + Word + Home IN
         /\ Keeps(m, made)
         /\ sp \in Int /\ sp + OnStack[Places] <= m.thread.sp
         /\ call.mode = "AMD64" => (made.thread.sp + Word) % 16 = 0
         /\ room \in Int /\ (IsHidden => room + Size(call.returns) <= m.thread.sp)
         /\ \A q \in 1..Places : IsAt(made, q, sp + OnStack[q - 1], All(m, args)[q])
         /\ call.mode = "AMD64" => \A j \in 1..Len(args) :
              IsBig(j, args[j]) => Lies(made, Copied(m, args)[Len(args) + 1 - j].thread.sp, args[j])
<1> DEFINE copied == Copied(m, args)
           prior == Prior(m, args)
           roomy == Roomy(m, args)
           all == All(m, args)
           base == Base(m, args)
           full == Full(m, args)
           homely == IF call.mode = "AMD64" THEN StackAlloc(full, 32) ELSE full
           made == Made(m, args)
           n == Len(args)
<1>1. /\ IsMachine(m) /\ AreLists(args) /\ IsList(args) /\ n \in Nat
      /\ \A i \in 1..n : IsList(args[i]) /\ ~IsHuge(Len(args[i]))
  BY DEF IsReady, AreLists, IsList, Carries
<1>2. /\ Keeps(m, copied[n])
      /\ \A i \in 1..n : IsBig(i, args[i]) => Lies(copied[n], copied[n + 1 - i].thread.sp, args[i])
  BY <1>1, CopiesAll
<1>3. /\ Keeps(m, prior)
      /\ call.mode = "AMD64" => prior = copied[n]
  BY <1>1, <1>2, KeepsReflexive DEF Prior
<1>4. roomy = WithRoom(prior) /\ made = MakeCall(homely)
  BY MadeIs
<1>5. base = IF call.mode = "AMD64" THEN AlignStack(roomy, Len(all)) ELSE roomy
  BY DEF Base
<1>6. full = PassAll(base, all)
  BY DEF Full
<1>7. /\ IsList(all) /\ Len(all) = Places
      /\ \A q \in 1..Places : IsSized(q, all[q])
  BY <1>1, AllAre, PlacesAre
<1>8. Places \in Nat
  BY PassedAre
<1> HIDE DEF copied, prior, roomy, all, base, full, made, n
<1>9. IsMachine(prior) /\ prior.thread.sp \in Int /\ m.thread.sp \in Int /\ prior.thread.sp <= m.thread.sp
  BY <1>1, <1>3 DEF Keeps, IsMachine, IsThread
<1>10. /\ Keeps(prior, roomy)
       /\ IsHidden => roomy.thread.sp = prior.thread.sp - AlignStackPointer(Size(call.returns))
  BY <1>4, <1>9, LargeIsHidden, Allocated, KeepsReflexive DEF WithRoom
<1>11. IsMachine(roomy) /\ roomy.thread.sp \in Int /\ roomy.thread.sp <= m.thread.sp
  BY <1>9, <1>10 DEF Keeps, IsMachine, IsThread
<1>12. IsHidden => roomy.thread.sp + Size(call.returns) <= m.thread.sp
  BY <1>9, <1>10, LargeIsHidden, Aligned
<1>13. /\ Keeps(roomy, base)
       /\ call.mode = "AMD64" => (base.thread.sp + (IF Places > 4 /\ Places % 2 # 0 THEN 8 ELSE 0)) % 16 = 0
  BY <1>5, <1>7, <1>8, <1>11, StackAligned, KeepsReflexive
<1>14. IsMachine(base) /\ base.thread.sp \in Int /\ base.thread.sp <= m.thread.sp
  <2>1. IsMachine(base) /\ base.thread.sp <= roomy.thread.sp
    BY <1>13 DEF Keeps
  <2>2. base.thread.sp \in Int
    BY <2>1 DEF IsMachine, IsThread
  <2> QED
    BY <1>9, <1>11, <2>1, <2>2
<1>15. /\ Keeps(base, full) /\ full.thread.sp = base.thread.sp - OnStack[Places]
       /\ \A q \in 1..Places : IsAt(full, q, full.thread.sp + OnStack[q - 1], all[q])
  BY <1>6, <1>7, <1>14, PassesAll
<1>16. IsMachine(full) /\ full.thread.sp \in Int /\ OnStack[Places] \in Nat
  BY <1>8, <1>15, Counted DEF Keeps, IsMachine, IsThread
<1>17. /\ Keeps(full, homely) /\ homely.thread.sp = full.thread.sp - Home
       /\ homely.thread.registers = full.thread.registers
  <2>1. CASE call.mode = "AMD64"
    <3>1. ~IsHuge(32) /\ AlignStackPointer(32) = 32
      BY <2>1 DEF IsHuge, ShortRange, AlignStackPointer, Word, WordOf
    <3> QED
      BY <1>16, <2>1, <3>1, Allocated DEF Home
  <2>2. CASE call.mode # "AMD64"
    BY <1>16, <2>2, KeepsReflexive DEF Home
  <2> QED
    BY <2>1, <2>2
<1> HIDE DEF homely
<1>18. IsMachine(homely) /\ homely.thread.sp \in Int
  BY <1>17 DEF Keeps, IsMachine, IsThread
<1>19. /\ Keeps(homely, made) /\ made.thread.sp = homely.thread.sp - Word
       /\ made.thread.registers = homely.thread.registers
  BY <1>4, <1>18, MakesCall
<1> DEFINE sp == made.thread.sp + Word + Home
<1>20. Word \in Nat /\ Home \in Nat
  BY WordIs DEF Home
<1>21. sp = full.thread.sp /\ made.thread.sp = full.thread.sp - Home - Word
  BY <1>16, <1>17, <1>18, <1>19, <1>20
<1> HIDE DEF sp
<1>22. Keeps(full, made) /\ made.thread.registers = full.thread.registers
  BY <1>16, <1>17, <1>19, KeepsTransitive
<1>23. Keeps(prior, made)
  <2>1. Keeps(prior, base)
    BY <1>9, <1>10, <1>13, KeepsTransitive
  <2>2. Keeps(prior, full)
    BY <1>9, <1>15, <2>1, KeepsTransitive
  <2> QED
    BY <1>9, <1>22, <2>2, KeepsTransitive
<1>24. Keeps(m, made)
  BY <1>1, <1>3, <1>23, KeepsTransitive
<1>25. sp \in Int /\ sp + OnStack[Places] <= m.thread.sp
  BY <1>14, <1>15, <1>16, <1>21
<1>26. ASSUME call.mode = "AMD64"
       PROVE  (made.thread.sp + Word) % 16 = 0
  <2>1. made.thread.sp + Word = (base.thread.sp - OnStack[Places]) - 32
    BY <1>15, <1>16, <1>20, <1>21, <1>26 DEF Home
  <2>2. OnStack[Places] = IF Places <= 4 THEN 0 ELSE 8 * (Places - 4)
    BY <1>26, CountedX64
  <2>3. (base.thread.sp + (IF Places > 4 /\ Places % 2 # 0 THEN 8 ELSE 0)) % 16 = 0
    BY <1>13, <1>26
  <2> DEFINE p == Places
             b == base.thread.sp
  <2>4. p \in Nat /\ b \in Int
    BY <1>8, <1>14
  <2> HIDE DEF p, b
  <2>5. CASE p <= 4
    BY <2>1, <2>2, <2>3, <2>4, <2>5 DEF p, b
  <2>6. CASE p > 4 /\ p % 2 = 0
    <3>1. PICK h \in Nat : p = 2 * h
      BY <2>4, <2>6
    <3>2. b % 16 = 0 /\ made.thread.sp + Word = b - 8 * (2 * h - 4) - 32
      BY <2>1, <2>2, <2>3, <2>4, <2>6, <3>1 DEF p, b
    <3> QED
      BY <2>4, <3>2
  <2>7. CASE p > 4 /\ p % 2 # 0
    <3>1. PICK h \in Nat : p = 2 * h + 1
      BY <2>4, <2>7
    <3>2. (b + 8) % 16 = 0 /\ made.thread.sp + Word = b - 8 * ((2 * h + 1) - 4) - 32
      BY <2>1, <2>2, <2>3, <2>4, <2>7, <3>1 DEF p, b
    <3> QED
      BY <2>4, <3>2
  <2> QED
    BY <2>4, <2>5, <2>6, <2>7
<1>27. ASSUME NEW q \in 1..Places
       PROVE  IsAt(made, q, sp + OnStack[q - 1], all[q])
  <2>1. IsAt(full, q, sp + OnStack[q - 1], all[q])
    BY <1>15, <1>21
  <2>2. CASE RegisterOf(q) = NoRegister
    BY <1>16, <1>22, <2>1, <2>2, StillLies DEF IsAt
  <2>3. CASE RegisterOf(q) # NoRegister
    BY <1>22, <2>1, <2>3 DEF IsAt, IsIn
  <2> QED
    BY <2>2, <2>3
<1>28. call.mode = "AMD64" => \A j \in 1..n : IsBig(j, args[j]) => Lies(made, copied[n + 1 - j].thread.sp, args[j])
  BY <1>2, <1>3, <1>9, <1>23, StillLies
<1> QED
  BY <1>11, <1>12, <1>24, <1>25, <1>26, <1>27, <1>28 DEF sp, made, roomy, all, n, copied
-----------------------------------------------------------------------------
(* Each argument has a place.                                              *)
LEMMA PlaceIs ==
  ASSUME call \in Given, Supported, ~CalledOtherwise, NEW j \in 0..Len(call.params), j = 0 => IsHidden
  PROVE  PlaceOf(j) \in 1..Places /\ Passed[PlaceOf(j)] = j
<1>1. Len(call.params) \in Nat /\ j \in Nat
  BY CallIs
<1>2. \E q \in 1..Places : Passed[q] = j
  <2>1. CASE ~IsHidden
    BY <1>1, <2>1, PassedAre
  <2>2. CASE IsHidden
    <3> DEFINE q == IF j = 0 THEN HiddenPlace ELSE IF j < HiddenPlace THEN j ELSE j + 1
    <3>1. /\ Places = Len(call.params) + 1 /\ HiddenPlace \in 1..2 /\ HiddenPlace <= Places
          /\ \A i \in 1..Places : Passed[i] = IF i < HiddenPlace THEN i ELSE IF i = HiddenPlace THEN 0 ELSE i - 1
      BY <2>2, PassedAre
    <3>2. q \in 1..Places /\ (IF q < HiddenPlace THEN q ELSE IF q = HiddenPlace THEN 0 ELSE q - 1) = j
      BY <1>1, <3>1
    <3> HIDE DEF q
    <3>3. Passed[q] = j
      BY <3>1, <3>2
    <3> QED
      BY <3>2, <3>3
  <2> QED
    BY <2>1, <2>2
<1> QED
  BY <1>2 DEF PlaceOf

(* What the function finds there is what was passed.                       *)
LEMMA FoundIs ==
  ASSUME call \in Given, Supported, ~CalledOtherwise, NEW m, NEW args, IsReady(m, args),
         NEW j \in 0..Len(call.params), j = 0 => IsHidden
  PROVE  Found(Made(m, args), j) =
           First(IF j = 0 THEN Address(Roomy(m, args).thread.sp) ELSE Refs(m, args)[j], SizeAt(j))
<1> DEFINE made == Made(m, args)
           all == All(m, args)
           q == PlaceOf(j)
           b == IF j = 0 THEN Address(Roomy(m, args).thread.sp) ELSE Refs(m, args)[j]
           sp == made.thread.sp + Word + Home
           n == SizeAt(j)
<1>1. q \in 1..Places /\ Passed[q] = j
  BY PlaceIs
<1>2. /\ IsAt(made, q, sp + OnStack[q - 1], all[q])
      /\ sp \in Int /\ made.thread.sp \in Int
  BY <1>1, MadeWell DEF Keeps, IsMachine, IsThread
<1>3. all[q] = b /\ n \in 0..Len(b) /\ (RegisterOf(q) # NoRegister => n <= Word)
  BY <1>1, PlacesAre
<1>4. Word \in Nat /\ Home \in Nat /\ OnStack[q - 1] \in Nat
  <2>1. q - 1 \in 0..Places
    BY <1>1, PassedAre
  <2> QED
    BY <2>1, WordIs, Counted DEF Home
<1>5. CASE RegisterOf(q) = NoRegister
  <2> DEFINE at == sp + OnStack[q - 1]
  <2>1. Lies(made, at, b)
    BY <1>2, <1>3, <1>5 DEF IsAt
  <2>2. Found(made, j) = Read(made.memory, at, n)
    BY <1>5 DEF Found
  <2> HIDE DEF made, at, n, b
  <2>3. Read(made.memory, at, n) = First(b, n)
    BY <1>3, <2>1, ReadsWhatLies
  <2> QED
    BY <2>2, <2>3 DEF made, b, n
<1>6. CASE RegisterOf(q) # NoRegister
  <2> DEFINE r == RegisterOf(q)
  <2>1. IsIn(made, r, b) /\ n <= Word
    BY <1>2, <1>3, <1>6 DEF IsAt
  <2>2. Found(made, j) = First(made.thread.registers[r], n)
    BY <1>6 DEF Found
  <2> HIDE DEF made, n, b, r
  <2>3. \A k \in 1..n : k \in 1..Word /\ k <= Len(b)
    <3>1. n \in Nat /\ \A l : n \in 0..l => n <= l \/ l \notin Int
      BY <1>3
    <3> QED
      BY <1>3, <1>4, <2>1, <3>1
  <2>4. \A k \in 1..n : made.thread.registers[r][k] = b[k]
    BY <2>1, <2>3 DEF IsIn
  <2>5. First(made.thread.registers[r], n) = First(b, n)
    BY <2>4 DEF First
  <2> QED
    BY <2>2, <2>5 DEF made, b, n
<1> QED
  BY <1>5, <1>6

(* The function receives what the call means.                              *)
LEMMA ReceivesMeant ==
  ASSUME call \in Given, Supported, ~CalledOtherwise, NEW m, NEW args, IsReady(m, args)
  PROVE  Received(Made(m, args)) = [j \in 1..Len(call.params) |-> Meant(j)]
<1> DEFINE made == Made(m, args)
           n == Len(call.params)
<1>1. ASSUME NEW j \in 1..n
      PROVE  Receives(made, j) = Meant(j)
  <2> DEFINE b == args[j]
             a == Copied(m, args)[Len(args) + 1 - j].thread.sp
             s == Size(call.params[j])
             v == Arguments[j]
  <2>1. /\ Len(args) = n /\ j \in 0..n /\ j # 0 /\ j \in 1..Len(args) /\ j \in 1..Len(Arguments)
        /\ Carries(j, b, m) /\ IsMachine(m) /\ AreLists(args)
    BY CallIs DEF IsReady, AreLists
  <2>2. Refs(m, args)[j] = AsPassed(j, b, a)
    BY <2>1, AllAre DEF AsPassed
  <2>3. Found(made, j) = First(AsPassed(j, b, a), SizeAt(j))
    BY <2>1, <2>2, FoundIs
  <2>4. /\ IsIndirect(j) <=> call.mode = "AMD64" /\ IsBig(j, b)
        /\ IsIndirect(j) => Len(b) = s
        /\ IsList(b)
    BY <2>1, SizesFit DEF Carries
  <2>5. /\ Keeps(m, made)
        /\ call.mode = "AMD64" /\ IsBig(j, b) => Lies(made, a, b)
    BY <2>1, MadeWell
  <2>6. /\ Kind(v.type) # "array" => First(b, s) = Meant(j)
        /\ Kind(v.type) = "array" =>
             s = Word /\ Meant(j) = v.bytes /\ b = Address(b[1][2]) /\ Lies(m, b[1][2], v.bytes)
    BY <2>1 DEF Carries
  <2>7. IsList(v.bytes) /\ Len(v.bytes) = Size(v.type)
    BY <2>1, ArgumentsAre
  <2> HIDE DEF made, b, a, s, v
  <2>8. CASE IsIndirect(j)
    <3>1. AsPassed(j, b, a) = Address(a) /\ SizeAt(j) = Word
      BY <2>4, <2>8 DEF AsPassed, SizeAt
    <3>2. Found(made, j) = Address(a) /\ IsAddress(Address(a)) /\ Address(a)[1][2] = a
      BY <2>3, <3>1, AddressIs
    <3>3. Receives(made, j) = Read(made.memory, a, s)
      BY <2>8, <3>2 DEF Receives, Pointee, s
    <3>4. Lies(made, a, b) /\ s \in 0..Len(b)
      BY <2>4, <2>5, <2>8 DEF IsList
    <3>5. Read(made.memory, a, s) = First(b, s)
      BY <3>4, ReadsWhatLies
    <3>6. Kind(v.type) # "array"
      <4>1. s = Word => s \in Plain
        BY WordIs DEF Plain
      <4> QED
        BY <2>6, <2>8, <4>1 DEF IsIndirect, s
    <3> QED
      BY <2>6, <3>3, <3>5, <3>6
  <2>9. CASE ~IsIndirect(j) /\ Kind(v.type) = "array"
    <3> DEFINE to == b[1][2]
    <3>1. AsPassed(j, b, a) = b /\ SizeAt(j) = Word
      BY <2>1, <2>4, <2>6, <2>9 DEF AsPassed, SizeAt, s
    <3>2. b = Address(to)
      BY <2>6, <2>9
    <3>3. Lies(made, to, v.bytes)
      BY <2>1, <2>5, <2>6, <2>9, StillLies
    <3> HIDE DEF to
    <3>4. Found(made, j) = Address(to) /\ IsAddress(Address(to)) /\ Address(to)[1][2] = to
      BY <2>3, <3>1, <3>2, AddressIs
    <3>5. Receives(made, j) = Read(made.memory, to, Len(v.bytes))
      BY <2>7, <2>9, <3>4 DEF Receives, Pointee, v
    <3>6. Read(made.memory, to, Len(v.bytes)) = First(v.bytes, Len(v.bytes))
      <4>1. Len(v.bytes) \in 0..Len(v.bytes)
        BY <2>7 DEF IsList
      <4> QED BY <3>3, <4>1, ReadsWhatLies
    <3>7. First(v.bytes, Len(v.bytes)) = v.bytes
      BY <2>7 DEF First, IsList
    <3> QED
      BY <2>6, <2>9, <3>5, <3>6, <3>7
  <2>10. CASE ~IsIndirect(j) /\ Kind(v.type) # "array"
    <3>1. AsPassed(j, b, a) = b /\ SizeAt(j) = s
      BY <2>1, <2>4, <2>10 DEF AsPassed, SizeAt, s
    <3>2. Receives(made, j) = Found(made, j)
      BY <2>10 DEF Receives, v
    <3> QED
      BY <2>3, <2>6, <2>10, <3>1, <3>2
  <2> QED
    BY <2>8, <2>9, <2>10
<1>2. ~(call.mode = "AMD64" /\ (made.thread.sp + Word) % 16 # 0)
  BY MadeWell
<1> HIDE DEF made
<1>3. Received(made) = [j \in 1..n |-> Receives(made, j)]
  BY <1>2 DEF Received
<1> QED
  BY <1>1, <1>3 DEF made
-----------------------------------------------------------------------------
(* All that has been written is below an address.                          *)
Below(mem, top) == \A a \in DOMAIN mem : a < top

(* What the function leaves is below what was in use before the call, and  *)
(* a large result is where it was told to be.                              *)
LEMMA LeavesBelow ==
  ASSUME call \in Given, Supported, ~CalledOtherwise, NEW m, NEW args, IsReady(m, args),
         NEW top \in Int, m.thread.sp <= top, Below(m.memory, top)
  PROVE  LET made == Made(m, args) IN
         /\ Below(made.memory, top) /\ Below(Left(made), top)
         /\ IsLarge => Read(Left(made), Roomy(m, args).thread.sp, Size(call.returns)) = Result(Size(call.returns))
<1> DEFINE made == Made(m, args)
           room == Roomy(m, args).thread.sp
           n == Word + Home + IF Home = 0 THEN OnStack[Places] ELSE 0
           used == Over(made.memory, made.thread.sp, Junk(n))
           s == Size(call.returns)
           b == Result(s)
<1>1. /\ Keeps(m, made)
      /\ made.thread.sp + Word + Home \in Int /\ made.thread.sp + Word + Home + OnStack[Places] <= m.thread.sp
      /\ room \in Int /\ (IsHidden => room + s <= m.thread.sp)
  BY MadeWell
<1>2. made.thread.sp \in Int /\ DOMAIN made.memory \subseteq Int /\ m.thread.sp \in Int
  BY <1>1 DEF Keeps, IsReady, IsMachine, IsThread
<1>3. Word \in Nat /\ Home \in Nat /\ OnStack[Places] \in Nat /\ s \in Nat /\ (IsLarge <=> IsHidden)
  <2>1. Places \in 0..Places
    BY PassedAre
  <2> QED
    BY <2>1, WordIs, Counted, LargeIsHidden DEF Home
<1>4. n \in Nat /\ made.thread.sp + n <= m.thread.sp
  BY <1>1, <1>2, <1>3
<1>5. Len(b) = s /\ IsList(b) /\ Len(Junk(n)) = n /\ IsList(Junk(n))
  BY <1>3, <1>4, BytesAre DEF Result, Junk
<1>6. Left(made) = IF IsHidden /\ IsAddress(Found(made, 0)) THEN Over(used, Found(made, 0)[1][2], b) ELSE used
  BY DEF Left
<1>7. IsHidden => IsAddress(Found(made, 0)) /\ Found(made, 0)[1][2] = room
  <2>1. ASSUME IsHidden PROVE Found(made, 0) = First(Address(room), SizeAt(0))
    <3>1. 0 \in 0..Len(call.params)
      BY CallIs
    <3> QED
      BY <2>1, <3>1, FoundIs
  <2>2. SizeAt(0) = Word
    BY DEF SizeAt
  <2> QED
    BY <2>1, <2>2, AddressIs
<1> HIDE DEF made, room, n, s, b
<1>8. Below(made.memory, top)
  BY <1>1, <1>2 DEF Keeps, Below
<1>9. DOMAIN used \subseteq Int /\ Below(used, top)
  <2>1. DOMAIN used = DOMAIN made.memory \cup made.thread.sp..(made.thread.sp + n - 1)
    <3> DEFINE at == made.thread.sp
               junk == Junk(n)
               mem == made.memory
    <3>1. at \in Int /\ used = Over(mem, at, junk) /\ Len(junk) = n /\ IsList(junk)
      BY <1>2, <1>5
    <3> HIDE DEF at, junk, mem, used
    <3>2. DOMAIN Over(mem, at, junk) = DOMAIN mem \cup at..(at + Len(junk) - 1)
      BY <3>1, OverIs
    <3> QED
      BY <3>1, <3>2 DEF at, mem
  <2>2. \A a \in made.thread.sp..(made.thread.sp + n - 1) : a \in Int /\ a < top
    BY <1>2, <1>4
  <2> QED
    BY <1>2, <1>8, <2>1, <2>2 DEF Below
<1> HIDE DEF used
<1>10. CASE ~IsHidden
  BY <1>3, <1>6, <1>8, <1>9, <1>10 DEF made
<1>11. CASE IsHidden
  <2>1. Left(made) = Over(used, room, b)
    BY <1>6, <1>7, <1>11
  <2>2. DOMAIN Over(used, room, b) = DOMAIN used \cup room..(room + s - 1)
    BY <1>1, <1>5, OverIs
  <2>3. \A a \in room..(room + s - 1) : a < top
    BY <1>1, <1>2, <1>3, <1>11
  <2>4. Below(Left(made), top)
    BY <1>9, <2>1, <2>2, <2>3 DEF Below
  <2>5. Holds(Over(used, room, b), room, b)
    BY <1>1, <1>5, OverIs
  <2>6. Read(Over(used, room, b), room, s) = [k \in 1..s |-> b[k]]
    BY <1>5, <2>5 DEF Read, Holds
  <2>7. [k \in 1..s |-> b[k]] = b
    BY DEF b, Result, Bytes
  <2> QED
    BY <1>8, <2>1, <2>4, <2>6, <2>7 DEF made, room, s, b
<1> QED
  BY <1>10, <1>11

(* What kdlib reads as result of a small type is what the function put     *)
(* into the registers for it.                                              *)
LEMMA RegistersAnswer ==
  ASSUME call \in Given, Supported, InRegister, NEW thread,
         thread.registers = [r \in RegisterNames |-> ResultRegister(r)]
  PROVE  \A k \in 1..8 : GetReturnReg(thread)[k] = Padded(Size(call.returns))[k]
<1> DEFINE b == Padded(Size(call.returns))
<1>1. CASE call.mode = "I386"
  <2>1. Word = 4 /\ Registers!ReturnRegisters(call.mode) = <<"edx", "eax">>
    BY <1>1 DEF Word, WordOf, Registers!ReturnRegisters
  <2>2. thread.registers["eax"] = First(b, 4) /\ thread.registers["edx"] = [k \in 1..4 |-> b[k + 4]]
    BY <1>1, <2>1 DEF RegisterNames, ResultRegister
  <2>3. GetReturnReg(thread) = [k \in 1..8 |-> thread.registers[<<"edx", "eax">>[2 - ((k - 1) \div 4)]][((k - 1) % 4) + 1]]
    BY <2>1 DEF GetReturnReg
  <2> HIDE DEF b
  <2>4. ASSUME NEW k \in 1..4 PROVE GetReturnReg(thread)[k] = b[k]
    <3>1. (k - 1) \div 4 = 0 /\ ((k - 1) % 4) + 1 = k
      OBVIOUS
    <3> QED
      BY <2>2, <2>3, <3>1 DEF First
  <2>5. ASSUME NEW k \in 5..8 PROVE GetReturnReg(thread)[k] = b[k]
    <3>1. (k - 1) \div 4 = 1 /\ ((k - 1) % 4) + 1 = k - 4 /\ k - 4 \in 1..4 /\ (k - 4) + 4 = k
      OBVIOUS
    <3> QED
      BY <2>2, <2>3, <3>1
  <2>6. \A k \in 1..8 : k \in 1..4 \/ k \in 5..8
    OBVIOUS
  <2> QED
    BY <2>4, <2>5, <2>6 DEF b
<1>2. CASE call.mode = "AMD64"
  <2>1. Word = 8 /\ Registers!ReturnRegisters(call.mode) = <<"rax">>
    BY <1>2 DEF Word, WordOf, Registers!ReturnRegisters
  <2>2. thread.registers["rax"] = First(b, 8)
    BY <1>2, <2>1 DEF RegisterNames, ResultRegister
  <2>3. GetReturnReg(thread) = [k \in 1..8 |-> thread.registers[<<"rax">>[1 - ((k - 1) \div 8)]][((k - 1) % 8) + 1]]
    BY <2>1 DEF GetReturnReg
  <2> HIDE DEF b
  <2>4. ASSUME NEW k \in 1..8 PROVE GetReturnReg(thread)[k] = b[k]
    <3>1. (k - 1) \div 8 = 0 /\ ((k - 1) % 8) + 1 = k
      OBVIOUS
    <3> QED
      BY <2>2, <2>3, <3>1 DEF First
  <2> QED
    BY <2>4 DEF b
<1> QED
  BY <1>1, <1>2 DEF Supported

(* What kdlib returns, if the result is where the function puts it.        *)
LEMMA AnswerIs ==
  ASSUME call \in Given, Supported, ~CalledOtherwise, NEW thread,
         thread.registers = [r \in RegisterNames |-> ResultRegister(r)],
         IsLarge => Read(memory, pending.room, Size(call.returns)) = Result(Size(call.returns))
  PROVE  Answer(thread) # Thrown => Answer(thread) = Result(Size(call.returns))
<1> DEFINE kind == Kind(call.returns)
           s == Size(call.returns)
<1>1. /\ s \in Nat
      /\ kind = "void" => s = 0
      /\ kind = "pointer" => s = Word
      /\ kind \in {"base", "enum", "pointer", "udt"} => s > 0
      /\ IsLarge <=> IsHidden
  BY CallIs, TypesAre, LargeIsHidden, WordIs
<1>2. CASE IsLarge
  BY <1>2 DEF Answer
<1>3. ASSUME ~IsLarge, kind \in {"base", "udt", "pointer"}
      PROVE  First(GetReturnReg(thread), s) = Result(s)
  <2>1. InRegister /\ s \in Nat /\ s <= 8
    BY <1>1, <1>3 DEF InRegister, IsLarge
  <2>2. \A k \in 1..8 : GetReturnReg(thread)[k] = Padded(s)[k]
    BY <2>1, RegistersAnswer
  <2>3. \A k \in 1..s : k \in 1..8 /\ k <= s
    BY <2>1
  <2>4. \A k \in 1..s : GetReturnReg(thread)[k] = <<"result", 0, k>>
    BY <2>2, <2>3 DEF Padded
  <2> QED
    BY <2>4 DEF First, Result, Bytes
<1>4. CASE ~IsLarge /\ kind \in {"base", "udt"}
  BY <1>3, <1>4 DEF Answer
<1>5. CASE ~IsLarge /\ kind = "pointer"
  <2>1. PointerSize = s
    <3>1. ~(call.mode = "I386" /\ call.convention = "NearFast")
      BY <1>5 DEF CalledOtherwise
    <3> QED
      BY <1>1, <1>5, <3>1 DEF PointerSize, Word, WordOf, Supported
  <2>2. Answer(thread) = First(GetReturnReg(thread), PointerSize)
    BY <1>5 DEF Answer
  <2> QED
    BY <1>3, <1>5, <2>1, <2>2
<1>6. CASE ~IsLarge /\ kind = "void"
  <2>1. Answer(thread) = Nothing /\ s = 0
    BY <1>1, <1>6 DEF Answer
  <2> QED
    BY <2>1 DEF Nothing, Result, Bytes
<1>7. CASE ~IsLarge /\ kind \notin {"base", "udt", "pointer", "void"}
  BY <1>7 DEF Answer
<1> QED
  BY <1>2, <1>4, <1>5, <1>6, <1>7
-----------------------------------------------------------------------------
(* The function is about to run.                                           *)
WillAnswer(m, top, room) ==
  /\ Below(m.memory, top) /\ Below(Left(m), top)
  /\ Received(m) = [j \in 1..Len(call.params) |-> Meant(j)]
  /\ IsLarge => Read(Left(m), room, Size(call.returns)) = Result(Size(call.returns))

IsPrepared(m, top, room) ==
  /\ IsThread(m.thread) /\ m.thread.ip = "function"
  /\ Read(m.memory, m.thread.sp, Word) = Bytes("return", 0, Word)
  /\ ~CalledOtherwise => WillAnswer(m, top, room)

(* It has run, and the caller stands where it did.                         *)
HasAnswered ==
  /\ received = [j \in 1..Len(call.params) |-> Meant(j)]
  /\ context[Caller].registers = [r \in RegisterNames |-> ResultRegister(r)]
  /\ IsLarge => Read(memory, pending.room, Size(call.returns)) = Result(Size(call.returns))

(* In which order things happen.                                           *)
Staged ==
  /\ call \in Given /\ current \in Threads /\ stage \in {"asked", "running", "ended"}
  /\ breakpoint \in BOOLEAN /\ (breakpoint => stage = "running")
  /\ \E top \in Top : pending.saved = Start(Caller, top)
  /\ context = [t \in Threads |-> context[t]]
  /\ met = {} => \A t \in Threads \ {Caller} : context[t] = Start(t, 0)
  /\ stage = "asked" => context[Caller] = pending.saved /\ memory = Nothing /\ current = Caller /\ met = {}

(* While the debuggee runs for the call.                                   *)
Runs ==
  stage = "running" =>
    /\ Supported
    /\ ~CalledOtherwise => Below(memory, pending.saved.sp)
    /\ ~IsDone => /\ met = {} /\ call.at = "here"
                  /\ IsPrepared(Prepared(context[Caller], memory), pending.saved.sp, pending.room)
    /\ IsDone /\ met = {} => current = Caller
    /\ IsDone /\ IsAlone /\ ~CalledOtherwise => HasAnswered

(* The inductive invariant: until the debuggee has run, the function would *)
(* find what was meant; afterwards, its answer is where it is looked for.  *)
CallInv == Staged /\ Runs /\ CallsAnswer /\ CallsLeaveNothing

(* The call, and with it what depends on it only, never changes.           *)
LEMMA CallStays ==
  ASSUME call' = call
  PROVE  /\ Supported' <=> Supported
         /\ CalledOtherwise' <=> CalledOtherwise
         /\ IsLarge' <=> IsLarge
         /\ RegisterNames' = RegisterNames
         /\ \A t, top : Start(t, top)' = Start(t, top)
         /\ \A j : Meant(j)' = Meant(j)
         /\ \A r : ResultRegister(r)' = ResultRegister(r)
         /\ \A m, top, room : IsPrepared(m, top, room)' <=> IsPrepared(m, top, room)
<1>1. Word' = Word
  BY DEF Word, WordOf
<1>2. Arguments' = Arguments
  BY DEF Arguments
<1>3. Places' = Places
  BY DEF Places, IsHidden
<1>4. Passed' = Passed
  BY <1>3 DEF Passed, HiddenPlace, IsHidden
<1>5. \A j : PlaceOf(j)' = PlaceOf(j)
  BY <1>3, <1>4 DEF PlaceOf
<1>6. \A j : SizeAt(j)' = SizeAt(j)
  BY <1>1 DEF SizeAt, IsIndirect
<1>7. \A q : RegisterOf(q)' = RegisterOf(q)
  BY <1>4, <1>6 DEF RegisterOf, FastBefore, FitsFast, IsIndirect, SizeAt
<1>8. OnStack' = OnStack
  BY <1>1, <1>3, <1>4, <1>6, <1>7 DEF OnStack, AlignStackPointer
<1>9. \A m, j : Found(m, j)' = Found(m, j)
  BY <1>1, <1>5, <1>6, <1>7, <1>8 DEF Found, Home
<1>10. \A m, j : Receives(m, j)' = Receives(m, j)
  BY <1>2, <1>6, <1>9 DEF Receives, IsIndirect
<1>11. \A m : Received(m)' = Received(m)
  BY <1>1, <1>10 DEF Received
<1>12. \A m : Left(m)' = Left(m)
  BY <1>1, <1>3, <1>8, <1>9 DEF Left, Home, IsHidden
<1>13. \A j : Meant(j)' = Meant(j)
  BY <1>2 DEF Meant
<1>14. \A r : ResultRegister(r)' = ResultRegister(r)
  BY <1>1 DEF ResultRegister, InRegister, IsHidden
<1>15. CalledOtherwise' <=> CalledOtherwise
  BY <1>2 DEF CalledOtherwise, FitsFast, SizeAt, IsIndirect, Word, WordOf, IsHidden, IsLarge
<1>16. (Supported' <=> Supported) /\ (IsLarge' <=> IsLarge) /\ RegisterNames' = RegisterNames
  BY DEF Supported, IsLarge, RegisterNames
<1>17. \A t, top : Start(t, top)' = Start(t, top)
  BY <1>1, <1>16 DEF Start
<1>18. \A m, top, room : WillAnswer(m, top, room)' <=> WillAnswer(m, top, room)
  BY <1>11, <1>12, <1>13, <1>16 DEF WillAnswer
<1>19. \A t : IsThread(t)' <=> IsThread(t)
  BY <1>1, <1>16 DEF IsThread
<1>20. \A m, top, room : IsPrepared(m, top, room)' <=> IsPrepared(m, top, room)
  BY <1>1, <1>15, <1>18, <1>19 DEF IsPrepared
<1> QED
  BY <1>13, <1>14, <1>15, <1>16, <1>17, <1>20

(* What the call finds.                                                    *)
LEMMA StartIs ==
  ASSUME NEW top \in Nat
  PROVE  /\ IsMachine(Prepared(Start(Caller, top), Nothing))
         /\ Start(Caller, top).sp = top /\ Start(Caller, top).ip = call.at
         /\ Below(Nothing, top)
<1> DEFINE thread == Start(Caller, top)
<1>1. thread = [ip |-> call.at, sp |-> top, registers |-> [r \in RegisterNames |-> Bytes("old", 0, Word)]]
  BY DEF Start
<1>2. DOMAIN Bytes("old", 0, Word) = 1..Word
  BY DEF Bytes
<1> HIDE DEF thread
<1>3. IsThread(thread)
  BY <1>1, <1>2 DEF IsThread
<1>4. DOMAIN Nothing = {}
  BY DEF Nothing
<1> QED
  BY <1>1, <1>3, <1>4 DEF IsMachine, Prepared, Below, thread

(* castArgs writes below what was in use.                                  *)
LEMMA CastsBelow ==
  ASSUME call \in Given, ~CalledOtherwise, NEW top \in Nat
  PROVE  LET b == CastArgs(Prepared(Start(Caller, top), Nothing)) IN
         Keeps(Prepared(Start(Caller, top), Nothing), b.m) /\ Below(b.m.memory, top)
<1> DEFINE m == Prepared(Start(Caller, top), Nothing)
           b == CastArgs(m)
<1>1. IsMachine(m) /\ m.thread.sp = top /\ DOMAIN m.memory = {}
  BY StartIs DEF Prepared, Nothing
<1>2. NoneHuge
  BY DEF NoneHuge, CalledOtherwise
<1> HIDE DEF m
<1>3. Keeps(m, b.m)
  BY <1>1, <1>2, CastsAll
<1> HIDE DEF b
<1>4. DOMAIN b.m.memory \subseteq Int /\ \A a \in DOMAIN b.m.memory : ~(a >= top)
  BY <1>1, <1>3 DEF Keeps, IsMachine
<1> QED
  BY <1>3, <1>4 DEF Below, m, b

(* The call gets the function to run, and with what it means.              *)
LEMMA CallPrepares ==
  ASSUME call \in Given, Supported, NEW top \in Nat,
         NEW b, b = CastArgs(Prepared(Start(Caller, top), Nothing)), b.ok
  PROVE  /\ IsMachine(Made(b.m, b.args))
         /\ IsPrepared(Made(b.m, b.args), top, Roomy(b.m, b.args).thread.sp)
<1> DEFINE m == Prepared(Start(Caller, top), Nothing)
           made == Made(b.m, b.args)
           room == Roomy(b.m, b.args).thread.sp
<1>1. IsMachine(m) /\ m.thread.sp = top
  BY StartIs DEF Prepared
<1>2. b = CastArgs(m)
  OBVIOUS
<1> HIDE DEF m
<1>3. IsMachine(b.m) /\ AreLists(b.args) /\ Len(Arguments) = Len(call.params)
  BY <1>1, <1>2, CastsAll DEF AreLists
<1>4. /\ IsMachine(made) /\ made.thread.ip = "function"
      /\ Read(made.memory, made.thread.sp, Word) = Bytes("return", 0, Word)
  BY <1>3, MachineMade
<1>5. IsThread(made.thread)
  BY <1>4 DEF IsMachine
<1>6. ASSUME ~CalledOtherwise
      PROVE  WillAnswer(made, top, room)
  <2>1. Keeps(m, b.m) /\ Below(b.m.memory, top)
    BY <1>2, <1>6, CastsBelow DEF m
  <2>2. NoneHuge
    BY <1>6 DEF NoneHuge, CalledOtherwise
  <2>3. IsReady(b.m, b.args)
    BY <1>1, <1>2, <1>3, <2>2, CastsAll DEF IsReady
  <2>4. Received(made) = [j \in 1..Len(call.params) |-> Meant(j)]
    BY <1>6, <2>3, ReceivesMeant
  <2>5. b.m.thread.sp <= top /\ top \in Int
    BY <1>1, <2>1 DEF Keeps
  <2>6. /\ Below(made.memory, top) /\ Below(Left(made), top)
        /\ IsLarge => Read(Left(made), room, Size(call.returns)) = Result(Size(call.returns))
    BY <1>6, <2>1, <2>3, <2>5, LeavesBelow
  <2> QED
    BY <2>4, <2>6 DEF WillAnswer
<1> QED
  BY <1>4, <1>5, <1>6 DEF IsPrepared
-----------------------------------------------------------------------------
(* The invariant holds at first, and every step keeps it.                  *)
LEMMA CallBegins == Init => CallInv
<1> SUFFICES ASSUME Init PROVE CallInv
  OBVIOUS
<1>1. PICK top \in Top : context = [t \in Threads |-> Start(t, top)]
  BY DEF Init
<1>2. Staged
  <2>1. context[Caller] = Start(Caller, top) /\ pending.saved = context[Caller]
    BY <1>1, CallerAssumption DEF Init
  <2>2. \A t \in Threads \ {Caller} : Start(t, top) = Start(t, 0)
    BY DEF Start
  <2>3. \A t \in Threads \ {Caller} : context[t] = Start(t, 0)
    BY <1>1, <2>2
  <2>4. context = [t \in Threads |-> context[t]]
    BY <1>1
  <2> QED
    BY <2>1, <2>3, <2>4, CallerAssumption DEF Init, Staged
<1> QED
  BY <1>2 DEF Init, CallInv, Runs, CallsAnswer, CallsLeaveNothing

(* TypedVarFunction::call keeps the invariant.                             *)
LEMMA AskKeeps == CallInv /\ Ask => CallInv'
<1> SUFFICES ASSUME CallInv, Ask PROVE CallInv'
  OBVIOUS
<1>1. PICK top \in Top : pending.saved = Start(Caller, top)
  BY DEF CallInv, Staged
<1>2. /\ call \in Given /\ current = Caller /\ memory = Nothing /\ met = {} /\ Caller \in Threads
      /\ context[Caller] = Start(Caller, top)
      /\ context = [t \in Threads |-> context[t]]
      /\ \A t \in Threads \ {Caller} : context[t] = Start(t, 0)
      /\ top \in Nat
  BY <1>1, CallerAssumption, GivenAssumption DEF CallInv, Staged, Ask
<1> DEFINE b == Begun
           made == Made(b.m, b.args)
           room == Roomy(b.m, b.args).thread.sp
<1>3. b = CastArgs(Prepared(Start(Caller, top), Nothing)) /\ b.ok /\ Supported
  BY <1>2 DEF Ask, Begun, IsCallable
<1>4. /\ context' = [context EXCEPT ![Caller] = made.thread]
      /\ memory' = made.memory
      /\ pending' = [saved |-> Start(Caller, top), room |-> room]
      /\ breakpoint' = TRUE /\ stage' = "running"
      /\ call' = call /\ current' = Caller /\ met' = {}
  BY <1>2 DEF Ask
<1> HIDE DEF b
<1>5. IsMachine(made) /\ IsPrepared(made, top, room)
  BY <1>2, <1>3, CallPrepares
<1> HIDE DEF made, room
<1>6. made = Prepared(made.thread, made.memory) /\ made.thread.ip = "function" /\ Start(Caller, top).sp = top
  BY <1>2, <1>5, StartIs DEF IsMachine, IsPrepared
<1>7. /\ context'[Caller] = made.thread
      /\ \A t \in Threads \ {Caller} : context'[t] = context[t]
      /\ context' = [t \in Threads |-> context'[t]]
  BY <1>2, <1>4
<1>8. Staged'
  BY <1>2, <1>4, <1>7, CallStays DEF Staged
<1>9. Runs'
  <2>1. Supported' /\ (CalledOtherwise' <=> CalledOtherwise)
    BY <1>3, <1>4, CallStays
  <2>2. ~CalledOtherwise => Below(memory, pending.saved.sp)'
    <3>1. ~CalledOtherwise => Below(made.memory, top)
      BY <1>5 DEF IsPrepared, WillAnswer
    <3> QED
      BY <1>4, <1>6, <3>1 DEF Below
  <2>3. IsPrepared(Prepared(context[Caller], memory), pending.saved.sp, pending.room)'
    <3>1. Prepared(context'[Caller], memory') = made /\ pending'.saved.sp = top /\ pending'.room = room
      BY <1>4, <1>6, <1>7 DEF Prepared
    <3>2. IsPrepared(Prepared(context'[Caller], memory'), pending'.saved.sp, pending'.room)
      BY <1>5, <3>1
    <3>3. Prepared(context[Caller], memory)' = Prepared(context'[Caller], memory')
      BY DEF Prepared
    <3> QED
      BY <1>4, <3>2, <3>3, CallStays
  <2>4. call.at \in {"here", "function"}
    BY <1>2, CallIs
  <2>5. IsDone' <=> call.at = "function"
    BY <1>4, <1>6, <1>7 DEF IsDone
  <2> QED
    BY <1>4, <2>1, <2>2, <2>3, <2>4, <2>5 DEF Runs, IsAlone
<1> QED
  BY <1>4, <1>8, <1>9 DEF CallInv, CallsAnswer, CallsLeaveNothing

(* So does a call that is refused.                                         *)
LEMMA RefuseKeeps == CallInv /\ Refuse => CallInv'
<1> SUFFICES ASSUME CallInv, Refuse PROVE CallInv'
  OBVIOUS
<1>1. PICK top \in Top : pending.saved = Start(Caller, top)
  BY DEF CallInv, Staged
<1>2. /\ call \in Given /\ current = Caller /\ memory = Nothing /\ met = {} /\ breakpoint = FALSE
      /\ context[Caller] = Start(Caller, top)
      /\ context = [t \in Threads |-> context[t]]
      /\ \A t \in Threads \ {Caller} : context[t] = Start(t, 0)
      /\ top \in Nat
  BY <1>1, GivenAssumption DEF CallInv, Staged, Refuse
<1>3. /\ stage' = "ended" /\ answer' = Thrown
      /\ memory' = memory \/ memory' = Begun.m.memory
      /\ UNCHANGED <<call, context, current, breakpoint, pending, met>>
  BY DEF Refuse
<1>4. Begun = CastArgs(Prepared(Start(Caller, top), Nothing)) /\ Start(Caller, top).sp = top
  BY <1>2, StartIs DEF Begun
<1>5. ~CalledOtherwise => Below(memory', top)
  <2>1. ~CalledOtherwise => Below(Begun.m.memory, top)
    BY <1>2, <1>4, CastsBelow
  <2>2. Below(memory, top)
    BY <1>2, StartIs
  <2> QED
    BY <1>3, <2>1, <2>2
<1>6. context = [t \in Threads |-> Start(t, top)]
  <2>1. \A t \in Threads \ {Caller} : Start(t, 0) = Start(t, top)
    BY DEF Start
  <2> QED
    BY <1>2, <2>1
<1>7. Staged'
  <2>1. call' = call /\ call \in Given /\ current' = current /\ current \in Threads
    BY <1>3 DEF CallInv, Staged
  <2>2. pending'.saved = Start(Caller, top)'
    BY <1>1, <1>3, <2>1, CallStays
  <2>3. \A t \in Threads \ {Caller} : context'[t] = Start(t, 0)'
    BY <1>2, <1>3, <2>1, CallStays
  <2> QED
    BY <1>2, <1>3, <2>1, <2>2, <2>3 DEF Staged
<1>8. CallsLeaveNothing'
  BY <1>1, <1>2, <1>3, <1>4, <1>5, <1>6, CallStays DEF CallsLeaveNothing, Below
<1> QED
  BY <1>3, <1>7, <1>8 DEF CallInv, Runs, CallsAnswer

(* Until the function returns or something else comes back to where the    *)
(* caller stood, nothing is changed.                                       *)
LEMMA WhileRunning ==
  ASSUME CallInv, Running
  PROVE  /\ stage = "running" /\ met = {} /\ call.at = "here" /\ Supported /\ Caller \in Threads
         /\ IsPrepared(Prepared(context[Caller], memory), pending.saved.sp, pending.room)
         /\ IsThread(context[Caller]) /\ context[Caller].ip = "function"
         /\ context = [t \in Threads |-> context[t]]
         /\ \A t \in Threads \ {Caller} : context[t] = Start(t, 0)
         /\ ~CalledOtherwise => Below(memory, pending.saved.sp)
<1>1. stage = "running" /\ ~IsDone
  BY DEF Running
<1>2. /\ met = {} /\ call.at = "here" /\ Supported
      /\ IsPrepared(Prepared(context[Caller], memory), pending.saved.sp, pending.room)
      /\ ~CalledOtherwise => Below(memory, pending.saved.sp)
  BY <1>1 DEF CallInv, Runs
<1>3. IsThread(context[Caller]) /\ context[Caller].ip = "function"
  BY <1>2 DEF IsPrepared, Prepared
<1> QED
  BY <1>1, <1>2, <1>3, CallerAssumption DEF CallInv, Staged

(* What a step from there has to see to.                                   *)
LEMMA StagedStays ==
  ASSUME Staged, call' = call, pending' = pending, stage' \in {"running", "ended"}, current' \in Threads,
         breakpoint' = FALSE \/ (breakpoint' = breakpoint /\ stage' = "running"),
         context' = [t \in Threads |-> context'[t]],
         met' = {} => \A t \in Threads \ {Caller} : context'[t] = Start(t, 0)
  PROVE  Staged'
<1>1. PICK top \in Top : pending.saved = Start(Caller, top)
  BY DEF Staged
<1>2. pending'.saved = Start(Caller, top)'
  BY <1>1, CallStays
<1>3. met' = {} => \A t \in Threads \ {Caller} : context'[t] = Start(t, 0)'
  BY CallStays
<1>4. call' \in Given /\ breakpoint' \in BOOLEAN /\ (breakpoint' => stage' = "running")
  BY DEF Staged
<1> QED
  BY <1>2, <1>3, <1>4 DEF Staged

(* The function returns: kdlib finds the answer.                           *)
LEMMA ReturnsKeeps == CallInv /\ Returns => CallInv'
<1> SUFFICES ASSUME CallInv, Returns PROVE CallInv'
  OBVIOUS
<1> DEFINE m == Prepared(context[Caller], memory)
           top == pending.saved.sp
           room == pending.room
<1>1. /\ stage = "running" /\ met = {} /\ call.at = "here" /\ Supported /\ Caller \in Threads
      /\ IsPrepared(m, top, room) /\ IsThread(context[Caller])
      /\ context = [t \in Threads |-> context[t]]
      /\ \A t \in Threads \ {Caller} : context[t] = Start(t, 0)
  BY WhileRunning DEF Returns
<1>2. /\ context' = [context EXCEPT ![Caller] = Returned(m)]
      /\ memory' = Left(m) /\ received' = Received(m) /\ current' = Caller
      /\ UNCHANGED <<call, breakpoint, stage, pending, answer, met>>
  BY DEF Returns
<1> DEFINE after == Returned(m)
<1>3. after.ip = call.at /\ after.registers = [r \in RegisterNames |-> ResultRegister(r)]
  <2>1. Read(m.memory, m.thread.sp, Word) = Bytes("return", 0, Word)
    BY <1>1 DEF IsPrepared
  <2>2. DOMAIN m.thread.registers = RegisterNames
    BY <1>1 DEF Prepared, IsThread
  <2> HIDE DEF m
  <2> QED
    BY <2>1, <2>2 DEF Returned
<1> HIDE DEF m, after, top, room
<1>4. /\ context'[Caller] = after
      /\ \A t \in Threads \ {Caller} : context'[t] = context[t]
      /\ context' = [t \in Threads |-> context'[t]]
  BY <1>1, <1>2 DEF after
<1>5. Staged'
  BY <1>1, <1>2, <1>4, StagedStays DEF CallInv
<1>6. ~CalledOtherwise => WillAnswer(m, top, room)
  BY <1>1 DEF IsPrepared
<1>7. IsDone'
  BY <1>2, <1>3, <1>4 DEF IsDone
<1>8. ~CalledOtherwise => HasAnswered'
  <2>1. ASSUME ~CalledOtherwise
        PROVE  /\ received' = [j \in 1..Len(call.params) |-> Meant(j)]
               /\ context'[Caller].registers = [r \in RegisterNames |-> ResultRegister(r)]
               /\ IsLarge => Read(memory', pending'.room, Size(call.returns)) = Result(Size(call.returns))
    BY <1>2, <1>3, <1>4, <1>6, <2>1 DEF WillAnswer, room
  <2>2. call' = call
    BY <1>2
  <2> QED
    BY <2>1, <2>2, CallStays DEF HasAnswered, Read, Result, Bytes
<1>9. ~CalledOtherwise => Below(memory', pending'.saved.sp)
  BY <1>2, <1>6 DEF WillAnswer, top
<1>10. Runs'
  BY <1>1, <1>2, <1>7, <1>8, <1>9, CallStays DEF Runs, Below
<1> QED
  BY <1>1, <1>2, <1>5, <1>10 DEF CallInv, CallsAnswer, CallsLeaveNothing

(* The function calls what the caller was stopped in: the call is not      *)
(* alone, and what it returns is anything.                                 *)
LEMMA RecursKeeps == CallInv /\ Recurs => CallInv'
<1> SUFFICES ASSUME CallInv, Recurs PROVE CallInv'
  OBVIOUS
<1>1. /\ stage = "running" /\ Supported /\ Caller \in Threads
      /\ IsThread(context[Caller]) /\ context = [t \in Threads |-> context[t]]
      /\ ~CalledOtherwise => Below(memory, pending.saved.sp)
  BY WhileRunning DEF Recurs
<1>2. /\ context' = [context EXCEPT ![Caller].ip = call.at, ![Caller].sp = @ - Word,
                                    ![Caller].registers = [r \in DOMAIN @ |-> Junk(Word)]]
      /\ current' = Caller /\ met' = met \cup {"recursion"}
      /\ UNCHANGED <<call, memory, breakpoint, stage, pending>>
  BY DEF Recurs
<1>3. context'[Caller].ip = call.at /\ context' = [t \in Threads |-> context'[t]]
  BY <1>1, <1>2 DEF IsThread
<1>4. met' # {}
  BY <1>2
<1>5. Staged'
  BY <1>1, <1>2, <1>3, <1>4, StagedStays DEF CallInv
<1>6. Runs'
  BY <1>1, <1>2, <1>3, <1>4, CallStays DEF Runs, IsDone, IsAlone, Below
<1> QED
  BY <1>1, <1>2, <1>5, <1>6 DEF CallInv, CallsAnswer, CallsLeaveNothing

(* So it is if another thread comes where the caller was stopped.          *)
LEMMA SharesKeeps ==
  ASSUME NEW t \in Threads
  PROVE  CallInv /\ Shares(t) => CallInv'
<1> SUFFICES ASSUME CallInv, Shares(t) PROVE CallInv'
  OBVIOUS
<1>1. /\ stage = "running" /\ Supported
      /\ context = [u \in Threads |-> context[u]] /\ context[t] = Start(t, 0)
      /\ ~CalledOtherwise => Below(memory, pending.saved.sp)
  BY WhileRunning DEF Shares
<1>2. /\ context' = [context EXCEPT ![t].ip = call.at]
      /\ current' = t /\ met' = met \cup {"shared"}
      /\ UNCHANGED <<call, memory, breakpoint, stage, pending>>
  BY DEF Shares
<1>3. context'[t].ip = call.at /\ context' = [u \in Threads |-> context'[u]]
  BY <1>1, <1>2 DEF Start
<1>4. met' # {}
  BY <1>2
<1>5. Staged'
  BY <1>1, <1>2, <1>3, <1>4, StagedStays DEF CallInv
<1>6. Runs'
  BY <1>1, <1>2, <1>3, <1>4, CallStays DEF Runs, IsDone, IsAlone, Below
<1> QED
  BY <1>1, <1>2, <1>5, <1>6 DEF CallInv, CallsAnswer, CallsLeaveNothing

(* An event that is not the end of the call changes nothing.               *)
LEMMA StopsKeeps ==
  ASSUME NEW t \in Threads
  PROVE  CallInv /\ Stops(t) => CallInv'
<1> SUFFICES ASSUME CallInv, Stops(t) PROVE CallInv'
  OBVIOUS
<1>1. /\ stage = "running" /\ met = {} /\ call.at = "here" /\ Supported
      /\ IsPrepared(Prepared(context[Caller], memory), pending.saved.sp, pending.room)
      /\ context[Caller].ip = "function"
      /\ context = [u \in Threads |-> context[u]]
      /\ \A u \in Threads \ {Caller} : context[u] = Start(u, 0)
      /\ ~CalledOtherwise => Below(memory, pending.saved.sp)
  BY WhileRunning DEF Stops
<1>2. current' = t /\ UNCHANGED <<call, context, memory, breakpoint, stage, pending, answer, received, met>>
  BY DEF Stops
<1>3. context[t].ip # "here"
  <2>1. t # Caller => Start(t, 0).ip = "elsewhere"
    BY DEF Start
  <2> QED
    BY <1>1, <2>1
<1>4. ~IsDone'
  BY <1>1, <1>2, <1>3 DEF IsDone
<1>5. Staged'
  BY <1>1, <1>2, StagedStays DEF CallInv
<1>6. IsPrepared(Prepared(context[Caller], memory), pending.saved.sp, pending.room)'
  <2>1. Prepared(context[Caller], memory)' = Prepared(context[Caller], memory)
    BY <1>2 DEF Prepared
  <2> QED
    BY <1>1, <1>2, <2>1, CallStays
<1>7. Runs'
  BY <1>1, <1>2, <1>4, <1>6, CallStays DEF Runs, Below
<1> QED
  BY <1>1, <1>2, <1>5, <1>7 DEF CallInv, CallsAnswer, CallsLeaveNothing

(* The end of a call that runs, in thread t.                               *)
LEMMA EndsClean ==
  ASSUME CallInv, stage = "running", NEW t \in Threads, NEW result, Ends(t, result),
         UNCHANGED <<call, memory, pending>>, current' = t,
         met' = {} => met = {} /\ (call.at # "function" => t = Caller)
  PROVE  CallsLeaveNothing'
<1>1. PICK top \in Top : pending.saved = Start(Caller, top)
  BY DEF CallInv, Staged
<1>2. /\ stage' = "ended" /\ breakpoint' = FALSE
      /\ context' = [context EXCEPT ![t] = pending.saved]
      /\ call' = call /\ memory' = memory /\ pending' = pending
  BY DEF Ends, Restored
<1>3. top \in Nat /\ Start(Caller, top).sp = top
  BY GivenAssumption, StartIs
<1>4. ~CalledOtherwise => Below(memory, top)
  BY <1>1, <1>3 DEF CallInv, Runs
<1>5. ASSUME met' = {}, call.at # "function"
      PROVE  context' = [u \in Threads |-> Start(u, top)]
  <2>1. t = Caller /\ \A u \in Threads \ {Caller} : context[u] = Start(u, 0)
    BY <1>5 DEF CallInv, Staged
  <2>2. \A u \in Threads \ {Caller} : Start(u, 0) = Start(u, top)
    BY DEF Start
  <2>3. context = [u \in Threads |-> context[u]]
    BY DEF CallInv, Staged
  <2> QED
    BY <1>1, <1>2, <2>1, <2>2, <2>3
<1>6. pending'.saved.sp = top
  BY <1>1, <1>2, <1>3
<1>7. IsAlone' => context' = [u \in Threads |-> Start(u, top)']
  BY <1>2, <1>5, CallStays DEF IsAlone
<1> QED
  BY <1>2, <1>4, <1>6, <1>7, CallStays DEF CallsLeaveNothing, Below

(* A call that is given up is cleaned up after.                            *)
LEMMA RaisesKeeps ==
  ASSUME NEW t \in Threads
  PROVE  CallInv /\ Raises(t) => CallInv'
<1> SUFFICES ASSUME CallInv, Raises(t) PROVE CallInv'
  OBVIOUS
<1>1. /\ stage = "running" /\ met = {}
      /\ context = [u \in Threads |-> context[u]]
      /\ \A u \in Threads \ {Caller} : context[u] = Start(u, 0)
  BY WhileRunning DEF Raises
<1>2. /\ Ends(t, Thrown) /\ current' = t
      /\ met' = IF t = Caller THEN met ELSE met \cup {"foreign"}
      /\ UNCHANGED <<call, memory, pending, received>>
  BY DEF Raises
<1>3. /\ stage' = "ended" /\ answer' = Thrown /\ breakpoint' = FALSE
      /\ context' = [context EXCEPT ![t] = pending.saved]
  BY <1>2 DEF Ends, Restored
<1>4. met' = {} => t = Caller
  BY <1>1, <1>2
<1>5. CallsLeaveNothing'
  BY <1>1, <1>2, <1>4, EndsClean
<1>6. context' = [u \in Threads |-> context'[u]]
  BY <1>1, <1>3
<1>7. met' = {} => \A u \in Threads \ {Caller} : context'[u] = Start(u, 0)
  BY <1>1, <1>3, <1>4
<1>8. Staged'
  BY <1>2, <1>3, <1>6, <1>7, StagedStays DEF CallInv
<1> QED
  BY <1>3, <1>5, <1>8 DEF CallInv, Runs, CallsAnswer

(* The result is read before the registers are put back.                   *)
LEMMA FinishKeeps == CallInv /\ Finish => CallInv'
<1> SUFFICES ASSUME CallInv, Finish PROVE CallInv'
  OBVIOUS
<1>1. /\ stage = "running" /\ IsDone
      /\ Ends(current, Answer(context[current]))
      /\ UNCHANGED <<call, memory, current, pending, received, met>>
  BY DEF Finish
<1>2. /\ stage' = "ended" /\ answer' = Answer(context[current]) /\ breakpoint' = FALSE
      /\ context' = [context EXCEPT ![current] = pending.saved]
  BY <1>1 DEF Ends, Restored
<1>3. current \in Threads /\ call \in Given /\ context = [u \in Threads |-> context[u]]
  BY DEF CallInv, Staged
<1>4. Supported /\ (met = {} => current = Caller) /\ (IsAlone /\ ~CalledOtherwise => HasAnswered)
  BY <1>1 DEF CallInv, Runs
<1>5. CallsLeaveNothing'
  BY <1>1, <1>3, <1>4, EndsClean DEF IsAlone
<1>6. Staged'
  <2>1. context' = [u \in Threads |-> context'[u]]
    BY <1>2, <1>3
  <2>2. met' = {} => \A u \in Threads \ {Caller} : context'[u] = Start(u, 0)
    <3>1. ASSUME met' = {}, NEW u \in Threads \ {Caller} PROVE context'[u] = Start(u, 0)
      <4>1. context[u] = Start(u, 0)
        BY <1>1, <3>1 DEF CallInv, Staged
      <4>2. current = Caller
        BY <1>1, <1>4, <3>1
      <4> QED
        BY <1>2, <1>3, <3>1, <4>1, <4>2
    <3> QED
      BY <3>1
  <2> QED
    BY <1>1, <1>2, <1>3, <2>1, <2>2, StagedStays DEF CallInv
<1>7. CallsAnswer'
  <2>1. ASSUME answer' # Thrown, IsAlone, ~CalledOtherwise
        PROVE  /\ received = [j \in 1..Len(call.params) |-> Meant(j)]
               /\ answer' = Result(Size(call.returns))
    <3>1. current = Caller /\ HasAnswered
      BY <1>4, <2>1 DEF IsAlone
    <3> QED
      BY <1>2, <1>3, <1>4, <2>1, <3>1, AnswerIs DEF HasAnswered
  <2> QED
    BY <1>1, <1>2, <2>1, CallStays DEF CallsAnswer, IsAlone, Result, Bytes
<1> QED
  BY <1>2, <1>5, <1>6, <1>7 DEF CallInv, Runs

(* Nothing changes if nothing happens.                                     *)
LEMMA CallStutters == CallInv /\ UNCHANGED vars => CallInv'
<1> SUFFICES ASSUME CallInv, UNCHANGED vars PROVE CallInv'
  OBVIOUS
<1>1. UNCHANGED <<call, context, memory, current, breakpoint, stage, pending, answer, received, met>>
  BY DEF vars
<1>2. Staged'
  <2>1. PICK top \in Top : pending.saved = Start(Caller, top)
    BY DEF CallInv, Staged
  <2>2. pending'.saved = Start(Caller, top)'
    BY <1>1, <2>1, CallStays
  <2>3. met = {} => \A t \in Threads \ {Caller} : context'[t] = Start(t, 0)'
    BY <1>1, CallStays DEF CallInv, Staged
  <2> QED
    BY <1>1, <2>2, <2>3 DEF CallInv, Staged
<1>3. Prepared(context[Caller], memory)' = Prepared(context[Caller], memory)
  BY <1>1 DEF Prepared
<1>4. IsPrepared(Prepared(context[Caller], memory), pending.saved.sp, pending.room)' <=>
        IsPrepared(Prepared(context[Caller], memory), pending.saved.sp, pending.room)
  BY <1>1, <1>3, CallStays
<1>5. HasAnswered' <=> HasAnswered
  BY <1>1, CallStays DEF HasAnswered, Read, Result, Bytes
<1>6. Runs'
  BY <1>1, <1>4, <1>5, CallStays DEF CallInv, Runs, IsDone, IsAlone, Below
<1>7. CallsAnswer'
  BY <1>1, CallStays DEF CallInv, CallsAnswer, IsAlone, Result, Bytes
<1>8. CallsLeaveNothing'
  BY <1>1, CallStays DEF CallInv, CallsLeaveNothing, IsAlone
<1> QED
  BY <1>2, <1>6, <1>7, <1>8 DEF CallInv

(* The invariant always holds.                                             *)
THEOREM CallInvariant == Spec => []CallInv
<1>1. CallInv /\ [Next]_vars => CallInv'
  <2> SUFFICES ASSUME CallInv, [Next]_vars PROVE CallInv'
    OBVIOUS
  <2>1. CASE Ask
    BY <2>1, AskKeeps
  <2>2. CASE Refuse
    BY <2>2, RefuseKeeps
  <2>3. CASE Returns
    BY <2>3, ReturnsKeeps
  <2>4. CASE Recurs
    BY <2>4, RecursKeeps
  <2>5. CASE Finish
    BY <2>5, FinishKeeps
  <2>6. ASSUME NEW t \in Threads, Shares(t) \/ Stops(t) \/ Raises(t)
        PROVE  CallInv'
    BY <2>6, SharesKeeps, StopsKeeps, RaisesKeeps
  <2>7. CASE UNCHANGED vars
    BY <2>7, CallStutters
  <2> QED
    BY <2>1, <2>2, <2>3, <2>4, <2>5, <2>6, <2>7 DEF Next
<1> QED
  BY <1>1, CallBegins, PTL DEF Spec

(* A call that returns something has run the function with the arguments   *)
(* that were meant, and returns what the function did.                     *)
THEOREM CallsAlwaysAnswer == Spec => []CallsAnswer
<1>1. CallInv => CallsAnswer
  BY DEF CallInv
<1> QED
  BY <1>1, CallInvariant, PTL

(* Nothing is left of a call, however it ends.                             *)
THEOREM CallsAlwaysLeaveNothing == Spec => []CallsLeaveNothing
<1>1. CallInv => CallsLeaveNothing
  BY DEF CallInv
<1> QED
  BY <1>1, CallInvariant, PTL
=============================================================================
