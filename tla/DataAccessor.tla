---------------------------- MODULE DataAccessor ----------------------------
(***************************************************************************)
(* Accessors to data (source/dataaccessorimpl.h), and what they call of    *)
(* source/memaccess.cpp and win/dbgmem.cpp.                                *)
(*                                                                         *)
(* Sizes are scaled: an element has a size of Sizes, of which DoubleSize,  *)
(* sizeof(double), is the largest.  The ten element types differ in size   *)
(* only.  Addresses are those of a 64 bit target, where addr64 is the      *)
(* identity.  An operation is a set of outcomes, since a range that is     *)
(* read through a copy has bytes that nobody wrote.  Operations that only  *)
(* read are operators; callers stay within the contract that a position is *)
(* one of the elements or the end, and that a range is not empty.          *)
(***************************************************************************)
EXTENDS Integers, Sequences, FiniteSets

CONSTANTS
  Accessors,    \* accessor objects
  Memory,       \* the debuggee's memory, as a store
  Register,     \* the register that register accessors name, as a store
  CellCount,    \* bound: cells of a store
  RegisterSize, \* getRegisterSize
  Bytes,        \* what a cell may have
  Garbage,      \* a byte that nobody wrote
  Others,       \* what the debuggee writes
  Sizes,        \* sizes of elements
  DoubleSize,   \* sizeof(double)
  Ranges,       \* where memory accessors are made: begin and length
  Initial,      \* the contents to begin with
  Contents,     \* what caches are made of
  Inputs,       \* what is written
  ValidCells,   \* the sets of memory cells that may be valid
  MaxWrites,    \* bound: writes, by accessors and by the debuggee
  Nobody,       \* not one of the accessors
  None          \* not made, failed

Cells == 0..(CellCount - 1)
Stores == {Memory, Register} \cup Accessors

ASSUME StoresAssumption ==
  /\ Memory \notin Accessors /\ Register \notin Accessors /\ Memory # Register
  /\ Nobody \notin Accessors

ASSUME SizesAssumption ==
  /\ CellCount \in Nat /\ RegisterSize \in 0..CellCount
  /\ Sizes \subseteq Nat \ {0} /\ DoubleSize \in Nat \ {0}
  /\ \A size \in Sizes :
       size <= DoubleSize /\ (size <= RegisterSize => RegisterSize % size = 0)

ASSUME DataAssumption ==
  /\ Garbage \in Bytes /\ Others \subseteq Bytes
  /\ Initial \subseteq [Stores -> [Cells -> Bytes]]
  /\ Ranges \subseteq [begin : Nat, length : Nat]
  /\ Contents \subseteq Seq(Bytes) /\ Inputs \subseteq Seq(Bytes) \ {<<>>}
  /\ \A c \in Contents : Len(c) <= CellCount
  /\ ValidCells \subseteq SUBSET Cells
  /\ MaxWrites \in Nat

(* The length -1: as much as there is.                                     *)
Rest == -1

VARIABLES
  accessor,  \* accessor[a]: its class, and where it looks
  content,   \* content[s]: the cells of a store; a cache has one of its own
  valid,     \* the memory cells that can be read and written
  actor,     \* history: the accessor called last, if nothing else happened
  behind,    \* history: did it write a range behind the doubles it has room for?
  writes     \* writes so far

vars == <<accessor, content, valid, actor, behind, writes>>

Kinds == {"empty", "memory", "cache", "register", "copy"}

Places == [kind : Kinds, store : Stores, begin : Nat, length : Nat]

ASSUME NoneAssumption ==
  /\ None \notin Places /\ None \notin [store : Stores, begin : Nat, length : Nat]
  /\ None \notin Seq(Bytes)

Made == {a \in Accessors : accessor[a] # None}

Is(a, kind) == accessor[a] # None /\ accessor[a].kind = kind

(* A copy looks into a cache, and does not reach out of it.                *)
Inside(a) ==
  LET cache == accessor[accessor[a].store] IN
  /\ accessor[a].store \in Accessors
  /\ Is(accessor[a].store, "cache")
  /\ accessor[a].begin + accessor[a].length <= cache.length

TypeOK ==
  /\ accessor \in [Accessors -> Places \cup {None}]
  /\ \A a \in Accessors :
       /\ Is(a, "copy") => Inside(a)
       /\ Is(a, "cache") => /\ accessor[a].store = a /\ accessor[a].begin = 0
                            /\ accessor[a].length <= CellCount
       /\ Is(a, "memory") => accessor[a].store = Memory
       /\ Is(a, "register") => accessor[a].begin = 0 /\ accessor[a].length <= CellCount
  /\ content \in [Stores -> [Cells -> Bytes]]
  /\ valid \subseteq Cells
  /\ actor \in Accessors \cup {Nobody}
  /\ behind \in BOOLEAN
  /\ writes \in Nat
-----------------------------------------------------------------------------
(* size_t subtraction wraps around: a range that begins behind the last    *)
(* element is not refused.                                                 *)
Exceeds(count, elements, pos) == pos <= elements /\ count > elements - pos

Elements(a, size) == accessor[a].length \div size

(* Fault: the position counts bytes.                                       *)
Offset_Bytes(a, size, pos) == accessor[a].begin + pos

(* Where an element is, in the accessor's store.                           *)
Offset(a, size, pos) == accessor[a].begin + pos * size

Span(from, n) == from..(from + n - 1)

At(a, from, n) == [i \in 1..n |-> content[accessor[a].store][from + i - 1]]

Put(a, from, bytes) ==
  [content EXCEPT ![accessor[a].store] = [i \in Cells |->
     IF i \in Span(from, Len(bytes)) THEN bytes[i - from + 1] ELSE @[i]]]

(* What the store checks in its turn: ReadVirtual and GetValidRegionVirtual*)
(* want valid cells, readBytes and writeBytes of the cache its own range.  *)
StoreHas(a, from, n) ==
  /\ Is(a, "memory") => Span(from, n) \subseteq valid
  /\ Is(a, "copy") => ~Exceeds(n, accessor[accessor[a].store].length, from)

Failed == {None}

(* readByte ... readDouble; the empty accessor throws.                     *)
ReadElement(a, size, pos) ==
  LET from == Offset(a, size, pos) IN
  IF Is(a, "empty") \/ pos >= Elements(a, size) \/ ~StoreHas(a, from, size)
  THEN Failed
  ELSE {At(a, from, size)}

(* readBytes ... readDoubles.  A copy asks its cache for count bytes where *)
(* it needs count elements; what is behind them is whatever was there.     *)
ReadRange(a, size, count, pos) ==
  LET from == Offset(a, size, pos)
      asked == IF Is(a, "copy") THEN count ELSE count * size IN
  IF \/ Is(a, "empty") \/ Exceeds(count, Elements(a, size), pos)
     \/ ~StoreHas(a, from, asked)
  THEN Failed
  ELSE {[i \in 1..(count * size) |-> IF i <= asked THEN At(a, from, asked)[i] ELSE Garbage]}
-----------------------------------------------------------------------------
(* An operation that failed, and one that put bytes somewhere.             *)
Refused == [ok |-> FALSE, content |-> content]
Done(a, from, bytes) == [ok |-> TRUE, content |-> Put(a, from, bytes)]

(* What WriteVirtual does of a range that is valid in part only: refuse it,*)
(* as memorytest.cpp has it of a live target, or write what it can.        *)
Engines == {"refuses", "tears"}

(* How much it writes; it succeeds if that is not nothing, and writeMemory *)
(* does not ask how much it was.                                           *)
Writable(engine, from, n) ==
  LET able == Cardinality({k \in 1..n : Span(from, k) \subseteq valid}) IN
  IF engine = "refuses" /\ able # n THEN 0 ELSE able

(* writeByte ... writeDouble.                                              *)
WriteElement(a, size, bytes, pos, engine) ==
  LET from == Offset(a, size, pos) IN
  IF Is(a, "empty") \/ pos >= Elements(a, size)
  THEN Refused
  ELSE IF Is(a, "memory")
  THEN LET able == Writable(engine, from, size) IN
       IF able = 0 THEN Refused ELSE Done(a, from, SubSeq(bytes, 1, able))
  ELSE IF StoreHas(a, from, size) THEN Done(a, from, bytes) ELSE Refused

(* Fault: the memory is not probed before it is written.                   *)
WriteRange_Unprobed(a, size, bytes, pos) ==
  LET from == Offset(a, size, pos)
      count == Len(bytes) \div size
      able == Writable("tears", from, Len(bytes))
      limit == IF Is(a, "copy") THEN Elements(a, DoubleSize) ELSE Elements(a, size) IN
  IF Is(a, "empty") \/ Exceeds(count, limit, pos)
  THEN Refused
  ELSE IF Is(a, "memory")
  THEN IF able = 0 THEN Refused ELSE Done(a, from, SubSeq(bytes, 1, able))
  ELSE IF StoreHas(a, from, Len(bytes)) THEN Done(a, from, bytes) ELSE Refused

(* writeBytes ... writeDoubles.  A copy compares the number of elements    *)
(* with the number of doubles that it has room for.                        *)
WriteRange(a, size, bytes, pos) ==
  LET from == Offset(a, size, pos)
      count == Len(bytes) \div size
      limit == IF Is(a, "copy") THEN Elements(a, DoubleSize) ELSE Elements(a, size) IN
  IF Is(a, "empty") \/ Exceeds(count, limit, pos) \/ ~StoreHas(a, from, Len(bytes))
  THEN Refused
  ELSE Done(a, from, bytes)
-----------------------------------------------------------------------------
Looking(kind, store, begin, length) ==
  [kind |-> kind, store |-> store, begin |-> begin, length |-> length]

(* Fault: the length is compared with all that the cache has.              *)
CopyOf_WholeLength(cache, pos, length) ==
  IF accessor[cache].length <= pos \/ accessor[cache].length < length
  THEN None
  ELSE Looking("copy", cache, pos, length)

(* The constructor of CopyAccessor: not at the end, not over it.           *)
CopyOf(cache, pos, length) ==
  IF accessor[cache].length <= pos \/ accessor[cache].length - pos < length
  THEN None
  ELSE Looking("copy", cache, pos, length)

(* Fault: a copy of a copy begins where the cache does.                    *)
Copied_Relative(a, start, length) ==
  LET have == accessor[a].length
      n == IF length = Rest THEN have - start ELSE length
      outside == (n > 0 /\ start >= have) \/ have - start < n IN
  CASE Is(a, "memory") ->
         IF outside THEN None
         ELSE Looking("memory", Memory, accessor[a].begin + start, n)
    [] Is(a, "copy") -> IF outside THEN None ELSE CopyOf(accessor[a].store, start, n)
    [] Is(a, "cache") -> IF length = Rest THEN None ELSE CopyOf(a, start, length)
    [] OTHER -> None

(* copy(start, length), start being in the accessor or at its end.  A cache*)
(* takes the default length literally, which is more than it has; what is  *)
(* empty or a register cannot be copied.                                   *)
Copied(a, start, length) ==
  LET have == accessor[a].length
      n == IF length = Rest THEN have - start ELSE length
      outside == (n > 0 /\ start >= have) \/ have - start < n IN
  CASE Is(a, "memory") ->
         IF outside THEN None
         ELSE Looking("memory", Memory, accessor[a].begin + start, n)
    [] Is(a, "copy") ->
         IF outside THEN None
         ELSE CopyOf(accessor[a].store, accessor[a].begin + start, n)
    [] Is(a, "cache") -> IF length = Rest THEN None ELSE CopyOf(a, start, length)
    [] OTHER -> None
-----------------------------------------------------------------------------
Make(a, place) ==
  /\ accessor[a] = None
  /\ accessor' = [accessor EXCEPT ![a] = place]
  /\ behind' = FALSE
  /\ UNCHANGED <<valid, writes>>

GetEmptyAccessor(a) ==
  Make(a, Looking("empty", a, 0, 0)) /\ actor' = Nobody /\ UNCHANGED content

(* Any range: whether there is memory is seen when it is used.             *)
GetMemoryAccessor(a) ==
  /\ \E r \in Ranges : Make(a, Looking("memory", Memory, r.begin, r.length))
  /\ actor' = Nobody
  /\ UNCHANGED content

GetRegisterAccessor(a) ==
  /\ Make(a, Looking("register", Register, 0, RegisterSize))
  /\ actor' = Nobody
  /\ UNCHANGED content

(* From a buffer, a size, a structure or a number: so many bytes.          *)
GetCacheAccessor(a) ==
  \E bytes \in Contents :
    /\ Make(a, Looking("cache", a, 0, Len(bytes)))
    /\ content' = [content EXCEPT ![a] = [i \in Cells |->
         IF i < Len(bytes) THEN bytes[i + 1] ELSE @[i]]]
    /\ actor' = Nobody

(* copy, if it does not throw.                                             *)
Copy(a, b, start, length) ==
  /\ accessor[b] # None /\ start <= accessor[b].length
  /\ Copied(b, start, length) # None
  /\ Make(a, Copied(b, start, length))
  /\ actor' = b
  /\ UNCHANGED content

(* Accessor a has done its part of a write.                                *)
Written(a, outcome) ==
  /\ writes < MaxWrites
  /\ writes' = writes + 1
  /\ content' = outcome.content
  /\ actor' = a
  /\ UNCHANGED <<accessor, valid>>

Write(a, size, bytes, pos) ==
  /\ accessor[a] # None /\ pos <= Elements(a, size)
  /\ Len(bytes) = size
  /\ \E engine \in Engines : Written(a, WriteElement(a, size, bytes, pos, engine))
  /\ behind' = FALSE

WriteAll(a, size, bytes, pos) ==
  /\ accessor[a] # None /\ pos <= Elements(a, size)
  /\ Len(bytes) % size = 0
  /\ Written(a, WriteRange(a, size, bytes, pos))
  /\ behind' = (pos > Elements(a, DoubleSize))

(* TypedVar::writeBytes: size bytes, the size of the variable's type, from *)
(* its accessor b into a, from pos on.                                     *)
Transfer(a, b, size, pos) ==
  /\ accessor[a] # None /\ accessor[b] # None /\ pos <= accessor[a].length
  /\ \E bytes \in ReadRange(b, 1, size, 0) :
       Written(a, IF bytes = None THEN Refused ELSE WriteRange(a, 1, bytes, pos))
  /\ behind' = (pos > Elements(a, DoubleSize))

(* The debuggee writes or, for a register, another thread becomes current. *)
Happen ==
  /\ writes < MaxWrites
  /\ writes' = writes + 1
  /\ \E s \in {Memory, Register}, i \in Cells, b \in Others :
       content' = [content EXCEPT ![s][i] = b]
  /\ actor' = Nobody
  /\ behind' = FALSE
  /\ UNCHANGED <<accessor, valid>>

(* Memory is allocated, protected and freed.                               *)
Map ==
  /\ valid' \in ValidCells
  /\ actor' = Nobody
  /\ behind' = FALSE
  /\ UNCHANGED <<accessor, content, writes>>

Init ==
  /\ accessor = [a \in Accessors |-> None]
  /\ content \in Initial
  /\ valid \in ValidCells
  /\ actor = Nobody
  /\ behind = FALSE
  /\ writes = 0

Next ==
  \/ Happen
  \/ Map
  \/ \E a \in Accessors :
       \/ GetEmptyAccessor(a)
       \/ GetMemoryAccessor(a)
       \/ GetRegisterAccessor(a)
       \/ GetCacheAccessor(a)
       \/ \E b \in Accessors, start \in Cells, length \in Cells \cup {CellCount, Rest} :
            Copy(a, b, start, length)
       \/ \E size \in Sizes, bytes \in Inputs, pos \in Cells \cup {CellCount} :
            Write(a, size, bytes, pos) \/ WriteAll(a, size, bytes, pos)
       \/ \E b \in Accessors, size \in 1..CellCount, pos \in Cells \cup {CellCount} :
            Transfer(a, b, size, pos)

Spec == Init /\ [][Next]_vars
-----------------------------------------------------------------------------
(* Byte i of what a sees, as readByte answers; a set without it if not.    *)
Byte(a, i) == {b[1] : b \in ReadElement(a, 1, i) \ Failed}

(* The bytes of a from one on, if all of them can be read.                 *)
InBytes(a, from, n) ==
  IF \E i \in Span(from, n) : Byte(a, i) = {}
  THEN Failed
  ELSE {[i \in 1..n |-> CHOOSE b \in Byte(a, from + i - 1) : TRUE]}

(* How many bytes of a range were read: the others are what was there.     *)
Reliable(a, size, count) == IF Is(a, "copy") THEN count ELSE count * size

RangeAgrees(a, size, pos, count) ==
  LET told == InBytes(a, pos * size, count * size) IN
  \/ told = Failed /\ ReadRange(a, size, count, pos) = Failed
  \/ \E bytes \in told \ Failed : \A read \in ReadRange(a, size, count, pos) :
       /\ read # None /\ Len(read) = count * size
       /\ \A i \in 1..Reliable(a, size, count) : read[i] = bytes[i]

(* Elements and ranges of every size are the bytes of the accessor, in     *)
(* order, whatever it looks into and however it was made; of a range of    *)
(* larger elements that is read through a copy, only the first are.        *)
ReadsAgree ==
  \A a \in Made, size \in Sizes : \A pos \in 0..Elements(a, size) :
      /\ ReadElement(a, size, pos) =
           IF pos < Elements(a, size) THEN InBytes(a, pos * size, size) ELSE Failed
      /\ \A count \in 1..CellCount : RangeAgrees(a, size, pos, count)

(* A range through a copy that begins behind the last double it would have *)
(* room for is not compared with its length.                               *)
Astray(a, pos) == Is(a, "copy") /\ pos > Elements(a, DoubleSize)

(* As far as a write through a may reach: it ends with a, or with the cache*)
(* that a is a copy of.                                                    *)
Reach(a, stray) ==
  IF stray THEN accessor[accessor[a].store].length - accessor[a].begin
  ELSE accessor[a].length

(* What a sees has the bytes from one on, and nothing else has changed.    *)
Replaced(a, outcome, from, bytes, reach) ==
  /\ outcome.ok
  /\ from + Len(bytes) <= reach
  /\ \A s \in Stores, i \in Cells :
       LET at == i - accessor[a].begin IN
       outcome.content[s][i] =
         IF s = accessor[a].store /\ at \in Span(from, Len(bytes))
         THEN bytes[at - from + 1]
         ELSE content[s][i]

Whole(a, outcome, from, bytes, reach) ==
  outcome = Refused \/ Replaced(a, outcome, from, bytes, reach)

(* What an engine that tears does of an element on the edge of the valid   *)
(* memory: the part before the edge is written, and nobody is told.        *)
Torn(a, outcome, size, pos, bytes) ==
  /\ Is(a, "memory")
  /\ \E n \in 1..(size - 1) :
       /\ Span(Offset(a, size, pos), n) \subseteq valid
       /\ ~(Span(Offset(a, size, pos), size) \subseteq valid)
       /\ Replaced(a, outcome, pos * size, SubSeq(bytes, 1, n), Reach(a, FALSE))

(* A write that reports success has written everything, where it should,   *)
(* and nothing else, and one that fails nothing.  Two cases differ, and in *)
(* no more than this: an engine that tears may write the valid part of an  *)
(* element only, and a range that goes astray may reach behind its copy.   *)
WritesAreWhole ==
  \A a \in Made, size \in Sizes, bytes \in Inputs : \A pos \in 0..Elements(a, size) :
      /\ Len(bytes) = size
         => \A engine \in Engines :
              LET outcome == WriteElement(a, size, bytes, pos, engine) IN
              \/ Whole(a, outcome, pos * size, bytes, Reach(a, FALSE))
              \/ engine = "tears" /\ Torn(a, outcome, size, pos, bytes)
      /\ Len(bytes) % size = 0
         => Whole(a, WriteRange(a, size, bytes, pos), pos * size, bytes,
                  Reach(a, Astray(a, pos)))

(* Reads give, and writes change, the bytes that are asked for.            *)
MovesItsBytes == ReadsAgree /\ WritesAreWhole

(* What an accessor stands for.                                            *)
Seen(a) ==
  [store |-> accessor[a].store, begin |-> accessor[a].begin, length |-> accessor[a].length]

Views == INSTANCE DataViews
           WITH Outside <- {Memory, Register},
                view <- [a \in Accessors |-> IF accessor[a] = None THEN None ELSE Seen(a)]

WentAstray == behind /\ \E a \in Accessors : actor = a /\ Is(a, "copy")

(* Accessors are views: see DataViews.  The exception is a range that is   *)
(* written through a copy from behind its last double on: it may end up    *)
(* behind the copy in the cache.                                           *)
StepsAreViewSteps ==
  Views!Init /\ [][~WentAstray' => Views!Next]_(Views!vars)
=============================================================================
