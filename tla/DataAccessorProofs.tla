------------------------ MODULE DataAccessorProofs ------------------------
(***************************************************************************)
(* Theorems about accessors, for any number of them, any sizes and data.   *)
(***************************************************************************)
EXTENDS DataAccessor, FiniteSetTheorems, TLAPS

Data == [Stores -> [Cells -> Bytes]]

(* The cells that accessor a stands for.                                   *)
InView(a, s, i) ==
  s = accessor[a].store /\ accessor[a].begin <= i /\ i < accessor[a].begin + accessor[a].length

(* Contents that differ from those there are inside of the view of a only. *)
ChangesOnly(a, cells) ==
  \A s \in Stores : \A i \in Cells : ~InView(a, s, i) => cells[s][i] = content[s][i]

(* The elements of a place lie inside of it.                               *)
LEMMA ElementsFit ==
  ASSUME NEW length \in Nat, NEW size \in Nat \ {0}, NEW n \in Nat, n <= length \div size
  PROVE  n * size <= length /\ n * size \in Nat
<1>1. /\ length \div size \in Nat
      /\ length = size * (length \div size) + (length % size)
      /\ length % size \in Nat
  BY SMT
<1> DEFINE q == length \div size
<1>2. n * size \in Nat /\ q * size \in Nat /\ q * size = size * q
  BY <1>1, SMT
<1>3. n * size <= q * size
  <2> HIDE DEF q
  <2>1. q \in Nat /\ n <= q
    BY <1>1 DEF q
  <2>2. q - n \in Nat
    BY <2>1
  <2>3. (q - n) * size \in Nat
    BY <2>2, SMT
  <2>4. (q - n) * size = q * size - n * size
    BY <2>1, SMT
  <2> QED BY <2>3, <2>4, <1>2, <2>1, SMT
<1>4. QED
  <2> HIDE DEF q
  <2>1. length = q * size + (length % size)
    BY <1>1, <1>2 DEF q
  <2> QED BY <2>1, <1>1, <1>2, <1>3

(* So many elements fit exactly if their bytes do.                         *)
LEMMA FitsInBytes ==
  ASSUME NEW length \in Nat, NEW size \in Nat \ {0}, NEW n \in Nat
  PROVE  /\ n * size \in Nat
         /\ n <= length \div size <=> n * size <= length
<1>1. CASE n <= length \div size
  BY <1>1, ElementsFit
<1>2. CASE ~(n <= length \div size)
  <2> DEFINE q == length \div size
  <2>1. /\ q \in Nat
        /\ length = size * q + (length % size)
        /\ length % size \in 0..(size - 1)
    BY SMT
  <2>2. n - (q + 1) \in Nat
    <3> HIDE DEF q
    <3>1. ~(n <= q)
      BY <1>2 DEF q
    <3> QED BY <2>1, <3>1
  <2> HIDE DEF q
  <2>3. (n - (q + 1)) * size \in Nat
    BY <2>2, SMT
  <2>4. (n - (q + 1)) * size = n * size - size * q - size
    BY <2>1, SMT
  <2>5. n * size \in Nat /\ size * q \in Nat
    BY <2>1, SMT
  <2>6. n * size > length
    BY <2>1, <2>3, <2>4, <2>5
  <2> QED BY <1>2, <2>5, <2>6
<1>3. QED
  BY <1>1, <1>2

(* What is known of an accessor that has been made.                        *)
LEMMA MadeIsPlace ==
  ASSUME TypeOK, NEW a \in Made
  PROVE  /\ a \in Accessors /\ accessor[a] # None /\ accessor[a] \in Places
         /\ accessor[a].kind \in Kinds /\ accessor[a].store \in Stores
         /\ accessor[a].begin \in Nat /\ accessor[a].length \in Nat
BY DEF TypeOK, Made, Places

(* An element that is there lies inside of the accessor, one that is not   *)
(* reaches out of it.                                                      *)
LEMMA ElementInside ==
  ASSUME TypeOK, NEW a \in Made, NEW size \in Nat \ {0}, NEW pos \in Nat, NEW n \in Nat
  PROVE  /\ Elements(a, size) \in Nat
         /\ pos * size \in Nat /\ n * size \in Nat
         /\ pos + n <= Elements(a, size) <=> pos * size + n * size <= accessor[a].length
<1>1. accessor[a].length \in Nat
  BY MadeIsPlace
<1>2. pos * size \in Nat /\ n * size \in Nat /\ (pos + n) * size = pos * size + n * size
  BY SMT
<1>3. pos + n <= accessor[a].length \div size <=> (pos + n) * size <= accessor[a].length
  BY <1>1, FitsInBytes
<1>4. accessor[a].length \div size \in Nat
  BY <1>1, SMT
<1>5. QED
  BY <1>2, <1>3, <1>4 DEF Elements

(* Where doubles have room, so have elements, which are not larger.        *)
LEMMA DoublesAreElements ==
  ASSUME TypeOK, NEW a \in Made, NEW size \in Nat \ {0}, size <= DoubleSize
  PROVE  Elements(a, DoubleSize) \in Nat /\ Elements(a, DoubleSize) <= Elements(a, size)
<1> DEFINE n == Elements(a, DoubleSize)
<1>1. accessor[a].length \in Nat /\ DoubleSize \in Nat \ {0}
  BY MadeIsPlace, SizesAssumption
<1>2. n \in Nat
  BY <1>1, SMT DEF Elements
<1>3. n * DoubleSize \in Nat /\ n * DoubleSize <= accessor[a].length
  BY <1>1, <1>2, FitsInBytes DEF Elements
<1>4. n * size \in Nat /\ n * (DoubleSize - size) \in Nat
  <2>1. DoubleSize - size \in Nat
    BY <1>1
  <2> HIDE DEF n
  <2> QED BY <1>2, <2>1, SMT
<1>5. n * (DoubleSize - size) = n * DoubleSize - n * size
  <2> HIDE DEF n
  <2> QED BY <1>1, <1>2, SMT
<1> HIDE DEF n
<1>6. n * size <= accessor[a].length
  BY <1>1, <1>3, <1>4, <1>5
<1>7. n <= accessor[a].length \div size
  BY <1>1, <1>2, <1>6, FitsInBytes
<1>8. QED
  BY <1>2, <1>7 DEF n, Elements

(* A range that is accepted and does not go astray lies inside of the view.*)
LEMMA RangeInside ==
  ASSUME TypeOK, NEW a \in Made, NEW size \in Nat \ {0}, size <= DoubleSize,
         NEW bytes \in Seq(Bytes), Len(bytes) % size = 0, NEW pos \in Nat,
         pos <= Elements(a, size), ~Astray(a, pos),
         ~Exceeds(Len(bytes) \div size,
                  IF Is(a, "copy") THEN Elements(a, DoubleSize) ELSE Elements(a, size), pos)
  PROVE  pos * size \in Nat /\ pos * size + Len(bytes) <= accessor[a].length
<1> DEFINE count == Len(bytes) \div size
<1>1. Len(bytes) \in Nat
  OBVIOUS
<1>2. count \in Nat /\ Len(bytes) = size * count + (Len(bytes) % size)
  BY <1>1, SMT
<1>3. pos + count <= Elements(a, size)
  <2>1. /\ Elements(a, DoubleSize) \in Nat /\ Elements(a, size) \in Nat
        /\ Elements(a, DoubleSize) <= Elements(a, size)
    BY DoublesAreElements, ElementInside
  <2> HIDE DEF count
  <2>2. CASE Is(a, "copy")
    <3>1. pos <= Elements(a, DoubleSize)
      BY <2>1, <2>2 DEF Astray
    <3>2. ~Exceeds(count, Elements(a, DoubleSize), pos)
      BY <2>2 DEF count
    <3> QED BY <1>2, <2>1, <3>1, <3>2 DEF Exceeds
  <2>3. CASE ~Is(a, "copy")
    <3>1. ~Exceeds(count, Elements(a, size), pos)
      BY <2>3 DEF count
    <3> QED BY <1>2, <2>1, <3>1 DEF Exceeds
  <2> QED BY <2>2, <2>3
<1>4. size * count = count * size /\ count * size \in Nat
  BY <1>2, SMT
<1> HIDE DEF count
<1>5. Len(bytes) = count * size
  BY <1>1, <1>2, <1>4
<1>6. /\ pos * size \in Nat
      /\ pos + count <= Elements(a, size) <=> pos * size + count * size <= accessor[a].length
  BY <1>2, ElementInside
<1>7. QED
  BY <1>3, <1>5, <1>6

(* What is put somewhere is data.                                          *)
LEMMA PutTyped ==
  ASSUME TypeOK, NEW a \in Made, NEW from \in Nat, NEW bytes \in Seq(Bytes)
  PROVE  Put(a, from, bytes) \in Data
<1>1. accessor[a].store \in Stores
  BY DEF TypeOK, Made, Places
<1>2. \A i \in Span(from, Len(bytes)) : bytes[i - from + 1] \in Bytes
  BY DEF Span
<1>3. QED
  BY <1>1, <1>2 DEF Put, TypeOK, Data, Cells

(* What is put inside of a view stays there.                               *)
LEMMA PutWithin ==
  ASSUME TypeOK, NEW a \in Made, NEW from \in Nat, NEW bytes \in Seq(Bytes),
         accessor[a].begin <= from,
         from + Len(bytes) <= accessor[a].begin + accessor[a].length
  PROVE  ChangesOnly(a, Put(a, from, bytes))
<1>1. accessor[a].store \in Stores /\ accessor[a].begin \in Nat /\ accessor[a].length \in Nat
  BY DEF TypeOK, Made, Places
<1> SUFFICES ASSUME NEW s \in Stores, NEW i \in Cells, ~InView(a, s, i)
             PROVE  Put(a, from, bytes)[s][i] = content[s][i]
  BY DEF ChangesOnly
<1>2. i \in Nat /\ Len(bytes) \in Nat
  BY DEF Cells, StoresAssumption, SizesAssumption
<1>3. CASE s # accessor[a].store
  BY <1>1, <1>3 DEF Put, TypeOK
<1>4. CASE s = accessor[a].store
  <2>1. i \notin Span(from, Len(bytes))
    BY <1>1, <1>2, <1>4 DEF InView, Span
  <2> QED BY <1>1, <1>4, <2>1 DEF Put, TypeOK
<1>5. QED
  BY <1>3, <1>4

(* The engine writes nothing more than it is given.                        *)
LEMMA WritableIsPart ==
  ASSUME NEW engine, NEW from, NEW n \in Nat
  PROVE  Writable(engine, from, n) \in 0..n
<1> DEFINE able == {k \in 1..n : Span(from, k) \subseteq valid}
<1>1. IsFiniteSet(1..n) /\ Cardinality(1..n) = n
  BY FS_Interval, SMT
<1>2. able \subseteq 1..n
  OBVIOUS
<1>3. Cardinality(able) <= n /\ Cardinality(able) \in Nat
  BY <1>1, <1>2, FS_Subset, FS_CardinalityType, Zenon
<1>4. QED
  BY <1>3 DEF Writable

(* Where an element or a range begins.                                     *)
LEMMA OffsetIsPlace ==
  ASSUME TypeOK, NEW a \in Made, NEW size \in Nat \ {0}, NEW pos \in Nat
  PROVE  /\ pos * size \in Nat
         /\ Offset(a, size, pos) \in Nat
         /\ Offset(a, size, pos) = accessor[a].begin + pos * size
<1>1. pos * size \in Nat
  BY SMT
<1>2. accessor[a].begin \in Nat
  BY DEF TypeOK, Made, Places
<1>3. QED
  BY <1>1, <1>2 DEF Offset

(* An element is written inside of the view, if it is written.             *)
LEMMA ElementWritten ==
  ASSUME TypeOK, NEW a \in Made, NEW size \in Nat \ {0}, NEW bytes \in Seq(Bytes),
         Len(bytes) = size, NEW pos \in Nat, NEW engine
  PROVE  /\ WriteElement(a, size, bytes, pos, engine).content \in Data
         /\ ChangesOnly(a, WriteElement(a, size, bytes, pos, engine).content)
<1> DEFINE from == Offset(a, size, pos)
           able == Writable(engine, from, size)
           part == SubSeq(bytes, 1, able)
<1>1. CASE Is(a, "empty") \/ pos >= Elements(a, size)
  BY <1>1 DEF WriteElement, Refused, ChangesOnly, TypeOK, Data
<1>2. CASE ~(Is(a, "empty") \/ pos >= Elements(a, size))
  <2>1. accessor[a].length \in Nat /\ accessor[a].begin \in Nat
    BY DEF TypeOK, Made, Places
  <2>2. pos + 1 \in Nat /\ pos + 1 <= accessor[a].length \div size
    <3>1. accessor[a].length \div size \in Int
      BY <2>1, SMT
    <3> QED BY <1>2, <3>1 DEF Elements
  <2>3. (pos + 1) * size <= accessor[a].length
    BY <2>1, <2>2, ElementsFit
  <2>4. (pos + 1) * size = pos * size + size
    BY SMT
  <2>5. /\ from \in Nat
        /\ accessor[a].begin <= from
        /\ from + size <= accessor[a].begin + accessor[a].length
    <3>1. pos * size \in Nat /\ from \in Nat /\ from = accessor[a].begin + pos * size
      BY OffsetIsPlace
    <3>2. pos * size + size <= accessor[a].length
      BY <2>3, <2>4
    <3> HIDE DEF from
    <3> QED BY <3>1, <3>2, <2>1
  <2>6. able \in 0..size
    BY WritableIsPart
  <2>7. part \in Seq(Bytes) /\ Len(part) = able
    <3> HIDE DEF able
    <3> QED BY <2>6
  <2> HIDE DEF from, able, part
  <2>8. Put(a, from, bytes) \in Data /\ ChangesOnly(a, Put(a, from, bytes))
    BY <2>5, PutTyped, PutWithin
  <2>9. Put(a, from, part) \in Data /\ ChangesOnly(a, Put(a, from, part))
    <3>1. from + Len(part) <= accessor[a].begin + accessor[a].length
      BY <2>1, <2>5, <2>6, <2>7
    <3> QED BY <3>1, <2>5, <2>7, PutTyped, PutWithin
  <2>10. content \in Data /\ ChangesOnly(a, content)
    BY DEF TypeOK, Data, ChangesOnly
  <2>11. WriteElement(a, size, bytes, pos, engine).content
           \in {content, Put(a, from, bytes), Put(a, from, part)}
    BY <1>2 DEF WriteElement, Refused, Done, from, able, part
  <2> QED BY <2>8, <2>9, <2>10, <2>11
<1>3. QED
  BY <1>1, <1>2

(* A range is written as data, wherever that is.                           *)
LEMMA RangeTyped ==
  ASSUME TypeOK, NEW a \in Made, NEW size \in Nat \ {0}, NEW bytes \in Seq(Bytes),
         NEW pos \in Nat
  PROVE  WriteRange(a, size, bytes, pos).content \in Data
<1>1. Put(a, Offset(a, size, pos), bytes) \in Data
  BY OffsetIsPlace, PutTyped
<1>2. content \in Data
  BY DEF TypeOK, Data
<1>3. QED
  BY <1>1, <1>2 DEF WriteRange, Refused, Done

(* A range is written inside of the view, unless it goes astray.           *)
LEMMA RangeWritten ==
  ASSUME TypeOK, NEW a \in Made, NEW size \in Nat \ {0}, size <= DoubleSize,
         NEW bytes \in Seq(Bytes), Len(bytes) % size = 0, NEW pos \in Nat,
         pos <= Elements(a, size), ~Astray(a, pos)
  PROVE  ChangesOnly(a, WriteRange(a, size, bytes, pos).content)
<1> DEFINE from == Offset(a, size, pos)
           refuses == Exceeds(Len(bytes) \div size,
             IF Is(a, "copy") THEN Elements(a, DoubleSize) ELSE Elements(a, size), pos)
<1>1. CASE refuses
  BY <1>1 DEF WriteRange, Refused, ChangesOnly
<1>2. CASE ~refuses
  <2>1. accessor[a].length \in Nat /\ accessor[a].begin \in Nat /\ Len(bytes) \in Nat
    BY MadeIsPlace
  <2>2. pos * size \in Nat /\ pos * size + Len(bytes) <= accessor[a].length
    BY <1>2, RangeInside
  <2>3. from \in Nat /\ from = accessor[a].begin + pos * size
    BY OffsetIsPlace
  <2> HIDE DEF from
  <2>4. /\ accessor[a].begin <= from
        /\ from + Len(bytes) <= accessor[a].begin + accessor[a].length
    BY <2>1, <2>2, <2>3
  <2>5. ChangesOnly(a, Put(a, from, bytes)) /\ ChangesOnly(a, content)
    BY <2>3, <2>4, PutWithin DEF ChangesOnly
  <2>6. WriteRange(a, size, bytes, pos).content \in {content, Put(a, from, bytes)}
    BY DEF WriteRange, Refused, Done, from
  <2> QED BY <2>5, <2>6
<1>3. QED
  BY <1>1, <1>2

(* Reading bytes yields data.                                              *)
LEMMA RangeRead ==
  ASSUME TypeOK, NEW b \in Made, NEW n \in Nat, NEW bytes \in ReadRange(b, 1, n, 0)
  PROVE  bytes = None \/ (bytes \in Seq(Bytes) /\ Len(bytes) = n)
<1> DEFINE from == Offset(b, 1, 0)
           asked == IF Is(b, "copy") THEN n ELSE n * 1
<1>1. asked = n /\ n * 1 = n
  OBVIOUS
<1>2. accessor[b] \in Places /\ b \in Accessors /\ accessor[b] # None
  BY DEF TypeOK, Made
<1>3. from = accessor[b].begin /\ accessor[b].begin \in Nat /\ accessor[b].length \in Nat
  BY <1>2 DEF Offset, Places
<1>4. Elements(b, 1) = accessor[b].length
  BY <1>3 DEF Elements
<1>5. CASE Is(b, "empty") \/ Exceeds(n, Elements(b, 1), 0) \/ ~StoreHas(b, from, asked)
  BY <1>5 DEF ReadRange, Failed
<1>6. CASE ~(Is(b, "empty") \/ Exceeds(n, Elements(b, 1), 0) \/ ~StoreHas(b, from, asked))
  <2>1. n <= accessor[b].length
    BY <1>3, <1>4, <1>6 DEF Exceeds
  <2>2. StoreHas(b, accessor[b].begin, n) /\ ~Is(b, "empty")
    BY <1>1, <1>3, <1>6
  <2>3. Span(accessor[b].begin, n) \subseteq Cells
    <3>1. CASE Is(b, "memory")
      BY <3>1, <2>2 DEF StoreHas, TypeOK
    <3>2. CASE Is(b, "cache") \/ Is(b, "register")
      BY <3>2, <2>1, <1>2, <1>3, SizesAssumption DEF TypeOK, Span, Cells
    <3>3. CASE Is(b, "copy")
      <4>1. LET cache == accessor[b].store IN
              /\ cache \in Accessors /\ Is(cache, "cache")
              /\ accessor[b].begin + accessor[b].length <= accessor[cache].length
        BY <3>3, <1>2 DEF TypeOK, Inside
      <4>2. LET cache == accessor[b].store IN
              accessor[cache].length <= CellCount /\ accessor[cache].length \in Nat
        BY <4>1 DEF TypeOK, Is, Places
      <4> QED BY <4>1, <4>2, <2>1, <1>3, SizesAssumption DEF Span, Cells
    <3> QED BY <3>1, <3>2, <3>3, <2>2, <1>2 DEF Is, Places, Kinds
  <2>4. accessor[b].store \in Stores
    BY <1>2 DEF Places
  <2>5. \A i \in 1..n : At(b, from, asked)[i] \in Bytes
    <3> SUFFICES ASSUME NEW i \in 1..n PROVE At(b, from, asked)[i] \in Bytes
      OBVIOUS
    <3>1. accessor[b].begin + i - 1 \in Cells
      BY <2>3, <1>3 DEF Span
    <3>2. content[accessor[b].store][accessor[b].begin + i - 1] \in Bytes
      BY <3>1, <2>4 DEF TypeOK
    <3> QED BY <3>2, <1>1, <1>3 DEF At
  <2>6. bytes = [i \in 1..(n * 1) |-> IF i <= asked THEN At(b, from, asked)[i] ELSE Garbage]
    BY <1>6 DEF ReadRange
  <2> HIDE DEF asked, from
  <2>7. bytes \in [1..n -> Bytes]
    BY <2>5, <2>6, <1>1, DataAssumption
  <2> QED BY <2>7
<1>7. QED
  BY <1>5, <1>6

(* What a new accessor may be.                                             *)
Sound(a, place) ==
  /\ place \in Places
  /\ place.kind = "copy" =>
       /\ place.store \in Accessors /\ Is(place.store, "cache")
       /\ place.begin + place.length <= accessor[place.store].length
  /\ place.kind = "cache" => place.store = a /\ place.begin = 0 /\ place.length <= CellCount
  /\ place.kind = "memory" => place.store = Memory
  /\ place.kind = "register" => place.begin = 0 /\ place.length <= CellCount

(* A new accessor changes nothing for the others.                          *)
LEMMA MadeTyped ==
  ASSUME TypeOK, NEW a \in Accessors, NEW place, Sound(a, place), Make(a, place),
         content' \in Data, actor' \in Accessors \cup {Nobody}
  PROVE  TypeOK'
<1>1. accessor' = [accessor EXCEPT ![a] = place] /\ accessor[a] = None /\ place \in Places
  BY DEF Make, Sound
<1>2. /\ accessor' \in [Accessors -> Places \cup {None}]
      /\ accessor'[a] = place
      /\ \A b \in Accessors \ {a} : accessor'[b] = accessor[b]
  BY <1>1 DEF TypeOK
<1>3. \A b \in Accessors : \A kind :
        Is(b, kind)' <=> IF b = a THEN place.kind = kind ELSE Is(b, kind)
  BY <1>1, <1>2, NoneAssumption DEF Is
<1>4. \A b \in Accessors : Is(b, "copy")' => Inside(b)'
  <2> SUFFICES ASSUME NEW b \in Accessors, Is(b, "copy")'
               PROVE  Inside(b)'
    OBVIOUS
  <2>1. LET cache == accessor'[b].store IN
          /\ cache \in Accessors /\ Is(cache, "cache")
          /\ accessor'[b].begin + accessor'[b].length <= accessor[cache].length
    <3>1. CASE b = a
      BY <3>1, <1>2, <1>3 DEF Sound
    <3>2. CASE b # a
      BY <3>2, <1>2, <1>3 DEF TypeOK, Inside
    <3> QED BY <3>1, <3>2
  <2>2. accessor'[b].store # a
    BY <2>1, <1>1 DEF Is
  <2> QED BY <2>1, <2>2, <1>2, <1>3 DEF Inside
<1>5. \A b \in Accessors :
        /\ Is(b, "cache")' => /\ accessor'[b].store = b /\ accessor'[b].begin = 0
                              /\ accessor'[b].length <= CellCount
        /\ Is(b, "memory")' => accessor'[b].store = Memory
        /\ Is(b, "register")' => accessor'[b].begin = 0 /\ accessor'[b].length <= CellCount
  BY <1>2, <1>3 DEF TypeOK, Sound
<1>6. valid' \subseteq Cells /\ behind' \in BOOLEAN /\ writes' \in Nat
  BY DEF Make, TypeOK
<1>7. QED
  BY <1>2, <1>4, <1>5, <1>6 DEF TypeOK, Data

(* Writes change data and history.                                         *)
LEMMA WrittenTyped ==
  ASSUME TypeOK, UNCHANGED accessor, valid' \subseteq Cells, content' \in Data,
         actor' \in Accessors \cup {Nobody}, behind' \in BOOLEAN, writes' \in Nat
  PROVE  TypeOK'
<1>1. \A b \in Accessors : /\ \A kind : Is(b, kind)' <=> Is(b, kind)
                           /\ Inside(b)' <=> Inside(b)
  BY DEF Is, Inside
<1>2. QED
  BY <1>1 DEF TypeOK, Data

(* A copy of a sound accessor is sound.                                    *)
LEMMA CopySound ==
  ASSUME TypeOK, NEW a \in Accessors, NEW b \in Made,
         NEW start \in Nat, NEW length \in Nat \cup {Rest},
         start <= accessor[b].length, Copied(b, start, length) # None
  PROVE  LET n == IF length = Rest THEN accessor[b].length - start ELSE length
             place == Copied(b, start, length) IN
         /\ Sound(a, place)
         /\ n \in Nat /\ start + n <= accessor[b].length
         /\ place.store = accessor[b].store
         /\ place.begin = accessor[b].begin + start
         /\ place.length = n
<1> DEFINE n == IF length = Rest THEN accessor[b].length - start ELSE length
           place == Copied(b, start, length)
<1>1. /\ accessor[b] \in Places /\ b \in Accessors /\ accessor[b] # None
      /\ accessor[b].begin \in Nat /\ accessor[b].length \in Nat
      /\ accessor[b].store \in Stores
  BY DEF TypeOK, Made, Places
<1>2. n \in Nat
  BY <1>1 DEF Rest
<1>3. accessor[b].begin + start \in Nat
  BY <1>1
<1>4. CASE Is(b, "memory")
  <2>1. /\ place = Looking("memory", Memory, accessor[b].begin + start, n)
        /\ start + n <= accessor[b].length
    BY <1>1, <1>2, <1>4 DEF Copied, Is
  <2>2. accessor[b].store = Memory
    BY <1>1, <1>4 DEF TypeOK
  <2> HIDE DEF n, place
  <2>3. Sound(a, place)
    BY <2>1, <1>2, <1>3 DEF Looking, Sound, Places, Kinds, Stores
  <2> QED BY <2>1, <2>2, <2>3, <1>2 DEF Looking, n, place
<1>5. CASE Is(b, "copy")
  <2> DEFINE cache == accessor[b].store
  <2>1. /\ place = CopyOf(cache, accessor[b].begin + start, n)
        /\ start + n <= accessor[b].length
    BY <1>1, <1>2, <1>5 DEF Copied, Is
  <2>2. /\ cache \in Accessors /\ Is(cache, "cache")
        /\ accessor[cache].length \in Nat
    <3>1. cache \in Accessors /\ Is(cache, "cache")
      BY <1>1, <1>5 DEF TypeOK, Inside
    <3> QED BY <3>1 DEF TypeOK, Is, Places
  <2> HIDE DEF n, place, cache
  <2>3. /\ place = Looking("copy", cache, accessor[b].begin + start, n)
        /\ accessor[b].begin + start + n <= accessor[cache].length
    BY <2>1, <2>2, <1>2, <1>3 DEF CopyOf, place
  <2>4. Sound(a, place)
    BY <2>2, <2>3, <1>2, <1>3 DEF Looking, Sound, Places, Kinds, Stores
  <2> QED BY <2>1, <2>3, <2>4, <1>2 DEF Looking, n, place, cache
<1>6. CASE Is(b, "cache")
  <2>1. length # Rest /\ n = length /\ place = CopyOf(b, start, n)
    BY <1>1, <1>6 DEF Copied, Is
  <2> HIDE DEF n, place
  <2>2. /\ place = Looking("copy", b, start, n)
        /\ start + n <= accessor[b].length
    BY <2>1, <1>1, <1>2 DEF CopyOf, place
  <2>3. Sound(a, place)
    BY <2>2, <1>1, <1>2, <1>6 DEF Looking, Sound, Places, Kinds, Stores
  <2>4. accessor[b].store = b /\ accessor[b].begin = 0
    BY <1>1, <1>6 DEF TypeOK
  <2> QED BY <2>2, <2>3, <2>4, <1>2 DEF Looking, n, place
<1>7. QED
  BY <1>4, <1>5, <1>6 DEF Copied

-----------------------------------------------------------------------------
(* The view of an accessor: as it is written in Views.                     *)
View == [a \in Accessors |-> IF accessor[a] = None THEN None ELSE Seen(a)]

(* Steps that make an accessor of something that is there, or a buffer.    *)
LEMMA GetKeeps ==
  ASSUME TypeOK, NEW a \in Accessors,
         GetEmptyAccessor(a) \/ GetMemoryAccessor(a) \/ GetRegisterAccessor(a)
           \/ GetCacheAccessor(a)
  PROVE  TypeOK' /\ Views!Make(a)
<1>1. PICK place : Sound(a, place) /\ Make(a, place) /\ actor' = Nobody
  <2>1. CASE GetEmptyAccessor(a)
    BY <2>1 DEF GetEmptyAccessor, Sound, Looking, Places, Kinds, Stores
  <2>2. CASE GetMemoryAccessor(a)
    BY <2>2, DataAssumption DEF GetMemoryAccessor, Sound, Looking, Places, Kinds, Stores
  <2>3. CASE GetRegisterAccessor(a)
    BY <2>3, SizesAssumption DEF GetRegisterAccessor, Sound, Looking, Places, Kinds, Stores
  <2>4. CASE GetCacheAccessor(a)
    BY <2>4, DataAssumption DEF GetCacheAccessor, Sound, Looking, Places, Kinds, Stores
  <2> QED BY <2>1, <2>2, <2>3, <2>4
<1>2. content' \in Data /\ \A s \in Stores \ {a} : content'[s] = content[s]
  <2>1. CASE UNCHANGED content
    BY <2>1 DEF TypeOK, Data
  <2>2. CASE GetCacheAccessor(a)
    <3>1. PICK bytes \in Contents :
            content' = [content EXCEPT ![a] = [i \in Cells |->
              IF i < Len(bytes) THEN bytes[i + 1] ELSE @[i]]]
      BY <2>2 DEF GetCacheAccessor
    <3>2. bytes \in Seq(Bytes)
      BY DataAssumption
    <3>3. \A i \in Cells : i < Len(bytes) => bytes[i + 1] \in Bytes
      BY <3>2, SizesAssumption DEF Cells
    <3> QED BY <3>1, <3>3 DEF TypeOK, Data, Stores
  <2> QED BY <2>1, <2>2 DEF GetEmptyAccessor, GetMemoryAccessor, GetRegisterAccessor
<1>3. TypeOK'
  BY <1>1, <1>2, MadeTyped
<1>4. accessor' = [accessor EXCEPT ![a] = place] /\ accessor[a] = None
  BY <1>1 DEF Make
<1>5. View[a] = None /\ \A b \in Accessors \ {a} : View'[b] = View[b]
  BY <1>4 DEF View, Seen, TypeOK
<1>6. DOMAIN content = Stores
  BY DEF TypeOK
<1>7. QED
  BY <1>1, <1>2, <1>3, <1>5, <1>6 DEF Views!Make, View

(* Taking a part narrows a view.                                           *)
LEMMA CopyKeeps ==
  ASSUME TypeOK, NEW a \in Accessors, NEW b \in Accessors,
         NEW start \in Cells, NEW length \in Cells \cup {CellCount, Rest},
         Copy(a, b, start, length)
  PROVE  TypeOK' /\ Views!Narrow(a, b)
<1> DEFINE n == IF length = Rest THEN accessor[b].length - start ELSE length
           place == Copied(b, start, length)
<1>1. b \in Made /\ start \in Nat /\ length \in Nat \cup {Rest}
  BY SizesAssumption DEF Copy, Made, Cells
<1>2. /\ Sound(a, place)
      /\ n \in Nat /\ start + n <= accessor[b].length
      /\ place.store = accessor[b].store
      /\ place.begin = accessor[b].begin + start
      /\ place.length = n
  BY <1>1, CopySound DEF Copy
<1> HIDE DEF n, place
<1>3. Make(a, place) /\ actor' = b /\ UNCHANGED content
  BY DEF Copy, place
<1>4. TypeOK'
  <2>1. content' \in Data
    BY <1>3 DEF TypeOK, Data
  <2> QED BY <1>2, <1>3, <2>1, MadeTyped
<1>5. /\ accessor' = [accessor EXCEPT ![a] = place] /\ accessor[a] = None /\ accessor[b] # None
      /\ place # None
  BY <1>1, <1>2, <1>3, NoneAssumption DEF Make, Made, Sound
<1>6. /\ View[a] = None
      /\ View[b] = Seen(b)
      /\ View' = [View EXCEPT ![a] =
           [store |-> place.store, begin |-> place.begin, length |-> place.length]]
  BY <1>5 DEF View, Seen, TypeOK
<1>7. /\ accessor[b].length \in Nat
      /\ Seen(b) \in [store : Stores, begin : Nat, length : Nat]
  BY <1>1 DEF TypeOK, Made, Places, Seen
<1>8. /\ View[b] # None
      /\ View[b].length = accessor[b].length
      /\ View' = [View EXCEPT ![a] =
           [store |-> View[b].store, begin |-> View[b].begin + start, length |-> n]]
  <2>1. Seen(b) # None
    BY <1>7, NoneAssumption, Zenon
  <2>2. /\ Seen(b).length = accessor[b].length
        /\ Seen(b).begin = accessor[b].begin
        /\ Seen(b).store = accessor[b].store
    BY DEF Seen
  <2> QED BY <1>2, <1>6, <2>1, <2>2
<1>9. start \in 0..View[b].length /\ n \in 0..View[b].length /\ start + n <= View[b].length
  BY <1>1, <1>2, <1>7, <1>8
<1>10. QED
  BY <1>3, <1>4, <1>6, <1>8, <1>9 DEF Views!Narrow, View

(* A write of accessor a that stays inside of its view.                    *)
LEMMA ViewWrite ==
  ASSUME TypeOK, NEW a \in Made, UNCHANGED accessor, actor' = a,
         ChangesOnly(a, content')
  PROVE  Views!Write(a)
<1>1. View[a] = Seen(a) /\ View' = View /\ a \in Accessors
  BY DEF View, Made, Seen
<1>2. Seen(a) # None
  BY NoneAssumption DEF TypeOK, Made, Places, Seen
<1>3. DOMAIN content = Stores /\ \A s \in Stores : DOMAIN content[s] = Cells
  BY DEF TypeOK
<1>4. \A s \in Stores : \A i \in Cells : ~Views!Cell(a, s, i) => content'[s][i] = content[s][i]
  BY <1>1 DEF ChangesOnly, InView, Views!Cell, View, Seen
<1>5. QED
  BY <1>1, <1>2, <1>3, <1>4 DEF Views!Write, View

(* Steps that make nothing.                                                *)
Act ==
  \/ Happen
  \/ Map
  \/ \E a \in Accessors :
       \/ \E size \in Sizes, bytes \in Inputs, pos \in Cells \cup {CellCount} :
            Write(a, size, bytes, pos) \/ WriteAll(a, size, bytes, pos)
       \/ \E b \in Accessors, size \in 1..CellCount, pos \in Cells \cup {CellCount} :
            Transfer(a, b, size, pos)

(* What writes, or happens by itself, keeps the types, and writes through  *)
(* the view of the one who writes; or it is the range through a copy.      *)
LEMMA ActKeeps ==
  ASSUME TypeOK, Act
  PROVE  /\ TypeOK'
         /\ ~WentAstray' => Views!Happen \/ \E a \in Accessors : Views!Write(a)
<1>1. CASE Happen
  <2>1. /\ content' \in Data /\ UNCHANGED accessor
        /\ actor' = Nobody /\ behind' = FALSE /\ valid' \subseteq Cells /\ writes' \in Nat
        /\ \A s \in Stores \ {Memory, Register} : content'[s] = content[s]
    BY <1>1, DataAssumption DEF Happen, TypeOK, Data, Stores
  <2>2. TypeOK'
    BY <2>1, WrittenTyped
  <2>3. DOMAIN content = Stores /\ View' = View
    BY <2>1 DEF TypeOK, View, Seen
  <2> QED BY <2>1, <2>2, <2>3 DEF Views!Happen, View
<1>2. CASE Map
  <2>1. /\ content' = content /\ UNCHANGED accessor
        /\ actor' = Nobody /\ behind' = FALSE /\ valid' \subseteq Cells /\ writes' = writes
    BY <1>2, DataAssumption DEF Map
  <2>2. TypeOK'
    BY <2>1, WrittenTyped DEF TypeOK, Data
  <2>3. View' = View
    BY <2>1 DEF View, Seen
  <2> QED BY <2>1, <2>2, <2>3 DEF Views!Happen, View
<1>3. ASSUME NEW a \in Accessors, NEW size \in Sizes, NEW bytes \in Inputs,
             NEW pos \in Cells \cup {CellCount},
             Write(a, size, bytes, pos) \/ WriteAll(a, size, bytes, pos)
      PROVE  /\ TypeOK'
             /\ ~WentAstray' => Views!Write(a)
  <2>1. /\ a \in Made /\ size \in Nat \ {0} /\ bytes \in Seq(Bytes) /\ pos \in Nat
        /\ pos <= Elements(a, size)
    BY <1>3, SizesAssumption, DataAssumption DEF Made, Cells, Write, WriteAll
  <2>2. /\ UNCHANGED <<accessor, valid>> /\ actor' = a /\ writes' = writes + 1
        /\ behind' \in BOOLEAN
    <3>1. behind' = FALSE \/ behind' = (pos > Elements(a, DoubleSize))
      BY <1>3 DEF Write, WriteAll
    <3>2. (pos > Elements(a, DoubleSize)) \in BOOLEAN
      OBVIOUS
    <3> QED BY <1>3, <3>1, <3>2 DEF Write, WriteAll, Written
  <2>3. CASE Write(a, size, bytes, pos)
    <3>1. PICK engine \in Engines : content' = WriteElement(a, size, bytes, pos, engine).content
      BY <2>3 DEF Write, Written
    <3>2. content' \in Data /\ ChangesOnly(a, content')
      <4>1. Len(bytes) = size
        BY <2>3 DEF Write
      <4> QED BY <2>1, <3>1, <4>1, ElementWritten
    <3> QED BY <2>1, <2>2, <3>2, ViewWrite, WrittenTyped DEF TypeOK
  <2>4. CASE WriteAll(a, size, bytes, pos)
    <3>1. /\ content' = WriteRange(a, size, bytes, pos).content
          /\ Len(bytes) % size = 0 /\ behind' = (pos > Elements(a, DoubleSize))
          /\ size <= DoubleSize
      BY <2>4, SizesAssumption DEF WriteAll, Written
    <3>2. content' \in Data
      BY <2>1, <3>1, RangeTyped
    <3>3. ~WentAstray' => ~Astray(a, pos)
      BY <2>1, <2>2, <3>1 DEF WentAstray, Astray, Is
    <3>4. ~WentAstray' => ChangesOnly(a, content')
      BY <2>1, <3>1, <3>3, RangeWritten
    <3> QED BY <2>1, <2>2, <3>2, <3>4, ViewWrite, WrittenTyped DEF TypeOK
  <2> QED BY <1>3, <2>3, <2>4
<1>4. ASSUME NEW a \in Accessors, NEW b \in Accessors, NEW size \in 1..CellCount,
             NEW pos \in Cells \cup {CellCount}, Transfer(a, b, size, pos)
      PROVE  /\ TypeOK'
             /\ ~WentAstray' => Views!Write(a)
  <2>1. /\ a \in Made /\ b \in Made /\ size \in Nat /\ pos \in Nat
        /\ accessor[a].length \in Nat /\ pos <= accessor[a].length
    BY <1>4, SizesAssumption DEF Made, Cells, Transfer, TypeOK, Places
  <2>2. PICK bytes \in ReadRange(b, 1, size, 0) :
          Written(a, IF bytes = None THEN Refused ELSE WriteRange(a, 1, bytes, pos))
    BY <1>4 DEF Transfer
  <2>3. /\ UNCHANGED <<accessor, valid>> /\ actor' = a /\ writes' = writes + 1
        /\ behind' = (pos > Elements(a, DoubleSize))
    BY <1>4, <2>2 DEF Transfer, Written
  <2>4. CASE bytes = None
    <3>1. content' = content
      BY <2>2, <2>4 DEF Written, Refused
    <3>2. content' \in Data /\ ChangesOnly(a, content')
      BY <3>1 DEF TypeOK, Data, ChangesOnly
    <3> QED BY <2>1, <2>3, <3>2, ViewWrite, WrittenTyped DEF TypeOK
  <2>5. CASE bytes # None
    <3>1. content' = WriteRange(a, 1, bytes, pos).content
      BY <2>2, <2>5 DEF Written
    <3>2. bytes \in Seq(Bytes)
      BY <2>1, <2>5, RangeRead
    <3>3. content' \in Data
      BY <2>1, <3>1, <3>2, RangeTyped
    <3>4. ~WentAstray' => ~Astray(a, pos)
      BY <2>1, <2>3 DEF WentAstray, Astray, Is
    <3>5. pos <= Elements(a, 1) /\ Len(bytes) % 1 = 0 /\ 1 <= DoubleSize
      BY <2>1, <3>2, SizesAssumption DEF Elements
    <3>6. ~WentAstray' => ChangesOnly(a, content')
      BY <2>1, <3>1, <3>2, <3>4, <3>5, RangeWritten
    <3> QED BY <2>1, <2>3, <3>3, <3>6, ViewWrite, WrittenTyped DEF TypeOK
  <2> QED BY <2>4, <2>5
<1>5. QED
  BY <1>1, <1>2, <1>3, <1>4 DEF Act

(* Every step keeps the types, and is a step of views.                     *)
LEMMA NextKeeps ==
  ASSUME TypeOK, [Next]_vars
  PROVE  TypeOK' /\ (WentAstray' \/ Views!Next \/ UNCHANGED Views!vars)
<1>1. CASE UNCHANGED vars
  <2>1. TypeOK'
    BY <1>1 DEF vars, TypeOK, Inside, Is, Made
  <2>2. UNCHANGED Views!vars
    BY <1>1 DEF vars, Views!vars, Seen
  <2> QED BY <2>1, <2>2
<1>2. CASE Act
  <2>1. TypeOK' /\ (~WentAstray' => Views!Happen \/ \E a \in Accessors : Views!Write(a))
    BY <1>2, ActKeeps
  <2> QED BY <2>1 DEF Views!Next
<1>3. ASSUME NEW a \in Accessors,
             GetEmptyAccessor(a) \/ GetMemoryAccessor(a) \/ GetRegisterAccessor(a)
               \/ GetCacheAccessor(a)
      PROVE  TypeOK' /\ Views!Next
  BY <1>3, GetKeeps DEF Views!Next
<1>4. ASSUME NEW a \in Accessors, NEW b \in Accessors, NEW start \in Cells,
             NEW length \in Cells \cup {CellCount, Rest}, Copy(a, b, start, length)
      PROVE  TypeOK' /\ Views!Next
  BY <1>4, CopyKeeps DEF Views!Next
<1>5. QED
  BY <1>1, <1>2, <1>3, <1>4 DEF Next, Act

(* Nothing has been made to begin with.                                    *)
LEMMA InitKeeps ==
  ASSUME Init
  PROVE  TypeOK /\ Views!Init
<1>1. \A a \in Accessors : accessor[a] = None
  BY DEF Init
<1>2. TypeOK
  BY <1>1, DataAssumption DEF Init, TypeOK, Is, Inside
<1>3. QED
  BY <1>1, <1>2 DEF Init, Views!Init

(* Accessors stay in their types; above all, a copy looks into a cache and *)
(* does not reach out of it, however many copies led to it.                *)
THEOREM TypeCorrect == Spec => []TypeOK
<1>1. Init => TypeOK
  BY InitKeeps
<1>2. TypeOK /\ [Next]_vars => TypeOK'
  BY NextKeeps
<1>3. QED
  BY <1>1, <1>2, PTL DEF Spec

(* Accessors are views: nothing is copied by copy, parts and wholes see    *)
(* each other's writes, and a write stays inside of the accessor it is     *)
(* made through, unless a range through a copy goes astray.                *)
THEOREM AccessorsAreViews == Spec => StepsAreViewSteps
<1>1. Init => Views!Init
  BY InitKeeps
<1>2. TypeOK /\ [Next]_vars => [~WentAstray' => Views!Next]_(Views!vars)
  BY NextKeeps
<1>3. QED
  BY <1>1, <1>2, TypeCorrect, PTL DEF Spec, StepsAreViewSteps
-----------------------------------------------------------------------------
(* An accessor that has no memory behind it answers for all of its length, *)
(* which is where cells are.                                               *)
LEMMA StoreAnswers ==
  ASSUME TypeOK, NEW a \in Made, ~Is(a, "empty"), ~Is(a, "memory"),
         NEW at \in Nat, NEW n \in Nat, at + n <= accessor[a].length
  PROVE  /\ StoreHas(a, accessor[a].begin + at, n)
         /\ Span(accessor[a].begin + at, n) \subseteq Cells
<1>1. /\ a \in Accessors /\ accessor[a] # None /\ accessor[a].kind \in Kinds
      /\ accessor[a].begin \in Nat /\ accessor[a].length \in Nat
  BY MadeIsPlace
<1>2. CASE Is(a, "cache") \/ Is(a, "register")
  <2>1. accessor[a].begin = 0 /\ accessor[a].length <= CellCount
    BY <1>1, <1>2 DEF TypeOK
  <2>2. ~Is(a, "copy")
    BY <1>2 DEF Is
  <2> QED BY <1>1, <2>1, <2>2, SizesAssumption DEF StoreHas, Span, Cells
<1>3. CASE Is(a, "copy")
  <2> DEFINE have == accessor[accessor[a].store].length
  <2>1. /\ accessor[a].store \in Accessors /\ Is(accessor[a].store, "cache")
        /\ accessor[a].begin + accessor[a].length <= have
    BY <1>1, <1>3 DEF TypeOK, Inside
  <2>2. have <= CellCount /\ have \in Nat
    BY <2>1 DEF TypeOK, Is, Places
  <2>3. ~Exceeds(n, have, accessor[a].begin + at)
    <3> HIDE DEF have
    <3> QED BY <1>1, <2>1, <2>2 DEF Exceeds
  <2>4. Span(accessor[a].begin + at, n) \subseteq Cells
    <3> HIDE DEF have
    <3> QED BY <1>1, <2>1, <2>2, SizesAssumption DEF Span, Cells
  <2>5. ~Is(a, "memory")
    OBVIOUS
  <2> QED BY <2>3, <2>4, <2>5 DEF StoreHas
<1>4. QED
  BY <1>1, <1>2, <1>3 DEF Is, Kinds

(* What a store answers for are cells.                                     *)
LEMMA AnswersAreCells ==
  ASSUME TypeOK, NEW a \in Made, ~Is(a, "empty"), NEW at \in Nat, NEW n \in Nat,
         at + n <= accessor[a].length, StoreHas(a, accessor[a].begin + at, n)
  PROVE  /\ Span(accessor[a].begin + at, n) \subseteq Cells
         /\ At(a, accessor[a].begin + at, n) \in Seq(Bytes)
<1> DEFINE from == accessor[a].begin + at
<1>1. from \in Nat /\ accessor[a].store \in Stores
  BY MadeIsPlace
<1>2. Span(from, n) \subseteq Cells
  <2>1. CASE Is(a, "memory")
    BY <2>1 DEF StoreHas, TypeOK
  <2>2. CASE ~Is(a, "memory")
    BY <2>2, StoreAnswers
  <2> QED BY <2>1, <2>2
<1> HIDE DEF from
<1>3. At(a, from, n) \in [1..n -> Bytes]
  <2>1. \A i \in 1..n : from + i - 1 \in Cells
    BY <1>1, <1>2 DEF Span
  <2> QED BY <1>1, <2>1 DEF At, TypeOK
<1>4. At(a, from, n) \in Seq(Bytes)
  BY <1>3
<1>5. QED
  BY <1>2, <1>4 DEF from

(* A byte is read where the accessor reaches and its store answers.        *)
LEMMA ByteIs ==
  ASSUME TypeOK, NEW a \in Made, NEW i \in Nat
  PROVE  Byte(a, i) =
           IF /\ ~Is(a, "empty") /\ i < accessor[a].length
              /\ StoreHas(a, accessor[a].begin + i, 1)
           THEN {content[accessor[a].store][accessor[a].begin + i]}
           ELSE {}
<1> DEFINE from == accessor[a].begin + i
<1>1. /\ accessor[a].begin \in Nat /\ accessor[a].length \in Nat
      /\ from \in Nat
  BY MadeIsPlace
<1>2. Offset(a, 1, i) = from /\ Elements(a, 1) = accessor[a].length
  BY <1>1 DEF Offset, Elements
<1>3. CASE ~Is(a, "empty") /\ i < accessor[a].length /\ StoreHas(a, from, 1)
  <2>1. ReadElement(a, 1, i) = {At(a, from, 1)}
    <3> HIDE DEF from
    <3> QED BY <1>1, <1>2, <1>3 DEF ReadElement
  <2>2. At(a, from, 1) # None
    <3>1. i + 1 <= accessor[a].length
      BY <1>1, <1>3
    <3>2. At(a, from, 1) \in Seq(Bytes)
      BY <1>3, <3>1, AnswersAreCells
    <3> QED BY <3>2, NoneAssumption, Zenon
  <2>3. Byte(a, i) = {At(a, from, 1)[1]}
    <3> HIDE DEF from
    <3> QED BY <2>1, <2>2 DEF Byte, Failed
  <2>4. At(a, from, 1)[1] = content[accessor[a].store][from]
    <3> HIDE DEF from
    <3> QED BY <1>1 DEF At
  <2> QED BY <1>3, <2>3, <2>4
<1>4. CASE ~(~Is(a, "empty") /\ i < accessor[a].length /\ StoreHas(a, from, 1))
  <2>1. ReadElement(a, 1, i) = Failed
    <3> HIDE DEF from
    <3> QED BY <1>1, <1>2, <1>4 DEF ReadElement
  <2> QED BY <1>4, <2>1 DEF Byte, Failed
<1>5. QED
  BY <1>3, <1>4

(* Bytes from one on are read if the accessor reaches and its store        *)
(* answers for all of them.                                                *)
LEMMA BytesAre ==
  ASSUME TypeOK, NEW a \in Made, NEW at \in Nat, NEW n \in Nat \ {0}
  PROVE  InBytes(a, at, n) =
           IF /\ ~Is(a, "empty") /\ at + n <= accessor[a].length
              /\ StoreHas(a, accessor[a].begin + at, n)
           THEN {At(a, accessor[a].begin + at, n)}
           ELSE Failed
<1> DEFINE from == accessor[a].begin + at
           cells == content[accessor[a].store]
<1>1. /\ accessor[a].begin \in Nat /\ accessor[a].length \in Nat /\ from \in Nat
  BY MadeIsPlace
<1>2. \A i \in Span(at, n) : i \in Nat /\ accessor[a].begin + i \in Nat
  BY <1>1 DEF Span
<1>3. CASE ~Is(a, "empty") /\ at + n <= accessor[a].length /\ StoreHas(a, from, n)
  <2>1. ASSUME NEW i \in Span(at, n)
        PROVE  Byte(a, i) = {cells[accessor[a].begin + i]}
    <3>1. i \in Nat /\ i + 1 <= accessor[a].length /\ i < accessor[a].length
      BY <1>1, <1>3 DEF Span
    <3>2. StoreHas(a, accessor[a].begin + i, 1)
      <4>1. CASE Is(a, "memory")
        <5>1. Span(accessor[a].begin + i, 1) \subseteq Span(from, n)
          BY <1>1, <1>2 DEF Span
        <5>2. Span(from, n) \subseteq valid /\ ~Is(a, "copy")
          BY <1>3, <4>1 DEF StoreHas, Is
        <5> QED BY <5>1, <5>2 DEF StoreHas
      <4>2. CASE ~Is(a, "memory")
        BY <4>2, <3>1, <1>3, StoreAnswers
      <4> QED BY <4>1, <4>2
    <3> QED BY <3>1, <3>2, <1>3, ByteIs
  <2>2. \A i \in 1..n : at + i - 1 \in Span(at, n)
    BY DEF Span
  <2>3. \A i \in 1..n : (CHOOSE b \in Byte(a, at + i - 1) : TRUE) = cells[from + i - 1]
    <3> SUFFICES ASSUME NEW i \in 1..n
                 PROVE  (CHOOSE b \in Byte(a, at + i - 1) : TRUE) = cells[from + i - 1]
      OBVIOUS
    <3>1. Byte(a, at + i - 1) = {cells[accessor[a].begin + (at + i - 1)]}
      BY <2>1, <2>2
    <3>2. accessor[a].begin + (at + i - 1) = from + i - 1
      BY <1>1
    <3> HIDE DEF from, cells
    <3> QED BY <3>1, <3>2
  <2>4. ~\E i \in Span(at, n) : Byte(a, i) = {}
    BY <2>1
  <2>5. InBytes(a, at, n) = {[i \in 1..n |-> cells[from + i - 1]]}
    <3> HIDE DEF from, cells
    <3> QED BY <2>3, <2>4 DEF InBytes
  <2> QED BY <1>3, <2>5 DEF At
<1>4. CASE ~(~Is(a, "empty") /\ at + n <= accessor[a].length /\ StoreHas(a, from, n))
  <2>1. \E i \in Span(at, n) : Byte(a, i) = {}
    <3>1. at \in Span(at, n) /\ at + n - 1 \in Span(at, n)
      BY DEF Span
    <3>2. CASE Is(a, "empty")
      <4>1. Byte(a, at) = {}
        BY <3>2, ByteIs
      <4> QED BY <3>1, <4>1
    <3>3. CASE ~(at + n <= accessor[a].length)
      <4>1. at + n - 1 \in Nat /\ ~(at + n - 1 < accessor[a].length)
        BY <1>1, <3>3
      <4>2. Byte(a, at + n - 1) = {}
        BY <4>1, ByteIs
      <4> QED BY <3>1, <4>2
    <3>4. CASE ~Is(a, "empty") /\ at + n <= accessor[a].length /\ ~StoreHas(a, from, n)
      <4>1. Is(a, "memory")
        BY <3>4, StoreAnswers
      <4>2. ~(Span(from, n) \subseteq valid)
        BY <3>4, <4>1 DEF StoreHas, Is
      <4>3. PICK cell \in Span(from, n) : cell \notin valid
        BY <4>2
      <4>4. /\ cell - accessor[a].begin \in Span(at, n)
            /\ cell \in Span(accessor[a].begin + (cell - accessor[a].begin), 1)
        BY <1>1, <4>3 DEF Span
      <4>5. ~StoreHas(a, accessor[a].begin + (cell - accessor[a].begin), 1)
        BY <4>1, <4>3, <4>4 DEF StoreHas
      <4>6. Byte(a, cell - accessor[a].begin) = {}
        BY <1>2, <4>4, <4>5, ByteIs
      <4> QED BY <4>4, <4>6
    <3> QED BY <1>4, <3>2, <3>3, <3>4
  <2> QED BY <1>4, <2>1 DEF InBytes
<1>5. QED
  BY <1>3, <1>4

(* An element is read as the bytes it is made of.                          *)
LEMMA ElementIsItsBytes ==
  ASSUME TypeOK, NEW a \in Made, NEW size \in Nat \ {0}, NEW pos \in Nat
  PROVE  ReadElement(a, size, pos) =
           IF pos < Elements(a, size) THEN InBytes(a, pos * size, size) ELSE Failed
<1> DEFINE at == pos * size
<1>1. /\ Elements(a, size) \in Nat /\ at \in Nat
      /\ pos + 1 <= Elements(a, size) <=> at + size <= accessor[a].length
  <2>1. /\ Elements(a, size) \in Nat /\ at \in Nat
        /\ pos + 1 <= Elements(a, size) <=> at + 1 * size <= accessor[a].length
    BY ElementInside
  <2>2. 1 * size = size
    OBVIOUS
  <2> QED BY <2>1, <2>2
<1>2. Offset(a, size, pos) = accessor[a].begin + at
  BY DEF Offset
<1> HIDE DEF at
<1>3. InBytes(a, at, size) =
        IF /\ ~Is(a, "empty") /\ at + size <= accessor[a].length
           /\ StoreHas(a, accessor[a].begin + at, size)
        THEN {At(a, accessor[a].begin + at, size)}
        ELSE Failed
  BY <1>1, BytesAre
<1>4. pos < Elements(a, size) <=> at + size <= accessor[a].length
  BY <1>1
<1>5. pos >= Elements(a, size) <=> ~(pos < Elements(a, size))
  BY <1>1
<1>6. QED
  BY <1>2, <1>3, <1>4, <1>5 DEF ReadElement, at

(* A range is read as the bytes it is made of; through a copy, only as     *)
(* many of its bytes as it has elements.                                   *)
LEMMA RangeIsItsBytes ==
  ASSUME TypeOK, NEW a \in Made, NEW size \in Nat \ {0}, NEW pos \in Nat,
         pos <= Elements(a, size), NEW count \in Nat \ {0}
  PROVE  RangeAgrees(a, size, pos, count)
<1> DEFINE at == pos * size
           n == count * size
           asked == IF Is(a, "copy") THEN count ELSE n
           from == accessor[a].begin + at
           read == [i \in 1..n |-> IF i <= asked THEN At(a, from, asked)[i] ELSE Garbage]
           reached == ~Is(a, "empty") /\ at + n <= accessor[a].length
<1>1. /\ Elements(a, size) \in Nat /\ at \in Nat /\ n \in Nat
      /\ pos + count <= Elements(a, size) <=> at + n <= accessor[a].length
  BY ElementInside
<1>2. n \in Nat \ {0} /\ count <= n
  <2>1. (count - 1) * size \in Nat /\ (count - 1) * size = n - size
    BY SMT
  <2>2. count * (size - 1) \in Nat /\ count * (size - 1) = n - count
    BY SMT
  <2> QED BY <2>1, <2>2, <1>1
<1>3. asked \in Nat /\ asked <= n /\ (~Is(a, "copy") => asked = n)
  <2> HIDE DEF n
  <2> QED BY <1>2
<1>4. Offset(a, size, pos) = from
  BY DEF Offset
<1>5. Exceeds(count, Elements(a, size), pos) <=> ~(at + n <= accessor[a].length)
  BY <1>1 DEF Exceeds
<1>6. accessor[a].begin \in Nat /\ accessor[a].length \in Nat
  BY MadeIsPlace
<1>7. reached => (StoreHas(a, from, asked) <=> StoreHas(a, from, n))
  <2> HIDE DEF at, n, asked
  <2>1. CASE Is(a, "copy") /\ reached
    <3>1. ~Is(a, "empty") /\ ~Is(a, "memory")
      BY <2>1 DEF Is
    <3>2. at + asked <= accessor[a].length
      BY <1>1, <1>3, <1>6, <2>1
    <3> QED BY <1>1, <1>3, <2>1, <3>1, <3>2, StoreAnswers DEF from
  <2>2. CASE ~Is(a, "copy")
    BY <1>3, <2>2
  <2> QED BY <2>1, <2>2
<1>8. ReadRange(a, size, count, pos) =
        IF reached /\ StoreHas(a, from, asked) THEN {read} ELSE Failed
  BY <1>4, <1>5 DEF ReadRange
<1>9. InBytes(a, at, n) =
        IF reached /\ StoreHas(a, from, n) THEN {At(a, from, n)} ELSE Failed
  <2> HIDE DEF at, n
  <2> QED BY <1>1, <1>2, BytesAre DEF from, reached
<1>10. CASE ~(reached /\ StoreHas(a, from, n))
  BY <1>7, <1>8, <1>9, <1>10 DEF RangeAgrees
<1>11. CASE reached /\ StoreHas(a, from, n)
  <2>1. At(a, from, n) \in Seq(Bytes) /\ At(a, from, n) # None
    <3> HIDE DEF at, n
    <3>1. At(a, from, n) \in Seq(Bytes)
      BY <1>1, <1>11, AnswersAreCells DEF from, reached
    <3> QED BY <3>1, NoneAssumption, Zenon
  <2>2. read \in Seq(Bytes) /\ Len(read) = n /\ \A i \in 1..asked : read[i] = At(a, from, n)[i]
    <3> HIDE DEF at, n, asked, from
    <3>1. \A i \in 1..n : At(a, from, n)[i] \in Bytes
      BY <2>1, <1>2 DEF At
    <3>2. \A i \in 1..asked : i \in 1..n /\ At(a, from, asked)[i] = At(a, from, n)[i]
      BY <1>2, <1>3 DEF At
    <3>3. read \in [1..n -> Bytes]
      BY <1>2, <1>3, <3>1, <3>2, DataAssumption
    <3> QED BY <1>2, <1>3, <3>2, <3>3
  <2>3. read # None
    <3> HIDE DEF read
    <3> QED BY <2>2, NoneAssumption, Zenon
  <2>4. Reliable(a, size, count) = asked
    BY DEF Reliable
  <2>5. /\ InBytes(a, at, n) = {At(a, from, n)}
        /\ ReadRange(a, size, count, pos) = {read}
    BY <1>7, <1>8, <1>9, <1>11
  <2> HIDE DEF at, n, asked, from, read
  <2>6. At(a, from, n) \in InBytes(a, at, n) \ Failed
    BY <2>1, <2>5 DEF Failed
  <2> QED BY <2>2, <2>3, <2>4, <2>5, <2>6 DEF RangeAgrees, at, n
<1>12. QED
  BY <1>10, <1>11

(* What is put somewhere replaces what was there, and nothing else.        *)
LEMMA PutReplaces ==
  ASSUME TypeOK, NEW a \in Made, NEW at \in Nat, NEW bytes \in Seq(Bytes), NEW reach,
         at + Len(bytes) <= reach
  PROVE  Replaced(a, Done(a, accessor[a].begin + at, bytes), at, bytes, reach)
<1> DEFINE from == accessor[a].begin + at
           outcome == Done(a, from, bytes)
<1>1. /\ accessor[a].store \in Stores /\ accessor[a].begin \in Nat
      /\ from \in Nat /\ Len(bytes) \in Nat /\ CellCount \in Nat
  BY MadeIsPlace, SizesAssumption
<1>2. outcome.ok /\ outcome.content = Put(a, from, bytes)
  BY DEF Done
<1>3. ASSUME NEW s \in Stores, NEW i \in Cells
      PROVE  Put(a, from, bytes)[s][i] =
               IF s = accessor[a].store /\ i - accessor[a].begin \in Span(at, Len(bytes))
               THEN bytes[i - accessor[a].begin - at + 1]
               ELSE content[s][i]
  <2>1. i \in Int
    BY <1>1, <1>3 DEF Cells
  <2>2. /\ i \in Span(from, Len(bytes)) <=> i - accessor[a].begin \in Span(at, Len(bytes))
        /\ i - from + 1 = i - accessor[a].begin - at + 1
    <3>1. \A begin, k, n \in Nat :
            /\ i \in Span(begin + k, n) <=> i - begin \in Span(k, n)
            /\ i - (begin + k) + 1 = i - begin - k + 1
      BY <2>1 DEF Span
    <3> QED BY <1>1, <3>1
  <2> HIDE DEF from
  <2>3. Put(a, from, bytes)[s][i] =
          IF s = accessor[a].store /\ i \in Span(from, Len(bytes)) THEN bytes[i - from + 1]
          ELSE content[s][i]
    BY <1>1, <1>3 DEF Put, TypeOK
  <2> QED BY <2>2, <2>3
<1> HIDE DEF from, outcome
<1>4. Replaced(a, outcome, at, bytes, reach)
  BY <1>2, <1>3 DEF Replaced
<1>5. QED
  BY <1>4 DEF from, outcome

(* What is refused changes nothing.                                        *)
LEMMA RefusedIsWhole ==
  ASSUME NEW a, NEW at, NEW bytes, NEW reach
  PROVE  Whole(a, Refused, at, bytes, reach)
BY DEF Whole

(* An engine writes nothing or all of what is valid, if it does not tear.  *)
LEMMA WritableIsWhole ==
  ASSUME NEW engine, NEW from \in Nat, NEW n \in Nat \ {0}
  PROVE  /\ Span(from, n) \subseteq valid => Writable(engine, from, n) = n
         /\ engine = "refuses" => Writable(engine, from, n) \in {0, n}
<1> DEFINE able == {k \in 1..n : Span(from, k) \subseteq valid}
<1>1. ASSUME Span(from, n) \subseteq valid
      PROVE  Writable(engine, from, n) = n
  <2>1. \A k \in 1..n : Span(from, k) \subseteq Span(from, n)
    BY DEF Span
  <2>2. able = 1..n
    BY <1>1, <2>1
  <2>3. Cardinality(1..n) = n
    BY FS_Interval, SMT
  <2> QED BY <2>2, <2>3 DEF Writable
<1>2. engine = "refuses" => Writable(engine, from, n) \in {0, n}
  BY DEF Writable
<1>3. QED
  BY <1>1, <1>2

(* So many cells from one on are valid as an engine that tears writes.     *)
LEMMA WritableIsValid ==
  ASSUME NEW engine, NEW from \in Nat, NEW n \in Nat \ {0}, Writable(engine, from, n) # 0
  PROVE  Span(from, Writable(engine, from, n)) \subseteq valid
<1> DEFINE able == {k \in 1..n : Span(from, k) \subseteq valid}
           m == Cardinality(able)
<1>1. IsFiniteSet(able) /\ m \in Nat
  <2>1. IsFiniteSet(1..n) /\ able \subseteq 1..n
    BY FS_Interval, SMT
  <2> QED BY <2>1, FS_Subset, FS_CardinalityType, Zenon
<1>2. Writable(engine, from, n) = m /\ m # 0
  BY DEF Writable
<1>3. PICK k \in able : k >= m
  <2>1. CASE \E k \in able : k >= m
    BY <2>1
  <2>2. CASE ~\E k \in able : k >= m
    <3>1. able \subseteq 1..(m - 1)
      <4> SUFFICES ASSUME NEW k \in able PROVE k \in 1..(m - 1)
        OBVIOUS
      <4>1. k \in 1..n /\ ~(k >= m)
        BY <2>2
      <4> HIDE DEF m, able
      <4> QED BY <4>1, <1>1
    <3>2. IsFiniteSet(1..(m - 1)) /\ Cardinality(1..(m - 1)) = m - 1
      <4>1. m - 1 \in Nat
        <5> HIDE DEF m
        <5> QED BY <1>1, <1>2
      <4> HIDE DEF m
      <4>2. IsFiniteSet(1..(m - 1)) /\ Cardinality(1..(m - 1)) =
              IF 1 > m - 1 THEN 0 ELSE (m - 1) - 1 + 1
        <5>1. 1 \in Int /\ m - 1 \in Int
          BY <4>1
        <5> QED BY <5>1, FS_Interval, Zenon
      <4> QED BY <4>1, <4>2
    <3>3. m <= m - 1
      <4>1. Cardinality(able) <= Cardinality(1..(m - 1))
        BY <3>1, <3>2, FS_Subset
      <4> QED BY <3>2, <4>1
    <3> HIDE DEF m
    <3> QED BY <1>1, <3>3
  <2> QED BY <2>1, <2>2
<1>4. Span(from, k) \subseteq valid /\ k \in Nat
  BY <1>3
<1>5. Span(from, m) \subseteq Span(from, k)
  <2> HIDE DEF m, able
  <2> QED BY <1>1, <1>3, <1>4 DEF Span
<1> HIDE DEF m, able
<1>6. QED
  BY <1>2, <1>4, <1>5

(* What may become of a write of an element.                               *)
ElementAgrees(a, size, bytes, pos, engine) ==
  LET outcome == WriteElement(a, size, bytes, pos, engine) IN
  \/ Whole(a, outcome, pos * size, bytes, Reach(a, FALSE))
  \/ engine = "tears" /\ Torn(a, outcome, size, pos, bytes)

(* An element is written whole or not at all, or torn at the edge of the   *)
(* valid memory if the engine tears.                                       *)
LEMMA ElementIsWhole ==
  ASSUME TypeOK, NEW a \in Made, NEW size \in Nat \ {0}, NEW bytes \in Seq(Bytes),
         Len(bytes) = size, NEW pos \in Nat, NEW engine \in Engines
  PROVE  ElementAgrees(a, size, bytes, pos, engine)
<1> DEFINE from == Offset(a, size, pos)
           at == pos * size
           able == Writable(engine, from, size)
           part == SubSeq(bytes, 1, able)
           outcome == WriteElement(a, size, bytes, pos, engine)
<1>1. CASE Is(a, "empty") \/ pos >= Elements(a, size)
  <2>1. outcome = Refused
    BY <1>1 DEF WriteElement
  <2> QED BY <2>1, RefusedIsWhole DEF ElementAgrees
<1>2. CASE ~(Is(a, "empty") \/ pos >= Elements(a, size))
  <2>1. /\ Elements(a, size) \in Nat /\ at \in Nat
        /\ pos + 1 <= Elements(a, size) <=> at + 1 * size <= accessor[a].length
    BY ElementInside
  <2>2. at + size <= accessor[a].length /\ accessor[a].length \in Nat
    BY <1>2, <2>1, MadeIsPlace
  <2>3. from = accessor[a].begin + at /\ from \in Nat
    BY OffsetIsPlace
  <2>4. Reach(a, FALSE) = accessor[a].length
    BY DEF Reach
  <2>5. able \in 0..size
    BY WritableIsPart
  <2>6. part \in Seq(Bytes) /\ Len(part) = able /\ (able = size => part = bytes)
    <3> HIDE DEF able
    <3> QED BY <2>5
  <2> HIDE DEF from, at, able, part
  <2>7. Whole(a, Done(a, from, bytes), at, bytes, Reach(a, FALSE))
    BY <2>1, <2>2, <2>3, <2>4, PutReplaces DEF Whole
  <2>8. CASE ~Is(a, "memory")
    <3>1. outcome \in {Refused, Done(a, from, bytes)}
      BY <1>2, <2>8 DEF WriteElement, from
    <3> HIDE DEF outcome
    <3>2. Whole(a, outcome, at, bytes, Reach(a, FALSE))
      BY <2>7, <3>1, RefusedIsWhole
    <3> QED BY <3>2 DEF ElementAgrees, at, outcome
  <2>9. CASE Is(a, "memory")
    <3>1. outcome = IF able = 0 THEN Refused ELSE Done(a, from, part)
      BY <1>2, <2>9 DEF WriteElement, from, able, part
    <3> HIDE DEF outcome
    <3>2. CASE able = 0 \/ able = size
      <4>1. outcome = Refused \/ outcome = Done(a, from, bytes)
        BY <2>6, <3>1, <3>2
      <4>2. Whole(a, outcome, at, bytes, Reach(a, FALSE))
        BY <2>7, <4>1, RefusedIsWhole
      <4> QED BY <4>2 DEF ElementAgrees, at, outcome
    <3>3. CASE able # 0 /\ able # size
      <4>1. engine = "tears" /\ ~(Span(from, size) \subseteq valid)
        BY <2>3, <3>3, WritableIsWhole DEF Engines, able
      <4>2. Span(from, able) \subseteq valid
        BY <2>3, <3>3, WritableIsValid DEF able
      <4>3. able \in 1..(size - 1)
        BY <2>5, <3>3
      <4>4. Replaced(a, outcome, at, part, Reach(a, FALSE))
        <5>1. at + Len(part) <= accessor[a].length
          BY <2>1, <2>2, <2>5, <2>6
        <5> QED BY <2>1, <2>3, <2>4, <2>6, <3>1, <3>3, <5>1, PutReplaces
      <4>5. Torn(a, outcome, size, pos, bytes)
        BY <2>9, <4>1, <4>2, <4>3, <4>4 DEF Torn, from, at, part
      <4> QED BY <4>1, <4>5 DEF ElementAgrees, outcome
    <3> QED BY <3>2, <3>3
  <2> QED BY <2>8, <2>9
<1>3. QED
  BY <1>1, <1>2

(* A range that a cache accepts ends inside of the cache.                  *)
LEMMA StrayInside ==
  ASSUME TypeOK, NEW a \in Made, NEW size \in Nat \ {0}, NEW pos \in Nat,
         pos <= Elements(a, size), NEW n \in Nat, Is(a, "copy"),
         StoreHas(a, Offset(a, size, pos), n)
  PROVE  pos * size + n <= Reach(a, TRUE)
<1> DEFINE have == accessor[accessor[a].store].length
           at == pos * size
<1>1. accessor[a].begin \in Nat /\ accessor[a].length \in Nat
  BY MadeIsPlace
<1>2. /\ accessor[a].store \in Accessors /\ Is(accessor[a].store, "cache")
      /\ accessor[a].begin + accessor[a].length <= have
  BY DEF TypeOK, Inside, Made
<1>3. have \in Nat
  BY <1>2 DEF TypeOK, Is, Places
<1>4. at \in Nat
  BY ElementInside
<1>5. Offset(a, size, pos) = accessor[a].begin + at
  BY DEF Offset
<1>6. ~Exceeds(n, have, accessor[a].begin + at)
  BY <1>5 DEF StoreHas
<1> HIDE DEF have, at
<1>7. at <= accessor[a].length
  <2>1. pos <= accessor[a].length \div size
    BY DEF Elements
  <2> QED BY <1>1, <2>1, ElementsFit DEF at
<1>8. accessor[a].begin + at + n <= have
  BY <1>1, <1>2, <1>3, <1>4, <1>6, <1>7 DEF Exceeds
<1>9. Reach(a, TRUE) = have - accessor[a].begin
  BY DEF Reach, have
<1>10. at + n <= Reach(a, TRUE)
  <2>1. \A begin, h, k, m \in Nat : begin + k + m <= h => k + m <= h - begin
    OBVIOUS
  <2>2. at + n <= have - accessor[a].begin
    BY <2>1, <1>1, <1>3, <1>4, <1>8
  <2> QED BY <2>2, <1>9
<1>11. QED
  BY <1>10 DEF at

(* A range is written whole or not at all, as far as it may reach.         *)
LEMMA RangeIsWhole ==
  ASSUME TypeOK, NEW a \in Made, NEW size \in Nat \ {0}, size <= DoubleSize,
         NEW bytes \in Seq(Bytes), Len(bytes) % size = 0, NEW pos \in Nat,
         pos <= Elements(a, size)
  PROVE  Whole(a, WriteRange(a, size, bytes, pos), pos * size, bytes,
               Reach(a, Astray(a, pos)))
<1> DEFINE from == Offset(a, size, pos)
           at == pos * size
           reach == Reach(a, Astray(a, pos))
           outcome == WriteRange(a, size, bytes, pos)
           refuses == \/ Is(a, "empty")
                      \/ Exceeds(Len(bytes) \div size,
                           IF Is(a, "copy") THEN Elements(a, DoubleSize)
                           ELSE Elements(a, size), pos)
                      \/ ~StoreHas(a, from, Len(bytes))
<1>1. outcome = IF refuses THEN Refused ELSE Done(a, from, bytes)
  BY DEF WriteRange
<1>2. from = accessor[a].begin + at /\ at \in Nat
  BY OffsetIsPlace
<1>3. ~refuses => at + Len(bytes) <= reach
  <2>1. CASE ~refuses /\ ~Astray(a, pos)
    <3>1. at + Len(bytes) <= accessor[a].length
      BY <2>1, RangeInside
    <3>2. reach = accessor[a].length
      BY <2>1 DEF Reach
    <3> QED BY <3>1, <3>2
  <2>2. CASE ~refuses /\ Astray(a, pos)
    <3>1. Is(a, "copy") /\ StoreHas(a, Offset(a, size, pos), Len(bytes)) /\ Len(bytes) \in Nat
      BY <2>2 DEF Astray
    <3>2. at + Len(bytes) <= Reach(a, TRUE)
      BY <3>1, StrayInside
    <3>3. reach = Reach(a, TRUE)
      <4>1. Astray(a, pos) = TRUE
        BY <2>2 DEF Astray
      <4> QED BY <4>1
    <3> QED BY <3>2, <3>3
  <2> QED BY <2>1, <2>2
<1> HIDE DEF from, at, reach, refuses
<1>4. ~refuses => Replaced(a, Done(a, from, bytes), at, bytes, reach)
  BY <1>2, <1>3, PutReplaces
<1> HIDE DEF outcome
<1>5. Whole(a, outcome, at, bytes, reach)
  BY <1>1, <1>4 DEF Whole
<1>6. QED
  BY <1>5 DEF at, reach, outcome

(* Reads give the bytes that are asked for, in order, or fail, and a write *)
(* that reports success has written everything where it should and one     *)
(* that fails nothing: through accessors of every class, of any length,    *)
(* with elements of any size.  Where the code does less, this says what it *)
(* does: a range of larger elements read through a copy has so many right  *)
(* bytes as it has elements, a range written behind the doubles of a copy  *)
(* is put where it belongs but may end behind the copy, in the cache, and  *)
(* an engine that tears may write the valid part of an element and succeed.*)
(* It follows from where accessors may look.                               *)
THEOREM BytesAreMoved == Spec => []MovesItsBytes
<1>1. TypeOK => ReadsAgree
  <2> SUFFICES ASSUME TypeOK, NEW a \in Made, NEW size \in Sizes,
                      NEW pos \in 0..Elements(a, size)
               PROVE  /\ ReadElement(a, size, pos) =
                           IF pos < Elements(a, size) THEN InBytes(a, pos * size, size)
                           ELSE Failed
                      /\ \A count \in 1..CellCount : RangeAgrees(a, size, pos, count)
    BY DEF ReadsAgree
  <2>1. size \in Nat \ {0} /\ CellCount \in Nat
    BY SizesAssumption
  <2>2. Elements(a, size) \in Nat
    BY <2>1, MadeIsPlace, SMT DEF Elements
  <2>3. pos \in Nat /\ pos <= Elements(a, size)
    BY <2>2
  <2>4. \A count \in 1..CellCount : count \in Nat \ {0}
    BY <2>1
  <2> QED BY <2>1, <2>3, <2>4, ElementIsItsBytes, RangeIsItsBytes
<1>2. TypeOK => WritesAreWhole
  <2> SUFFICES ASSUME TypeOK, NEW a \in Made, NEW size \in Sizes, NEW bytes \in Inputs,
                      NEW pos \in 0..Elements(a, size)
               PROVE  /\ Len(bytes) = size
                         => \A engine \in Engines :
                              ElementAgrees(a, size, bytes, pos, engine)
                      /\ Len(bytes) % size = 0
                         => Whole(a, WriteRange(a, size, bytes, pos), pos * size, bytes,
                                  Reach(a, Astray(a, pos)))
    BY DEF WritesAreWhole, ElementAgrees
  <2>1. size \in Nat \ {0} /\ size <= DoubleSize /\ bytes \in Seq(Bytes)
    BY SizesAssumption, DataAssumption
  <2>2. Elements(a, size) \in Nat
    BY <2>1, MadeIsPlace, SMT DEF Elements
  <2>3. pos \in Nat /\ pos <= Elements(a, size)
    BY <2>2
  <2> QED BY <2>1, <2>3, ElementIsWhole, RangeIsWhole
<1>3. QED
  BY <1>1, <1>2, TypeCorrect, PTL DEF MovesItsBytes
============================================================================
