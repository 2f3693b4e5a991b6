----------------------------- MODULE TypedData ------------------------------
(***************************************************************************)
(* A program that looks at the debuggee's objects through typed variables, *)
(* writes their elements, follows their lists and asks for their methods,  *)
(* and that defines structures of its own (source/typedvar.cpp,            *)
(* typeinfo.cpp, customtypes.cpp).                                         *)
(*                                                                         *)
(* What it sees is compared with what the language says of the same        *)
(* objects.  Objects tells, for every variable of the debuggee, the class  *)
(* the program takes it for, its address, and the address of its virtual   *)
(* base, which the compiler knows.                                         *)
(***************************************************************************)
EXTENDS TypedVars

CONSTANTS
  InitialMemory,
  Objects,        (* name -> [class, at, vbase]                            *)
  Elements,       (* class -> the elements looked at: [path, index]        *)
  Numbers_,       (* what is written to numbers                            *)
  Lists,          (* name -> [head, class, path, nodes, link]: what its    *)
                  (* links point to, and where from there a link is        *)
  Calls,          (* the calls looked at: [object, method, prototype,      *)
                  (* code, offset]                                         *)
  OwnFields,      (* the types of fields of structures the program defines *)
  MaxWrites, MaxOwn, MaxFields

ASSUME ObjectsAssumption == \A o \in DOMAIN Objects : Objects[o].class \in DOMAIN Symbols

VARIABLES
  last,           (* the last write: [object, element, val]                *)
  writes,         (* how many there were                                   *)
  outgrown,       (* structures extended after another had them as a field *)
  looked          (* the program has looked at everything                  *)

vars == <<custom, memory, last, writes, outgrown, looked>>

NoIndex == -1
NoWrite == [object |-> "", element |-> [path |-> <<>>, index |-> NoIndex], val |-> 0]

ObjectVar(o) == LoadTypedVar(<<"udt", Objects[o].class>>, Objects[o].at)

OfIndex(v, index) == IF index = NoIndex THEN v ELSE ElementAt(v, index)
ElementOf(v, e) == OfIndex(Element(v, e.path), e.index)

(* setElement and setValue of what getElement gives.                       *)
WriteElement(o, e, val) ==
  /\ writes < MaxWrites /\ custom = <<>> /\ ~looked
  /\ SetValue(ElementOf(ObjectVar(o), e), Number("long", val))
  /\ last' = [object |-> o, element |-> e, val |-> val]
  /\ writes' = writes + 1
  /\ UNCHANGED <<custom, outgrown, looked>>

(* The programs of the debuggee link their lists anew.                     *)
Relink(l) ==
  /\ writes < MaxWrites /\ custom = <<>> /\ ~looked
  /\ \E from \in {n + Lists[l].link : n \in Lists[l].nodes} \cup {Lists[l].head}, to \in Lists[l].nodes \cup {0, Lists[l].head} :
       LET link == ToBytes(PtrSize, to) IN
       memory' = [a \in DOMAIN memory |-> IF a \in from..(from + PtrSize - 1) THEN link[a - from + 1] ELSE memory[a]]
  /\ writes' = writes + 1
  /\ last' = NoWrite
  /\ UNCHANGED <<custom, outgrown, looked>>

Embedded(i) == \E j \in DOMAIN custom \ {i} : \E f \in ToSet(custom[j].fields) : HoldsType(f.type, <<"custom", i>>)

DefineOwn(kind, align) ==
  /\ writes = 0 /\ ~looked /\ Len(custom) < MaxOwn
  /\ Define(kind, "own", align)
  /\ UNCHANGED <<memory, last, writes, outgrown, looked>>

FieldNames == <<"f1", "f2", "f3", "f4">>

AppendOwn(i, name, t) ==
  /\ writes = 0 /\ ~looked /\ Len(custom[i].fields) < MaxFields
  /\ AppendField(i, name, t)
  /\ outgrown' = IF Embedded(i) THEN outgrown \cup {i} ELSE outgrown
  /\ UNCHANGED <<memory, last, writes, looked>>

(* All elements are read, all lists are followed, all methods asked for.   *)
Look == custom = <<>> /\ ~looked /\ looked' = TRUE /\ UNCHANGED <<custom, memory, last, writes, outgrown>>

Init == TypesInit /\ memory = InitialMemory /\ last = NoWrite /\ writes = 0 /\ outgrown = {} /\ looked = FALSE

Next ==
  \/ \E kind \in {"struct", "union"}, align \in {0, 1} : DefineOwn(kind, align)
  \/ \E i \in DOMAIN custom : \E n \in {1, Len(custom[i].fields) + 1},
        t \in OwnFields \cup {<<"custom", j>> : j \in DOMAIN custom} : AppendOwn(i, FieldNames[n], t)
  \/ \E o \in DOMAIN Objects : \E e \in Elements[Objects[o].class], val \in Numbers_ : WriteElement(o, e, val)
  \/ \E l \in DOMAIN Lists : Relink(l)
  \/ Look

Spec == Init /\ [][Next]_vars
-----------------------------------------------------------------------------
(* The language's own view of an object.  A member is looked for in the    *)
(* class itself and, if it is not there, in all its bases.                 *)
Members(class) == SelectSeq(Symbols[class].children, LAMBDA s : s.tag = "data" /\ s.kind = "member")

RECURSIVE FoundIn(_, _, _, _)
FoundIn(o, class, at, name) ==
  LET own == {s \in ToSet(Members(class)) : s.name = name}
      bases == ToSet(BaseClasses(class)) IN
  IF own # {} THEN {[at |-> at + s.offset, type |-> s.type] : s \in own}
  ELSE UNION {FoundIn(o, b.of, IF b.virtual THEN Objects[o].vbase ELSE at + b.offset, name) : b \in bases}

RECURSIVE Follow(_, _, _)
Follow(o, place, path) ==
  LET next == CHOOSE p \in FoundIn(o, place.type[2], place.at, Head(path)) : TRUE IN
  IF path = <<>> THEN place ELSE Follow(o, next, Tail(path))

(* Where an element is, and what part of a number it is if it is one.      *)
PlaceOf(o, e) ==
  LET p == Follow(o, [at |-> Objects[o].at, type |-> <<"udt", Objects[o].class>>], e.path) IN
  IF e.index = NoIndex THEN p ELSE [at |-> p.at + e.index * Size(LoadSymbol(p.type[2])), type |-> p.type[2]]

ElementPlaces == [o \in DOMAIN Objects |-> [e \in Elements[Objects[o].class] |-> PlaceOf(o, e)]]
ElementPlace(o, e) == ElementPlaces[o][e]

Whole(t) == IF Is(t, "bitfield") THEN LoadSymbol(t[2]) ELSE LoadSymbol(t)
Low(t) == IF Is(t, "bitfield") THEN t[3] ELSE 0
Width(t) == IF Is(t, "bitfield") THEN t[4] ELSE CharBits * Size(Whole(t))

SignedNumber(t) == Is(Whole(t), "base") /\ BaseTypes[Whole(t)[2]] \notin Unsigned

CppValue(m, place) ==
  LET n == BitsAt(m, place.at, Low(place.type), Width(place.type)) IN
  IF SignedNumber(place.type) /\ n >= 2^(Width(place.type) - 1) THEN n - 2^Width(place.type) ELSE n

(* What the debugger is known to see otherwise: a name that a base class   *)
(* takes from its own base, ...                                            *)
AllNamed(class, name) == {i \in DOMAIN Fields(<<"udt", class>>) : Fields(<<"udt", class>>)[i].name = name}
Hidden(class, name) ==
  ~(\E s \in ToSet(Members(class)) : s.name = name) /\ Cardinality(AllNamed(class, name)) > 1

(* ... a dotted name that leads through a virtual base, and a virtual base *)
(* whose table's address is the first thing in the object; ...             *)
RECURSIVE FromVirtual(_, _)
FromVirtual(class, name) ==
  /\ ~(\E s \in ToSet(Members(class)) : s.name = name)
  /\ \E b \in ToSet(BaseClasses(class)) :
       \/ b.virtual /\ AllNamed(b.of, name) # {}
       \/ FromVirtual(b.of, name)

TableFirst(class) == \E b \in ToSet(BaseClasses(class)) : b.virtual /\ b.vbptr = 0

(* ... and a bit field as wide as its number.                              *)
FullWidth(t) == Is(t, "bitfield") /\ t[4] = CharBits * Size(Whole(t))

(* A virtual base may lie behind what the class is thought to take; then   *)
(* nothing is seen at all.                                                 *)
OutOfSight(o, e) ==
  LET place == ElementPlace(o, e) IN
  place.at + Size(Whole(place.type)) > Objects[o].at + Symbols[Objects[o].class].size

IsKnownOtherwise(o, e) ==
  LET class == Objects[o].class IN
  \/ Hidden(class, Head(e.path))
  \/ FromVirtual(class, Head(e.path)) /\ (Len(e.path) > 1 \/ TableFirst(class))
  \/ FullWidth(ElementPlace(o, e).type)

Otherwise == [o \in DOMAIN Objects |-> {e \in Elements[Objects[o].class] : IsKnownOtherwise(o, e)}]
KnownOtherwise(o, e) == e \in Otherwise[o]

(* The ways to one object: the variable, a pointer to it, and a copy.      *)
Views(o) ==
  LET t == ObjectVar(o).type
      copy == Var(t, Cache([i \in 1..Size(t) |-> memory[Objects[o].at + i - 1]])) IN
  {ObjectVar(o), MakePointer(t, Objects[o].at)}
  \cup (IF \E i \in DOMAIN Fields(t) : Fields(t)[i].place.virtual THEN {} ELSE {copy})

(* An element by its place among the fields, if it has one there.          *)
HasPlace(v, o, e) ==
  /\ UserDefined(v.type) /\ Len(e.path) = 1 /\ e.index = NoIndex /\ ~OutOfSight(o, e)
  /\ Cardinality(AllNamed(v.type[2], e.path[1])) = 1

SeenByPlace(v, e) == GetValue(ElementAt(v, GetElementIndex(v.type, e.path[1])))

SeenRight(v, o, e, seen) ==
  /\ IF OutOfSight(o, e) THEN seen = Error ELSE seen.val = CppValue(memory, ElementPlace(o, e)) /\ Numeric(seen)
  /\ HasPlace(v, o, e) => SeenByPlace(v, e) = seen

(* An element read through a variable, a pointer or a copy, by its name or *)
(* by its place among the fields, has the value the compiled program sees. *)
ReadsAsCpp ==
  [][looked' => \A o \in DOMAIN Objects : \A e \in Elements[Objects[o].class] :
       KnownOtherwise(o, e) \/ \A v \in Views(o) : SeenRight(v, o, e, GetValue(ElementOf(v, e)))]_vars

(* Setting an element changes the bits of this element and no other, and   *)
(* gives it the value, cut off to its width.                               *)
WritesOneElement ==
  [][writes' = writes + 1 /\ last' # NoWrite =>
       LET o == last'.object
           e == last'.element
           place == ElementPlace(o, e)
           first == CharBits * place.at + Low(place.type)
           bits == first..(first + Width(place.type) - 1)
           bit(m, k) == (m[k \div CharBits] \div 2^(k % CharBits)) % 2 IN
       KnownOtherwise(o, e) \/
         /\ BitsAt(memory', place.at, Low(place.type), Width(place.type)) = last'.val % 2^Width(place.type)
         /\ \A a \in DOMAIN memory :
              \/ memory'[a] = memory[a]
              \/ \A k \in (CharBits * a)..(CharBits * a + CharBits - 1) : k \in bits \/ bit(memory', k) = bit(memory, k)]_vars

Linked(l, s) ==
  LET next(a) == BitsAt(memory, a, 0, CharBits * PtrSize)
      via == <<Lists[l].head>> \o [i \in DOMAIN s |-> s[i] + Lists[l].link] IN
  /\ \A i \in DOMAIN s : next(via[i]) = s[i] /\ s[i] \notin {0, Lists[l].head}
  /\ next(via[Len(via)]) \in {0, Lists[l].head}

(* The records of a list are found, each once and in the order they are    *)
(* linked, whether a link points to the next record or to its link; a list *)
(* that runs into a circle without its head has no end.  The links of a    *)
(* list that are pointers to links are also found without the records.     *)
ListsComplete ==
  [][looked' => \A l \in DOMAIN Lists :
       LET t == <<"udt", Lists[l].class>>
           offset == PathOffset(t, Lists[l].path) - Lists[l].link
           orders == {s \in SeqOf(Lists[l].nodes, Cardinality(Lists[l].nodes)) : IsInjective(s) /\ Linked(l, s)}
           found == LoadTypedVarList(Lists[l].head, t, Lists[l].path)
           links == LoadPtrList(Lists[l].head) IN
       IF orders = {} THEN found = Endless /\ (Lists[l].link = 0 => links = EndlessPtrs)
       ELSE LET order == CHOOSE s \in orders : TRUE IN
              /\ found = [i \in DOMAIN order |-> LoadTypedVar(t, order[i] - offset)]
              /\ Lists[l].link = 0 => links = order]_vars

(* A method is found where the object's class, and not the one it is taken *)
(* for, defines it; `this' is the object, if the base that introduced the  *)
(* method is the first.                                                    *)
MethodsAsCpp ==
  [][looked' => \A c \in Calls :
       LET m == VarMethod(ObjectVar(c.object), c.method, c.prototype) IN
       /\ m.code = c.code
       /\ c.offset = 0 => m.this = Objects[c.object].at]_vars

(* What is named through a variable, element or method, is what the        *)
(* compiled program means by it.                                           *)
MeansAsCpp == ReadsAsCpp /\ MethodsAsCpp

(* The fields of a structure the program defined have names of their own,  *)
(* are aligned, do not share a byte and leave no gap where the next one    *)
(* could have begun, as long as no structure grows that another holds; a   *)
(* union's all begin it.  What a structure takes is a multiple of its own  *)
(* alignment, and no less than its fields take.                            *)
OwnLayout ==
  \A i \in DOMAIN custom :
    LET s == custom[i]
        align(f) == Smaller(AlignReq(f.type), s.align)
        end(n) == IF n = 0 THEN 0 ELSE s.fields[n].place.offset + Size(s.fields[n].type)
        least(n) == CHOOSE k \in end(n - 1)..(end(n - 1) + align(s.fields[n]) - 1) : k % align(s.fields[n]) = 0
        holds(j) == \E f \in ToSet(s.fields) : HoldsType(f.type, <<"custom", j>>) IN
    /\ IsInjective([n \in DOMAIN s.fields |-> s.fields[n].name])
    /\ (\A j \in outgrown : ~holds(j)) =>
      /\ \A n \in DOMAIN s.fields : s.fields[n].place.offset = IF s.kind = "union" THEN 0 ELSE least(n)
      /\ \A n \in DOMAIN s.fields : end(n) <= Size(<<"custom", i>>) /\ Size(<<"custom", i>>) % align(s.fields[n]) = 0
=============================================================================
