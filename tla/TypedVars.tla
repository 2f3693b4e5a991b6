----------------------------- MODULE TypedVars ------------------------------
(***************************************************************************)
(* Typed variables: a type laid over a piece of the debuggee's memory, or  *)
(* over a copy the debugger holds (source/typedvar.cpp, typedvarimp.h,     *)
(* include/kdlib/typedvar.h).                                              *)
(*                                                                         *)
(* Numbers are stored with their low byte first; a floating point number   *)
(* is stored as the fixed point number it is here.  Of the data accessors  *)
(* only ranges of memory and cached copies occur; registers are those of   *)
(* module DataAccessor.  Addresses stay below where addr64 would extend    *)
(* their sign.                                                             *)
(***************************************************************************)
EXTENDS TypeText

(* The debuggee's memory: the byte at each address that is mapped.         *)
VARIABLE memory

ByteValues == 2^CharBits

Data(where, at, length, bytes) == [where |-> where, at |-> at, length |-> length, bytes |-> bytes]
Memory(at, length) == Data("memory", at, length, <<>>)
Cache(bytes) == Data("cache", 0, Len(bytes), bytes)

NoVar == [type |-> Thrown, data |-> Cache(<<>>)]

(* getVar and getTypedVar: there are no variables of some types.           *)
Var(t, data) ==
  IF t[1] \in {"base", "udt", "custom", "pointer", "array", "incomplete", "bitfield", "enum", "function", "vtbl"}
  THEN [type |-> t, data |-> data] ELSE NoVar

(* loadTypedVar( type, offset ): the memory need not be there.             *)
Laid(t, at, size) == IF size = 0 THEN NoVar ELSE Var(t, Memory(at, size))
LoadTypedVar(t, at) == Laid(t, at, Size(t))

InMemory(v) == v.data.where = "memory"

(* MemoryAccessor::copy and CacheAccessor::copy.                           *)
Copyable(data, offset, length) == offset + length <= data.length /\ (length > 0 => offset < data.length)
Copy(data, offset, length) ==
  IF InMemory([data |-> data]) THEN Memory(data.at + offset, length)
  ELSE Cache(SubSeq(data.bytes, offset + 1, offset + length))

(* What a number of n bytes is read from.                                  *)
Readable(data, n) ==
  /\ n <= data.length
  /\ InMemory([data |-> data]) => data.at..(data.at + n - 1) \subseteq DOMAIN memory

ByteAt(data, i) == IF InMemory([data |-> data]) THEN memory[data.at + i] ELSE data.bytes[i + 1]

RECURSIVE OfBytes(_, _, _)
OfBytes(data, i, n) == IF i = n THEN 0 ELSE ByteAt(data, i) + ByteValues * OfBytes(data, i + 1, n)
ToBytes(n, val) == [i \in 1..n |-> (val \div ByteValues^(i - 1)) % ByteValues]

Read(data, t) ==
  IF Readable(data, Bytes(t)) THEN Number(t, Wrap(t, OfBytes(data, 0, Bytes(t)))) ELSE Error

(* loadCharVar ... loadDoubleVar, and TypedValue( NumVariant ): a copy of  *)
(* its own.                                                                *)
VarTypes ==
  [char |-> "Int1B", uchar |-> "UInt1B", short |-> "Int2B", ushort |-> "UInt2B",
   long |-> "Int4B", ulong |-> "UInt4B", int |-> "Int4B", uint |-> "UInt4B",
   longlong |-> "Int8B", ulonglong |-> "UInt8B", float |-> "Float", double |-> "Double"]

Value(base, n) ==
  LET t == BaseTypes[base] IN Var(<<"base", base>>, Cache(ToBytes(Bytes(t), Cast(n, t).val)))

TypedValue(n) == IF Numeric(n) THEN Value(VarTypes[n.type], n) ELSE NoVar
BoolValue(b) == Value("Bool", Truth(b))
NullPtr == Var(<<"pointer", <<"void">>>>, Cache(ToBytes(Bytes("ulonglong"), 0)))

(* castTo: the same data.                                                  *)
CastTo(v, t) == Var(t, v.data)

Pointer == IF PtrSize = Bytes("ulong") THEN "ulong" ELSE "ulonglong"

MakePointer(t, at) == CastTo(TypedValue(Number("ulonglong", at)), PtrTo(t))
-----------------------------------------------------------------------------
(* TypedVarBitField::getValue, in the arithmetic of the number the field   *)
(* is part of.                                                             *)
One(var) == AllOp("+", AllOp("^", var, var), Number("char", 1))
Bit(one, i) == Shift("<<", one, Number("int", i))

Masked(shifted, low, negative) ==
  IF negative THEN AllOp("|", shifted, UnaryOp("~", low)) ELSE AllOp("&", shifted, low)

BitsOf(var, one, position, width) ==
  Masked(Shift(">>", var, Number("int", position)),
         AllOp("-", Bit(one, width), one),
         IsSigned(var.type) /\ AllOp("&", var, Bit(one, position + width - 1)).val # 0)

BitFieldValue(var, position, width) == BitsOf(var, One(var), position, width)

(* Fault: the other bits of the number are cleared.                        *)
WithBits_Alone(old, position, width, val) == (val % 2^width) * 2^position

(* TypedVarBitField::setValue, on 64 bits.                                 *)
WithBits(old, position, width, val) ==
  old - (((old \div 2^position) % 2^width) * 2^position) + (val % 2^width) * 2^position

(* getValue.                                                               *)
AddressOf(v) == IF InMemory(v) THEN Number("ulonglong", v.data.at) ELSE Error

GetValue(v) ==
  LET t == v.type IN
  CASE Is(t, "base") /\ t[2] = "Bool" ->
         LET byte == Read(v.data, "uchar") IN IF Numeric(byte) THEN Truth(byte.val # 0) ELSE Error
    [] Is(t, "base") /\ t[2] # "Bool" -> Read(v.data, BaseTypes[t[2]])
    [] Is(t, "pointer") ->
         LET p == Read(v.data, Pointer) IN IF Numeric(p) THEN Cast(p, "ulonglong") ELSE Error
    [] Is(t, "enum") -> Read(v.data, "ulong")
    [] Is(t, "bitfield") ->
         LET n == Read(v.data, BaseTypes[t[2][2]]) IN
         IF Numeric(n) THEN BitFieldValue(n, t[3], t[4]) ELSE Error
    [] t[1] \in {"udt", "custom", "array", "incomplete", "function", "vtbl"} -> AddressOf(v)
    [] OTHER -> Error

(* setValue, as the bytes that are written; what has none cannot be set.   *)
Settable(v) == v.type[1] \in {"base", "pointer", "bitfield"}

NewBytes(v, n) ==
  LET t == v.type
      stored(number) == ToBytes(Bytes(number), Cast(n, number).val) IN
  CASE Is(t, "base") -> stored(BaseTypes[t[2]])
    [] Is(t, "pointer") -> stored(Pointer)
    [] Is(t, "bitfield") ->
         LET number == BaseTypes[t[2][2]]
             old == Cast(Read(v.data, number), "ulonglong").val IN
         ToBytes(Bytes(number), WithBits(old, t[3], t[4], Cast(n, "ulonglong").val))

SetValue(v, n) ==
  LET new == NewBytes(v, n) IN
  /\ Settable(v) /\ InMemory(v) /\ Readable(v.data, Len(new))
  /\ memory' = [a \in DOMAIN memory |->
                  IF a \in v.data.at..(v.data.at + Len(new) - 1) THEN new[a - v.data.at + 1] ELSE memory[a]]
-----------------------------------------------------------------------------
(* deref.                                                                  *)
PointedAt(t, p) == IF Numeric(p) THEN LoadTypedVar(t, p.val) ELSE NoVar

DerefVar(v) == IF Is(v.type, "pointer") THEN PointedAt(v.type[2], GetValue(v)) ELSE NoVar

(* getVirtualBaseDisplacement: the entry of the table, which is a signed   *)
(* 32 bit number.  Where it cannot be read the result is negative.         *)
Unread == -1

VirtualBaseDisplacement(v, vb) ==
  LET table == Read(Memory(v.data.at + vb.ptr, PtrSize), Pointer)
      entry == Read(Memory(table.val + vb.index * vb.size, Bytes("long")), "long") IN
  IF InMemory(v) /\ Numeric(table) /\ Numeric(entry) THEN vb.ptr + entry.val ELSE Unread

PartOfSize(v, t, offset, size) ==
  IF Copyable(v.data, offset, size) THEN Var(t, Copy(v.data, offset, size)) ELSE NoVar

Part(v, t, offset) == PartOfSize(v, t, offset, Size(t))

(* Fault: the table of virtual bases is not looked at.                     *)
FieldVar_NotVirtual(v, f, offset, dotted) ==
  IF f.kind \in {"member", "vtbl"} THEN Part(v, ElementType(f), offset) ELSE NoVar

(* How much further a field lies than the type says.  The class knows no   *)
(* virtual member by a dotted name.                                        *)
Displacement(v, f, dotted) ==
  CASE ~f.place.virtual -> 0
    [] f.place.virtual /\ dotted -> Unread
    [] OTHER -> VirtualBaseDisplacement(v, f.place.vb)

Displaced(v, t, offset, disp) == IF disp = Unread THEN NoVar ELSE Part(v, t, offset + disp)

(* TypedVarUdt::getElement, f being the field and offset where the type    *)
(* says it is.                                                             *)
FieldVar(v, f, offset, dotted) ==
  CASE f.kind = "static" -> LoadTypedVar(f.type, f.va)
    [] f.kind = "constant" -> TypedValue(f.va)
    [] f.kind \in {"member", "vtbl"} -> Displaced(v, ElementType(f), offset, Displacement(v, f, dotted))
    [] OTHER -> NoVar

HasElement(v, f, path) == f.kind \in {"static", "constant"} \/ PathHasOffset(v.type, path)

PathElement(v, f, path) ==
  IF HasElement(v, f, path) THEN FieldVar(v, f, PathOffset(v.type, path), Len(path) > 1) ELSE NoVar

UdtElement(v, path) == PathElement(v, LastField(v.type, path), path)

(* getElement( name ): a pointer gives what it points to.                  *)
RECURSIVE Element(_, _)
Element(v, path) ==
  CASE UserDefined(v.type) -> UdtElement(v, path)
    [] Is(v.type, "pointer") -> Element(DerefVar(v), path)
    [] OTHER -> NoVar

(* Fault: an element of an array is looked for by its index in bytes.      *)
ElementAt_Bytes(v, i) == Part(v, Deref(v.type), i)

(* getElement( index ).  Fields count from 1 here, the rest from 0.  What  *)
(* lies in memory is not bound by the count of an array.                   *)
NumberedField(v, f) == FieldVar(v, f, f.place.offset, FALSE)

IndexedAt(t, p, i, size) ==
  IF Numeric(p) THEN Laid(t, Wrap("ulonglong", p.val + i * size), size) ELSE NoVar

ElementAt(v, i) ==
  LET t == Deref(v.type) IN
  CASE UserDefined(v.type) -> NumberedField(v, FieldAt(v.type, i))
    [] Is(v.type, "pointer") \/ (v.type[1] \in {"array", "incomplete"} /\ InMemory(v)) ->
         IndexedAt(t, GetValue(v), i, Size(t))
    [] Is(v.type, "array") /\ ~InMemory(v) -> IF i < v.type[3] THEN Part(v, t, i * Size(t)) ELSE NoVar
    [] Is(v.type, "vtbl") ->
         IF i < v.type[2] THEN LoadTypedVar(PtrTo(<<"void">>), v.data.at + i * PtrSize) ELSE NoVar
    [] OTHER -> NoVar
-----------------------------------------------------------------------------
(* containingRecord.                                                       *)
ContainingRecord(at, t, path) ==
  IF PathHasOffset(t, path) THEN LoadTypedVar(t, at - PathOffset(t, path)) ELSE NoVar

(* Fault: the links are always taken for pointers to links.                *)
LinksToRecord_Never(t, path) == FALSE

(* The link is a pointer to the record, and not to the next link.          *)
LinksToRecord(t, path) == GetName(ElementType(LastField(t, path))) = GetName(t) \o <<"*">>

(* loadTypedVarList: the walk from the pointer at entry, head being where  *)
(* it began.  Endless stands for a walk that comes back elsewhere, or that *)
(* reads where nothing is mapped.                                          *)
Endless == <<NoVar>>

RECURSIVE Walk(_, _, _, _, _)
Walk(head, entry, t, path, seen) ==
  LET p == Read(Memory(entry, PtrSize), Pointer)
      next == IF LinksToRecord(t, path) THEN p.val + PathOffset(t, path) ELSE p.val IN
  CASE ~Numeric(p) \/ Len(seen) > Cardinality(DOMAIN memory) -> Endless
    [] Numeric(p) /\ Len(seen) <= Cardinality(DOMAIN memory) /\ p.val \in {0, head} -> seen
    [] OTHER ->
         Walk(head, next, t, path,
              Append(seen, IF LinksToRecord(t, path) THEN LoadTypedVar(t, p.val)
                           ELSE ContainingRecord(p.val, t, path)))

LoadTypedVarList(at, t, path) == Walk(at, at, t, path, <<>>)

(* loadPtrList: each link is a pointer to the next.                        *)
PtrAt(at) == Read(Memory(at, PtrSize), Pointer)
EndlessPtrs == <<-1>>

RECURSIVE WalkPtrs(_, _, _)
WalkPtrs(head, entry, seen) ==
  LET p == PtrAt(entry) IN
  IF ~Numeric(p) \/ Len(seen) > Cardinality(DOMAIN memory) THEN EndlessPtrs
  ELSE IF p.val \in {0, head} THEN seen
  ELSE WalkPtrs(head, p.val, Append(seen, p.val))

LoadPtrList(at) == WalkPtrs(at, at, <<>>)
-----------------------------------------------------------------------------
(* A method as it is called: where its code is, and what `this' is.        *)
NoMethod == [type |-> Thrown, code |-> 0, this |-> 0]
FirstMethod(methods) == Head(SelectSeq(methods, LAMBDA m : m # NoMethod) \o <<NoMethod>>)

BaseOffset(v, b, start) ==
  IF b.virtual THEN VirtualBaseDisplacement(v, [ptr |-> b.vbptr, index |-> b.index, size |-> b.dispsize])
  ELSE start + b.offset

TableAt(v, class, start) == DerefVar(LoadTypedVar(PtrTo(<<"vtbl", Symbols[class].shape>>), v.data.at + start))

InSlot(v, m, slot) ==
  IF Numeric(slot) THEN [type |-> LoadSymbol(m.type), code |-> slot.val, this |-> v.data.at] ELSE NoMethod

(* getVirtualMethodRecursive: the first base that has the method tells its *)
(* place in the table.                                                     *)
RECURSIVE VirtualMethod(_, _, _, _, _)
VirtualMethod(v, name, prototype, class, start) ==
  LET bases == BaseClasses(class)
      own(m) == IF m = 0 \/ ~Methods(class)[m].virtual THEN NoMethod
                ELSE InSlot(v, Methods(class)[m],
                            GetValue(ElementAt(TableAt(v, class, start), Methods(class)[m].vtbloffset \div PtrSize)))
      first(inBase) == IF inBase # NoMethod THEN inBase ELSE own(GetMethod(class, name, prototype)) IN
  first(FirstMethod([i \in DOMAIN bases |->
                       VirtualMethod(v, name, prototype, bases[i].of, BaseOffset(v, bases[i], start))]))

(* Fault: a virtual method is called where its class defines it.           *)
MethodOf_Static(v, name, class, m, start) ==
  [type |-> LoadSymbol(m.type), code |-> m.va, this |-> v.data.at]

MethodOf(v, name, class, m, start) ==
  LET of(t) == IF m.virtual THEN VirtualMethod(v, name, Prototype(t), class, start)
               ELSE [type |-> t, code |-> m.va, this |-> IF t[5] THEN v.data.at ELSE 0] IN
  of(LoadSymbol(m.type))

(* getMethodRecursive: the class's own methods, then those of its bases in *)
(* turn.                                                                   *)
RECURSIVE MethodIn(_, _, _, _, _)
MethodIn(v, name, prototype, class, start) ==
  LET bases == BaseClasses(class)
      own(m) == IF m # 0 THEN MethodOf(v, name, class, Methods(class)[m], start)
                ELSE FirstMethod([i \in DOMAIN bases |->
                                    MethodIn(v, name, prototype, bases[i].of, start + bases[i].offset)]) IN
  own(GetMethod(class, name, prototype))

VarMethod(v, name, prototype) == MethodIn(v, name, prototype, v.type[2], 0)

(* The number in the bits of memory from bit low of the byte at at.        *)
RECURSIVE BitsAt(_, _, _, _)
BitsAt(m, at, low, width) ==
  IF width = 0 THEN 0
  ELSE ((m[at + low \div CharBits] \div 2^(low % CharBits)) % 2) + 2 * BitsAt(m, at, low + 1, width - 1)
=============================================================================
