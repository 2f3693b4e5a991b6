-------------------------------- MODULE Types -------------------------------
(***************************************************************************)
(* Types and the layout of what has fields (source/typeinfo.cpp,           *)
(* typeinfoimp.h, udtfield.h, udtfiled.cpp, customtypes.cpp).              *)
(*                                                                         *)
(* A type is a tuple that begins with its kind:                            *)
(*    <<"base", name>>, <<"void">>, <<"notype">>, <<"pointer", type>>,     *)
(*    <<"array", type, count>>, <<"incomplete", type>>, <<"udt", class>>,  *)
(*    <<"enum", name>>, <<"bitfield", type, position, width>>,             *)
(*    <<"vtbl", count>>, <<"custom", index>> and                           *)
(*    <<"function", return, args, convention, this, class>>.               *)
(* Sizes are in bytes of CharBits bits.  Symbols holds what the symbol     *)
(* file says of a class: its size and its children in their order.  A      *)
(* symbol's type is a type as above, or one of <<"basic", kind, size>>,    *)
(* <<"typedef", type>> and <<"vtable", type>>.  All pointers of the        *)
(* debuggee have the same size.                                            *)
(***************************************************************************)
EXTENDS Numbers, SequencesExt

CONSTANTS Symbols, PtrSize

(* The structures and unions the program defined itself, in their order.   *)
VARIABLE custom

Thrown == <<"thrown">>
Is(t, kind) == t[1] = kind

(* The number type whose size TypeInfoBaseWrapper has, and which           *)
(* TypedVarBase reads and writes.                                          *)
BaseTypes ==
  [Char |-> "char", WChar |-> "short", Int1B |-> "char", UInt1B |-> "uchar",
   Int2B |-> "short", UInt2B |-> "ushort", Int4B |-> "long", UInt4B |-> "ulong",
   Int8B |-> "longlong", UInt8B |-> "ulonglong", Long |-> "long", ULong |-> "ulong",
   Float |-> "float", Bool |-> "uchar", Double |-> "double", Hresult |-> "ulong"]

Bytes(n) == SizeOf(n) \div CharBits

(* getBaseTypeInfo( typeName ).                                            *)
BaseType(name) ==
  CASE name = "Void" -> <<"void">>
    [] name = "NoType" -> <<"notype">>
    [] OTHER -> <<"base", name>>

(* getBaseTypeInfo( symbol ): what the symbol file calls a number.         *)
BasicName(kind, size) ==
  CASE kind = "Int" -> CHOOSE n \in {"Int1B", "Int2B", "Int4B", "Int8B"} : Bytes(BaseTypes[n]) = size
    [] kind = "UInt" -> CHOOSE n \in {"UInt1B", "UInt2B", "UInt4B", "UInt8B"} : Bytes(BaseTypes[n]) = size
    [] kind = "Long" -> "Int4B"
    [] kind = "ULong" -> "UInt4B"
    [] kind = "Float" /\ size = Bytes("double") -> "Double"
    [] kind = "Char16" -> "UInt2B"
    [] kind = "Char32" -> "UInt4B"
    [] OTHER -> kind

(* loadType( symbol ).                                                     *)
RECURSIVE LoadSymbol(_)
LoadSymbol(s) ==
  CASE Is(s, "basic") -> BaseType(BasicName(s[2], s[3]))
    [] Is(s, "typedef") -> LoadSymbol(s[2])
    [] Is(s, "pointer") \/ Is(s, "vtable") -> <<"pointer", LoadSymbol(s[2])>>
    [] Is(s, "array") -> <<"array", LoadSymbol(s[2]), s[3]>>
    [] Is(s, "bitfield") -> <<"bitfield", LoadSymbol(s[2]), s[3], s[4]>>
    [] Is(s, "function") ->
         <<"function", LoadSymbol(s[2]), [i \in DOMAIN s[3] |-> LoadSymbol(s[3][i])], s[4], s[5], s[6]>>
    [] s[1] \in {"udt", "enum", "vtbl", "void"} -> s
    [] OTHER -> Thrown
-----------------------------------------------------------------------------
(* A field.  Where it is relative to its class: at offset, and if virtual  *)
(* as much further as the table the pointer at vbptr points to has at      *)
(* index, its entries being of size dispsize.                              *)
Place(offset, vb) == [offset |-> offset, virtual |-> vb.ptr # 0, vb |-> vb]

NotVirtual == [ptr |-> 0, index |-> 0, size |-> 0]

Field(name, kind, type, place, va, inherited) ==
  [name |-> name, kind |-> kind, type |-> type, place |-> place, va |-> va, inherited |-> inherited]

VtblName == "__VFN_table"
Vtbl(class, place) == Field(VtblName, "vtbl", <<"vtbl", Symbols[class].shape>>, place, 0, FALSE)

(* Fault: what a base class has lies where its own class puts it.          *)
DataField_OwnOffset(s, start, vb, inherited) ==
  IF s.kind = "member"
  THEN <<Field(s.name, "member", LoadSymbol(s.type), Place(s.offset, vb), 0, inherited)>>
  ELSE <<>>

(* SymbolUdtField::getField, getStaticField, getConstField, for a child    *)
(* that is data.  A constant is taken for its value.                       *)
DataField(s, start, vb, inherited) ==
  LET t == LoadSymbol(s.type) IN
  CASE s.kind = "member" -> <<Field(s.name, "member", t, Place(start + s.offset, vb), 0, inherited)>>
    [] s.kind \in {"static", "constant"} ->
         <<Field(s.name, s.kind, t, Place(0, NotVirtual), s.va, inherited)>>
    [] OTHER -> <<>>

(* A class's own table takes the place of the first one it inherits.       *)
WithOwnTable(class, fields, start, vb, first) ==
  LET tables == {i \in DOMAIN fields : fields[i].kind = "vtbl"} IN
  IF first /\ tables # {}
  THEN [fields EXCEPT ![Min(tables)] = Vtbl(class, Place(start, vb))]
  ELSE fields

RECURSIVE EnumFields(_, _, _, _)

(* enumFields: the fields of parent, as fields of root.                    *)
EnumFields(root, parent, start, vb) ==
  LET one(child, first) ==
        CASE child.tag = "base" /\ child.virtual ->
               IF root # parent THEN <<>>
               ELSE EnumFields(root, child.of, 0, [ptr |-> child.vbptr, index |-> child.index, size |-> child.dispsize])
          [] child.tag = "base" /\ ~child.virtual ->
               WithOwnTable(parent, EnumFields(root, child.of, start + child.offset, vb),
                            start + child.offset, vb, first)
          [] child.tag = "data" -> DataField(child, start, vb, root # parent)
          [] child.tag = "vtable" -> <<Vtbl(parent, Place(start + child.offset, vb))>>
          [] child.tag = "enum" ->
               FlattenSeq([i \in DOMAIN child.values |-> DataField(child.values[i], start, NotVirtual, TRUE)])
          [] OTHER -> <<>>
      replaced(fields) == \E i \in DOMAIN fields : fields[i].kind = "vtbl"
      with(sofar, child, more) ==
        [fields |-> sofar.fields \o more,
         first |-> sofar.first /\ ~(child.tag = "base" /\ ~child.virtual /\ replaced(more))]
      step(sofar, child) == with(sofar, child, one(child, sofar.first)) IN
  FoldLeft(step, [fields |-> <<>>, first |-> TRUE], Symbols[parent].children).fields

(* getFields of a class, of an enumeration and of a custom type.  The      *)
(* symbol file is asked once (checkFields).                                *)
ClassFields == [class \in DOMAIN Symbols |-> EnumFields(class, class, 0, NotVirtual)]

Fields(t) ==
  CASE Is(t, "udt") -> ClassFields[t[2]]
    [] Is(t, "enum") ->
         FlattenSeq([i \in DOMAIN Symbols[t[2]].values |-> DataField(Symbols[t[2]].values[i], 0, NotVirtual, FALSE)])
    [] Is(t, "custom") -> custom[t[2]].fields
    [] OTHER -> <<>>

HasFields(t) == t[1] \in {"udt", "enum", "custom"}
UserDefined(t) == t[1] \in {"udt", "custom"}

NoField == Field("", "none", Thrown, Place(0, NotVirtual), 0, FALSE)

(* Fault: the first field of that name, whoever's it is.                   *)
Lookup_First(t, name) ==
  SelectSeq(Append(Fields(t), NoField), LAMBDA f : f.name = name \/ f = NoField)[1]

(* FieldCollection::lookup: a field of the class itself comes first.       *)
FirstOf(named) == Head(SelectSeq(named, LAMBDA f : ~f.inherited) \o Append(named, NoField))

Lookup(t, name) == FirstOf(SelectSeq(Fields(t), LAMBDA f : f.name = name))

(* FieldCollection::getIndex; 0 stands for the exception.                  *)
GetElementIndex(t, name) == SelectInSeq(Fields(t), LAMBDA f : f.name = name)

(* lookup by index; the first field has index 1 here.                      *)
FieldNumber(fields, index) == IF index \in DOMAIN fields THEN fields[index] ELSE NoField
FieldAt(t, index) == FieldNumber(Fields(t), index)

(* getElement of a class: a table is seen through a pointer.               *)
ElementType(f) == IF f.kind = "vtbl" THEN <<"pointer", f.type>> ELSE f.type

(* getOffset.                                                              *)
HasOffset(f) == f.kind \in {"member", "vtbl"}

(* The parts of a dotted name are those of a sequence.  getElement and     *)
(* isStaticMember, isVirtualMember, isConstMember, getElementVa look at    *)
(* the last part only.                                                     *)
RECURSIVE LastField(_, _)
LastField(t, path) ==
  LET last(f) == IF Len(path) = 1 \/ f = NoField THEN f ELSE LastField(f.type, Tail(path)) IN
  IF HasFields(t) THEN last(Lookup(t, Head(path))) ELSE NoField

(* getElementOffset adds them all up.                                      *)
RECURSIVE PathOffset(_, _)
PathOffset(t, path) ==
  LET from(f) == f.place.offset + IF Len(path) = 1 THEN 0 ELSE PathOffset(ElementType(f), Tail(path)) IN
  from(Lookup(t, Head(path)))

RECURSIVE PathHasOffset(_, _)
PathHasOffset(t, path) ==
  LET has(f) == HasOffset(f) /\ (Len(path) = 1 \/ PathHasOffset(ElementType(f), Tail(path))) IN
  HasFields(t) /\ has(Lookup(t, Head(path)))
-----------------------------------------------------------------------------
AlignUp(val, align) == val + (IF val % align = 0 THEN 0 ELSE align - (val % align))

Smaller(a, b) == IF a < b THEN a ELSE b

(* getAlignReq; 0 stands for the exception.                                *)
RECURSIVE AlignReq(_)
AlignReq(t) ==
  CASE Is(t, "base") -> Bytes(BaseTypes[t[2]])
    [] t[1] \in {"pointer", "vtbl", "function"} -> PtrSize
    [] Is(t, "bitfield") -> Bytes(BaseTypes[t[2][2]])
    [] t[1] \in {"array", "incomplete"} -> AlignReq(t[2])
    [] HasFields(t) ->
         LET most(reqs) == IF 0 \in reqs THEN 0 ELSE Max(reqs \cup {1}) IN
         most({AlignReq(ElementType(f)) : f \in ToSet(Fields(t))})
    [] OTHER -> 0

(* getSize; 0 stands for the exception of what has no size.                *)
RECURSIVE Size(_)
Size(t) ==
  CASE Is(t, "base") -> Bytes(BaseTypes[t[2]])
    [] t[1] \in {"pointer", "function"} -> PtrSize
    [] Is(t, "vtbl") -> PtrSize * t[2]
    [] Is(t, "bitfield") -> Size(t[2])
    [] Is(t, "array") -> t[3] * Size(t[2])
    [] t[1] \in {"udt", "enum"} -> Symbols[t[2]].size
    [] Is(t, "custom") -> AlignUp(custom[t[2]].size, Smaller(AlignReq(t), custom[t[2]].align))
    [] OTHER -> 0

PtrTo(t) == <<"pointer", t>>
ArrayOf(t, count) == IF Is(t, "incomplete") \/ Size(t) = 0 THEN Thrown ELSE <<"array", t, count>>
Deref(t) == IF t[1] \in {"pointer", "array", "incomplete"} THEN t[2] ELSE Thrown

(* getBaseClass ... getBaseClassVirtualDisplacement, by index, and         *)
(* getMethod: children of a class, in their order.                         *)
BaseClasses(class) == SelectSeq(Symbols[class].children, LAMBDA s : s.tag = "base")
Methods(class) == SelectSeq(Symbols[class].children, LAMBDA s : s.tag = "function")
-----------------------------------------------------------------------------
TypesInit == custom = <<>>

(* defineStruct and defineUnion.                                           *)
Define(kind, name, align) ==
  custom' = Append(custom, [kind |-> kind, name |-> name, size |-> 0, fields |-> <<>>,
                            align |-> IF align = 0 THEN PtrSize ELSE align])

(* throwIfTypeRecursive looks into classes only, and not behind an array.  *)
RECURSIVE HoldsType(_, _)
HoldsType(t, this) ==
  \/ t = this
  \/ /\ UserDefined(t)
     /\ \E f \in ToSet(Fields(t)) : HoldsType(ElementType(f), this)

(* Fault: a field begins where the one before it ends.                     *)
OffsetOf_Packed(s, t) == IF s.kind = "union" THEN 0 ELSE s.size

OffsetOf(s, t) ==
  IF s.kind = "union" THEN 0 ELSE AlignUp(s.size, Smaller(AlignReq(t), s.align))

(* Fault: the name is not looked up.                                       *)
Appendable_Again(i, name, t) == ~HoldsType(t, <<"custom", i>>) /\ AlignReq(t) # 0

(* What is refused: a name that is taken, the structure within itself, and *)
(* what has no alignment or no size.                                       *)
Appendable(i, name, t) ==
  /\ Lookup(<<"custom", i>>, name) = NoField
  /\ ~HoldsType(t, <<"custom", i>>)
  /\ custom[i].kind = "union" \/ AlignReq(t) # 0
  /\ Size(t) # 0 \/ Is(t, "custom")

(* CustomStruct::appendField and CustomUnion::appendField.                 *)
WithField(s, name, t, offset, size) ==
  [s EXCEPT !.fields = Append(@, Field(name, "member", t, Place(offset, NotVirtual), 0, FALSE)),
            !.size = IF s.kind = "union" THEN Max({@, size}) ELSE offset + size]

AppendField(i, name, t) ==
  /\ Appendable(i, name, t)
  /\ custom' = [custom EXCEPT ![i] = WithField(@, name, t, OffsetOf(@, t), Size(t))]
=============================================================================
