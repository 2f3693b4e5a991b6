------------------------------ MODULE TypeNames -----------------------------
(***************************************************************************)
(* Types as they are written in expressions (source/clang/typeparser.h,    *)
(* exprparser.h, parser.h, basetypematcher.cpp, and TypeEval and ExprEval2 *)
(* of evalexpr.cpp).                                                       *)
(*                                                                         *)
(* The preprocessor's tokens are texts; what is neither a mark, a keyword  *)
(* nor a literal is an identifier, bool and wchar_t too, the language of   *)
(* the preprocessor being C.  A name is a sequence of pieces.              *)
(***************************************************************************)
EXTENDS Operators

Eof == "eof"
PunctuationMarks ==
  BinaryOperators \cup {"~", "!", "(", ")", "[", "]", ".", "->", ":", "?", ",", Eof}

Words == {"int", "char", "short", "unsigned", "signed", "long", "float", "double", "void"}
Keywords == Words \cup {"const", "sizeof"}

IsIdentifier(token) == token \notin PunctuationMarks \cup Keywords \cup DOMAIN Literals \cup {""}

(* isBaseTypeKeyWord, standardIntTypes.                                    *)
BaseTypeKeyWords == Words \cup {"__int64"}

StandardIntTypes ==
  LET wide == PtrSize # Bytes("long") IN
  [wchar_t |-> "Int2B", int8_t |-> "Int1B", uint8_t |-> "UInt1B", int16_t |-> "Int2B",
   uint16_t |-> "UInt2B", int32_t |-> "Int4B", uint32_t |-> "UInt4B", int64_t |-> "Int8B",
   uint64_t |-> "UInt8B", size_t |-> IF wide THEN "UInt8B" ELSE "UInt4B",
   intptr_t |-> IF wide THEN "Int8B" ELSE "Int4B", uintptr_t |-> IF wide THEN "UInt8B" ELSE "UInt4B",
   bool |-> "Bool", void |-> "Void"]
-----------------------------------------------------------------------------
(* A match ends before the token at end, or there is none, or an exception *)
(* came, or one that nobody catches.                                       *)
Matched(end, got) == [end |-> end, got |-> got]
NoMatch == Matched(0, <<>>)
Refused == Matched(-1, <<>>)
Escaped == Matched(-2, <<>>)

Ok(m) == m.end > 0
Raised(m) == m.end < 0

Token(ts, i) == IF i \in DOMAIN ts THEN ts[i] ELSE ""

(* opt: nothing is a match as well.                                        *)
Opt(m, i, nothing) == IF m.end = 0 THEN Matched(i, nothing) ELSE m

RECURSIVE SkipConst(_, _)
SkipConst(ts, i) == IF Token(ts, i) = "const" THEN SkipConst(ts, i + 1) ELSE i

(* PointerPointerMatcher, telling which pointers are const.                *)
RECURSIVE Pointers(_, _)
Pointers(ts, i) ==
  IF Token(ts, i) # "*" THEN Matched(i, <<>>)
  ELSE LET rest == Pointers(ts, SkipConst(ts, i + 1)) IN
       Matched(rest.end, <<Token(ts, i + 1) = "const">> \o rest.got)

(* NumericMatcher, ArrayMatcher.  "" is the index of an incomplete array.  *)
IsNumeric(token) == token \in DOMAIN Literals \cup {"true", "false"}

RECURSIVE Indices(_, _)
Indices(ts, i) ==
  LET from(end, index) == LET rest == Indices(ts, end) IN Matched(rest.end, <<index>> \o rest.got) IN
  CASE Token(ts, i) = "[" /\ Token(ts, i + 1) = "]" -> from(i + 2, "")
    [] Token(ts, i) = "[" /\ IsNumeric(Token(ts, i + 1)) /\ Token(ts, i + 2) = "]" -> from(i + 3, ts[i + 1])
    [] OTHER -> Matched(i, <<>>)

(* ComplexMatcher, and NestedComplexMatcher within it.                     *)
RECURSIVE Complex(_, _)
Complex(ts, i) ==
  LET p == Pointers(ts, i)
      inner == IF Token(ts, p.end) = "(" THEN Complex(ts, p.end + 1) ELSE NoMatch
      nested == Ok(inner) /\ Token(ts, inner.end) = ")"
      a == Indices(ts, IF nested THEN inner.end + 1 ELSE p.end)
      whole(end, ref, in, indices) ==
        Matched(end, [pointers |-> p.got, ref |-> ref, nested |-> in, indices |-> indices]) IN
  CASE Token(ts, p.end) \in {"&", "&&"} -> whole(SkipConst(ts, p.end + 1), Token(ts, p.end), <<>>, <<>>)
    [] Token(ts, p.end) \notin {"&", "&&"} /\ a.end > i ->
         whole(a.end, "", IF nested THEN <<inner.got>> ELSE <<>>, a.got)
    [] OTHER -> NoMatch

(* FieldMatcher and NamespaceMatcher, as many as there are.                *)
RECURSIVE Qualifiers(_, _)
Qualifiers(ts, i) ==
  IF Token(ts, i) = ":" /\ Token(ts, i + 1) = ":" /\ IsIdentifier(Token(ts, i + 2))
  THEN LET rest == Qualifiers(ts, i + 3) IN Matched(rest.end, <<ts[i + 2]>> \o rest.got)
  ELSE Matched(i, <<>>)

CustomName(ts, i) ==
  LET name == Token(ts, i)
      q == Qualifiers(ts, i + 1) IN
  IF IsIdentifier(name) /\ name \notin DOMAIN StandardIntTypes \cup BaseTypeKeyWords \cup {"true", "false"}
  THEN Matched(q.end, <<name>> \o q.got) ELSE NoMatch
-----------------------------------------------------------------------------
(* The builders of base types: what each stands for, how a template's      *)
(* argument calls it, and what becomes of it when a word is added; any     *)
(* other word is refused.                                                  *)
Builder(type, name, moves) == [type |-> type, name |-> name, moves |-> moves]
None == [w \in {} |-> ""]

(* An object that is deleted and then used; and a pointer that is thrown.  *)
Again == "again"
Uncaught == "uncaught"

SmallBuilders ==
  [UnsignedChar |-> Builder("UInt1B", <<"unsigned", " ", "char">>, [unsigned |-> Again]),
   SignedChar |-> Builder("Int1B", <<"char">>, [signed |-> Again]),
   Char |-> Builder("Int1B", <<"char">>, [unsigned |-> "UnsignedChar", signed |-> Uncaught]),
   UnsignedShort |-> Builder("UInt2B", <<"unsigned", " ", "short">>, [unsigned |-> Again]),
   SignedShort |-> Builder("Int2B", <<"short">>, [signed |-> Again]),
   Short |-> Builder("Int2B", <<"short">>, [unsigned |-> "UnsignedShort", signed |-> "SignedShort"])]

ULongLongName == <<"unsigned", " ", "long", " ", "long">>
LongLongName == <<"long", " ", "long">>
ULongName == <<"unsigned", " ", "long">>

IntBuilders ==
  [UnsignedLongLongInt |-> Builder("UInt8B", ULongLongName, None),
   SignedLongLongInt |-> Builder("Int8B", LongLongName, None),
   UnsignedLongInt |-> Builder("UInt4B", ULongName, [long |-> "UnsignedLongLongInt"]),
   SignedLongInt |-> Builder("Int4B", <<"long">>, [long |-> "UnsignedLongLongInt"]),
   UnsignedInt |-> Builder("UInt4B", <<"unsigned", " ", "int">>, [long |-> "UnsignedLongInt"]),
   SignedInt |-> Builder("Int4B", <<"int">>, [long |-> "UnsignedLongInt"])]

PlainIntBuilders ==
  [LongLongInt |-> Builder("Int8B", LongLongName,
     [unsigned |-> "UnsignedLongLongInt", signed |-> "SignedLongLongInt"]),
   LongInt |-> Builder("Int4B", <<"long">>,
     [unsigned |-> "UnsignedLongInt", signed |-> "SignedLongInt", long |-> "LongLongInt"]),
   Int |-> Builder("Int4B", <<"int">>,
     [unsigned |-> "UnsignedInt", signed |-> "SignedInt", long |-> "LongInt"])]

LongBuilders ==
  [UnsignedLongLong |-> Builder("UInt8B", ULongLongName, [int |-> "UnsignedLongLongInt"]),
   SignedLongLong |-> Builder("Int8B", LongLongName, [int |-> "UnsignedLongLongInt"]),
   UnsignedLong |-> Builder("UInt4B", ULongName, [long |-> "UnsignedLongLong", int |-> "UnsignedLongInt"]),
   SignedLong |-> Builder("Int4B", <<"long">>, [long |-> "SignedLongLong", int |-> "UnsignedLongInt"]),
   LongLong |-> Builder("Int8B", LongLongName,
     [unsigned |-> "UnsignedLongLong", signed |-> "SignedLongLong", int |-> "LongLongInt"])]

SignBuilders ==
  [Unsigned |-> Builder("UInt4B", <<"unsigned", " ", "int">>,
     [char |-> "UnsignedChar", short |-> "UnsignedShort", int |-> "UnsignedInt",
      long |-> "UnsignedLong", unsigned |-> Again]),
   Signed |-> Builder("Int4B", <<"int">>,
     [char |-> "SignedChar", short |-> "SignedShort", int |-> "SignedInt",
      long |-> "SignedLong", signed |-> Again])]

LongAndFloatBuilders ==
  [LongDouble |-> Builder("Double", <<"double">>, None),
   LongFloat |-> Builder("Double", <<"double">>, None),
   Long |-> Builder("Int4B", <<"long">>,
     [int |-> "LongInt", long |-> "LongLong", unsigned |-> "UnsignedLong", signed |-> "SignedLong",
      float |-> "LongFloat", double |-> "LongDouble"]),
   Float |-> Builder("Float", <<"float">>, [long |-> "LongFloat"]),
   Double |-> Builder("Double", <<"double">>, [long |-> "LongDouble"]),
   Void |-> Builder("Void", <<"void">>, None)]

EmptyBuilder ==
  [Empty |-> Builder("", <<>>,
     [int |-> "Int", char |-> "Char", short |-> "Short", unsigned |-> "Unsigned", signed |-> "Signed",
      long |-> "Long", float |-> "Float", double |-> "Double", void |-> "Void"])]

Builders ==
  SmallBuilders @@ IntBuilders @@ PlainIntBuilders @@ LongBuilders @@ SignBuilders
    @@ LongAndFloatBuilders @@ EmptyBuilder

(* Fault: the words are taken in one order only, the sign first.           *)
Add_SignFirst(state, word) ==
  IF word \in {"unsigned", "signed"} /\ state # "Empty" THEN "refused"
  ELSE IF word \in DOMAIN Builders[state].moves THEN Builders[state].moves[word] ELSE "refused"

Add(state, word) ==
  IF word \in DOMAIN Builders[state].moves THEN Builders[state].moves[word] ELSE "refused"

(* BaseTypeMatcher: all words that follow each other.                      *)
RECURSIVE BaseWords(_, _, _, _)
BaseWords(ts, i, state, const) ==
  LET word == Token(ts, i)
      next == IF word = "__int64" /\ Add(state, "long") \in DOMAIN Builders
              THEN Add(Add(state, "long"), "long")
              ELSE Add(state, IF word = "__int64" THEN "long" ELSE word) IN
  CASE word = "const" -> BaseWords(ts, i + 1, state, TRUE)
    [] word \in BaseTypeKeyWords /\ next \in DOMAIN Builders -> BaseWords(ts, i + 1, next, const)
    [] word \in BaseTypeKeyWords /\ next \in {Again, Uncaught} -> Escaped
    [] word \in BaseTypeKeyWords /\ next = "refused" -> Refused
    [] OTHER -> Matched(i, [state |-> state, const |-> const])

BaseTypeMatch(ts, i) ==
  LET m == BaseWords(ts, i, "Empty", FALSE) IN
  CASE Raised(m) -> m
    [] Ok(m) /\ (m.end = i \/ m.end > Len(ts)) -> NoMatch
    [] Ok(m) /\ m.end \in (i + 1)..Len(ts) /\ m.got.state = "Empty" -> Refused
    [] OTHER -> m
-----------------------------------------------------------------------------
(* ConstExpressionMatcher: operands, each a literal with what is written   *)
(* before it or an expression in brackets, and the operations between.     *)
RECURSIVE ConstExpression(_, _)

RECURSIVE UnaryMarks(_, _)
UnaryMarks(ts, i) == IF Token(ts, i) \in {"-", "+", "!", "~"} THEN <<ts[i]>> \o UnaryMarks(ts, i + 1) ELSE <<>>

OperandMatch(ts, i) ==
  LET marks == UnaryMarks(ts, i)
      at == i + Len(marks)
      inner == IF Token(ts, i) = "(" THEN ConstExpression(ts, i + 1) ELSE NoMatch IN
  CASE IsNumeric(Token(ts, at)) -> Matched(at + 1, [marks |-> marks, literal |-> ts[at], inner |-> <<>>])
    [] ~IsNumeric(Token(ts, at)) /\ Ok(inner) /\ Token(ts, inner.end) = ")" ->
         Matched(inner.end + 1, [marks |-> <<>>, literal |-> "", inner |-> <<inner.got>>])
    [] OTHER -> NoMatch

RECURSIVE MoreOperands(_, _, _)
MoreOperands(ts, i, got) ==
  LET next == IF Token(ts, i) \in BinaryOperators THEN OperandMatch(ts, i + 1) ELSE NoMatch IN
  IF Ok(next)
  THEN MoreOperands(ts, next.end, [operands |-> Append(got.operands, next.got),
                                   operations |-> Append(got.operations, ts[i])])
  ELSE Matched(i, got)

ConstExpression(ts, i) ==
  LET first == OperandMatch(ts, i) IN
  IF Ok(first) THEN MoreOperands(ts, first.end, [operands |-> <<first.got>>, operations |-> <<>>])
  ELSE NoMatch

(* Fault: what is written before a literal is forgotten.                   *)
RECURSIVE ConstValue_Unmarked(_)
ConstValue_Unmarked(e) ==
  LET value(o) == IF o.inner # <<>> THEN ConstValue_Unmarked(o.inner[1]) ELSE NumericConst(o.literal) IN
  Reduced([i \in DOMAIN e.operands |-> value(e.operands[i])], e.operations)

(* ExprEval2::getResultForMatcher.  What is written before a literal is    *)
(* done from left to right.                                                *)
RECURSIVE ConstValue(_)
ConstValue(e) ==
  LET value(o) ==
        IF o.inner # <<>> THEN ConstValue(o.inner[1])
        ELSE FoldLeft(LAMBDA v, op : IF Failed(v) THEN v ELSE UnaryOperation(op, v), NumericConst(o.literal), o.marks)
      operands == [i \in DOMAIN e.operands |-> value(e.operands[i])]
      failed == SelectInSeq(operands, Failed) IN
  IF failed # 0 THEN operands[failed] ELSE Reduced(operands, e.operations)

(* ExprEval2::getResult.                                                   *)
ConstantValue(ts) ==
  LET m == ConstExpression(ts, 1) IN
  IF Ok(m) /\ m.end = Len(ts) + 1 THEN ConstValue(m.got) ELSE NoVar
-----------------------------------------------------------------------------
RECURSIVE QualifiedType(_, _)

(* TemplateArgMatcher: an expression if it can be one.                     *)
TemplateArg(ts, i) ==
  LET e == ConstExpression(ts, i)
      t == QualifiedType(ts, i) IN
  IF Ok(e) THEN Matched(e.end, [kind |-> "expression", of |-> e.got])
  ELSE IF Ok(t) THEN Matched(t.end, [kind |-> "type", of |-> t.got])
  ELSE t

(* TemplateArgsMatcher.                                                    *)
RECURSIVE TemplateArgs(_, _)
TemplateArgs(ts, i) ==
  LET first == TemplateArg(ts, i)
      rest == IF Ok(first) /\ Token(ts, first.end) = "," THEN TemplateArgs(ts, first.end + 1) ELSE NoMatch IN
  IF ~Ok(first) \/ Raised(rest) THEN (IF Ok(first) THEN rest ELSE first)
  ELSE IF Ok(rest) THEN Matched(rest.end, <<first.got>> \o rest.got)
  ELSE Matched(first.end, <<first.got>>)

(* The arguments that a comma follows.                                     *)
RECURSIVE ArgsBeforeComma(_, _)
ArgsBeforeComma(ts, i) ==
  LET first == TemplateArg(ts, i)
      rest == ArgsBeforeComma(ts, first.end + 1) IN
  CASE Raised(first) -> first
    [] Ok(first) /\ Token(ts, first.end) = "," ->
         IF Raised(rest) THEN rest ELSE Matched(rest.end, <<first.got>> \o rest.got)
    [] OTHER -> Matched(i, <<>>)

TemplateMatch(ts, i) ==
  LET args == IF Token(ts, i) = "<" THEN TemplateArgs(ts, i + 1) ELSE NoMatch IN
  CASE Raised(args) -> args
    [] Ok(args) /\ Token(ts, args.end) = ">" ->
         Matched(args.end + 1, [kind |-> "template", args |-> args.got, const |-> FALSE, nested |-> "", inner |-> <<>>])
    [] OTHER -> NoMatch

(* DoubleTemplateMatcher: the last argument is a template, and both end    *)
(* with one mark.                                                          *)
DoubleTemplate(ts, i) ==
  LET before == ArgsBeforeComma(ts, i + 1)
      name == CustomName(ts, SkipConst(ts, before.end))
      inner == ArgsBeforeComma(ts, name.end + 1)
      last == TemplateArg(ts, inner.end) IN
  CASE Token(ts, i) # "<" -> NoMatch
    [] Token(ts, i) = "<" /\ Raised(before) -> before
    [] Token(ts, i) = "<" /\ Ok(before) /\ (~Ok(name) \/ Token(ts, name.end) # "<") -> NoMatch
    [] Token(ts, i) = "<" /\ Ok(before) /\ Ok(name) /\ Token(ts, name.end) = "<" ->
         IF Raised(inner) THEN inner
         ELSE IF Raised(last) THEN last
         ELSE IF Ok(last) /\ Token(ts, last.end) = ">>"
         THEN Matched(last.end + 1, [kind |-> "double", args |-> before.got, nested |-> name.got[1],
                                     const |-> Token(ts, before.end) = "const", inner |-> Append(inner.got, last.got)])
         ELSE NoMatch

CustomType(ts, i) ==
  LET name == CustomName(ts, i)
      single == TemplateMatch(ts, name.end)
      template == IF single.end = 0 THEN DoubleTemplate(ts, name.end) ELSE single
      fields == Qualifiers(ts, Opt(template, name.end, <<>>).end) IN
  CASE ~Ok(name) -> NoMatch
    [] Ok(name) /\ Raised(template) -> template
    [] Ok(name) /\ ~Raised(template) ->
         Matched(fields.end, [kind |-> "custom", name |-> name.got, fields |-> fields.got,
                              template |-> IF Ok(template) THEN <<template.got>> ELSE <<>>])

TypeMatch(ts, i) ==
  LET b == BaseTypeMatch(ts, i) IN
  CASE Ok(b) -> Matched(b.end, [kind |-> "base", state |-> b.got.state, const |-> b.got.const])
    [] Raised(b) -> b
    [] b = NoMatch /\ Token(ts, i) \in DOMAIN StandardIntTypes -> Matched(i + 1, [kind |-> "standard", name |-> ts[i]])
    [] OTHER -> CustomType(ts, i)

QualifiedType(ts, i) ==
  LET start == SkipConst(ts, i)
      t == TypeMatch(ts, start)
      after == SkipConst(ts, t.end)
      c == Complex(ts, after) IN
  IF ~Ok(t) THEN t
  ELSE Matched(Opt(c, after, <<>>).end,
         [of |-> t.got, complex |-> IF Ok(c) THEN <<c.got>> ELSE <<>>,
          const |-> start > i \/ after > t.end \/ (t.got.kind = "base" /\ t.got.const)])
-----------------------------------------------------------------------------
(* The names the symbol file gives templates.                              *)
Text(pieces) == FoldLeft(LAMBDA a, b : a \o b, "", pieces)
NoName == <<>>

RECURSIVE Decimal(_)
Decimal(n) ==
  IF n < 0 THEN <<"-">> \o Decimal(-n)
  ELSE IF n < 10 THEN <<Digit(n)>> ELSE Decimal(n \div 10) \o <<Digit(n % 10)>>

IndexValue(token) == Cast(GetValue(NumericConst(token)), "longlong").val

(* getTypeModifierRecursive.  The indices are written backwards.           *)
RECURSIVE Modifier(_)
Modifier(c) ==
  LET star(i) == (IF i > 1 /\ c.pointers[i - 1] THEN <<" ">> ELSE <<>>)
                 \o (IF c.pointers[i] THEN <<"*", "const">> ELSE <<"*">>)
      index(token) == IF token = "" THEN <<"[", "]">> ELSE <<"[">> \o Decimal(IndexValue(token)) \o <<"]">> IN
  FlattenSeq([i \in DOMAIN c.pointers |-> star(i)])
  \o (IF c.ref = "" THEN <<>> ELSE <<c.ref>>)
  \o (IF c.nested = <<>> THEN <<>> ELSE <<"(">> \o Modifier(c.nested[1]) \o <<")">>)
  \o FlattenSeq([i \in DOMAIN c.indices |-> index(Reverse(c.indices)[i])])

(* makeTypeName, of the symbol file's provider and of the default one.     *)
MakeTypeName(name, qualifier, const) ==
  name \o (IF qualifier = <<>> THEN <<>> ELSE <<" ">> \o qualifier) \o (IF const THEN <<" const ">> ELSE <<>>)

RECURSIVE TypeName(_)

(* getTemplateArgList: a number is its value.                              *)
ArgName(arg) ==
  IF arg.kind = "type" THEN TypeName(arg.of)
  ELSE LET n == GetValue(ConstValue(arg.of)) IN IF Numeric(n) THEN Decimal(Cast(n, "longlong").val) ELSE NoName

ArgsName(args) ==
  LET names == [i \in DOMAIN args |-> ArgName(args[i])] IN
  IF NoName \in ToSet(names) THEN NoName ELSE Joined(names, <<",">>)

(* Fault: no space comes between the marks that end two templates.         *)
Closed_Tight(text) == Append(text, ">")

Closed(text) == IF Last(text) = ">" THEN text \o <<" ", ">">> ELSE Append(text, ">")

(* getTemplateName and getNestedTemplateName.  Of the nested template's    *)
(* name only the first part is taken.                                      *)
TemplateName(t) ==
  LET outer == ArgsName(t.args)
      inner == ArgsName(t.inner)
      nested == MakeTypeName(Closed(<<t.nested, "<">> \o inner), <<>>, t.const) IN
  CASE t.kind = "template" -> IF outer = NoName THEN NoName ELSE Closed(<<"<">> \o outer)
    [] t.kind = "double" ->
         IF inner = NoName \/ (t.args # <<>> /\ outer = NoName) THEN NoName
         ELSE <<"<">> \o (IF t.args = <<>> THEN <<>> ELSE Append(outer, ",")) \o nested \o <<" ", ">">>

(* getCustomTypeName.                                                      *)
Path(names) == Joined([i \in DOMAIN names |-> <<names[i]>>], <<"::">>)

CustomTypeName(c) ==
  IF c.template = <<>> THEN Path(c.name)
  ELSE LET name == TemplateName(c.template[1]) IN
       IF name = NoName THEN NoName
       ELSE Path(c.name) \o name \o FlattenSeq([i \in DOMAIN c.fields |-> <<"::", c.fields[i]>>])

(* TypeEval::getTypeName.                                                  *)
TypeName(q) ==
  LET name == CASE q.of.kind = "base" -> Builders[q.of.state].name
                [] q.of.kind = "standard" -> <<q.of.name>>
                [] q.of.kind = "custom" -> CustomTypeName(q.of) IN
  IF name = NoName THEN NoName
  ELSE MakeTypeName(name, IF q.complex = <<>> THEN <<>> ELSE Modifier(q.complex[1]), q.const)
-----------------------------------------------------------------------------
(* getElement of a type, by a name in the class.                           *)
TypeElement(t, name) ==
  IF HasFields(t) /\ Lookup(t, name) # NoField THEN ElementType(Lookup(t, name)) ELSE Thrown

TypeByName(pieces) == ChildByName(Text(pieces))

(* getCustomType: of a plain name the shortest beginning that is a type is *)
(* taken, and the rest are its elements.                                   *)
CustomTypeOf(c) ==
  LET prefixes == {n \in DOMAIN c.name : TypeByName(Path(SubSeq(c.name, 1, n))) # Thrown}
      n == Min(prefixes)
      name == TemplateName(c.template[1])
      element(t, field) == IF t = Thrown THEN Thrown ELSE TypeElement(t, field) IN
  CASE c.template # <<>> ->
         IF name = NoName THEN Thrown ELSE FoldLeft(element, TypeByName(Path(c.name) \o name), c.fields)
    [] c.template = <<>> /\ prefixes = {} -> Thrown
    [] c.template = <<>> /\ prefixes # {} ->
         FoldLeft(element, TypeByName(Path(SubSeq(c.name, 1, n))), SubSeq(c.name, n + 1, Len(c.name)))

(* Fault: the first index of an array is applied first.                    *)
Indexed_Forward(t, indices) ==
  FoldLeft(LAMBDA u, i : IF u = Thrown THEN Thrown
                         ELSE IF i = "" THEN <<"incomplete", u>> ELSE ArrayOf(u, IndexValue(i)), t, indices)

Indexed(t, indices) ==
  FoldLeft(LAMBDA u, i : IF u = Thrown THEN Thrown
                         ELSE IF i = "" THEN <<"incomplete", u>> ELSE ArrayOf(u, IndexValue(i)), t, Reverse(indices))

(* applyComplexModifierRecursive.                                          *)
RECURSIVE ApplyComplex(_, _)
ApplyComplex(c, t) ==
  LET pointed == FoldLeft(LAMBDA u, p : PtrTo(u), t, c.pointers)
      indexed == Indexed(pointed, c.indices) IN
  CASE c.ref # "" /\ t = <<"void">> -> Thrown
    [] (c.ref = "" \/ t # <<"void">>) /\ c.nested # <<>> /\ indexed # Thrown -> ApplyComplex(c.nested[1], indexed)
    [] OTHER -> indexed

(* TypeEval::getResult: the type, and where the tokens go on.              *)
TypeAt(ts, i, endToken) ==
  LET m == QualifiedType(ts, i)
      t == CASE m.got.of.kind = "base" -> BaseType(Builders[m.got.of.state].type)
             [] m.got.of.kind = "standard" -> BaseType(StandardIntTypes[m.got.of.name])
             [] m.got.of.kind = "custom" -> CustomTypeOf(m.got.of)
      type == IF t = Thrown \/ m.got.complex = <<>> THEN t ELSE ApplyComplex(m.got.complex[1], t) IN
  CASE Raised(m) -> m
    [] Ok(m) /\ Token(ts, m.end) = endToken -> IF type = Thrown THEN Refused ELSE Matched(m.end + 1, type)
    [] OTHER -> Refused
=============================================================================
