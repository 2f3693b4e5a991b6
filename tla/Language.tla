------------------------------ MODULE Language ------------------------------
(***************************************************************************)
(* What the language says of expressions and of types: the definitions     *)
(* that the debugger's evaluator is compared with.  They are those of the  *)
(* C++ standard, not of the source.                                        *)
(*                                                                         *)
(* An expression is a tree: <<"leaf", tokens>>, <<"unary", op, a>>,        *)
(* <<"binary", op, a, b>>, <<"ternary", a, b, c>>, <<"cast", type, a>>,    *)
(* <<"sizeof", a>>, <<"index", a, b>> or <<"member", op, a, name>>.        *)
(***************************************************************************)
EXTENDS ExprEval

(* How closely the operators bind, and the text of a tree: brackets are    *)
(* set where the grammar needs them, and nowhere else.                     *)
Grade(op) ==
  CASE op \in {"*", "/", "%"} -> 2
    [] op \in {"+", "-"} -> 3
    [] op \in {"<<", ">>"} -> 4
    [] op \in {"<", "<=", ">", ">="} -> 5
    [] op \in {"==", "!="} -> 6
    [] op = "&" -> 7
    [] op = "^" -> 8
    [] op = "|" -> 9
    [] op = "&&" -> 10
    [] op = "||" -> 11

GradeOf(t) ==
  CASE t[1] \in {"leaf", "index", "member"} -> 0
    [] t[1] \in {"unary", "cast", "sizeof"} -> 1
    [] t[1] = "binary" -> Grade(t[2])
    [] t[1] = "ternary" -> 12

(* A declarator of a type, around what is declared.  Arrays and functions  *)
(* bind closer than pointers.                                              *)
RECURSIVE Declared(_, _)
Declared(t, inner) ==
  CASE Is(t, "pointer") -> Declared(t[2], <<"*">> \o inner)
    [] Is(t, "array") -> Declared(t[2], (IF inner # <<>> /\ Head(inner) = "*" THEN <<"(">> \o inner \o <<")">> ELSE inner)
                                        \o <<"[", Digit(t[3]), "]">>)
    [] OTHER -> <<t, inner>>

(* The words for the types that are not made from others.                  *)
WordsFor(t) ==
  CASE t = <<"base", "Int1B">> -> <<"char">>
    [] t = <<"base", "UInt1B">> -> <<"unsigned", "char">>
    [] t = <<"base", "Int2B">> -> <<"short">>
    [] t = <<"base", "Int4B">> -> <<"int">>
    [] t = <<"base", "UInt4B">> -> <<"unsigned", "long">>
    [] t = <<"base", "Int8B">> -> <<"long", "long">>
    [] t = <<"base", "Float">> -> <<"float">>
    [] t = <<"base", "Double">> -> <<"double">>
    [] t = <<"base", "Bool">> -> <<"bool">>
    [] t = <<"void">> -> <<"void">>
    [] OTHER -> <<t[2]>>

TypeTokens(t) == LET d == Declared(t, <<>>) IN WordsFor(d[1]) \o d[2]

RECURSIVE Tokens(_, _)
Tokens(t, grade) ==
  LET g == GradeOf(t)
      text ==
        CASE t[1] = "leaf" -> t[2]
          [] t[1] = "unary" -> <<t[2]>> \o Tokens(t[3], 1)
          [] t[1] = "binary" -> Tokens(t[3], g) \o <<t[2]>> \o Tokens(t[4], g - 1)
          [] t[1] = "ternary" -> Tokens(t[2], 11) \o <<"?">> \o Tokens(t[3], 12) \o <<":">> \o Tokens(t[4], 12)
          [] t[1] = "cast" -> <<"(">> \o TypeTokens(t[2]) \o <<")">> \o Tokens(t[3], 1)
          [] t[1] = "sizeof" -> <<"sizeof">> \o Tokens(t[2], 0)
          [] t[1] = "index" -> Tokens(t[2], 0) \o <<"[">> \o Tokens(t[3], 12) \o <<"]">>
          [] t[1] = "member" -> Tokens(t[3], 0) \o <<t[2], t[4]>> IN
  IF g <= grade THEN text ELSE <<"(">> \o text \o <<")">>
-----------------------------------------------------------------------------
(* What an expression means: a number, an address, or an object at its     *)
(* place; or nothing can be said.                                          *)
Num(type, val) == [kind |-> "number", type |-> type, val |-> val]
Address(type, val) == [kind |-> "pointer", type |-> type, val |-> val]
Object(type, at) == [kind |-> "object", type |-> type, val |-> at]
Difference(val) == [kind |-> "difference", type |-> "longlong", val |-> val]
Undefined == [kind |-> "undefined", type |-> "", val |-> 0]

TruthValue(b) == Num("bool", IF b THEN 1 ELSE 0)

(* Integer promotion and the usual arithmetic conversions, int and long    *)
(* being alike.                                                            *)
Promoted(t) == IF t \in Small \cup {"bool"} THEN "long" ELSE t
Rank(t) == IF t \in {"longlong", "ulonglong"} THEN 2 ELSE 1

CommonType(a, b) ==
  LET p == Promoted(a)
      q == Promoted(b) IN
  CASE "double" \in {a, b} -> "double"
    [] "double" \notin {a, b} /\ "float" \in {a, b} -> "float"
    [] {p, q} \cap Floating = {} /\ Rank(p) # Rank(q) -> IF Rank(p) > Rank(q) THEN p ELSE q
    [] OTHER -> IF p \in Unsigned THEN p ELSE q

(* A number as one of another type; what does not fit is cut off from      *)
(* whole numbers.                                                          *)
InRange(t, i) == Least(t) <= i /\ i <= Greatest(t)

Converted(x, t) ==
  CASE t = "bool" -> TruthValue(x.val # 0)
    [] t # "bool" /\ x.type \in Floating /\ t \in Floating ->
         IF InRange(t, x.val) THEN Num(t, x.val) ELSE Undefined
    [] t # "bool" /\ x.type \in Floating /\ t \notin Floating ->
         IF InRange(t, Quotient(x.val, Halves)) THEN Num(t, Quotient(x.val, Halves)) ELSE Undefined
    [] t # "bool" /\ x.type \notin Floating /\ t \in Floating ->
         IF InRange(t, Halves * x.val) THEN Num(t, Halves * x.val) ELSE Undefined
    [] OTHER -> Num(t, Wrap(t, x.val))

Exact(t, i) == CASE t \in Unsigned -> Num(t, Wrap(t, i)) [] t \notin Unsigned /\ InRange(t, i) -> Num(t, i) [] OTHER -> Undefined

Bits(t, i) == Ones(i, SizeOf(t))
OfBits(t, S) == Num(t, Wrap(t, OfOnes(S)))

Arithmetic(op, x, y) ==
  LET t == CommonType(x.type, y.type)
      a == Converted(x, t).val
      b == Converted(y, t).val
      real == t \in Floating IN
  CASE op \in {"/", "%"} /\ b = 0 -> Undefined
    [] op = "+" -> Exact(t, a + b)
    [] op = "-" -> Exact(t, a - b)
    [] op = "*" -> Exact(t, IF real THEN Quotient(a * b, Halves) ELSE a * b)
    [] op = "/" /\ b # 0 -> Exact(t, IF real THEN Quotient(a * Halves, b) ELSE Quotient(a, b))
    [] op = "%" /\ b # 0 /\ ~real /\ InRange(t, Quotient(a, b)) -> Exact(t, Remainder(a, b))
    [] op = "&" /\ ~real -> OfBits(t, Bits(t, a) \cap Bits(t, b))
    [] op = "|" /\ ~real -> OfBits(t, Bits(t, a) \cup Bits(t, b))
    [] op = "^" /\ ~real -> OfBits(t, (Bits(t, a) \cup Bits(t, b)) \ (Bits(t, a) \cap Bits(t, b)))
    [] OTHER -> Undefined

Shifted(op, x, y) ==
  LET t == Promoted(x.type) IN
  IF x.type \in Floating \/ y.type \in Floating \/ ~(y.val \in 0..(SizeOf(t) - 1)) \/ (op = "<<" /\ x.val < 0)
  THEN Undefined
  ELSE IF op = "<<" THEN Exact(t, x.val * 2^y.val) ELSE Num(t, x.val \div 2^y.val)

Compared(op, a, b) ==
  TruthValue(CASE op = "<" -> a < b [] op = "<=" -> a <= b [] op = ">" -> a > b [] op = ">=" -> a >= b
               [] op = "==" -> a = b [] op = "!=" -> a # b)
-----------------------------------------------------------------------------
(* The number type of a base type.                                         *)
NumberOf(t) == IF t[2] = "Bool" THEN "bool" ELSE BaseTypes[t[2]]

(* The value an object has, an array that of its first element's address.  *)
ValueOf(x) ==
  LET n == BitsAt(memory, x.val, 0, CharBits * Size(x.type))
      readable == x.val..(x.val + Size(x.type) - 1) \subseteq DOMAIN memory IN
  IF x.kind # "object" THEN x
  ELSE CASE Is(x.type, "array") -> Address(x.type[2], x.val)
         [] ~Is(x.type, "array") /\ ~readable -> Undefined
         [] Is(x.type, "base") /\ readable -> Num(NumberOf(x.type), Wrap(BaseTypes[x.type[2]], n))
         [] Is(x.type, "pointer") /\ readable -> Address(x.type[2], n)
         [] OTHER -> x

IsNum(x) == x.kind = "number"
IsWhole(x) == IsNum(x) /\ x.type \notin Floating
IsAddress(x) == x.kind = "pointer"

MovedBy(x, n) ==
  LET to == x.val + n * Size(x.type) IN
  IF Size(x.type) # 0 /\ to \in 0..(2^(CharBits * PtrSize) - 1) THEN Address(x.type, to) ELSE Undefined

Binary(op, x, y) ==
  LET whole(d) == d.val % Size(x.type) = 0 IN
  CASE op \in {"&&", "||"} /\ (IsNum(x) \/ IsAddress(x)) /\ (IsNum(y) \/ IsAddress(y)) ->
         TruthValue(IF op = "&&" THEN x.val # 0 /\ y.val # 0 ELSE x.val # 0 \/ y.val # 0)
    [] op \in Comparisons \ {"&&", "||"} /\ IsNum(x) /\ IsNum(y) ->
         LET t == CommonType(x.type, y.type) IN Compared(op, Converted(x, t).val, Converted(y, t).val)
    [] op \in Comparisons \ {"&&", "||"} /\ IsAddress(x) /\ IsAddress(y) /\ x.type = y.type -> Compared(op, x.val, y.val)
    [] op \in {"<<", ">>"} /\ IsNum(x) /\ IsNum(y) -> Shifted(op, x, y)
    [] op \notin Comparisons \cup {"<<", ">>"} /\ IsNum(x) /\ IsNum(y) -> Arithmetic(op, x, y)
    [] op \in {"+", "-"} /\ IsAddress(x) /\ IsWhole(y) -> MovedBy(x, IF op = "+" THEN y.val ELSE -y.val)
    [] op = "+" /\ IsWhole(x) /\ IsAddress(y) -> MovedBy(y, x.val)
    [] op = "-" /\ IsAddress(x) /\ IsAddress(y) /\ x.type = y.type /\ Size(x.type) # 0 ->
         IF (x.val - y.val) % Size(x.type) = 0 THEN Difference((x.val - y.val) \div Size(x.type)) ELSE Undefined
    [] OTHER -> Undefined

Unary(op, x) ==
  LET v == ValueOf(x) IN
  CASE op = "&" -> IF x.kind = "object" THEN Address(x.type, x.val) ELSE Undefined
    [] op = "*" -> IF IsAddress(v) /\ Size(v.type) # 0 THEN Object(v.type, v.val) ELSE Undefined
    [] op = "!" /\ (IsNum(v) \/ IsAddress(v)) -> TruthValue(v.val = 0)
    [] op = "+" /\ IsNum(v) -> Num(Promoted(v.type), v.val)
    [] op = "-" /\ IsNum(v) -> Exact(Promoted(v.type), -v.val)
    [] op = "~" /\ IsWhole(v) ->
         LET t == Promoted(v.type) IN OfBits(t, (0..(SizeOf(t) - 1)) \ Bits(t, v.val))
    [] OTHER -> Undefined

CastTo_(t, x) ==
  CASE Is(t, "base") /\ IsNum(x) -> Converted(x, NumberOf(t))
    [] Is(t, "base") /\ IsAddress(x) /\ NumberOf(t) \notin Floating -> Converted(Num("ulonglong", x.val), NumberOf(t))
    [] Is(t, "pointer") /\ IsAddress(x) -> Address(t[2], x.val)
    [] Is(t, "pointer") /\ IsWhole(x) /\ x.val \in 0..(2^(CharBits * PtrSize) - 1) -> Address(t[2], x.val)
    [] OTHER -> Undefined

(* The size of what an expression is.                                      *)
SizeOfMeaning(x) ==
  CASE x.kind = "object" -> Size(x.type)
    [] IsNum(x) -> IF x.type = "bool" THEN 1 ELSE Bytes(x.type)
    [] IsAddress(x) -> PtrSize
    [] OTHER -> 0

LiteralMeaning(l) ==
  LET types == CASE l.suffix \in {"", "l"} -> <<"long", "longlong">> [] OTHER -> LiteralTypes(l.suffix)
      fits == SelectInSeq(types, LAMBDA t : InRange(t, l.val)) IN
  CASE l.kind = "int" -> IF fits = 0 THEN Undefined ELSE Num(types[fits], l.val)
    [] l.kind = "float" -> Num(IF l.suffix = "f" THEN "float" ELSE "double", l.val)
    [] l.kind = "char" /\ Len(l.chars) = 1 -> Num("char", Wrap("char", l.chars[1]))
    [] OTHER -> Undefined

MembersNamed(class, name) ==
  {s \in ToSet(Symbols[class].children) : s.tag = "data" /\ s.kind = "member" /\ s.name = name}

RECURSIVE Meaning(_)
Meaning(t) ==
  LET a == ValueOf(Meaning(t[3]))
      b == ValueOf(Meaning(t[4]))
      first == ValueOf(Meaning(t[2]))
      token == t[2][1] IN
  CASE t[1] = "leaf" /\ token \in DOMAIN Literals -> LiteralMeaning(Literals[token])
    [] t[1] = "leaf" /\ token \in {"true", "false"} -> TruthValue(token = "true")
    [] t[1] = "leaf" /\ token \in DOMAIN Variables -> Object(Variables[token].type, Variables[token].at)
    [] t[1] = "unary" -> Unary(t[2], Meaning(t[3]))
    [] t[1] = "binary" -> Binary(t[2], a, b)
    [] t[1] = "ternary" ->
         IF ~(IsNum(first) \/ IsAddress(first)) \/ Undefined \in {a, b} \/ a.kind # b.kind \/ a.type # b.type THEN Undefined
         ELSE IF Meaning(t[3]).kind = Meaning(t[4]).kind /\ Meaning(t[3]).type = Meaning(t[4]).type
              THEN (IF first.val # 0 THEN Meaning(t[3]) ELSE Meaning(t[4]))
              ELSE (IF first.val # 0 THEN a ELSE b)
    [] t[1] = "cast" -> CastTo_(t[2], a)
    [] t[1] = "sizeof" ->
         LET size == SizeOfMeaning(Meaning(t[2])) IN IF size = 0 THEN Undefined ELSE Num(SizeT, size)
    [] t[1] = "index" ->
         LET i == ValueOf(Meaning(t[3])) IN
         IF IsAddress(first) /\ IsWhole(i) /\ Size(first.type) # 0 /\ IsAddress(MovedBy(first, i.val))
         THEN Object(first.type, MovedBy(first, i.val).val) ELSE Undefined
    [] t[1] = "member" ->
         LET owner == IF t[2] = "->" /\ IsAddress(a) THEN Object(a.type, a.val) ELSE Meaning(t[3]) IN
         IF owner.kind # "object" \/ ~Is(owner.type, "udt") \/ (t[2] = "->" /\ ~IsAddress(a)) THEN Undefined
         ELSE IF MembersNamed(owner.type[2], t[4]) = {} THEN Undefined
         ELSE LET s == CHOOSE s \in MembersNamed(owner.type[2], t[4]) : TRUE IN
              Object(LoadSymbol(s.type), owner.val + s.offset)
    [] OTHER -> Undefined
=============================================================================
