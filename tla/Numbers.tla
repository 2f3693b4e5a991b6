------------------------------ MODULE Numbers -------------------------------
(***************************************************************************)
(* Numbers of different widths (include/kdlib/variant.h).                  *)
(*                                                                         *)
(* Widths are scaled: char, short, long and long long have CharBits ...    *)
(* LongLongBits bits, and int has those of long, as with this library's    *)
(* compilers.  Floating point numbers are fixed point: their val counts    *)
(* halves, and what does not fit is cut off, which stands for rounding;    *)
(* neither infinity nor overflow of floating point is modelled.            *)
(*                                                                         *)
(* Where the language leaves a result open the definitions say what the    *)
(* compiled code does: signed arithmetic wraps around, the processor takes *)
(* shift counts modulo the width, a floating point number out of range     *)
(* loses its high bits.  Integer division by zero, and of the least number *)
(* by -1, faults.                                                          *)
(***************************************************************************)
EXTENDS Integers, Sequences, FiniteSets, FiniteSetsExt

CONSTANTS CharBits, ShortBits, LongBits, LongLongBits

ASSUME BitsAssumption ==
  /\ {CharBits, ShortBits, LongBits, LongLongBits} \subseteq Nat
  /\ 1 < CharBits /\ CharBits < ShortBits
  /\ ShortBits < LongBits /\ LongBits < LongLongBits

(* NumType, in its order.                                                  *)
NumTypes ==
  <<"char", "uchar", "short", "ushort", "long", "ulong",
    "longlong", "ulonglong", "int", "uint", "float", "double">>

NumType == {NumTypes[i] : i \in DOMAIN NumTypes}

Floating == {"float", "double"}
Unsigned == {"uchar", "ushort", "ulong", "ulonglong", "uint"}

(* getSize, in bits; floating point numbers have those of int and of long  *)
(* long.                                                                   *)
SizeOf(t) ==
  CASE t \in {"char", "uchar"} -> CharBits
    [] t \in {"short", "ushort"} -> ShortBits
    [] t \in {"longlong", "ulonglong", "double"} -> LongLongBits
    [] OTHER -> LongBits

Least(t) == IF t \in Unsigned THEN 0 ELSE -(2^(SizeOf(t) - 1))
Greatest(t) == Least(t) + 2^SizeOf(t) - 1

(* The value of type t that has the low bits of i.                         *)
FromLeast(least, i, size) == least + ((i - least) % size)
Wrap(t, i) == FromLeast(Least(t), i, 2^SizeOf(t))

Number(t, val) == [type |-> t, val |-> val]

(* NumVariantError, and what the processor does instead of dividing.       *)
Error == [type |-> "error", val |-> 0]
Fault == [type |-> "fault", val |-> 0]

Numeric(v) == v.type \in NumType

Halves == 2

(* Division of integers in C cuts off what is behind the point.            *)
Quotient(a, b) ==
  LET abs(i) == IF i < 0 THEN -i ELSE i
      q == abs(a) \div abs(b) IN
  IF (a < 0) = (b < 0) THEN q ELSE -q

Remainder(a, b) == a - b * Quotient(a, b)

(* cast: static_cast from the type v has to t.                             *)
CutOff(v) == IF v.type \in Floating THEN Quotient(v.val, Halves) ELSE v.val

Cast(v, t) ==
  IF t \in Floating THEN Number(t, IF v.type \in Floating THEN v.val ELSE Halves * v.val)
  ELSE Number(t, Wrap(t, CutOff(v)))

Small == {"char", "uchar", "short", "ushort"}

(* castMatrix.  Its rows and columns are those of NumTypes, and the table  *)
(* is read above its diagonal only: row by row, what each type makes of    *)
(* itself and of those that follow it.                                     *)
Row(a, b) ==
  CASE b = "double" -> "double"
    [] b = "float" -> "float"
    [] a \in Small -> IF b \in Small THEN "int" ELSE b
    [] a = "long" -> CASE b = "int" -> "long" [] b = "uint" -> "ulong" [] OTHER -> b
    [] a = "ulong" -> IF b \in {"int", "uint"} THEN "ulong" ELSE b
    [] a = "longlong" -> IF b \in {"int", "uint"} THEN "longlong" ELSE b
    [] a = "ulonglong" -> "ulonglong"
    [] OTHER -> b

Index(t) == CHOOSE i \in DOMAIN NumTypes : NumTypes[i] = t

(* Fault: the table is read with the types as they come.                   *)
MaxType_AsTheyCome(v1, v2) == Row(v1.type, v2.type)

MaxType(v1, v2) ==
  IF Index(v1.type) <= Index(v2.type) THEN Row(v1.type, v2.type) ELSE Row(v2.type, v1.type)
-----------------------------------------------------------------------------
(* Two's complement: the positions of the ones among the low n bits.       *)
Ones(i, n) == {k \in 0..(n - 1) : (i \div 2^k) % 2 = 1}
OfOnes(S) == MapThenSumSet(LAMBDA k : 2^k, S)

Truth(b) == Number("int", IF b THEN 1 ELSE 0)

(* add_op ... rshift_op, both operands having n bits.                      *)
Computed(op, n, a, b) ==
  CASE op = "+" -> a + b
    [] op = "-" -> a - b
    [] op = "*" -> a * b
    [] op = "/" -> Quotient(a, b)
    [] op = "%" -> Remainder(a, b)
    [] op = "&" -> OfOnes(Ones(a, n) \cap Ones(b, n))
    [] op = "|" -> OfOnes(Ones(a, n) \cup Ones(b, n))
    [] op = "^" -> OfOnes((Ones(a, n) \cup Ones(b, n)) \ (Ones(a, n) \cap Ones(b, n)))
    [] op = "<<" -> a * 2^(b % n)
    [] op = ">>" -> a \div 2^(b % n)

Unanswered(op, t, a, b) == op \in {"/", "%"} /\ (b = 0 \/ (a = Least(t) /\ b = -1))

IntegerOp(op, t, a, b) ==
  CASE op = "==" -> Truth(a = b)
    [] op = "<" -> Truth(a < b)
    [] OTHER -> IF Unanswered(op, t, a, b) THEN Fault ELSE Number(t, Wrap(t, Computed(op, SizeOf(t), a, b)))

FloatingOp(op, t, a, b) ==
  CASE op = "+" -> Number(t, a + b)
    [] op = "-" -> Number(t, a - b)
    [] op = "*" -> Number(t, Quotient(a * b, Halves))
    [] op = "/" -> IF b = 0 THEN Fault ELSE Number(t, Quotient(a * Halves, b))
    [] op = "==" -> Truth(a = b)
    [] op = "<" -> Truth(a < b)
    [] OTHER -> Error

(* all_op and int_op: all operators of whole numbers only fail for others, *)
(* and so does int_op when all_op has nothing to say.                      *)
OpIn(op, t, a, b) == IF t \in Floating THEN FloatingOp(op, t, a, b) ELSE IntegerOp(op, t, a, b)

OpAfterCast(op, t, v1, v2) == OpIn(op, t, Cast(v1, t).val, Cast(v2, t).val)

AllOp(op, v1, v2) == OpAfterCast(op, MaxType(v1, v2), v1, v2)

Zero == Number("int", 0)
IsTrue(v) == v.val = 1
NotEqualZero(v) == ~IsTrue(AllOp("==", v, Zero))

(* The binary operators.  A shift has the type of its left operand, and    *)
(* the comparisons are made from == and <.                                 *)
ToLeft(r, v) == IF Numeric(r) THEN Cast(r, v.type) ELSE r
Shift(op, v1, v2) == ToLeft(AllOp(op, v1, v2), v1)
Negated(r) == Truth(~IsTrue(r))
Logical(op, p, q) == Truth(IF op = "&&" THEN p /\ q ELSE p \/ q)

BinaryOp(op, v1, v2) ==
  CASE op \in {"&&", "||"} -> Logical(op, NotEqualZero(v1), NotEqualZero(v2))
    [] op \in {"!=", ">="} -> Negated(AllOp(IF op = "!=" THEN "==" ELSE "<", v1, v2))
    [] op = "<=" -> Negated(AllOp("<", v2, v1))
    [] op = ">" -> AllOp("<", v2, v1)
    [] op \in {"<<", ">>"} -> Shift(op, v1, v2)
    [] OTHER -> AllOp(op, v1, v2)

(* Fault: minus does not promote.                                          *)
UnaryOp_SameType(op, v) ==
  IF op = "-" THEN Cast(AllOp("-", Zero, v), v.type) ELSE Truth(~NotEqualZero(v))

(* operator-, operator~, operator!.  The operand of ~ is compared with as  *)
(* many ones as it has bits, before it is promoted.                        *)
UnaryOp(op, v) ==
  CASE op = "-" -> AllOp("-", Cast(Zero, v.type), v)
    [] op = "~" -> AllOp("^", v, Cast(Number("ulonglong", Greatest("ulonglong")), v.type))
    [] op = "!" -> Truth(~NotEqualZero(v))

(* operator bool, and asBool, look at as many bits as a char has.          *)
OperatorBool(v) == Cast(v, "char").val # 0
AsBool(v) == Cast(v, "uchar").val # 0

IsSigned(t) == IsTrue(AllOp("<", Cast(Number("int", -1), t), Zero))

=============================================================================
