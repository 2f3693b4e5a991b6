------------------------------ MODULE Operators -----------------------------
(***************************************************************************)
(* The operations of expressions, on typed variables (source/clang/        *)
(* evalexpr.cpp, evalexpr.h).  The debugger is a 64 bit program: size_t is *)
(* unsigned long long.                                                     *)
(***************************************************************************)
EXTENDS TypedVars

(* What a literal's text says: whole numbers [kind |-> "int", val, suffix],*)
(* the others [kind |-> "float", val, suffix], and characters              *)
(* [kind |-> "char" or "wchar", chars].                                    *)
CONSTANT Literals

SizeT == "ulonglong"

(* NoVar stands for every exception.  A remainder of a division by zero is *)
(* not looked for, and ends the debugger.                                  *)
Crashed == [type |-> <<"crashed">>, data |-> Cache(<<>>)]
Failed(v) == v \in {NoVar, Crashed}

Result(n) == CASE n = Fault -> Crashed [] n = Error -> NoVar [] OTHER -> TypedValue(n)
TruthOf(n) == IF Numeric(n) THEN BoolValue(n.val # 0) ELSE NoVar

IsBase(v) == Is(v.type, "base")
IsPointer(v) == Is(v.type, "pointer")
IsArray(v) == v.type[1] \in {"array", "incomplete"}
-----------------------------------------------------------------------------
(* getNumericConst: the first of these types that holds the number, as the *)
(* conversions of the library tell.                                        *)
LiteralTypes(suffix) ==
  CASE suffix \in {"", "l"} -> <<"long", "ulong", "longlong", "ulonglong">>
    [] suffix \in {"u", "ul"} -> <<"ulong", "ulonglong">>
    [] suffix = "ll" -> <<"longlong">>
    [] suffix = "ull" -> <<"ulonglong">>

IntegerConst(literal) ==
  LET types == LiteralTypes(literal.suffix)
      fits == SelectInSeq(types, LAMBDA t : literal.val <= Greatest(t)) IN
  IF fits = 0 THEN NoVar ELSE TypedValue(Number(types[fits], literal.val))

(* getCharConst: up to four characters make an int; of a wide one only the *)
(* first counts.                                                           *)
CharConst(literal) ==
  LET char(i) == Number("char", Wrap("char", literal.chars[i]))
      more(n, i) == BinaryOp("|", BinaryOp("<<", n, Number("int", CharBits)), char(i)) IN
  CASE literal.kind = "wchar" -> Value("WChar", Number("short", literal.chars[1]))
    [] literal.kind = "char" /\ Len(literal.chars) = 1 -> TypedValue(char(1))
    [] literal.kind = "char" /\ Len(literal.chars) \in 2..4 ->
         TypedValue(FoldLeft(more, Number("int", 0), [i \in DOMAIN literal.chars |-> i]))
    [] OTHER -> NoVar

NumericConst(token) ==
  CASE token = "true" -> BoolValue(TRUE)
    [] token = "false" -> BoolValue(FALSE)
    [] token \in DOMAIN Literals /\ Literals[token].kind = "int" -> IntegerConst(Literals[token])
    [] token \in DOMAIN Literals /\ Literals[token].kind = "float" ->
         TypedValue(Number(IF Literals[token].suffix = "f" THEN "float" ELSE "double", Literals[token].val))
    [] token \in DOMAIN Literals /\ Literals[token].kind \in {"char", "wchar"} -> CharConst(Literals[token])
    [] OTHER -> NoVar
-----------------------------------------------------------------------------
BinaryOperators ==
  {"+", "-", "*", "/", "%", "<<", ">>", "<", "<=", ">", ">=", "==", "!=", "&", "|", "^", "&&", "||"}

Comparisons == {"<", "<=", ">", ">=", "==", "!=", "&&", "||"}

(* BinOpearationPriority, and the priority each operation returns.         *)
Priority(op) ==
  CASE op \in {"*", "/", "%"} -> 0
    [] op \in {"+", "-"} -> 1
    [] op \in {"<<", ">>"} -> 2
    [] op \in {"<=", ">", ">="} -> 4
    [] op \in {"<", "==", "!="} -> 5
    [] op = "&" -> 6
    [] op = "|" -> 7
    [] op = "^" -> 8
    [] op = "&&" -> 9
    [] op = "||" -> 10

(* Pointers count in what they point to, and so do arrays.                 *)
Scaled(n, size) == BinaryOp("*", Number(SizeT, size), n)

Moved(op, v, n) ==
  LET t == Deref(v.type) IN
  IF Size(t) = 0 THEN NoVar
  ELSE CastTo(TypedValue(BinaryOp(op, GetValue(v), Scaled(n, Size(t)))), PtrTo(t))

(* Fault: the distance of two pointers is one in bytes.                    *)
Distance_Bytes(v1, v2) == TypedValue(BinaryOp("-", GetValue(v1), GetValue(v2)))

Distance(v1, v2) ==
  LET size == Size(Deref(v1.type)) IN
  IF size = 0 THEN NoVar
  ELSE Result(BinaryOp("/", BinaryOp("-", GetValue(v1), GetValue(v2)), Number(SizeT, size)))

(* getResult of the binary operations.                                     *)
Operation(op, v1, v2) ==
  LET n1 == GetValue(v1)
      n2 == GetValue(v2)
      points(v) == IsPointer(v) \/ IsArray(v) IN
  CASE ~Numeric(n1) \/ ~Numeric(n2) -> NoVar
    [] Numeric(n1) /\ Numeric(n2) /\ op \in Comparisons -> TruthOf(BinaryOp(op, n1, n2))
    [] Numeric(n1) /\ Numeric(n2) /\ op = "/" /\ IsTrue(AllOp("==", n2, Zero)) -> NoVar
    [] Numeric(n1) /\ Numeric(n2) /\ op \in {"+", "-"} /\ points(v1) /\ IsBase(v2) -> Moved(op, v1, n2)
    [] Numeric(n1) /\ Numeric(n2) /\ op = "+" /\ IsBase(v1) /\ points(v2) -> Moved(op, v2, n1)
    [] Numeric(n1) /\ Numeric(n2) /\ op = "-" /\ points(v1) /\ points(v2) -> Distance(v1, v2)
    [] Numeric(n1) /\ Numeric(n2) /\ op \notin Comparisons /\ IsBase(v1) /\ IsBase(v2)
         /\ ~(op = "/" /\ IsTrue(AllOp("==", n2, Zero))) -> Result(BinaryOp(op, n1, n2))
    [] OTHER -> NoVar

UnaryOperators == {"-", "+", "*", "~", "!", "&"}

UnaryOperation(op, v) ==
  CASE op = "+" -> v
    [] op \in {"-", "~"} /\ IsBase(v) /\ Numeric(GetValue(v)) -> Result(UnaryOp(op, GetValue(v)))
    [] op = "!" /\ IsBase(v) /\ Numeric(GetValue(v)) -> TruthOf(UnaryOp("!", GetValue(v)))
    [] op = "*" -> DerefVar(v)
    [] op = "&" /\ InMemory(v) -> MakePointer(v.type, v.data.at)
    [] OTHER -> NoVar

SizeofValue(t) == IF Size(t) = 0 THEN NoVar ELSE TypedValue(Number(SizeT, Size(t)))

(* ArrayValueOperation: the index becomes a size_t.                        *)
IndexOperation(v, index) ==
  LET i == Cast(GetValue(index), SizeT).val IN
  IF ~Numeric(GetValue(index)) THEN NoVar
  ELSE ElementAt(v, IF UserDefined(v.type) THEN i + 1 ELSE i)

(* Fault: a value that is cast to a number keeps its own type.             *)
CastToBase_Kept(v, t) == TypedValue(GetValue(v))

(* TypeCastOperation.  A number of a type makes a new value, of the type   *)
(* its name stands for; any other type is laid over the same data.         *)
CastToBase(v, t) ==
  LET n == IF IsArray(v) THEN AddressOf(v) ELSE GetValue(v) IN
  CASE ~(IsBase(v) \/ IsPointer(v) \/ IsArray(v)) \/ ~Numeric(n) \/ t[2] = "Hresult" -> NoVar
    [] t[2] = "Bool" /\ (IsBase(v) \/ IsPointer(v) \/ IsArray(v)) /\ Numeric(n) -> BoolValue(AsBool(n))
    [] OTHER -> TypedValue(Cast(n, BaseTypes[t[2]]))

CastToPtr(v, t) ==
  CASE (IsBase(v) \/ IsArray(v)) /\ Numeric(GetValue(v)) -> CastTo(TypedValue(Cast(GetValue(v), "ulonglong")), t)
    [] IsPointer(v) -> CastTo(v, t)
    [] OTHER -> NoVar

CastOperation(v, t) ==
  CASE Is(t, "base") -> CastToBase(v, t)
    [] Is(t, "pointer") -> CastToPtr(v, t)
    [] OTHER -> NoVar

(* TrenaryOperation: both values are there already.                        *)
TernaryOperation(v, v1, v2) ==
  IF ~Numeric(GetValue(v)) THEN NoVar ELSE IF OperatorBool(GetValue(v)) THEN v1 ELSE v2
-----------------------------------------------------------------------------
(* Fault: of two operations that bind alike the last is done first.        *)
NextOperation_Last(operations) ==
  CHOOSE i \in DOMAIN operations :
    /\ \A j \in DOMAIN operations : Priority(operations[i]) <= Priority(operations[j])
    /\ \A j \in (i + 1)..Len(operations) : Priority(operations[i]) < Priority(operations[j])

(* max_element finds the first of those that bind closest.                 *)
NextOperation(operations) ==
  CHOOSE i \in DOMAIN operations :
    /\ \A j \in DOMAIN operations : Priority(operations[i]) <= Priority(operations[j])
    /\ \A j \in 1..(i - 1) : Priority(operations[i]) < Priority(operations[j])

(* The operations are done one after the other, of ExprEval::getResult and *)
(* of ExprEval2::getResultForMatcher.                                      *)
RECURSIVE Reduced(_, _)
Reduced(operands, operations) ==
  IF operations = <<>> THEN operands[1]
  ELSE LET i == NextOperation(operations)
           result == Operation(operations[i], operands[i], operands[i + 1]) IN
       IF Failed(result) THEN result
       ELSE Reduced(SubSeq(operands, 1, i - 1) \o <<result>> \o SubSeq(operands, i + 2, Len(operands)),
                    RemoveAt(operations, i))
=============================================================================
