------------------------------ MODULE ExprEval ------------------------------
(***************************************************************************)
(* The evaluator of expressions (class ExprEval of source/clang/           *)
(* evalexpr.cpp).  It goes through the tokens once and works on values     *)
(* while it does; where a token stands is an index here.                   *)
(***************************************************************************)
EXTENDS TypeNames

(* The scope's variables: name -> [type, at].                              *)
CONSTANT Variables

Found(end, val) == [end |-> end, val |-> val]
Fails(val) == Found(0, val)
Threw(m) == Fails(IF m = Escaped THEN Crashed ELSE NoVar)

RECURSIVE EvalAt(_, _, _)
-----------------------------------------------------------------------------
(* getPreUnaryOperation, until there are no more: the operations in the    *)
(* order they are written.                                                 *)
Mark(op) == [kind |-> "mark", op |-> op, type |-> Thrown]
SizeofMark == [kind |-> "sizeof", op |-> "", type |-> Thrown]
CastMark(t) == [kind |-> "cast", op |-> "", type |-> t]

RECURSIVE PreOperations(_, _, _)
PreOperations(ts, i, endToken) ==
  LET token == Token(ts, i)
      cast == TypeAt(ts, i + 1, ")")
      then(op, at) == LET rest == PreOperations(ts, at, endToken) IN
                      IF rest.end = 0 THEN rest ELSE Found(rest.end, <<op>> \o rest.val) IN
  CASE token \in DOMAIN Literals \/ IsIdentifier(token) \/ token \in BaseTypeKeyWords -> Found(i, <<>>)
    [] token = "(" /\ Ok(cast) -> then(CastMark(cast.got), cast.end)
    [] token = "(" /\ cast = Refused -> Found(i, <<>>)
    [] token = "sizeof" /\ Token(ts, i + 1) = "(" -> Found(i, <<>>)
    [] token = "sizeof" /\ Token(ts, i + 1) \notin {"(", endToken} -> then(SizeofMark, i + 1)
    [] token \in UnaryOperators -> then(Mark(token), i + 1)
    [] token = "(" /\ cast = Escaped -> Fails(Crashed)
    [] OTHER -> Fails(NoVar)

Applied(op, v) ==
  CASE Failed(v) -> v
    [] ~Failed(v) /\ op.kind = "mark" -> UnaryOperation(op.op, v)
    [] ~Failed(v) /\ op.kind = "sizeof" -> SizeofValue(v.type)
    [] ~Failed(v) /\ op.kind = "cast" -> CastOperation(v, op.type)

(* Fault: what is written first is done first.                             *)
PreApplied_Forward(v, ops) == FoldLeft(LAMBDA w, op : Applied(op, w), v, ops)

(* What stands next to the operand is done first.                          *)
PreApplied(v, ops) == FoldRight(Applied, ops, v)
-----------------------------------------------------------------------------
(* getPostUnaryOperation, and its result.                                  *)
RECURSIVE PostApplied(_, _, _, _)
PostApplied(ts, i, endToken, v) ==
  LET token == Token(ts, i)
      index == EvalAt(ts, i + 1, "]")
      name == Token(ts, i + 1)
      then(at, w) == IF Failed(w) THEN Fails(w) ELSE PostApplied(ts, at, endToken, w) IN
  CASE token \in {endToken, "?"} \cup BinaryOperators -> Found(i, v)
    [] token = "[" ->
         IF index.end = 0 THEN index ELSE then(index.end, IndexOperation(v, index.val))
    [] token \in {".", "->"} /\ name # endToken /\ IsIdentifier(name) -> then(i + 2, Element(v, <<name>>))
    [] OTHER -> Fails(NoVar)

(* getIdentifierValue: identifiers and colons as far as they go make one   *)
(* name.                                                                   *)
RECURSIVE NameEnd(_, _, _)
NameEnd(ts, i, endToken) ==
  IF Token(ts, i) # endToken /\ (IsIdentifier(Token(ts, i)) \/ Token(ts, i) = ":")
  THEN NameEnd(ts, i + 1, endToken) ELSE i

(* What the lexer makes of a name that was put together.                   *)
Relexed(run) ==
  FoldLeft(LAMBDA s, t : IF s # <<>> /\ t # ":" /\ Last(s) # ":" THEN Append(Front(s), Last(s) \o t) ELSE Append(s, t),
           <<>>, run)

(* A name that is none of a variable may be that of a constant.            *)
ConstantNamed(run) ==
  LET m == QualifiedType(Append(Relexed(run), Eof), 1)
      owner == CustomTypeOf([m.got.of EXCEPT !.name = Front(@)])
      f == Lookup(owner, Last(m.got.of.name)) IN
  IF Ok(m) /\ m.end = Len(Relexed(run)) + 1 /\ m.got.of.kind = "custom" /\ m.got.of.template = <<>>
     /\ Len(m.got.of.name) > 1 /\ owner # Thrown /\ HasFields(owner) /\ f.kind = "constant"
  THEN TypedValue(f.va) ELSE NoVar

NameValue(run) ==
  LET name == Text(run) IN
  CASE name \in {"true", "false"} -> BoolValue(name = "true")
    [] name = "nullptr" -> NullPtr
    [] name \in DOMAIN Variables -> LoadTypedVar(Variables[name].type, Variables[name].at)
    [] OTHER -> ConstantNamed(run)

(* getSizeof: of an expression, or if it is none, of a type.               *)
SizeofAt(ts, i, endToken) ==
  LET e == EvalAt(ts, i + 1, ")")
      t == TypeAt(ts, IF e.end = 0 THEN i + 1 ELSE e.end, ")") IN
  IF Token(ts, i) # "(" \/ Token(ts, i + 1) = endToken THEN Fails(NoVar)
  ELSE CASE e.val = Crashed -> e
         [] e.val # Crashed /\ e.end # 0 /\ Size(e.val.type) # 0 -> Found(e.end, SizeofValue(e.val.type))
         [] OTHER -> IF Ok(t) THEN Found(t.end, SizeofValue(t.got)) ELSE Threw(t)

(* getOperand.                                                             *)
Operand(ts, i, endToken) ==
  LET token == Token(ts, i)
      end == NameEnd(ts, i, endToken) IN
  CASE IsIdentifier(token) -> Found(end, NameValue(SubSeq(ts, i, end - 1)))
    [] token \in DOMAIN Literals -> Found(i + 1, NumericConst(token))
    [] token = "(" -> EvalAt(ts, i + 1, ")")
    [] token = "sizeof" -> SizeofAt(ts, i + 1, endToken)
    [] OTHER -> Fails(NoVar)

(* An operand with all that belongs to it.                                 *)
FullOperand(ts, i, endToken) ==
  LET pre == PreOperations(ts, i, endToken)
      operand == Operand(ts, pre.end, endToken)
      post == PostApplied(ts, operand.end, endToken, operand.val)
      val == PreApplied(post.val, pre.val) IN
  CASE pre.end = 0 -> pre
    [] pre.end # 0 /\ Failed(operand.val) -> Fails(operand.val)
    [] pre.end # 0 /\ ~Failed(operand.val) ->
         IF post.end = 0 THEN post ELSE IF Failed(val) THEN Fails(val) ELSE Found(post.end, val)

(* getTernaryOperation.  Both branches are worked out.                     *)
TernaryAt(ts, i, endToken, v) ==
  LET first == EvalAt(ts, i + 1, ":")
      second == EvalAt(ts, first.end, endToken)
      val == TernaryOperation(v, first.val, second.val) IN
  IF first.end = 0 THEN first
  ELSE IF second.end = 0 THEN second
  ELSE IF Failed(v) THEN Fails(v)
  ELSE IF Failed(val) THEN Fails(val) ELSE Found(second.end, val)

(* ExprEval::getResult, from the operand at i on.                          *)
RECURSIVE EvalFrom(_, _, _, _, _)
EvalFrom(ts, i, endToken, operands, operations) ==
  LET operand == FullOperand(ts, i, endToken)
      all == Append(operands, operand.val)
      token == Token(ts, operand.end)
      val == Reduced(all, operations) IN
  CASE operand.end = 0 -> operand
    [] operand.end # 0 /\ token = "?" -> TernaryAt(ts, operand.end, endToken, val)
    [] operand.end # 0 /\ token = endToken -> IF Failed(val) THEN Fails(val) ELSE Found(operand.end + 1, val)
    [] operand.end # 0 /\ token \in BinaryOperators ->
         EvalFrom(ts, operand.end + 1, endToken, all, Append(operations, token))
    [] OTHER -> Fails(NoVar)

EvalAt(ts, i, endToken) == EvalFrom(ts, i, endToken, <<>>, <<>>)

(* evalExpr and evalType.                                                  *)
EvalExpr(ts) == EvalAt(Append(ts, Eof), 1, Eof).val

EvalType(ts) == LET m == TypeAt(Append(ts, Eof), 1, Eof) IN IF Ok(m) THEN m.got ELSE Thrown
=============================================================================
