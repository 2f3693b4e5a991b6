---------------------------- MODULE Expressions -----------------------------
(***************************************************************************)
(* A user who writes expressions and types, longer and longer ones, and    *)
(* has them evaluated (evalExpr, evalType of source/clang/evalexpr.cpp,    *)
(* loadType and getName of source/typeinfo.cpp).                           *)
(*                                                                         *)
(* What is written is a tree and not a text; module Language has its text  *)
(* and its meaning.  The user writes about the debuggee that TypedData's   *)
(* program looks at, before anything of it is changed.                     *)
(***************************************************************************)
EXTENDS Language, TypedData

CONSTANTS
  Leaves,         (* the tokens of the operands an expression begins with  *)
  Operands,       (* and of those that are added                           *)
  Subtracted,     (* and of those it is also compared with, or their       *)
                  (* distance taken                                        *)
  Casts,          (* types to cast to                                      *)
  MemberNames,
  MaxDepth,       (* of expressions                                        *)
  Specifiers,     (* the words a type may be made from                     *)
  MaxWords,
  Named, Counts,  (* types to make pointers and arrays of, and how long    *)
  MaxMade,        (* how many pointers and arrays there are in a type      *)
  Arguments,      (* simple arguments of templates: [tokens, name]         *)
  MaxNested       (* templates within templates                            *)

VARIABLES
  sort,           (* what is written: "", or one of the kinds below        *)
  written

all == <<vars, sort, written>>

RECURSIVE Depth(_)
Depth(t) ==
  CASE t[1] = "leaf" -> 0
    [] t[1] \in {"unary", "cast", "member"} -> 1 + Depth(t[3])
    [] t[1] = "sizeof" -> 1 + Depth(t[2])
    [] t[1] = "index" -> 1 + Max({Depth(t[2]), Depth(t[3])})
    [] t[1] = "binary" -> 1 + Max({Depth(t[3]), Depth(t[4])})
    [] t[1] = "ternary" -> 1 + Max({Depth(t[2]), Depth(t[3]), Depth(t[4])})

Leaf(tokens) == <<"leaf", tokens>>
Others(op) == IF op \in {"-", "<", "=="} THEN Operands \cup Subtracted ELSE Operands
Later == {Leaf(tokens) : tokens \in Operands}

Write(what, tree) == sort' = what /\ written' = tree /\ UNCHANGED vars

Grow(tree) == sort = "expression" /\ Depth(written) < MaxDepth /\ Write("expression", tree)

BeginExpression(tokens) == sort = "" /\ Write("expression", Leaf(tokens))
WriteUnary(op) == Grow(<<"unary", op, written>>)
WriteCast(t) == Grow(<<"cast", t, written>>)
WriteSizeof == Grow(<<"sizeof", written>>)
WriteBinary(op, other) == \/ Grow(<<"binary", op, written, other>>) \/ Grow(<<"binary", op, other, written>>)
WriteIndex(other) == \/ Grow(<<"index", written, other>>) \/ Grow(<<"index", other, written>>)
WriteTernary(a, b) ==
  \/ Grow(<<"ternary", written, a, b>>)
  \/ Grow(<<"ternary", a, written, b>>)
  \/ Grow(<<"ternary", a, b, written>>)

WriteMember(mark, name) == Grow(<<"member", mark, written, name>>)

WriteWord(word) ==
  \/ sort = "" /\ Write("words", <<word>>)
  \/ sort = "words" /\ Len(written) < MaxWords /\ Write("words", Append(written, word))

RECURSIVE Made(_)
Made(t) == IF t[1] \in {"pointer", "array"} THEN 1 + Made(t[2]) ELSE 0

BeginType(t) == sort = "" /\ Write("type", t)
WriteStar == sort = "type" /\ Made(written) < MaxMade /\ Write("type", PtrTo(written))
WriteBrackets(count) == sort = "type" /\ Made(written) < MaxMade /\ Write("type", ArrayOf(written, count))

(* A template is [name, args], its last argument may be a template itself. *)
Template(name, args) == [name |-> name, args |-> args]
Simple(a) == [tokens |-> a.tokens, name |-> a.name, of |-> <<>>]
Nested_(t) == [tokens |-> <<>>, name |-> <<>>, of |-> <<t>>]

RECURSIVE Nesting(_)
Nesting(t) == IF Last(t.args).of = <<>> THEN 1 ELSE 1 + Nesting(Last(t.args).of[1])

BeginTemplate(a) == sort = "" /\ Write("template", Template("T", <<Simple(a)>>))
AddArgument(a) ==
  /\ sort = "template" /\ Len(written.args) = 1
  /\ Write("template", [written EXCEPT !.args = <<Simple(a)>> \o @])
Enclose ==
  /\ sort = "template" /\ Nesting(written) < MaxNested
  /\ Write("template", Template("U", <<Nested_(written)>>))

(* What is written is evaluated, and the next one begun.                   *)
Evaluate == sort # "" /\ Write("", <<>>)

Writing ==
  \/ \E tokens \in Leaves : BeginExpression(tokens)
  \/ \E op \in UnaryOperators : WriteUnary(op)
  \/ \E op \in BinaryOperators : \E tokens \in Others(op) : WriteBinary(op, Leaf(tokens))
  \/ \E t \in Casts : WriteCast(t)
  \/ \E other \in Later : WriteIndex(other)
  \/ \E a, b \in Later : WriteTernary(a, b)
  \/ \E mark \in {".", "->"}, name \in MemberNames : WriteMember(mark, name)
  \/ WriteSizeof
  \/ \E word \in Specifiers : WriteWord(word)
  \/ \E t \in Named : BeginType(t)
  \/ WriteStar
  \/ \E count \in Counts : WriteBrackets(count)
  \/ \E a \in Arguments : BeginTemplate(a) \/ AddArgument(a)
  \/ Enclose
  \/ Evaluate

Looking == sort = "" /\ Next /\ UNCHANGED <<sort, written>>

(* Bound: nothing is written by one who has changed or looked at an object.*)
ExpressionsInit == Init /\ sort = "" /\ written = <<>>
ExpressionsNext ==
  \/ Looking
  \/ custom = <<>> /\ writes = 0 /\ ~looked /\ Writing

ExpressionsSpec == ExpressionsInit /\ [][ExpressionsNext]_all
-----------------------------------------------------------------------------
(* What the debugger is known to evaluate otherwise.                       *)
OpIs(t, ops) == t[1] = "binary" /\ t[2] \in ops
LowByteIsZero(x) == Cast(Number(x.type, x.val), "char").val = 0
Truncated(x) == IF IsNum(x) /\ x.type # "bool" THEN x.val # 0 /\ LowByteIsZero(x)
                ELSE IsAddress(x) /\ x.val # 0 /\ Wrap("char", x.val) = 0
OfType(x, types) == IsNum(x) /\ x.type \in types

ApartHere(t) ==
  LET x == ValueOf(Meaning(t[3]))
      y == ValueOf(Meaning(t[4]))
      condition == ValueOf(Meaning(t[2])) IN
  (* the priority of ^ and |, and of < among the comparisons *)
  CASE OpIs(t, {"|"}) /\ (OpIs(t[3], {"^"}) \/ OpIs(t[4], {"^"})) -> TRUE
    [] OpIs(t, {"==", "!="}) /\ OpIs(t[4], {"<"}) -> TRUE
    [] OpIs(t, {"<=", ">", ">="}) /\ OpIs(t[3], {"<"}) -> TRUE
  (* shifts have the type of the left operand, unpromoted, and are done in *)
  (* the common type *)
    [] OpIs(t, {"<<", ">>"}) ->
         OfType(x, Small) \/ (IsNum(x) /\ IsNum(y) /\ x.val < 0 /\ CommonType(x.type, y.type) \in Unsigned)
  (* ~ of a small unsigned number, + of what would be promoted, * of an    *)
  (* array and ! of a pointer, which are refused *)
    [] t[1] = "unary" ->
         CASE t[2] = "~" -> OfType(x, Small \cap Unsigned)
           [] t[2] = "+" -> OfType(x, Small \cup {"bool"})
           [] t[2] = "*" -> Meaning(t[3]).kind = "object" /\ Is(Meaning(t[3]).type, "array")
           [] t[2] = "!" -> IsAddress(x)
           [] OTHER -> FALSE
  (* conditions and casts to bool look at one byte *)
    [] t[1] = "ternary" -> Truncated(condition)
    [] t[1] = "cast" -> t[2] = <<"base", "Bool">> /\ Truncated(x)
  (* sizeof is done before what follows a bracket *)
    [] t[1] = "sizeof" -> t[2][1] \in {"index", "member"} /\ Head(Tokens(t[2], 0)) = "("
  (* a literal too large for long is unsigned long *)
    [] t[1] = "leaf" /\ t[2][1] \in DOMAIN Literals ->
         LET l == Literals[t[2][1]] IN
         l.kind = "int" /\ l.suffix \in {"", "l"} /\ ~InRange("long", l.val) /\ InRange("ulong", l.val)
    [] OTHER -> FALSE

RECURSIVE Apart(_)
Apart(t) ==
  \/ ApartHere(t)
  \/ CASE t[1] = "leaf" -> FALSE
       [] t[1] \in {"unary", "cast", "member"} -> Apart(t[3])
       [] t[1] = "sizeof" -> Apart(t[2])
       [] t[1] = "index" -> Apart(t[2]) \/ Apart(t[3])
       [] t[1] = "binary" -> Apart(t[3]) \/ Apart(t[4])
       [] t[1] = "ternary" -> Apart(t[2]) \/ Apart(t[3]) \/ Apart(t[4])

Agree(v, x) ==
  LET n == GetValue(v) IN
  CASE x.kind = "undefined" -> TRUE
    [] x.kind = "object" -> InMemory(v) /\ v.type = x.type /\ v.data.at = x.val
    [] x.kind = "pointer" -> v.type = PtrTo(x.type) /\ n.val = x.val
    [] x.kind = "difference" -> Is(v.type, "base") /\ (x.val >= 0 => n.val = x.val)
    [] x.kind = "number" -> Is(v.type, "base") /\ NumberOf(v.type) = x.type /\ n.val = x.val

(* An expression evaluates to what it would have in the debuggee's source: *)
(* the same type and value, or the same object, if it has a meaning there. *)
EvaluatesAsC ==
  [][sort = "expression" /\ sort' = "" =>
       \/ Apart(written)
       \/ Agree(EvalExpr(Tokens(written, 12)), Meaning(written))]_all

(* The evaluator of template arguments and the evaluator of expressions    *)
(* agree on an expression of literals, if no operand has two marks before  *)
(* it, which one does from the left and the other from the right.          *)
TwoMarks(ts) ==
  \E i \in 1..(Len(ts) - 1) :
    /\ ts[i] \in UnaryOperators /\ ts[i + 1] \in UnaryOperators
    /\ i = 1 \/ ts[i - 1] \in BinaryOperators \cup {"("}

ConstantsAgree ==
  [][sort = "expression" /\ sort' = "" =>
       LET ts == Tokens(written, 12)
           isConstant == ConstExpression(ts, 1).end = Len(ts) + 1 IN
       isConstant /\ ~TwoMarks(ts) => ConstantValue(ts) = EvalExpr(ts)]_all
-----------------------------------------------------------------------------
(* The type that words stand for, in whichever order they come.            *)
Count(s, word) == Cardinality({i \in DOMAIN s : s[i] = word})

Specified(words) ==
  LET n(word) == Count(words, word)
      unsigned == n("unsigned") = 1
      longs == n("long") + 2 * n("__int64")
      sized == Cardinality({w \in {"char", "short", "float", "double", "void"} : n(w) # 0})
      others == {w \in ToSet(words) : w # "const"}
      repeated == \E w \in {"int", "char", "short", "float", "double", "void"} : n(w) > 1 IN
  IF others = {} \/ sized > 1 \/ n("unsigned") + n("signed") > 1 \/ longs > 2 \/ repeated THEN Thrown
  ELSE
  CASE others = {"void"} -> <<"void">>
    [] others = {"float"} -> BaseType("Float")
    [] others \in {{"double"}, {"double", "long"}} /\ longs < 2 -> BaseType("Double")
    [] n("char") = 1 /\ others \subseteq {"char", "signed", "unsigned"} /\ sized = 1 ->
         BaseType(IF unsigned THEN "UInt1B" ELSE "Int1B")
    [] n("short") = 1 /\ others \subseteq {"short", "int", "signed", "unsigned"} /\ sized = 1 ->
         BaseType(IF unsigned THEN "UInt2B" ELSE "Int2B")
    [] others \subseteq {"int", "long", "__int64", "signed", "unsigned"} ->
         BaseType(CASE longs = 2 /\ unsigned -> "UInt8B" [] longs = 2 /\ ~unsigned -> "Int8B"
                    [] longs < 2 /\ unsigned -> "UInt4B" [] OTHER -> "Int4B")
    [] OTHER -> Thrown

(* What is known to be read otherwise: short with int, __int64 with int,   *)
(* signed after char, signed long int in some orders, and long with float. *)
ReadOtherwise(words) ==
  LET has(w) == w \in ToSet(words) IN
  \/ has("int") /\ (has("short") \/ has("__int64"))
  \/ has("char") /\ has("signed")
  \/ has("signed") /\ has("int") /\ has("long")
  \/ has("__int64") /\ has("long")
  \/ has("long") /\ has("float")

(* The tokens of a template, and its name in the symbol file.  Two marks   *)
(* that stand together are read as one, three as one and a half.           *)
RECURSIVE TemplateTokens(_), SymbolName(_)

TemplateTokens(t) ==
  LET arg(a) == IF a.of = <<>> THEN a.tokens ELSE TemplateTokens(a.of[1]) IN
  <<t.name, "<">> \o Joined([i \in DOMAIN t.args |-> arg(t.args[i])], <<",">>) \o <<">">>

SymbolName(t) ==
  LET arg(a) == IF a.of = <<>> THEN a.name ELSE SymbolName(a.of[1])
      args == Joined([i \in DOMAIN t.args |-> arg(t.args[i])], <<",">>) IN
  <<t.name, "<">> \o args \o (IF Last(args) = ">" THEN <<" ", ">">> ELSE <<">">>)

Adjoining(ts) ==
  FoldLeft(LAMBDA s, token : IF s # <<>> /\ token = ">" /\ Last(s) = ">" THEN Append(Front(s), ">>") ELSE Append(s, token),
           <<>>, ts)

WordsReadAsC(words) == ReadOtherwise(words) \/ EvalType(words) = Specified(words)

TemplateNamed(t) ==
  \A ts \in {TemplateTokens(t), Adjoining(TemplateTokens(t))} :
    LET m == QualifiedType(Append(ts, Eof), 1) IN
    m.end = Len(ts) + 1 /\ Text(TypeName(m.got)) = Text(SymbolName(t))

(* The words of a type may come in any order, and types that there are not *)
(* are refused; a type is what its declarator says, arrays and pointers in *)
(* the order in which they are bound; a type is found by its own name, and *)
(* a template is looked for by the name that the symbol file gives it,     *)
(* whether or not there is a space between the marks that end it.          *)
TypesReadAsC ==
  [][sort' = "" =>
       /\ sort = "words" => WordsReadAsC(written)
       /\ sort = "type" => EvalType(TypeTokens(written)) = written /\ LoadType(GetName(written)) = written
       /\ sort = "template" => TemplateNamed(written)]_all
=============================================================================
