--------------------------- MODULE MCExpressions ----------------------------
(***************************************************************************)
(* The objects of MCTypedData, and operands for expressions: numbers of 2, *)
(* 4, 8 and 12 bits, and pointers of 8.                                    *)
(***************************************************************************)
EXTENDS Expressions, MCTypedData

(* The variables c, u, n, w, arr, p, s, q and d follow the objects.        *)
First == Len(MCInitialMemory)

Variable(at, type) == [type |-> type, at |-> First + at]
MCVariables ==
  [n \in {"c", "u", "w", "n", "p", "q", "s", "arr", "d"} |->
     CASE n = "c" -> Variable(1, <<"base", "Int1B">>)
       [] n = "u" -> Variable(2, <<"base", "UInt1B">>)
       [] n = "n" -> Variable(3, <<"base", "Int4B">>)
       [] n = "w" -> Variable(7, <<"base", "UInt4B">>)
       [] n = "arr" -> Variable(11, <<"array", <<"base", "Int2B">>, 2>>)
       [] n = "p" -> Variable(15, <<"pointer", <<"base", "Int2B">>>>)
       [] n = "s" -> Variable(19, <<"udt", "S">>)
       [] n = "q" -> Variable(26, <<"pointer", <<"udt", "S">>>>)
       [] OTHER -> Variable(30, <<"base", "Double">>)]

AllMemory ==
  MCInitialMemory
  \o <<2>> \o <<3>> \o ToBytes(4, 253) \o ToBytes(4, 254) \o ToBytes(2, 5) \o ToBytes(2, 14)
  \o Ptr(First + 13) \o <<1>> \o ToBytes(2, 13) \o Ptr(First + 11) \o Ptr(First + 19) \o ToBytes(4, 3) \o ToBytes(4, 0)

Whole_(val, suffix) == [kind |-> "int", val |-> val, suffix |-> suffix]
MCLiterals ==
  [l \in {"0", "1", "2", "5", "250", "9ull", "1.5", "'c'"} |->
     CASE l = "0" -> Whole_(0, "") [] l = "1" -> Whole_(1, "") [] l = "2" -> Whole_(2, "") [] l = "5" -> Whole_(5, "")
       [] l = "250" -> Whole_(250, "") [] l = "9ull" -> Whole_(9, "ull")
       [] l = "1.5" -> [kind |-> "float", val |-> 3, suffix |-> ""]
       [] OTHER -> [kind |-> "char", chars |-> <<3>>, val |-> 0, suffix |-> ""]]

MCLeaves == {<<x>> : x \in {"c", "u", "w", "n", "p", "q", "s", "arr", "d", "5", "250", "9ull", "'c'", "true"}}
MCOperands == {<<"1">>, <<"w">>}
MCSubtracted == {<<"p">>}
MCCasts == {<<"base", "Int1B">>, <<"base", "UInt4B">>, <<"base", "Bool">>, <<"pointer", <<"udt", "S">>>>, <<"base", "Double">>}
MCMemberNames == {"b", "p"}

MCSpecifiers == {"unsigned", "signed", "long", "int", "short", "char", "double", "const", "__int64", "float", "void"}
MCNamed == {<<"base", "Int4B">>, <<"base", "Int1B">>, <<"udt", "S">>}

Arg(tokens, name) == [tokens |-> tokens, name |-> name]
MCArguments ==
  {Arg(<<"int">>, <<"int">>), Arg(<<"unsigned", "char">>, <<"unsigned char">>), Arg(<<"S", "*">>, <<"S *">>),
   Arg(<<"5">>, <<"5">>), Arg(<<"1", "+", "-", "2">>, <<"-1">>), Arg(<<"const", "char">>, <<"char const ">>),
   Arg(<<"S", ":", ":", "In">>, <<"S::In">>)}
=============================================================================
