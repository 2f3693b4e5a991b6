------------------------------ MODULE TypeText ------------------------------
(***************************************************************************)
(* The names of types: what getName makes of a type, and what loadType     *)
(* makes of a name (source/typeinfo.cpp).  A text is a sequence of pieces: *)
(* the name of a class or a base type, a punctuation mark, a digit.        *)
(***************************************************************************)
EXTENDS Types

Digits == <<"0", "1", "2", "3", "4", "5", "6", "7", "8", "9">>
Digit(n) == Digits[n + 1]
Marks == {"(", ")", "*", "[", "]"}

Joined(texts, separator) ==
  FlattenSeq([i \in DOMAIN texts |-> IF i = 1 THEN texts[i] ELSE separator \o texts[i]])

RECURSIVE GetName(_)

(* The calling convention as it is shown.                                  *)
Convention(t) == IF t[4] = "__cdecl" /\ t[5] THEN "__thiscall" ELSE t[4]

(* The arguments that are shown: `this' is not.                            *)
ShownArgs(t) == IF Convention(t) = "__thiscall" /\ t[5] THEN Tail(t[3]) ELSE t[3]

ArgNames(t) ==
  [i \in DOMAIN ShownArgs(t) |->
     IF Is(ShownArgs(t)[i], "notype") THEN <<"...">> ELSE GetName(ShownArgs(t)[i])]

(* splitName: what comes before and after the stars and brackets.          *)
SplitName(t) ==
  IF Is(t, "function")
  THEN << GetName(t[2]) \o <<"(", Convention(t)>> \o (IF t[6] = "" THEN <<>> ELSE <<" ", t[6], "::">>),
          <<")", "(">> \o Joined(ArgNames(t), <<",", " ">>) \o <<")">> >>
  ELSE << GetName(t), <<>> >>

Index1(t) == IF Is(t, "incomplete") THEN <<"[", "]">> ELSE <<"[", Digit(t[3]), "]">>

(* TypeInfoReference::getName, name being what the outer types have made.  *)
(* Adjoining arrays share their brackets.                                  *)
RECURSIVE ReferenceName(_, _, _)
ReferenceName(t, name, inArray) ==
  CASE t[1] \in {"array", "incomplete"} ->
         ReferenceName(Deref(t),
                       (IF name = <<>> \/ inArray THEN name ELSE <<"(">> \o name \o <<")">>) \o Index1(t),
                       TRUE)
    [] Is(t, "pointer") -> ReferenceName(Deref(t), <<"*">> \o name, FALSE)
    [] OTHER -> SplitName(t)[1] \o name \o SplitName(t)[2]

GetName(t) ==
  CASE Is(t, "base") -> <<t[2]>>
    [] Is(t, "void") -> <<"Void">>
    [] Is(t, "notype") -> <<"NoType">>
    [] Is(t, "vtbl") -> <<"VTable">>
    [] t[1] \in {"udt", "enum"} -> <<t[2]>>
    [] Is(t, "custom") -> <<custom[t[2]].name>>
    [] Is(t, "bitfield") -> GetName(t[2]) \o <<":", Digit(t[4])>>
    [] Is(t, "function") -> SplitName(t)[1] \o SplitName(t)[2]
    [] OTHER -> ReferenceName(t, <<>>, FALSE)
-----------------------------------------------------------------------------
BaseNames == DOMAIN BaseTypes \cup {"Void", "NoType"}

(* getTypeNameFromComplex and getTypeSuffixFromComplex: stars in front are *)
(* skipped, then comes one name, and brackets, stars and digits after it.  *)
Unstarred(text) == LET stars == SelectInSeq(text, LAMBDA p : p # "*") IN
  IF stars = 0 THEN <<>> ELSE SubSeq(text, stars, Len(text))

IsComplex(text) == \E i \in DOMAIN text : text[i] \in {"*", "["}

WellFormed(text) ==
  LET u == Unstarred(text) IN
  /\ Len(u) > 1
  /\ u[1] \notin Marks
  /\ \A i \in 2..Len(u) : u[i] \in Marks \cup ToSet(Digits)

(* getBracketExpression: from the first ( to the last ).                   *)
Opening(s) == SelectInSeq(s, LAMBDA p : p = "(")
Closing(s) == SelectLastInSeq(s, LAMBDA p : p = ")")
Bracketed(s) == Opening(s) # 0 /\ Opening(s) < Closing(s)

(* The suffix is used up: a star at its front before an array at its end.  *)
RECURSIVE Modified(_, _)
Modified(t, s) ==
  LET n == Len(s) IN
  CASE t = Thrown -> Thrown
    [] t # Thrown /\ s = <<>> -> t
    [] t # Thrown /\ s # <<>> /\ s[1] = "*" -> Modified(PtrTo(t), Tail(s))
    [] t # Thrown /\ n >= 3 /\ s[1] # "*" /\ s[n] = "]" /\ s[n - 2] = "[" /\ s[n - 1] \notin Marks ->
         Modified(ArrayOf(t, SelectInSeq(Digits, LAMBDA d : d = s[n - 1]) - 1), SubSeq(s, 1, n - 3))
    [] OTHER -> Thrown

(* Fault: what is in the brackets is applied first.                        *)
Nested_First(t, outer, inner) == Modified(Modified(t, inner), outer)
Nested(t, outer, inner) == Modified(Modified(t, outer), inner)

(* getRecursiveComplexType.  What is in brackets is applied last, and may  *)
(* itself have brackets.                                                   *)
RECURSIVE RecursiveComplexType(_, _)
RecursiveComplexType(t, s) ==
  IF ~Bracketed(s) THEN Modified(t, s)
  ELSE LET inner == SubSeq(s, Opening(s) + 1, Closing(s) - 1)
           outer == SubSeq(s, 1, Opening(s) - 1) \o SubSeq(s, Closing(s) + 1, Len(s)) IN
       IF Bracketed(inner)
       THEN RecursiveComplexType(Modified(t, outer), inner)
       ELSE Nested(t, outer, inner)

(* The child of the symbol file's scope that has this name.                *)
ChildByName(name) ==
  CASE name \in DOMAIN Symbols -> LoadSymbol(Symbols[name].type)
    [] name \in BaseNames -> BaseType(name)
    [] OTHER -> Thrown

(* loadType( scope, name ) and, for base types, loadType( name ).          *)
LoadType(text) ==
  CASE text = <<>> -> Thrown
    [] Len(text) = 1 -> ChildByName(text[1])
    [] Len(text) > 1 /\ IsComplex(text) /\ WellFormed(text) ->
         LET u == Unstarred(text) IN RecursiveComplexType(ChildByName(u[1]), Tail(u))
    [] OTHER -> Thrown
-----------------------------------------------------------------------------
(* getMethodPrototype, and what the expressions of isPrototypeMatch find   *)
(* in it: a return type of one word.  "" stands for no class.              *)
Prototype(t) ==
  [ret |-> GetName(t[2]), convention |-> Convention(t), class |-> "", args |-> Joined(ArgNames(t), <<",">>)]

(* Fault: the arguments are not looked at.                                 *)
IsPrototypeMatch_NoArgs(t, p) == p.ret = GetName(t[2]) /\ p.convention = Convention(t)

IsPrototypeMatch(t, p) ==
  /\ Len(p.ret) = 1
  /\ p.ret = GetName(t[2])
  /\ p.convention = Convention(t)
  /\ p.class \in {"", t[6]}
  /\ SelectSeq(p.args, LAMBDA piece : piece # " ") = Joined(ArgNames(t), <<",">>)

(* TypeInfoUdt::getMethod, as an index into Methods(class); 0 stands for   *)
(* the exception.                                                          *)
NoPrototype == [ret |-> <<>>, convention |-> "", class |-> "", args |-> <<>>]

GetMethod(class, name, prototype) ==
  SelectInSeq(Methods(class),
    LAMBDA s : s.name = name /\ (prototype = NoPrototype \/ IsPrototypeMatch(LoadSymbol(s.type), prototype)))
=============================================================================
