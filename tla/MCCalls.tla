------------------------------ MODULE MCCalls -------------------------------
(* Calls for TLC: which functions are called, and with what.               *)
EXTENDS Calls

Pointer(mode) == <<"pointer", WordOf(mode)>>
Void == <<"void", 0>>
Udts == {<<"udt", n>> : n \in {3, 4, 8, 12, 16}}
Types(mode) == {<<"base", n>> : n \in {1, 4, 8}} \cup {Pointer(mode)} \cup Udts
Results(mode) == Types(mode) \cup {Void, <<"float", 8>>, <<"enum", 4>>}

Value(type, j) == [type |-> type, bytes |-> Bytes("argument", j, Size(type))]

(* Values for a parameter of a type: as they should be, and others.        *)
Fitting(params) == {[j \in DOMAIN params |-> Value(params[j], j)]}
Others(t) ==
  CASE Kind(t) = "pointer" -> {<<"array", 6>>, <<"base", 4>>, <<"enum", 4>>}
    [] Kind(t) = "base" -> {<<"base", 2>>, <<"base", 8>>, <<"enum", 4>>, <<"array", 6>>}
    [] OTHER -> {<<"udt", 2>>, <<"base", 4>>}

Function(mode, convention, params, returns, args, at) ==
  [mode |-> mode, convention |-> convention, method |-> convention = "ThisCall", params |-> params,
   returns |-> returns, args |-> args, at |-> at, body |-> TRUE, bound |-> FALSE]

Conventions(mode) ==
  IF mode = "I386" THEN {"NearC", "NearStd", "NearFast", "ThisCall"} ELSE {"NearC", "ThisCall"}

(* Up to two parameters of any type, after the object of a method.         *)
Short(mode, convention) ==
  LET these == IF convention = "ThisCall" THEN <<Pointer(mode)>> ELSE <<>>
      some == {<<>>} \cup {<<t>> : t \in Types(mode)} \cup {<<t, u>> : t, u \in Types(mode)} IN
  {these \o params : params \in some}

(* More parameters than there are registers.                               *)
Long(n, mode) == [1..n -> {<<"base", 4>>, <<"udt", 12>>, Pointer(mode)}]

Modes == {"I386", "AMD64"}

ShortCalls ==
  UNION {UNION {{Function(mode, convention, params, returns, CHOOSE args \in Fitting(params) : TRUE, "here") :
                   params \in Short(mode, convention), returns \in Results(mode)} :
                  convention \in Conventions(mode)} : mode \in Modes}

LongCalls ==
  UNION {{Function(mode, "NearC", params, returns, CHOOSE args \in Fitting(params) : TRUE, "here") :
            params \in Long(3, mode) \cup Long(5, mode) \cup Long(6, mode), returns \in {Void, <<"udt", 16>>}} :
           mode \in Modes}

(* Arguments of other types, too few, functions that cannot be called, and *)
(* a caller that stands at the function's beginning.                       *)
OddCalls ==
  UNION {UNION {{Function(mode, "NearC", <<<<"base", 4>>, t>>, <<"base", 4>>, <<Value(<<"base", 4>>, 1), Value(u, 2)>>, "here") :
            u \in Others(t)} : t \in Types(mode)} : mode \in Modes}
  \cup {Function("AMD64", "NearC", <<t>>, Void, <<Value(IF t[1] = "float" THEN <<"base", 8>> ELSE t, 1)>>, at) :
          t \in {<<"base", 4>>, <<"float", 8>>, <<"enum", 4>>}, at \in {"here", "function"}}
  \cup {Function("I386", "NearPascal", <<>>, Void, <<>>, "here"), Function("ARM64", "NearC", <<>>, Void, <<>>, "here"),
        Function("I386", "NearC", <<<<"base", 4>>>>, Void, <<>>, "here")}
  \cup {[Function("I386", "NearC", <<>>, Void, <<>>, "here") EXCEPT !.body = FALSE]}
  \cup {[Function(mode, "ThisCall", <<Pointer(mode), <<"base", 4>>>>, <<"base", 4>>, <<Value(<<"base", 4>>, 2)>>, "here")
           EXCEPT !.bound = TRUE] : mode \in Modes}

(* Methods of other conventions.                                           *)
MethodCalls ==
  {[Function("I386", convention, <<Pointer("I386"), t>>, returns, CHOOSE args \in Fitting(<<Pointer("I386"), t>>) : TRUE, "here")
      EXCEPT !.method = TRUE] :
     convention \in {"NearC", "NearStd"}, t \in Types("I386"), returns \in Results("I386")}

(* FuncWithStructCdecl, FuncWithStructStd and FuncWithStructFast of        *)
(* testfunc.h, as typedvartest.cpp calls them in a program of 32 bits.     *)
TestedCalls ==
  {Function("I386", convention, <<<<"udt", n>>>>, <<"udt", n>>, <<Value(<<"udt", n>>, 1)>>, "here") :
     convention \in {"NearC", "NearStd", "NearFast"}, n \in {4, 8, 16}}

AllCalls == ShortCalls \cup LongCalls \cup OddCalls \cup MethodCalls
=============================================================================
