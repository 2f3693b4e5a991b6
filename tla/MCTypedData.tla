---------------------------- MODULE MCTypedData -----------------------------
(***************************************************************************)
(* Objects for module TypedData: bytes of two bits, and numbers and        *)
(* pointers of as many bytes as a 32 bit debuggee has.                     *)
(***************************************************************************)
EXTENDS TypedData

N1 == <<"basic", "Int", 1>>
U1 == <<"basic", "UInt", 1>>
U2 == <<"typedef", <<"basic", "UInt", 2>> >>

Data_(name, kind, offset, type, va) ==
  [tag |-> "data", name |-> name, kind |-> kind, offset |-> offset, type |-> type, va |-> va]
Member(name, offset, type) == Data_(name, "member", offset, type, 0)
Base(of, offset) == [tag |-> "base", of |-> of, offset |-> offset, virtual |-> FALSE]
VirtualBase(of, vbptr) ==
  [tag |-> "base", of |-> of, offset |-> 0, virtual |-> TRUE, vbptr |-> vbptr, index |-> 1, dispsize |-> 4]
Table(offset) == [tag |-> "vtable", offset |-> offset]
Method(class, name, args, va, virtual, vtbloffset) ==
  [tag |-> "function", name |-> name, va |-> va, virtual |-> virtual, vtbloffset |-> vtbloffset,
   type |-> <<"function", N1, <<<<"pointer", <<"udt", class>> >>>> \o args, "__cdecl", TRUE, class>>]

Class(name, size, children) ==
  [type |-> <<"udt", name>>, size |-> size, shape |-> 2, children |-> children, values |-> <<>>]

A == Class("A", 2, <<Member("x", 0, N1), Member("y", 1, U1)>>)
Inner == Class("Inner", 3, <<Member("m", 0, N1), Member("u", 1, U2)>>)
Color == [type |-> <<"enum", "Color">>, size |-> 4, children |-> <<>>, shape |-> 0,
          values |-> <<Data_("red", "constant", 0, <<"basic", "Int", 4>>, Number("long", 1))>>]
B == Class("B", 16,
  << Base("A", 0), Member("x", 2, N1), Member("in", 3, <<"udt", "Inner">>), Member("arr", 6, <<"array", N1, 2>>),
     Member("p", 8, <<"bitfield", U1, 0, 1>>), Member("q", 8, <<"bitfield", N1, 1, 1>>),
     Member("r", 9, <<"bitfield", <<"basic", "Int", 2>>, 1, 2>>),
     Member("all", 11, <<"bitfield", U1, 0, 2>>),
     Data_("s", "static", 0, N1, 1), Data_("k", "constant", 0, N1, Number("char", 1)),
     [tag |-> "enum", values |-> Color.values], Member("color", 12, <<"enum", "Color">>) >>)
D == Class("D", 1, <<Member("d", 0, N1)>>)
C == Class("C", 22, <<Base("B", 0), Base("D", 16), Member("z", 17, U1), Member("at", 18, <<"pointer", <<"udt", "A">> >>)>>)
V == Class("V", 7, <<VirtualBase("A", 1), Member("w", 0, N1)>>)
W == Class("W", 8, <<Base("V", 0), VirtualBase("A", 1), Member("v", 5, N1)>>)
V0 == Class("V0", 7, <<VirtualBase("A", 0), Member("w", 4, N1)>>)
Node == Class("Node", 5, <<Member("n", 0, N1), Member("next", 1, <<"pointer", <<"udt", "Node">> >>)>>)
Link == Class("Link", 4, <<Member("flink", 0, <<"pointer", <<"udt", "Link">> >>)>>)
Item == Class("Item", 5, <<Member("n", 0, N1), Member("link", 1, <<"udt", "Link">>)>>)
P == Class("P", 4, <<Table(0), Method("P", "f", <<>>, 120, TRUE, 0), Method("P", "h", <<>>, 121, FALSE, 0)>>)
Q == Class("Q", 4, <<Table(0), Method("Q", "g", <<>>, 122, TRUE, 0), Method("Q", "g", <<N1>>, 125, TRUE, 4)>>)
S == Class("S", 7, <<Member("a", 0, U1), Member("b", 1, <<"basic", "Int", 2>>), Member("p", 3, <<"pointer", <<"basic", "Int", 2>> >>),
                    Data_("K", "constant", 0, <<"basic", "Int", 2>>, Number("short", 3))>>)
R == Class("R", 8, <<Base("P", 0), Base("Q", 4), Method("R", "f", <<>>, 123, TRUE, 0),
                  Method("R", "g", <<N1>>, 126, TRUE, 4), Method("R", "g", <<>>, 124, TRUE, 0)>>)

MCSymbols ==
  [n \in {"A", "Inner", "Color", "B", "C", "D", "V", "W", "V0", "Node", "Link", "Item", "P", "Q", "R", "S"} |->
     CASE n = "A" -> A [] n = "Inner" -> Inner [] n = "Color" -> Color [] n = "B" -> B [] n = "C" -> C [] n = "D" -> D
       [] n = "V" -> V [] n = "W" -> W [] n = "V0" -> V0 [] n = "Node" -> Node [] n = "Link" -> Link
       [] n = "Item" -> Item [] n = "P" -> P [] n = "Q" -> Q [] n = "S" -> S [] OTHER -> R]

Ptr(at) == <<at % 4, (at \div 4) % 4, (at \div 16) % 4, at \div 64>>
Disp(n) == <<n % 4, n \div 4, 0, 0>>

MCInitialMemory ==
  (* 1: s; 2: V, 9: W, 17: V0, and their tables at 24, 32 and 40 *)
  <<2>>
  \o <<1>> \o Ptr(24) \o <<2, 3>>
  \o <<1>> \o Ptr(32) \o <<2>> \o <<3, 1>>
  \o Ptr(40) \o <<1>> \o <<2, 3>>
  \o Disp(0) \o Disp(4) \o Disp(0) \o Disp(5) \o Disp(0) \o Disp(5)
  (* 48: the head of a list of two nodes at 52 and 57 *)
  \o Ptr(52) \o <<1>> \o Ptr(57) \o <<2>> \o Ptr(0)
  (* 62: the head of a list of two items at 66 and 71 *)
  \o Ptr(67) \o <<1>> \o Ptr(72) \o <<2>> \o Ptr(62)
  (* 76: an object of class R, and its tables at 84 and 92 *)
  \o Ptr(84) \o Ptr(92) \o Ptr(123) \o Ptr(0) \o Ptr(124) \o Ptr(126)
  (* 100: an object of class C *)
  \o <<1, 3, 2, 1, 0, 1, 3, 0, 2, 1, 1, 3, 1, 0, 0, 0>> \o <<3, 2>> \o Ptr(100)

Obj(class, at, vbase) == [class |-> class, at |-> at, vbase |-> vbase]
MCObjects ==
  [o \in {"c", "cAsB", "v", "w", "wAsV", "v0", "r", "rAsP"} |->
     CASE o = "c" -> Obj("C", 100, 0) [] o = "cAsB" -> Obj("B", 100, 0)
       [] o = "v" -> Obj("V", 2, 7) [] o = "w" -> Obj("W", 9, 15) [] o = "wAsV" -> Obj("V", 9, 15)
       [] o = "v0" -> Obj("V0", 17, 22)
       [] o = "r" -> Obj("R", 76, 0) [] OTHER -> Obj("P", 76, 0)]

E(path) == [path |-> path, index |-> NoIndex]
OfB == {E(<<n>>) : n \in {"x", "y", "p", "q", "r", "all", "color"}}
       \cup {E(<<"in", "m">>), E(<<"in", "u">>)} \cup {[path |-> <<"arr">>, index |-> i] : i \in 0..1}
OfV == {E(<<n>>) : n \in {"w", "x", "y"}}
MCElements ==
  [class \in DOMAIN MCSymbols |->
     CASE class = "B" -> {E(<<n>>) : n \in {"x", "y", "q"}} [] class = "C" -> OfB \cup {E(<<n>>) : n \in {"d", "z", "at"}}
       [] class \in {"V", "V0"} -> OfV [] class = "W" -> OfV \cup {E(<<"v">>)} [] OTHER -> {}]

MCNumbers == {-2, 5}

MCLists ==
  [l \in {"nodes", "items"} |->
     IF l = "nodes" THEN [head |-> 48, class |-> "Node", path |-> <<"next">>, nodes |-> {52, 57}, link |-> 1]
     ELSE [head |-> 62, class |-> "Item", path |-> <<"link">>, nodes |-> {67, 72}, link |-> 0]]

Call(o, method, prototype, code, offset) ==
  [object |-> o, method |-> method, prototype |-> prototype, code |-> code, offset |-> offset]
Taking(args, class) == [ret |-> <<"Int1B">>, convention |-> "__thiscall", class |-> class, args |-> args]
MCCalls ==
  {Call("r", "f", NoPrototype, 123, 0), Call("r", "h", NoPrototype, 121, 0),
   Call("r", "g", NoPrototype, 126, 4), Call("r", "g", Taking(<<>>, "R"), 124, 4),
   Call("r", "g", Taking(<<"Int1B">>, ""), 126, 4), Call("r", "g", Taking(<<"Int2B">>, ""), 0, 4),
   Call("rAsP", "f", Taking(<<>>, "P"), 123, 0), Call("rAsP", "h", NoPrototype, 121, 0)}

MCOwnFields == {<<"base", "Int1B">>, <<"base", "Int4B">>, <<"array", <<"base", "Int2B">>, 3>>}
=============================================================================
