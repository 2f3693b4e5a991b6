----------------------------- MODULE MCTargets ------------------------------
(***************************************************************************)
(* Two systems for module Targets: on the first, an x64 processor with a   *)
(* 64 bit process of two threads and a 32 bit process of one; the second   *)
(* is the kernel of an ARM64 processor, of which the engine knows no       *)
(* system ids.                                                             *)
(***************************************************************************)
EXTENDS Targets

MCProcessOf == <<1, 1, 2, 3>>
MCSystemOf == <<1, 1, 2>>
MCPid == <<7, 8, None>>
MCTid == <<5, 6, 5, None>>
MCProcessor == <<"AMD64", "ARM64">>
MCOwnMode == <<"AMD64", "AMD64", "I386", "ARM64">>

MCTraces ==
  (<<1, "AMD64">> :> << <<15, 22, 5>>, <<16, 13>> >>) @@ (<<2, "AMD64">> :> << <<32, 18>>, <<0, 31>> >>)
  @@ (<<3, "I386">> :> << <<14, 20>>, <<18, 36>> >>) @@ (<<3, "AMD64">> :> << <<5>>, <<5>> >>)
  @@ (<<4, "ARM64">> :> << <<12, 35>>, <<21>> >>)
MCUnreadable == {<<3, 1>>}
MCMapped == 1..40

Var(name, kind, at) == [name |-> name, kind |-> kind, at |-> at]
Range_(from, to) == [from |-> from, to |-> to]
Block(from, to, data, blocks) == [from |-> from, to |-> to, data |-> data, blocks |-> blocks]
Site(name, from, to) == [name |-> name, from |-> from, to |-> to]

Inner == Block(15, 17, <<Var("d", "local", <<"null">>), Var("t", "static", <<"static", 92>>)>>, <<>>)
Early == Block(13, 18, <<Var("a", "local", <<"relative", "sp", 4>>), Var("c", "local", <<"relative", "sp", 8>>)>>, <<Inner>>)
Late == Block(20, 24, <<Var("e", "local", <<"relative", "ip", 1>>)>>, <<>>)
MCBlocks == {Early, Inner, Late}

(* f: a prologue, blocks one in another and one after another, g inlined   *)
(* and h inlined in it.  main: no blocks.                                  *)
F ==
  [name |-> "f", from |-> 10, to |-> 30, debug |-> Range_(12, 28),
   data |-> <<Var("this", "this", <<"register", 18>>), Var("x", "param", <<"relative", "fp", 8>>),
              Var("a", "local", <<"register", 17>>), Var("s", "static", <<"static", 90>>), Var("", "static", <<"static", 91>>)>>,
   blocks |-> <<Early, Late>>,
   inlined |-> << Site("h", 14, 16), Site("g", 13, 18), Site("g", 21, 22), Site("k", 22, 23) >>]
Main ==
  [name |-> "main", from |-> 30, to |-> 38, debug |-> Range_(31, 37),
   data |-> <<Var("argc", "param", <<"relative", "fp", 8>>), Var("r", "local", <<"register", 20>>)>>,
   blocks |-> <<>>, inlined |-> <<>>]
MCCode == {F, Main}
=============================================================================
