--------------------------- MODULE MCDataAccessor ---------------------------
(* DataAccessor for TLC: every byte differs from every other one, so that  *)
(* none can be taken for another.                                          *)
EXTENDS DataAccessor, TLC

Mark(name) == [i \in Cells |-> <<name, i>>]
Marks(name) == {Mark(name)[i] : i \in Cells}
Prefix(name, n) == [i \in 1..n |-> Mark(name)[i - 1]]

AllBytes ==
  Marks("memory") \cup Marks("register") \cup Marks("cache") \cup Marks("input") \cup {Garbage}

Symmetry == Permutations(Accessors)

SomeInitial ==
  {[s \in Stores |->
     CASE s = Memory -> Mark("memory") [] s = Register -> Mark("register")
       [] OTHER -> [i \in Cells |-> Garbage]]}

SomeContents == {Prefix("cache", n) : n \in {1, CellCount}}
SomeInputs == {Prefix("input", n) : n \in 1..CellCount}

(* Ranges that are valid, valid in part, and not valid.                    *)
SomeRanges ==
  {[begin |-> 1, length |-> 3], [begin |-> 2, length |-> 3]}

SomeValid == {Cells, 0..2}
=============================================================================
