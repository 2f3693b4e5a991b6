--------------------------- MODULE MCBreakpoints ---------------------------
(* Breakpoints for TLC.                                                    *)
EXTENDS Breakpoints, TLC

Symmetry == Permutations(Autos) \cup Permutations(Objects) \cup Permutations(Processes)

(* Callers that do nothing they must not do, callers with one bad habit    *)
(* each, and callers with all of them.                                     *)
SomeGivens == {{}, Circumstances} \cup {{c} : c \in Circumstances} \cup {{"stale", "early"}}
=============================================================================
