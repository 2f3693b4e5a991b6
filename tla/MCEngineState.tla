--------------------------- MODULE MCEngineState ---------------------------
(* EngineState for TLC.                                                    *)
EXTENDS EngineState, TLC

Symmetry == Permutations(Threads)

(* Every combination of circumstances.                                     *)
AllGivens == SUBSET Circumstances
=============================================================================
