--------------------------- MODULE MCModuleCache ---------------------------
(* ModuleCache for TLC: two images that take the same place, one apart     *)
(* from them, and one that reaches over both.                              *)
EXTENDS ModuleCache

Other == [name |-> "other", base |-> 2, end |-> 3]
Across == [name |-> "across", base |-> 1, end |-> 3]

InPlace == {[name |-> "old", base |-> 0, end |-> 2], [name |-> "new", base |-> 0, end |-> 2], Other}
AllImages == InPlace \cup {Across}

SomePaths == {{}, {Other}, AllImages}

AllGivens == SUBSET Circumstances

(* Everything that loses track of the engine except unnamed modules.       *)
Untracked == {{"unloaded", "moved"}}
=============================================================================
