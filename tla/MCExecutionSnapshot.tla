------------------------ MODULE MCExecutionSnapshot ------------------------
(* Three runs on one output root, two inodes for the canonical path, two    *)
(* files with two versions.                                                 *)
EXTENDS ExecutionSnapshot, TLC

MCFiles == {"a", "b"}
MCSymmetry == Permutations(Runs) \cup Permutations(Roots) \cup Permutations(Versions)
=============================================================================
