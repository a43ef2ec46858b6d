--------------------------- MODULE MCRestorePoints ---------------------------
(* RestorePoints for TLC: the setups are interchangeable. *)
EXTENDS RestorePoints, TLC

SetupSymmetry == Permutations(Setups)

===============================================================================
