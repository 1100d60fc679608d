--------------------------- MODULE MCBinarySyncer ---------------------------
(* Small instances of BinarySyncer for TLC. *)
EXTENDS BinarySyncer, TLC

CONSTANTS p1, p2

ProcessSymmetry == Permutations(Process)
=============================================================================
