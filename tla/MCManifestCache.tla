--------------------------- MODULE MCManifestCache ---------------------------
(* Small instances of ManifestCache for TLC. *)
EXTENDS ManifestCache, TLC

CONSTANTS p1, p2

ProcessSymmetry == Permutations(Process)
=============================================================================
