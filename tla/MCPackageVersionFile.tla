------------------------ MODULE MCPackageVersionFile ------------------------
(* Small instances of PackageVersionFile for TLC. *)
EXTENDS PackageVersionFile, TLC

CONSTANTS p1, p2

ProcessSymmetry == Permutations(Process)
=============================================================================
