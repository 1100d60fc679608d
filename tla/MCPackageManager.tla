-------------------------- MODULE MCPackageManager --------------------------
(* Small instances of PackageManager for TLC. *)
EXTENDS PackageManager

CONSTANTS p1, p2, admin, dev

ProcSymmetry == Permutations(Proc)
=============================================================================
