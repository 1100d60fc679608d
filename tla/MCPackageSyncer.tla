--------------------------- MODULE MCPackageSyncer ---------------------------
(* Small instances of PackageSyncer for TLC. *)
EXTENDS PackageSyncer

CONSTANTS p1, p2, dev, ops

Symmetry == Permutations(Proc) \cup Permutations(User)

AllVersions == [force |-> FALSE, only |-> {}, strict |-> FALSE]
SomeTasks == {AllVersions, [AllVersions EXCEPT !.force = TRUE]}
             \cup {[AllVersions EXCEPT !.only = {1}, !.strict = strict] : strict \in BOOLEAN}
Modes == {"ignore", "block", "delete"}
=============================================================================
