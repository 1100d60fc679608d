--------------------------- MODULE MCChangesStream ---------------------------
(* Small instances of ChangesStream for TLC. *)
EXTENDS ChangesStream, TLC

CONSTANTS e1, e2, npm, other, self, a, b, sc

\* Package a has a scope, package b has none.
Scoped == [k \in Package |-> IF k = a THEN sc ELSE None]
Upstreams == {[r \in Registry |-> IF r = npm THEN "npm" ELSE "cnpmjsorg"],
              [r \in Registry |-> IF r = npm THEN "cnpmcore" ELSE "npm"]}
ExecutorSymmetry == Permutations(Executor)
=============================================================================
