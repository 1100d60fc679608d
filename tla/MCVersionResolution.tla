------------------------ MODULE MCVersionResolution -------------------------
(* Versions around 1.10.0, which is after 1.9.0 as a number only. *)
EXTENDS VersionResolution

V(major, minor, pre) == [nums |-> <<major, minor, 0>>, pre |-> pre]

MCVersion == {V(1, 9, Release), V(1, 10, 1), V(1, 10, 2), V(1, 10, Release), V(2, 0, Release), Invalid}
MCBound == {V(1, 9, Release), V(1, 10, 1), V(1, 10, 2), V(1, 10, Release), V(2, 0, 0), V(2, 0, Release)}

Lower == {c \in Comparator : c.op \in {">", ">="}}
Upper == {c \in Comparator : c.op \in {"<", "<="}}
Exact == {c \in Comparator : c.op = "="}

\* Every single comparator, every pair of bounds that has anything between, and
\* unions with exact versions.
Ordered == {p \in Lower \X Upper : LexLess(Precedence(p[1].version), Precedence(p[2].version))}
MCRange ==
  {{{c}} : c \in Comparator \cup {Any}}
    \cup {{{p[1], p[2]}} : p \in Ordered}
    \cup {{{c}, {d}} : c \in Exact, d \in Lower \cup {Any}}

\* 1.x of a package without 1.0 to 1.8.
MCTagRange == {{[op |-> ">=", version |-> V(1, 9, Release)], [op |-> "<", version |-> V(2, 0, 0)]}}
=============================================================================
