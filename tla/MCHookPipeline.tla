--------------------------- MODULE MCHookPipeline ---------------------------
(* Small instances of HookPipeline for TLC. *)
EXTENDS HookPipeline, TLC

\* Every change has one detail, or two, as when two maintainers are set.
OneDetail  == [c \in Change |-> 1]
TwoDetails == [c \in Change |-> 2]

\* All hooks are on the package, which is looked up first; its scope and
\* maintainers, looked up later, have none.
OnFirstLookup == [h \in HookId |-> 1]
=============================================================================
