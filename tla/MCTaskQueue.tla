---------------------------- MODULE MCTaskQueue ----------------------------
(* Small instances of TaskQueue for TLC. *)
EXTENDS TaskQueue, TLC

CONSTANTS t1, t2, t3, v1, v2, w1, w2, w3, c1, c2

\* All tasks are for one package or binary.
OneTarget == [t \in TaskId |-> "foo"]

\* Every task has a bizId of its own, or all of them share one.
NoBizIds  == [t \in TaskId |-> NoBizId]
OneBizId  == [t \in TaskId |-> "TriggerHook:1:2"]

\* All requests ask for a full synchronisation.
FullRequests == [t \in TaskId |-> NewTask(TRUE, {})]

\* The first asks for one version, the second for another, the third for all.
MixedRequests ==
  [t \in TaskId |-> CASE t = t1 -> NewTask(FALSE, {v1})
                      [] t = t2 -> NewTask(FALSE, {v2})
                      [] OTHER  -> NewTask(TRUE, {})]

WorkerSymmetry == Permutations(Worker)
ClientAndWorkerSymmetry == Permutations(Worker) \cup Permutations(Client)
=============================================================================
