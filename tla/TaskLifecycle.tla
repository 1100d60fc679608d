---------------------------- MODULE TaskLifecycle ----------------------------
(***************************************************************************)
(* What the task service promises to a caller that polls a task id through *)
(* findTask: the task is waiting, is processed, may be put back to wait,   *)
(* and comes to rest in a final state.  Once final it is never waiting or  *)
(* processing again and never forgotten.  The only change that may follow  *)
(* is a second verdict, by an execution that a timeout had overtaken.      *)
(***************************************************************************)
CONSTANTS TaskId, FinalState

VARIABLE status

Init == status = [t \in TaskId |-> "none"]

Move(t, from, to) ==
  /\ status[t] \in from
  /\ status' = [status EXCEPT ![t] = to]

Create(t)   == Move(t, {"none"}, "waiting")
Start(t)    == Move(t, {"waiting"}, "processing")
PutBack(t)  == Move(t, {"processing"}, "waiting")
End(t, s)   == Move(t, {"waiting", "processing"}, s)
Amend(t, s) == Move(t, FinalState, s)

Next ==
  \E t \in TaskId :
    \/ Create(t) \/ Start(t) \/ PutBack(t)
    \/ \E s \in FinalState : End(t, s) \/ Amend(t, s)

Spec == Init /\ [][Next]_status
=============================================================================
