--------------------------- MODULE TaskQueueProofs ---------------------------
(***************************************************************************)
(* Theorems about TaskQueue, for any sets of tasks, clients, workers and   *)
(* handlers and any bounds.                                                *)
(***************************************************************************)
EXTENDS TaskQueue, SequenceTheorems, FiniteSetTheorems, TLAPS

\* Part of AppendTaskLog and SaveRetry, and of vars, in every proof.
USE DEF SaveCopy, counts

-----------------------------------------------------------------------------
(* The operators of TaskTable *)

\* A started entity is a row in state processing, with one attempt more.
LEMMA StartedRow ==
  ASSUME NEW row \in Row
  PROVE  /\ Started(row) \in Row
         /\ Started(row).state = "processing"
         /\ Started(row).attempts = row.attempts + 1
  BY DEF Started, Row, RowWith, TaskState, FinalState

\* New tasks wait and have not been started.
LEMMA RequestRow ==
  ASSUME NEW t \in TaskId
  PROVE  /\ Request[t] \in LiveRow
         /\ Request[t].state = "waiting"
         /\ Request[t].attempts = 0
<1>1. PICK full \in BOOLEAN, versions \in SUBSET Version :
        Request[t] = NewTask(full, versions)
  BY TaskAssumption
<1> QED BY <1>1 DEF NewTask, LiveRow, RowWith

\* Live and history rows are rows.
LEMMA RowKinds == LiveRow \subseteq Row /\ HistoryRow \subseteq Row /\ Absent \in LiveRow /\ Absent \in HistoryRow
  BY DEF LiveRow, HistoryRow, Row, RowWith, TaskState, FinalState, Absent

\* Merging a request into a row leaves it a row.
LEMMA MergedRow ==
  ASSUME NEW row \in Row, NEW request \in Row
  PROVE  Merged(row, request) \in Row
  BY DEF Merged, Row, RowWith

\* Updating the data of a row changes neither its state nor its attempts, nor
\* whether any row exists.
LEMMA UpdateDataRows ==
  ASSUME NEW table \in [TaskId -> LiveRow], NEW id \in TaskId, NEW task \in Row
  PROVE  /\ UpdateData(table, id, task) \in [TaskId -> LiveRow]
         /\ \A t \in TaskId :
              /\ UpdateData(table, id, task)[t].state = table[t].state
              /\ UpdateData(table, id, task)[t].attempts = table[t].attempts
  BY DEF UpdateData, Exists, LiveRow, Row, RowWith

\* saveTask changes one row only, and never creates one.
LEMMA SaveTaskRows ==
  ASSUME NEW table \in [TaskId -> LiveRow], NEW id \in TaskId, NEW task \in LiveRow
  PROVE  /\ SaveTask(table, id, task) \in [TaskId -> LiveRow]
         /\ \A t \in TaskId \ {id} : SaveTask(table, id, task)[t] = table[t]
         /\ SaveTask(table, id, task)[id] =
              IF Exists(table[id]) THEN task ELSE table[id]
  BY DEF SaveTask

\* push keeps a queue of ids a queue of ids, and adds nothing but the new id.
LEMMA PushQueue ==
  ASSUME NEW q \in Seq(TaskId), NEW id \in TaskId
  PROVE  /\ Push(q, id) \in Seq(TaskId)
         /\ \A i \in DOMAIN Push(q, id) :
              Push(q, id)[i] = id \/ \E j \in DOMAIN q : Push(q, id)[i] = q[j]
<1>1. CASE Position(q, id) = {}
  BY <1>1, AppendProperties DEF Push
<1>2. CASE Position(q, id) # {}
  <2> DEFINE i == CHOOSE k \in Position(q, id) : TRUE
             moved(k) == IF k < i THEN q[k]
                         ELSE IF k < Len(q) THEN q[k + 1] ELSE id
  <2>1. Push(q, id) = [k \in DOMAIN q |-> moved(k)]
    BY <1>2 DEF Push
  <2>2. i \in 1..Len(q) /\ DOMAIN q = 1..Len(q) /\ Len(q) \in Nat
    BY <1>2 DEF Position
  <2>3. \A k \in 1..Len(q) :
          moved(k) \in TaskId /\ (moved(k) = id \/ \E j \in DOMAIN q : moved(k) = q[j])
    <3> HIDE DEF i
    <3> TAKE k \in 1..Len(q)
    <3>1. CASE k < i
      BY <2>2, <3>1
    <3>2. CASE ~(k < i) /\ k < Len(q)
      <4>1. k + 1 \in DOMAIN q /\ moved(k) = q[k + 1]
        BY <2>2, <3>2
      <4> QED BY <4>1
    <3>3. CASE ~(k < i) /\ ~(k < Len(q))
      BY <3>3
    <3> QED BY <3>1, <3>2, <3>3
  <2> HIDE DEF i, moved
  <2>4. Push(q, id) \in Seq(TaskId)
    <3>1. Push(q, id) \in [1..Len(q) -> TaskId]
      BY <2>1, <2>2, <2>3
    <3> QED BY <3>1, <2>2, SeqDef
  <2> QED BY <2>1, <2>2, <2>3, <2>4
<1> QED BY <1>1, <1>2

-----------------------------------------------------------------------------
(* Type correctness *)

LEMMA InitInductive == Init => Inductive
<1> SUFFICES ASSUME Init PROVE Inductive
  OBVIOUS
<1> USE DEF Init
<1>1. TypeOK
  <2>1. Absent \in Row /\ Absent \in LiveRow /\ Absent \in HistoryRow
    BY RowKinds
  <2>2. queue \in Seq(TaskId)
    OBVIOUS
  <2> QED BY <2>1, <2>2, BoundAssumption DEF TypeOK, PC
<1>2. \A t \in TaskId : ~Exists(tasks[t]) /\ ~Exists(history[t])
  BY DEF Exists, Absent
<1>3. EntOK /\ OneHolder
  BY TaskAssumption DEF EntOK, EntAt, OneHolder, Holds, Holding
<1>4. IdsResolve
  BY DEF IdsResolve
<1>5. IdsFresh
  BY <1>2, TaskAssumption DEF IdsFresh, Known, Exists, Absent
<1>6. AttemptsOK
  BY DEF AttemptsOK, AttemptsAt, Holds, Holding, Claims
<1> QED BY <1>1, <1>3, <1>4, <1>5, <1>6 DEF Inductive

\* TakeUp and Return keep the local variables well typed.
LEMMA TakeUpType ==
  ASSUME TypeOK, NEW p \in Proc, NEW t \in TaskId \cup {NoTask},
         NEW task \in Row, NEW label \in PC, TakeUp(p, t, task, label)
  PROVE  /\ pc' \in [Proc -> PC]
         /\ cur' \in [Proc -> TaskId \cup {NoTask}]
         /\ ent' \in [Proc -> Row]
  BY DEF TypeOK, TakeUp, Goto

LEMMA ReturnType ==
  ASSUME TypeOK, NEW p \in Proc, Return(p)
  PROVE  /\ pc' \in [Proc -> PC]
         /\ cur' \in [Proc -> TaskId \cup {NoTask}]
         /\ ent' \in [Proc -> Row]
  BY RowKinds DEF TypeOK, Return, Goto, PC

LEMMA GotoType ==
  ASSUME TypeOK, NEW p \in Proc, NEW label \in PC, Goto(p, label)
  PROVE  pc' \in [Proc -> PC]
  BY DEF TypeOK, Goto

\* A process that is busy has a task in hand.
LEMMA BusyHasTask ==
  ASSUME TypeOK, EntOK, NEW p \in Proc, pc[p] \notin {"idle", "sweep"}
  PROVE  cur[p] \in TaskId
  BY DEF TypeOK, EntOK, EntAt

LEMMA TypeStep ==
  ASSUME TypeOK, EntOK, Next
  PROVE  TypeOK'
<1> USE DEF tables, locals, sweep, ghosts
<1>1. ASSUME NEW c \in Client, NEW t \in TaskId, CreateNew(c, t)
      PROVE  TypeOK'
  <2>1. c \in Proc /\ Request[t] \in Row /\ "insert" \in PC
    BY RequestRow, RowKinds DEF Proc, PC
  <2>2. TakeUp(c, t, Request[t], "insert")
    BY <1>1 DEF CreateNew
  <2> QED BY <1>1, <2>1, <2>2, TakeUpType DEF CreateNew, TypeOK
<1>2. ASSUME NEW c \in Client, NEW t \in TaskId, NEW u \in TaskId,
             CreateExisting(c, t, u)
      PROVE  TypeOK'
  <2>1. c \in Proc /\ Request[t] \in Row
    BY RequestRow, RowKinds DEF Proc
  <2>2. \E label \in {"merge", "boost"} : TakeUp(c, u, Request[t], label)
    BY <1>2 DEF CreateExisting
  <2> QED BY <1>2, <2>1, <2>2, TakeUpType DEF CreateExisting, TypeOK, PC
<1>3. ASSUME NEW c \in Client, NEW t \in TaskId, NEW u \in TaskId,
             CreateSwallowed(c, t, u)
      PROVE  TypeOK'
  BY <1>3 DEF CreateSwallowed, TypeOK
<1>4. ASSUME NEW c \in Client, MergeRead(c)
      PROVE  TypeOK'
  <2>1. c \in Proc /\ cur[c] \in TaskId
    BY <1>4, BusyHasTask DEF MergeRead, Proc
  <2>2. tasks[cur[c]] \in Row /\ ent[c] \in Row
    BY <2>1, RowKinds DEF TypeOK
  <2>3. Merged(tasks[cur[c]], ent[c]) \in Row
    BY <2>2, MergedRow
  <2>4. \E label \in {"update", "boost"}, task \in Row : TakeUp(c, cur[c], task, label)
    BY <1>4, <2>2, <2>3 DEF MergeRead
  <2> QED BY <1>4, <2>1, <2>4, TakeUpType DEF MergeRead, TypeOK, PC
<1>5. ASSUME NEW c \in Client, MergeUpdate(c)
      PROVE  TypeOK'
  <2>1. c \in Proc /\ cur[c] \in TaskId /\ "boost" \in PC
    BY <1>5, BusyHasTask DEF MergeUpdate, Proc, PC
  <2>2. tasks' \in [TaskId -> LiveRow]
    BY <1>5, <2>1, UpdateDataRows DEF MergeUpdate, TypeOK
  <2> QED BY <1>5, <2>1, <2>2, GotoType DEF MergeUpdate, TypeOK
<1>6. ASSUME NEW c \in Client, BoostQueued(c)
      PROVE  TypeOK'
  <2>1. c \in Proc /\ "push" \in PC
    BY DEF Proc, PC
  <2> QED BY <1>6, <2>1, GotoType DEF BoostQueued, TypeOK
<1>7. ASSUME NEW c \in Client, BoostSkipped(c)
      PROVE  TypeOK'
  BY <1>7, ReturnType DEF BoostSkipped, TypeOK, Proc
<1>8. ASSUME NEW c \in Client, Insert(c)
      PROVE  TypeOK'
  <2>1. c \in Proc /\ cur[c] \in TaskId /\ "push" \in PC /\ "adopt" \in PC
    BY <1>8, BusyHasTask DEF Insert, Proc, PC
  <2>2. ent[c] \in LiveRow
    BY <1>8, <2>1 DEF Insert, TypeOK, EntOK, EntAt, Row, LiveRow, RowWith
  <2>3. tasks' \in [TaskId -> LiveRow]
    BY <1>8, <2>1, <2>2 DEF Insert, TypeOK
  <2>4. pc' \in [Proc -> PC]
    BY <1>8, <2>1, GotoType DEF Insert
  <2> QED BY <1>8, <2>3, <2>4 DEF Insert, TypeOK
<1>9. ASSUME NEW c \in Client, Adopt(c)
      PROVE  TypeOK'
  <2>1. c \in Proc /\ ent[c] \in Row /\ "push" \in PC
    BY DEF Proc, PC, TypeOK
  <2>2. /\ pc' \in [Proc -> PC]
        /\ cur' \in [Proc -> TaskId \cup {NoTask}]
        /\ ent' \in [Proc -> Row]
    BY <1>9, <2>1, TakeUpType, ReturnType DEF Adopt, SameBizId, LiveTasks
  <2> QED BY <1>9, <2>2 DEF Adopt, TypeOK
<1>10. ASSUME NEW p \in Proc, PushTask(p)
       PROVE  TypeOK'
  <2>1. cur[p] \in TaskId
    BY <1>10, BusyHasTask DEF PushTask
  <2>2. queue' \in Seq(TaskId)
    BY <1>10, <2>1, PushQueue DEF PushTask, TypeOK
  <2> QED BY <1>10, <2>2, ReturnType DEF PushTask, TypeOK
<1>11. ASSUME NEW w \in Worker, PopTask(w)
       PROVE  TypeOK'
  <2>1. w \in Proc /\ "fetch" \in PC /\ Absent \in Row
    BY RowKinds DEF Proc, PC
  <2>2. Head(queue) \in TaskId /\ Tail(queue) \in Seq(TaskId)
    BY <1>11, HeadTailProperties DEF PopTask, TypeOK
  <2>3. TakeUp(w, Head(queue), Absent, "fetch")
    BY <1>11 DEF PopTask
  <2> QED BY <1>11, <2>1, <2>2, <2>3, TakeUpType DEF PopTask, TypeOK
<1>12. ASSUME NEW w \in Worker, FetchTask(w)
       PROVE  TypeOK'
  <2>1. w \in Proc /\ cur[w] \in TaskId /\ "claim" \in PC
    BY <1>12, BusyHasTask DEF FetchTask, Proc, PC
  <2>2. FindTask(tasks, history, cur[w]) \in Row
    BY <2>1, RowKinds DEF FindTask, TypeOK
  <2>3. /\ pc' \in [Proc -> PC]
        /\ cur' \in [Proc -> TaskId \cup {NoTask}]
        /\ ent' \in [Proc -> Row]
    BY <1>12, <2>1, <2>2, StartedRow, TakeUpType, ReturnType DEF FetchTask
  <2> QED BY <1>12, <2>3 DEF FetchTask, TypeOK
<1>13. ASSUME NEW w \in Worker, ClaimTask(w)
       PROVE  TypeOK'
  <2>1. w \in Proc /\ cur[w] \in TaskId /\ "run" \in PC
    BY <1>13, BusyHasTask DEF ClaimTask, Proc, PC
  <2>2. ent[w] \in LiveRow
    BY <1>13, <2>1 DEF ClaimTask, TypeOK, EntOK, EntAt, Row, LiveRow, RowWith
  <2>3. tasks' \in [TaskId -> LiveRow] /\ old' \subseteq TaskId /\ raced' \subseteq TaskId
    BY <1>13, <2>1, <2>2 DEF ClaimTask, TypeOK
  <2>5. starts' \in [TaskId -> Nat]
    BY <1>13, <2>1 DEF ClaimTask, TypeOK
  <2>4. /\ pc' \in [Proc -> PC]
        /\ cur' \in [Proc -> TaskId \cup {NoTask}]
        /\ ent' \in [Proc -> Row]
    BY <1>13, <2>1, GotoType, ReturnType DEF ClaimTask, TypeOK
  <2> QED BY <1>13, <2>3, <2>4, <2>5 DEF ClaimTask, TypeOK
<1>14. ASSUME NEW w \in Worker, AppendTaskLog(w)
       PROVE  TypeOK'
  <2>1. w \in Proc /\ cur[w] \in TaskId
    BY <1>14, BusyHasTask DEF AppendTaskLog, Proc
  <2>2. ent[w] \in LiveRow
    BY <1>14, <2>1 DEF AppendTaskLog, TypeOK, EntOK, EntAt, Row, LiveRow, RowWith
  <2>3. tasks' \in [TaskId -> LiveRow]
    BY <1>14, <2>1, <2>2, SaveTaskRows DEF AppendTaskLog, TypeOK
  <2>4. setBack' \subseteq TaskId /\ old' \subseteq TaskId
    BY <1>14, <2>1 DEF AppendTaskLog, TypeOK
  <2> QED BY <1>14, <2>3, <2>4 DEF AppendTaskLog, TypeOK
<1>15. ASSUME NEW w \in Worker, NEW state \in {"success", "fail"}, Finish(w, state)
       PROVE  TypeOK'
  <2>1. w \in Proc /\ cur[w] \in TaskId /\ "find" \in PC
    BY <1>15, BusyHasTask DEF Finish, Proc, PC
  <2>2. [ent[w] EXCEPT !.state = state] \in Row
    BY <2>1 DEF TypeOK, Row, RowWith, TaskState, FinalState
  <2> QED BY <1>15, <2>1, <2>2, TakeUpType DEF Finish, TypeOK
<1>16. ASSUME NEW w \in Worker, Retry(w)
       PROVE  TypeOK'
  <2>1. w \in Proc /\ cur[w] \in TaskId /\ "save" \in PC
    BY <1>16, BusyHasTask DEF Retry, Proc, PC
  <2>2. [ent[w] EXCEPT !.state = "waiting"] \in Row
    BY <2>1 DEF TypeOK, Row, RowWith, TaskState, FinalState
  <2>3. retries' \in [TaskId -> 0..MaxRetries]
    BY <1>16, <2>1, BoundAssumption DEF Retry, TypeOK
  <2> QED BY <1>16, <2>1, <2>2, <2>3, TakeUpType DEF Retry, TypeOK
<1>17. ASSUME NEW p \in Proc, SaveRetry(p)
       PROVE  TypeOK'
  <2>1. cur[p] \in TaskId /\ "push" \in PC
    BY <1>17, BusyHasTask DEF SaveRetry, PC
  <2>2. ent[p] \in LiveRow
    BY <1>17, <2>1 DEF SaveRetry, TypeOK, EntOK, EntAt, Row, LiveRow, RowWith
  <2>3. tasks' \in [TaskId -> LiveRow]
    BY <1>17, <2>1, <2>2, SaveTaskRows DEF SaveRetry, TypeOK
  <2> QED BY <1>17, <2>1, <2>3, GotoType DEF SaveRetry, TypeOK
<1>18. ASSUME NEW p \in Proc, FindFinished(p)
       PROVE  TypeOK'
  <2>1. /\ pc' \in [Proc -> PC]
        /\ cur' \in [Proc -> TaskId \cup {NoTask}]
        /\ ent' \in [Proc -> Row]
    BY <1>18, GotoType, ReturnType DEF FindFinished, TypeOK, PC
  <2> QED BY <1>18, <2>1 DEF FindFinished, TypeOK
<1>19. ASSUME NEW p \in Proc, SaveHistory(p)
       PROVE  TypeOK'
  <2>1. cur[p] \in TaskId /\ "remove" \in PC
    BY <1>19, BusyHasTask DEF SaveHistory, PC
  <2>2. ent[p] \in HistoryRow
    BY <1>19, <2>1 DEF SaveHistory, TypeOK, EntOK, EntAt, Row, HistoryRow, RowWith
  <2>3. history' \in [TaskId -> HistoryRow]
    BY <1>19, <2>1, <2>2 DEF SaveHistory, TypeOK
  <2> QED BY <1>19, <2>1, <2>3, GotoType DEF SaveHistory, TypeOK
<1>20. ASSUME NEW p \in Proc, RemoveTask(p)
       PROVE  TypeOK'
  <2>1. cur[p] \in TaskId
    BY <1>20, BusyHasTask DEF RemoveTask
  <2>2. tasks' \in [TaskId -> LiveRow]
    BY <1>20, <2>1, RowKinds DEF RemoveTask, TypeOK
  <2> QED BY <1>20, <2>2, ReturnType DEF RemoveTask, TypeOK
<1>21. ASSUME NEW state \in {"processing", "waiting"}
       PROVE  TimeoutTasks(state) \in [TaskId -> LiveRow]
  BY RowKinds DEF TimeoutTasks, TypeOK
<1>22. ASSUME NEW h \in Handler, SweepProcessing(h)
       PROVE  TypeOK'
  <2>1. h \in Proc /\ "sweep" \in PC
    BY DEF Proc, PC
  <2> QED BY <1>21, <1>22, <2>1, GotoType DEF SweepProcessing, TypeOK
<1>23. ASSUME NEW h \in Handler, SweepWaiting(h)
       PROVE  TypeOK'
  BY <1>21, <1>23 DEF SweepWaiting, TypeOK
<1>24. ASSUME NEW h \in Handler, SweepEnd(h)
       PROVE  TypeOK'
  <2>1. h \in Proc /\ "idle" \in PC
    BY DEF Proc, PC
  <2> QED BY <1>24, <2>1, GotoType DEF SweepEnd, TypeOK
<1>25. ASSUME NEW h \in Handler, NEW t \in TaskId,
              NEW state \in {"waiting", "timeout"}, NEW label \in {"save", "find"},
              NextOnList(h, t, state, label)
       PROVE  TypeOK'
  <2>1. h \in Proc /\ label \in PC
    BY DEF Proc, PC
  <2>2. todo[h] \in [TaskId -> LiveRow] /\ todo[h][t] \in Row
    BY RowKinds DEF TypeOK
  <2>3. [todo[h][t] EXCEPT !.state = state] \in Row
    BY <2>2 DEF Row, RowWith, TaskState, FinalState
  <2>4. todo' \in [Handler -> [TaskId -> LiveRow]]
    BY <1>25, <2>2, RowKinds DEF NextOnList, TypeOK
  <2>5. raced' \subseteq TaskId
    BY <1>25 DEF NextOnList, TypeOK
  <2> QED BY <1>25, <2>1, <2>3, <2>4, <2>5, TakeUpType DEF NextOnList, TypeOK
<1>26. ASSUME NEW h \in Handler, NEW t \in TaskId,
              TimeoutFinish(h, t) \/ TimeoutRetry(h, t)
       PROVE  TypeOK'
  BY <1>25, <1>26 DEF TimeoutFinish, TimeoutRetry
<1>27. ASSUME NEW t \in TaskId, TimePasses(t)
       PROVE  TypeOK'
  BY <1>27 DEF TimePasses, TypeOK
<1>28. ASSUME NEW p \in Proc, CallFails(p)
       PROVE  TypeOK'
  <2>1. faults' \in 0..MaxFaults
    BY <1>28, BoundAssumption DEF CallFails, TypeOK
  <2> QED BY <1>28, <2>1, ReturnType DEF CallFails, TypeOK
<1>29. ASSUME NEW h \in Handler, HandlerCrash(h)
       PROVE  TypeOK'
  <2>1. h \in Proc /\ "idle" \in PC /\ Absent \in Row
    BY RowKinds DEF Proc, PC
  <2>2. faults' \in 0..MaxFaults
    BY <1>29, BoundAssumption DEF HandlerCrash, TypeOK
  <2>3. todo' \in [Handler -> [TaskId -> LiveRow]]
    BY <1>29, RowKinds DEF HandlerCrash, TypeOK
  <2> QED BY <1>29, <2>1, <2>2, <2>3, TakeUpType DEF HandlerCrash, TypeOK
<1> QED
  BY <1>1, <1>2, <1>3, <1>4, <1>5, <1>6, <1>7, <1>8, <1>9, <1>10, <1>11, <1>12,
     <1>13, <1>14, <1>15, <1>16, <1>17, <1>18, <1>19, <1>20, <1>22, <1>23,
     <1>24, <1>26, <1>27, <1>28, <1>29
  DEF Next, ClientStep, WorkerStep, HandlerStep, SharedStep

-----------------------------------------------------------------------------
(* What processes have in hand *)

LEMMA TakeUpEnt ==
  ASSUME TypeOK, EntOK, NEW p \in Proc, NEW t, NEW task, NEW label,
         TakeUp(p, t, task, label), EntAt(p, label, t, task)
  PROVE  EntOK'
  BY DEF TypeOK, EntOK, EntAt, TakeUp, Goto

LEMMA ReturnEnt ==
  ASSUME TypeOK, EntOK, NEW p \in Proc, Return(p)
  PROVE  EntOK'
  BY DEF TypeOK, EntOK, EntAt, Return, Goto, Holding

LEMMA GotoEnt ==
  ASSUME TypeOK, EntOK, NEW p \in Proc, NEW label, Goto(p, label),
         UNCHANGED <<cur, ent>>, EntAt(p, label, cur[p], ent[p])
  PROVE  EntOK'
  BY DEF TypeOK, EntOK, EntAt, Goto

LEMMA EntStep ==
  ASSUME TypeOK, EntOK, Next
  PROVE  EntOK'
<1> USE TaskAssumption, ProcAssumption DEF tables, locals, sweep, ghosts, Holding
<1>1. ASSUME UNCHANGED locals
      PROVE  EntOK'
  BY <1>1 DEF EntOK, EntAt
<1>2. ASSUME NEW c \in Client, NEW t \in TaskId, CreateNew(c, t)
      PROVE  EntOK'
  <2>1. EntAt(c, "insert", t, Request[t])
    BY RequestRow DEF EntAt
  <2> QED BY <1>2, <2>1, TakeUpEnt DEF CreateNew, Proc
<1>3. ASSUME NEW c \in Client, NEW t \in TaskId, NEW u \in TaskId,
             CreateExisting(c, t, u)
      PROVE  EntOK'
  <2>1. EntAt(c, "merge", u, Request[t]) /\ EntAt(c, "boost", u, Request[t])
    BY DEF EntAt
  <2> QED BY <1>3, <2>1, TakeUpEnt DEF CreateExisting, Proc
<1>4. ASSUME NEW c \in Client, MergeRead(c)
      PROVE  EntOK'
  <2>1. c \in Proc /\ cur[c] \in TaskId
    BY <1>4, BusyHasTask DEF MergeRead, Proc
  <2>2. \A task : EntAt(c, "update", cur[c], task) /\ EntAt(c, "boost", cur[c], task)
    BY <2>1 DEF EntAt
  <2> QED BY <1>4, <2>1, <2>2, TakeUpEnt DEF MergeRead
<1>5. ASSUME NEW c \in Client, MergeUpdate(c) \/ BoostQueued(c)
      PROVE  EntOK'
  <2>1. c \in Proc /\ cur[c] \in TaskId
    BY <1>5, BusyHasTask DEF MergeUpdate, BoostQueued, Proc
  <2>2. EntAt(c, "boost", cur[c], ent[c]) /\ EntAt(c, "push", cur[c], ent[c])
    BY <2>1 DEF EntAt
  <2> QED BY <1>5, <2>1, <2>2, GotoEnt DEF MergeUpdate, BoostQueued
<1>6. ASSUME NEW c \in Client, BoostSkipped(c)
      PROVE  EntOK'
  BY <1>6, ReturnEnt DEF BoostSkipped, Proc
<1>7. ASSUME NEW c \in Client, Insert(c)
      PROVE  EntOK'
  <2>1. c \in Proc /\ cur[c] \in TaskId
    BY <1>7, BusyHasTask DEF Insert, Proc
  <2>2. EntAt(c, "push", cur[c], ent[c]) /\ EntAt(c, "adopt", cur[c], ent[c])
    BY <2>1 DEF EntAt
  <2> QED BY <1>7, <2>1, <2>2, GotoEnt DEF Insert
<1>8. ASSUME NEW c \in Client, Adopt(c)
      PROVE  EntOK'
  <2>1. \A u \in TaskId : EntAt(c, "push", u, ent[c])
    BY DEF EntAt
  <2> QED BY <1>8, <2>1, TakeUpEnt, ReturnEnt DEF Adopt, SameBizId, LiveTasks, Proc
<1>9. ASSUME NEW p \in Proc, PushTask(p) \/ RemoveTask(p) \/ CallFails(p)
      PROVE  EntOK'
  BY <1>9, ReturnEnt DEF PushTask, RemoveTask, CallFails
<1>10. ASSUME NEW w \in Worker, PopTask(w)
       PROVE  EntOK'
  <2>1. Head(queue) \in TaskId
    BY <1>10, HeadTailProperties DEF PopTask, TypeOK
  <2>2. EntAt(w, "fetch", Head(queue), Absent)
    BY <2>1 DEF EntAt
  <2>3. TakeUp(w, Head(queue), Absent, "fetch")
    BY <1>10 DEF PopTask
  <2> QED BY <2>2, <2>3, TakeUpEnt DEF Proc
<1>11. ASSUME NEW w \in Worker, FetchTask(w)
       PROVE  EntOK'
  <2> DEFINE found == FindTask(tasks, history, cur[w])
  <2>1. w \in Proc /\ cur[w] \in TaskId
    BY <1>11, BusyHasTask DEF FetchTask, Proc
  <2>2. found \in Row
    BY <2>1, RowKinds DEF FindTask, TypeOK
  <2>3. EntAt(w, "claim", cur[w], Started(found))
    BY <2>1, <2>2, StartedRow DEF EntAt
  <2> QED BY <1>11, <2>1, <2>3, TakeUpEnt, ReturnEnt DEF FetchTask
<1>12. ASSUME NEW w \in Worker, ClaimTask(w)
       PROVE  EntOK'
  <2>1. w \in Proc /\ cur[w] \in TaskId
    BY <1>12, BusyHasTask DEF ClaimTask, Proc
  <2>2. EntAt(w, "run", cur[w], ent[w])
    BY <1>12, <2>1 DEF ClaimTask, EntOK, EntAt
  <2> QED BY <1>12, <2>1, <2>2, GotoEnt, ReturnEnt DEF ClaimTask
<1>13. ASSUME NEW w \in Worker, NEW state \in {"success", "fail"}, Finish(w, state)
       PROVE  EntOK'
  <2>1. w \in Proc /\ cur[w] \in TaskId /\ ent[w] \in Row
    BY <1>13, BusyHasTask DEF Finish, Proc, TypeOK
  <2>2. [ent[w] EXCEPT !.state = state].state \in FinalState
    BY <2>1 DEF Row, RowWith, FinalState
  <2>3. EntAt(w, "find", cur[w], [ent[w] EXCEPT !.state = state])
    BY <2>1, <2>2 DEF EntAt
  <2> QED BY <1>13, <2>1, <2>3, TakeUpEnt DEF Finish
<1>14. ASSUME NEW w \in Worker, Retry(w)
       PROVE  EntOK'
  <2>1. w \in Proc /\ cur[w] \in TaskId /\ ent[w] \in Row
    BY <1>14, BusyHasTask DEF Retry, Proc, TypeOK
  <2>2. [ent[w] EXCEPT !.state = "waiting"].state = "waiting"
    BY <2>1 DEF Row, RowWith
  <2>3. EntAt(w, "save", cur[w], [ent[w] EXCEPT !.state = "waiting"])
    BY <2>1, <2>2 DEF EntAt
  <2> QED BY <1>14, <2>1, <2>3, TakeUpEnt DEF Retry
<1>15. ASSUME NEW p \in Proc, SaveRetry(p)
       PROVE  EntOK'
  <2>1. cur[p] \in TaskId
    BY <1>15, BusyHasTask DEF SaveRetry
  <2>2. EntAt(p, "push", cur[p], ent[p])
    BY <2>1 DEF EntAt
  <2> QED BY <1>15, <2>2, GotoEnt DEF SaveRetry
<1>16. ASSUME NEW p \in Proc, FindFinished(p) \/ SaveHistory(p)
       PROVE  EntOK'
  <2>1. cur[p] \in TaskId
    BY <1>16, BusyHasTask DEF FindFinished, SaveHistory
  <2>2. EntAt(p, "history", cur[p], ent[p]) /\ EntAt(p, "remove", cur[p], ent[p])
    BY <1>16, <2>1 DEF FindFinished, SaveHistory, EntOK, EntAt
  <2> QED BY <1>16, <2>2, GotoEnt, ReturnEnt DEF FindFinished, SaveHistory
<1>17. ASSUME NEW h \in Handler, SweepProcessing(h) \/ SweepEnd(h)
       PROVE  EntOK'
  <2>1. h \in Proc /\ cur[h] = NoTask
    BY <1>17 DEF SweepProcessing, SweepEnd, EntOK, EntAt, Proc
  <2>2. EntAt(h, "idle", cur[h], ent[h]) /\ EntAt(h, "sweep", cur[h], ent[h])
    BY <2>1 DEF EntAt
  <2> QED BY <1>17, <2>1, <2>2, GotoEnt DEF SweepProcessing, SweepEnd
<1>18. ASSUME NEW h \in Handler, NEW t \in TaskId,
              TimeoutFinish(h, t) \/ TimeoutRetry(h, t)
       PROVE  EntOK'
  <2>1. h \in Proc /\ todo[h][t] \in Row
    BY RowKinds DEF Proc, TypeOK
  <2>2. /\ [todo[h][t] EXCEPT !.state = "timeout"].state \in FinalState
        /\ [todo[h][t] EXCEPT !.state = "waiting"].state = "waiting"
    BY <2>1 DEF Row, RowWith, FinalState
  <2>3. /\ EntAt(h, "find", t, [todo[h][t] EXCEPT !.state = "timeout"])
        /\ EntAt(h, "save", t, [todo[h][t] EXCEPT !.state = "waiting"])
    BY <2>2 DEF EntAt
  <2> QED BY <1>18, <2>1, <2>3, TakeUpEnt DEF TimeoutFinish, TimeoutRetry, NextOnList
<1>19. ASSUME NEW h \in Handler, HandlerCrash(h)
       PROVE  EntOK'
  <2>1. EntAt(h, "idle", NoTask, Absent)
    BY DEF EntAt
  <2> QED BY <1>19, <2>1, TakeUpEnt DEF HandlerCrash, Proc
<1>20. ASSUME \/ \E c \in Client, t \in TaskId, u \in TaskId : CreateSwallowed(c, t, u)
              \/ \E w \in Worker : AppendTaskLog(w)
              \/ \E h \in Handler : SweepWaiting(h)
              \/ \E t \in TaskId : TimePasses(t)
       PROVE  EntOK'
  BY <1>1, <1>20 DEF CreateSwallowed, AppendTaskLog, SweepWaiting, TimePasses
<1> QED
  BY <1>2, <1>3, <1>4, <1>5, <1>6, <1>7, <1>8, <1>9, <1>10, <1>11, <1>12,
     <1>13, <1>14, <1>15, <1>16, <1>17, <1>18, <1>19, <1>20
  DEF Next, ClientStep, WorkerStep, HandlerStep, SharedStep

-----------------------------------------------------------------------------
(* Ids can be looked up *)

\* A saved task stays known, and only an insert makes a task known.
LEMMA KnownStep ==
  ASSUME TypeOK, EntOK, IdsResolve, IdsFresh, Next, NEW t \in TaskId
  PROVE  /\ Known(t) => Known(t)'
         /\ Known(t)' => Known(t) \/ \E c \in Client : Insert(c) /\ cur[c] = t
<1> USE DEF tables, Known, Exists
<1>1. ASSUME UNCHANGED <<tasks, history>>
      PROVE  Known(t)' <=> Known(t)
  BY <1>1
<1>2. ASSUME NEW c \in Client, MergeUpdate(c)
      PROVE  Known(t)' <=> Known(t)
  <2>1. c \in Proc /\ cur[c] \in TaskId /\ ent[c] \in Row
    BY <1>2, BusyHasTask DEF MergeUpdate, Proc, TypeOK
  <2>2. tasks'[t].state = tasks[t].state
    BY <1>2, <2>1, UpdateDataRows DEF MergeUpdate, TypeOK
  <2> QED BY <1>2, <2>2 DEF MergeUpdate
<1>3. ASSUME NEW c \in Client, Insert(c)
      PROVE  /\ Known(t) => Known(t)'
             /\ Known(t)' => Known(t) \/ cur[c] = t
  <2>1. c \in Proc /\ cur[c] \in TaskId /\ ent[c].state = "waiting"
    BY <1>3, BusyHasTask DEF Insert, Proc, EntOK, EntAt
  <2> QED BY <1>3, <2>1 DEF Insert, TypeOK
<1>4. ASSUME NEW w \in Worker, ClaimTask(w)
      PROVE  Known(t)' <=> Known(t)
  <2>1. w \in Proc /\ cur[w] \in TaskId /\ ent[w].state = "processing"
    BY <1>4, BusyHasTask DEF ClaimTask, Proc, EntOK, EntAt
  <2> QED BY <1>4, <2>1 DEF ClaimTask, CanClaim, TypeOK
<1>5. ASSUME NEW p \in Proc, SaveRetry(p) \/ (p \in Worker /\ AppendTaskLog(p))
      PROVE  Known(t)' <=> Known(t)
  <2>1. cur[p] \in TaskId /\ ent[p].state \in {"waiting", "processing"} /\ ent[p] \in Row
    BY <1>5, BusyHasTask DEF SaveRetry, AppendTaskLog, EntOK, EntAt, TypeOK
  <2>2. ent[p] \in LiveRow
    BY <2>1 DEF Row, LiveRow, RowWith
  <2>3. tasks' = SaveTask(tasks, cur[p], ent[p]) /\ history' = history
    BY <1>5 DEF SaveRetry, AppendTaskLog
  <2>4. /\ t # cur[p] => tasks'[t] = tasks[t]
        /\ t = cur[p] => tasks'[t] = IF Exists(tasks[t]) THEN ent[p] ELSE tasks[t]
    BY <2>1, <2>3 DEF SaveTask, TypeOK
  <2> QED BY <2>1, <2>3, <2>4
<1>6. ASSUME NEW p \in Proc, SaveHistory(p)
      PROVE  Known(t)' <=> Known(t)
  <2>1. cur[p] \in TaskId /\ ent[p].state \in FinalState
    BY <1>6, BusyHasTask DEF SaveHistory, EntOK, EntAt
  <2>2. Known(cur[p])
    BY <1>6, <2>1, TaskAssumption DEF SaveHistory, IdsResolve
  <2> QED BY <1>6, <2>1, <2>2 DEF SaveHistory, TypeOK, FinalState
<1>7. ASSUME NEW p \in Proc, RemoveTask(p)
      PROVE  Known(t)' <=> Known(t)
  <2>1. cur[p] \in TaskId /\ Exists(history[cur[p]])
    BY <1>7, BusyHasTask DEF RemoveTask, IdsFresh
  <2> QED BY <1>7, <2>1 DEF RemoveTask, TypeOK
<1>8. ASSUME \/ \E c \in Client : \E u \in TaskId : \E v \in TaskId :
                  CreateNew(c, u) \/ CreateExisting(c, u, v) \/ CreateSwallowed(c, u, v)
             \/ \E c \in Client : MergeRead(c) \/ BoostQueued(c) \/ BoostSkipped(c) \/ Adopt(c)
             \/ \E w \in Worker : \/ PopTask(w) \/ FetchTask(w) \/ Retry(w)
                                  \/ \E state \in {"success", "fail"} : Finish(w, state)
             \/ \E h \in Handler : SweepProcessing(h) \/ SweepWaiting(h) \/ SweepEnd(h) \/ HandlerCrash(h)
             \/ \E h \in Handler : \E u \in TaskId : TimeoutFinish(h, u) \/ TimeoutRetry(h, u)
             \/ \E p \in Proc : PushTask(p) \/ FindFinished(p) \/ CallFails(p)
             \/ \E u \in TaskId : TimePasses(u)
      PROVE  UNCHANGED <<tasks, history>>
  BY <1>8 DEF CreateNew, CreateExisting, CreateSwallowed, MergeRead, BoostQueued,
              BoostSkipped, Adopt, PopTask, FetchTask, Retry, Finish,
              SweepProcessing, SweepWaiting, SweepEnd, HandlerCrash,
              TimeoutFinish, TimeoutRetry, NextOnList, PushTask, FindFinished,
              CallFails, TimePasses
<1> HIDE DEF Known, Exists
<1>9. CASE \/ \E c \in Client : \E u \in TaskId :
                \/ CreateNew(c, u)
                \/ \E v \in TaskId : CreateExisting(c, u, v) \/ CreateSwallowed(c, u, v)
           \/ \E c \in Client : MergeRead(c) \/ BoostQueued(c) \/ BoostSkipped(c) \/ Adopt(c)
           \/ \E w \in Worker : \/ PopTask(w) \/ FetchTask(w) \/ Retry(w)
                                \/ \E state \in {"success", "fail"} : Finish(w, state)
           \/ \E h \in Handler : SweepProcessing(h) \/ SweepWaiting(h) \/ SweepEnd(h) \/ HandlerCrash(h)
           \/ \E h \in Handler : \E u \in TaskId : TimeoutFinish(h, u) \/ TimeoutRetry(h, u)
           \/ \E p \in Proc : PushTask(p) \/ FindFinished(p) \/ CallFails(p)
           \/ \E u \in TaskId : TimePasses(u)
  BY <1>1, <1>8, <1>9
<1>10. CASE \E c \in Client : Insert(c)
  BY <1>3, <1>10
<1>11. CASE \/ \E c \in Client : MergeUpdate(c)
            \/ \E w \in Worker : ClaimTask(w) \/ AppendTaskLog(w)
            \/ \E p \in Proc : SaveRetry(p) \/ SaveHistory(p) \/ RemoveTask(p)
  BY <1>2, <1>4, <1>5, <1>6, <1>7, <1>11 DEF Proc
<1> QED
  BY <1>9, <1>10, <1>11
  DEF Next, ClientStep, WorkerStep, HandlerStep, SharedStep

\* A step in which process p ends with a known task in hand, or none, in which
\* no id becomes known, and after which the queue and the lists hold known ids.
LEMMA MoveIds ==
  ASSUME TypeOK, EntOK, IdsResolve, IdsFresh, NEW p \in Proc,
         \A q \in Proc \ {p} : pc'[q] = pc[q] /\ cur'[q] = cur[q],
         pc'[p] \notin {"insert", "adopt"},
         cur'[p] = NoTask \/ (cur'[p] \in TaskId /\ Known(cur'[p])),
         pc'[p] = "remove" => Exists(history'[cur'[p]]),
         unused' \subseteq unused,
         \A u \in TaskId : Known(u)' <=> Known(u),
         \A u \in TaskId : Exists(history[u]) => Exists(history'[u]),
         \A h \in Handler, u \in TaskId : Exists(todo'[h][u]) => Known(u),
         \A i \in DOMAIN queue' : queue'[i] \in TaskId /\ Known(queue'[i])
  PROVE  IdsResolve' /\ IdsFresh'
<1>1. \A q \in Proc : cur[q] \in TaskId \cup {NoTask}
  BY DEF TypeOK
<1>2. \A q \in Proc : pc[q] \in {"insert", "adopt", "remove"} => cur[q] \in TaskId
  BY BusyHasTask
<1>3. IdsResolve'
  <2>1. \A q \in Proc : cur'[q] # NoTask /\ pc'[q] \notin {"insert", "adopt"}
                          => cur'[q] \in TaskId /\ Known(cur'[q])
    BY <1>1 DEF IdsResolve
  <2> QED BY <2>1 DEF IdsResolve, Known
<1>4. \A t \in unused' : ~Known(t)' /\ \A q \in Proc : cur'[q] # t
  BY TaskAssumption DEF IdsFresh, TypeOK
<1>5. ASSUME NEW q \in Proc, pc'[q] \in {"insert", "adopt"}
      PROVE  /\ cur'[q] \in TaskId /\ ~Known(cur'[q]) /\ cur'[q] \notin unused'
             /\ \A r \in Proc : cur'[r] = cur'[q] => r = q
  <2>1. q # p /\ pc[q] \in {"insert", "adopt"} /\ cur'[q] = cur[q]
    BY <1>5
  <2>2. cur[q] \in TaskId /\ ~Known(cur[q]) /\ cur[q] \notin unused
    BY <1>2, <2>1 DEF IdsFresh
  <2>3. cur'[p] # cur[q]
    BY <2>2, TaskAssumption
  <2>4. \A r \in Proc : cur[r] = cur[q] => r = q
    BY <2>1 DEF IdsFresh
  <2> QED BY <2>1, <2>2, <2>3, <2>4
<1>6. \A h \in Handler, u \in TaskId : Exists(todo'[h][u]) => Known(u)'
  OBVIOUS
<1>7. \A q \in Proc : pc'[q] = "remove" => Exists(history'[cur'[q]])
  BY <1>2 DEF IdsFresh
<1> QED BY <1>3, <1>4, <1>5, <1>6, <1>7 DEF IdsFresh, Known, Exists

\* The three ways in which processes move, as far as MoveIds asks.
LEMMA TakeUpMoves ==
  ASSUME TypeOK, NEW p \in Proc, NEW t, NEW task, NEW label,
         TakeUp(p, t, task, label)
  PROVE  /\ \A q \in Proc \ {p} : pc'[q] = pc[q] /\ cur'[q] = cur[q]
         /\ pc'[p] = label /\ cur'[p] = t
  BY DEF TypeOK, TakeUp, Goto

LEMMA ReturnMoves ==
  ASSUME TypeOK, NEW p \in Proc, Return(p)
  PROVE  /\ \A q \in Proc \ {p} : pc'[q] = pc[q] /\ cur'[q] = cur[q]
         /\ pc'[p] \in {"idle", "sweep"} /\ cur'[p] = NoTask
  BY DEF TypeOK, Return, Goto

LEMMA GotoMoves ==
  ASSUME TypeOK, NEW p \in Proc, NEW label, Goto(p, label), cur' = cur
  PROVE  /\ \A q \in Proc \ {p} : pc'[q] = pc[q] /\ cur'[q] = cur[q]
         /\ pc'[p] = label /\ cur'[p] = cur[p]
  BY DEF TypeOK, Goto

LEMMA IdsStep ==
  ASSUME TypeOK, EntOK, IdsResolve, IdsFresh, Next
  PROVE  IdsResolve' /\ IdsFresh'
<1> USE DEF tables, locals, sweep, ghosts
<1> DEFINE Goal == IdsResolve' /\ IdsFresh'
<1>1. \A t \in TaskId :
        /\ Known(t) => Known(t)'
        /\ Known(t)' => Known(t) \/ \E c \in Client : Insert(c) /\ cur[c] = t
  BY KnownStep
<1>2. /\ \A h \in Handler, u \in TaskId : Exists(todo[h][u]) => Known(u)
      /\ \A i \in DOMAIN queue : queue[i] \in TaskId /\ Known(queue[i])
  BY DEF IdsFresh, IdsResolve, TypeOK
<1>3. \A p \in Proc : pc[p] \notin {"idle", "sweep", "insert", "adopt"}
                        => cur[p] \in TaskId /\ Known(cur[p])
  BY BusyHasTask, TaskAssumption DEF IdsResolve
<1>4. \A t \in TaskId, state \in {"processing", "waiting"} :
        Exists(TimeoutTasks(state)[t]) => Known(t)
  BY DEF TimeoutTasks, Exists, Absent, Known
<1>5. Client \subseteq Proc /\ Worker \subseteq Proc /\ Handler \subseteq Proc
  BY DEF Proc
<1>6. ASSUME NEW c \in Client, NEW t \in TaskId, CreateNew(c, t)
      PROVE  Goal
  <2>1. /\ \A q \in Proc \ {c} : pc'[q] = pc[q] /\ cur'[q] = cur[q]
        /\ pc'[c] = "insert" /\ cur'[c] = t
    BY <1>5, <1>6, TakeUpMoves DEF CreateNew
  <2>2. t \in unused /\ unused' = unused \ {t} /\ UNCHANGED <<tasks, history, queue, todo>>
    BY <1>6 DEF CreateNew
  <2>3. ~Known(t) /\ \A q \in Proc : cur[q] # t
    BY <2>2 DEF IdsFresh
  <2>4. IdsResolve'
    BY <2>1, <2>2 DEF IdsResolve, Known
  <2>5. \A u \in unused' : ~Known(u)' /\ \A q \in Proc : cur'[q] # u
    BY <2>1, <2>2 DEF IdsFresh, Known
  <2>6. ASSUME NEW q \in Proc, pc'[q] \in {"insert", "adopt"}
        PROVE  /\ ~Known(cur'[q]) /\ cur'[q] \notin unused'
               /\ \A r \in Proc : cur'[r] = cur'[q] => r = q
    BY <2>1, <2>2, <2>3, <2>6 DEF IdsFresh
  <2>7. \A q \in Proc : pc'[q] = "remove" => Exists(history'[cur'[q]])
    BY <2>1, <2>2 DEF IdsFresh
  <2> QED BY <1>2, <2>2, <2>4, <2>5, <2>6, <2>7 DEF IdsFresh, Known, Exists
<1>7. ASSUME NEW c \in Client, Insert(c)
      PROVE  Goal
  <2> DEFINE knownNow(t) == Exists(tasks'[t]) \/ Exists(history'[t])
  <2>1. cur' = cur /\ UNCHANGED <<history, queue, unused, todo>> /\ pc[c] = "insert"
    BY <1>7 DEF Insert
  <2>2. cur[c] \in TaskId /\ ~Known(cur[c]) /\ cur[c] \notin unused
        /\ \A q \in Proc : cur[q] = cur[c] => q = c
    BY <1>5, <2>1, BusyHasTask DEF IdsFresh
  <2>3. /\ \A q \in Proc \ {c} : pc'[q] = pc[q]
        /\ \/ pc'[c] = "adopt" /\ tasks' = tasks
           \/ pc'[c] = "push" /\ Exists(tasks'[cur[c]])
    <3>1. ent[c].state = "waiting"
      BY <1>5, <2>1 DEF EntOK, EntAt
    <3> QED BY <1>5, <1>7, <2>2, <3>1, GotoMoves DEF Insert, TypeOK, Exists
  <2>4. \A t \in TaskId : t # cur[c] => (knownNow(t) <=> Known(t))
    BY <1>1, <1>7, <2>2 DEF Insert, Known, TypeOK
  <2>5. knownNow(cur[c]) <=> pc'[c] = "push"
    BY <2>1, <2>2, <2>3 DEF Known
  <2>6. IdsResolve'
    <3>1. \A i \in DOMAIN queue' : knownNow(queue'[i])
      BY <1>1, <1>2, <2>1 DEF Known
    <3>2. \A q \in Proc : cur'[q] # NoTask /\ pc'[q] \notin {"insert", "adopt"}
                            => knownNow(cur'[q])
      <4> TAKE q \in Proc
      <4>1. CASE q = c
        BY <2>1, <2>3, <2>5, <4>1 DEF Known
      <4>2. CASE q # c
        <5>1. cur[q] \in TaskId \cup {NoTask} /\ cur[q] # cur[c]
          BY <2>2, <4>2 DEF TypeOK
        <5> QED BY <2>1, <2>3, <2>4, <4>2, <5>1 DEF IdsResolve, Known
      <4> QED BY <4>1, <4>2
    <3> QED BY <3>1, <3>2 DEF IdsResolve, Known
  <2>7. \A u \in unused' : ~knownNow(u) /\ \A q \in Proc : cur'[q] # u
    BY <2>1, <2>2, <2>4 DEF IdsFresh, Known, TypeOK
  <2>8. ASSUME NEW q \in Proc, pc'[q] \in {"insert", "adopt"}
        PROVE  /\ ~knownNow(cur'[q]) /\ cur'[q] \notin unused'
               /\ \A r \in Proc : cur'[r] = cur'[q] => r = q
    <3>1. CASE q = c
      BY <2>1, <2>2, <2>3, <2>5, <2>8, <3>1 DEF Known
    <3>2. CASE q # c
      <4>1. /\ pc[q] \in {"insert", "adopt"} /\ cur[q] \in TaskId /\ cur[q] # cur[c]
            /\ ~Known(cur[q]) /\ cur[q] \notin unused
            /\ \A r \in Proc : cur[r] = cur[q] => r = q
        BY <2>2, <2>3, <2>8, <3>2, BusyHasTask DEF IdsFresh
      <4> QED BY <2>1, <2>4, <4>1 DEF Known
    <3> QED BY <3>1, <3>2
  <2>9. \A h \in Handler, u \in TaskId : Exists(todo'[h][u]) => knownNow(u)
    BY <1>1, <1>2, <2>1 DEF Known
  <2>10. \A q \in Proc : pc'[q] = "remove" => Exists(history'[cur'[q]])
    BY <2>1, <2>3 DEF IdsFresh
  <2> QED BY <2>6, <2>7, <2>8, <2>9, <2>10 DEF IdsFresh, Known, Exists
<1>8. ASSUME ~\E c \in Client : Insert(c)
      PROVE  \A t \in TaskId : Known(t)' <=> Known(t)
  BY <1>1, <1>8
<1>9. ASSUME NEW p \in Proc, ~\E c \in Client : Insert(c),
             UNCHANGED <<history, queue, todo>>, unused' \subseteq unused,
             \A q \in Proc \ {p} : pc'[q] = pc[q] /\ cur'[q] = cur[q],
             pc'[p] \notin {"insert", "adopt", "remove"},
             cur'[p] = NoTask \/ (cur'[p] \in TaskId /\ Known(cur'[p]))
      PROVE  Goal
  BY <1>2, <1>8, <1>9, MoveIds
<1>10. ASSUME ~\E c \in Client : Insert(c)
       PROVE  /\ \A c \in Client : \A t, u \in TaskId :
                   CreateExisting(c, t, u) \/ CreateSwallowed(c, t, u) => Goal
              /\ \A c \in Client : MergeRead(c) \/ MergeUpdate(c) \/ BoostQueued(c)
                                   \/ BoostSkipped(c) \/ Adopt(c) => Goal
  <2>1. ASSUME NEW c \in Client, NEW t \in TaskId, NEW u \in TaskId,
               CreateExisting(c, t, u)
        PROVE  Goal
    <3>1. \E label \in {"merge", "boost"} : TakeUp(c, u, Request[t], label)
      BY <2>1 DEF CreateExisting
    <3>2. Known(u) /\ unused' \subseteq unused /\ UNCHANGED <<history, queue, todo>>
      BY <2>1 DEF CreateExisting, SameTarget, LiveTasks, Known
    <3> QED BY <1>5, <1>9, <1>10, <3>1, <3>2, TakeUpMoves
  <2>2. ASSUME NEW c \in Client, NEW t \in TaskId, NEW u \in TaskId,
               CreateSwallowed(c, t, u)
        PROVE  Goal
    <3>1. cur[c] = NoTask
      BY <1>5, <2>2 DEF CreateSwallowed, EntOK, EntAt
    <3> QED BY <1>5, <1>9, <1>10, <2>2, <3>1 DEF CreateSwallowed
  <2>3. ASSUME NEW c \in Client, MergeRead(c)
        PROVE  Goal
    <3>1. \E label \in {"update", "boost"} : \E task : TakeUp(c, cur[c], task, label)
      BY <2>3 DEF MergeRead
    <3>2. cur[c] \in TaskId /\ Known(cur[c])
      BY <1>3, <1>5, <2>3 DEF MergeRead
    <3> QED BY <1>5, <1>9, <1>10, <2>3, <3>1, <3>2, TakeUpMoves DEF MergeRead
  <2>4. ASSUME NEW c \in Client, MergeUpdate(c) \/ BoostQueued(c)
        PROVE  Goal
    <3>1. \E label \in {"boost", "push"} : Goto(c, label) /\ cur' = cur
      BY <2>4 DEF MergeUpdate, BoostQueued
    <3>2. cur[c] \in TaskId /\ Known(cur[c])
      BY <1>3, <1>5, <2>4 DEF MergeUpdate, BoostQueued
    <3> QED BY <1>5, <1>9, <1>10, <2>4, <3>1, <3>2, GotoMoves
            DEF MergeUpdate, BoostQueued
  <2>5. ASSUME NEW c \in Client, BoostSkipped(c)
        PROVE  Goal
    BY <1>5, <1>9, <1>10, <2>5, ReturnMoves DEF BoostSkipped
  <2>6. ASSUME NEW c \in Client, Adopt(c)
        PROVE  Goal
    <3>1. CASE \E u \in SameBizId(cur[c]) : TakeUp(c, u, ent[c], "push")
      <4>1. PICK u \in SameBizId(cur[c]) : TakeUp(c, u, ent[c], "push")
        BY <3>1
      <4>2. u \in TaskId /\ Known(u)
        BY DEF SameBizId, LiveTasks, Known
      <4> QED BY <1>5, <1>9, <1>10, <2>6, <4>1, <4>2, TakeUpMoves DEF Adopt
    <3>2. CASE Return(c)
      BY <1>5, <1>9, <1>10, <2>6, <3>2, ReturnMoves DEF Adopt
    <3> QED BY <2>6, <3>1, <3>2 DEF Adopt
  <2> QED BY <2>1, <2>2, <2>3, <2>4, <2>5, <2>6
<1>11. ASSUME ~\E c \in Client : Insert(c), NEW p \in Proc,
              PushTask(p) \/ SaveRetry(p) \/ FindFinished(p) \/ SaveHistory(p)
              \/ RemoveTask(p) \/ CallFails(p)
       PROVE  Goal
  <2>1. pc[p] \notin {"idle", "sweep"}
    BY <1>11 DEF PushTask, SaveRetry, FindFinished, SaveHistory, RemoveTask, CallFails
  <2>2. cur[p] \in TaskId /\ (pc[p] \notin {"insert", "adopt"} => Known(cur[p]))
    BY <1>3, <2>1, BusyHasTask
  <2>3. CASE PushTask(p)
    <3>1. \A i \in DOMAIN queue' : queue'[i] \in TaskId /\ Known(queue'[i])
      <4>1. \A i \in DOMAIN queue' : queue'[i] = cur[p] \/ \E j \in DOMAIN queue : queue'[i] = queue[j]
        BY <2>2, <2>3, PushQueue DEF PushTask, TypeOK
      <4> QED BY <1>2, <2>2, <2>3, <4>1 DEF PushTask
    <3>2. /\ \A q \in Proc \ {p} : pc'[q] = pc[q] /\ cur'[q] = cur[q]
          /\ pc'[p] \in {"idle", "sweep"} /\ cur'[p] = NoTask
      BY <2>3, ReturnMoves DEF PushTask
    <3> QED BY <1>2, <1>8, <1>11, <2>3, <3>1, <3>2, MoveIds DEF PushTask
  <2>4. CASE SaveRetry(p)
    BY <1>9, <1>11, <2>2, <2>4, GotoMoves DEF SaveRetry
  <2>5. CASE FindFinished(p)
    BY <1>9, <1>11, <2>2, <2>5, GotoMoves, ReturnMoves DEF FindFinished
  <2>6. CASE SaveHistory(p)
    <3>1. ent[p].state \in FinalState
      BY <2>6 DEF SaveHistory, EntOK, EntAt
    <3>2. /\ Exists(history'[cur[p]])
          /\ \A u \in TaskId : Exists(history[u]) => Exists(history'[u])
      BY <2>2, <2>6, <3>1 DEF SaveHistory, TypeOK, Exists, FinalState
    <3>3. /\ \A q \in Proc \ {p} : pc'[q] = pc[q] /\ cur'[q] = cur[q]
          /\ pc'[p] = "remove" /\ cur'[p] = cur[p]
      BY <2>6, GotoMoves DEF SaveHistory
    <3>4. Known(cur[p]) /\ UNCHANGED <<queue, unused, todo>>
      BY <2>2, <2>6 DEF SaveHistory
    <3> QED BY <1>2, <1>8, <1>11, <2>2, <3>2, <3>3, <3>4, MoveIds
  <2>7. CASE RemoveTask(p)
    BY <1>9, <1>11, <2>7, ReturnMoves DEF RemoveTask
  <2>8. CASE CallFails(p)
    BY <1>9, <1>11, <2>8, ReturnMoves DEF CallFails
  <2> QED BY <1>11, <2>3, <2>4, <2>5, <2>6, <2>7, <2>8
<1>12. ASSUME ~\E c \in Client : Insert(c), NEW w \in Worker,
              \/ PopTask(w) \/ FetchTask(w) \/ ClaimTask(w)
              \/ AppendTaskLog(w) \/ Retry(w)
              \/ \E state \in {"success", "fail"} : Finish(w, state)
       PROVE  Goal
  <2>1. pc[w] # "idle" => pc[w] \in {"fetch", "claim", "run"}
    BY <1>12 DEF PopTask, FetchTask, ClaimTask, AppendTaskLog, Retry, Finish
  <2>2. pc[w] # "idle" => cur[w] \in TaskId /\ Known(cur[w])
    BY <1>3, <1>5, <2>1
  <2>3. CASE PopTask(w)
    <3>1. /\ Head(queue) \in TaskId /\ Known(Head(queue))
          /\ \A i \in DOMAIN queue' : queue'[i] \in TaskId /\ Known(queue'[i])
      <4>1. queue \in Seq(TaskId) /\ queue # <<>> /\ queue' = Tail(queue)
        BY <2>3 DEF PopTask, TypeOK
      <4>2. 1 \in DOMAIN queue /\ Head(queue) = queue[1]
        BY <4>1
      <4>3. \A i \in DOMAIN queue' : i + 1 \in DOMAIN queue /\ queue'[i] = queue[i + 1]
        BY <4>1, HeadTailProperties
      <4> QED BY <1>2, <4>2, <4>3
    <3>2. /\ \A q \in Proc \ {w} : pc'[q] = pc[q] /\ cur'[q] = cur[q]
          /\ pc'[w] = "fetch" /\ cur'[w] = Head(queue)
      <4>1. TakeUp(w, Head(queue), Absent, "fetch")
        BY <2>3 DEF PopTask
      <4> QED BY <1>5, <4>1, TakeUpMoves
    <3>3. UNCHANGED <<history, unused, todo>>
      BY <2>3 DEF PopTask
    <3> QED BY <1>2, <1>5, <1>8, <1>12, <3>1, <3>2, <3>3, MoveIds
  <2>4. CASE FetchTask(w)
    <3>1. Return(w) \/ \E task : TakeUp(w, cur[w], task, "claim")
      BY <2>4 DEF FetchTask
    <3>2. pc[w] = "fetch" /\ UNCHANGED <<history, queue, unused, todo>>
      BY <2>4 DEF FetchTask
    <3> QED BY <1>5, <1>9, <1>12, <2>2, <3>1, <3>2, ReturnMoves, TakeUpMoves
  <2>5. CASE ClaimTask(w)
    <3>1. Return(w) \/ (Goto(w, "run") /\ cur' = cur)
      BY <2>5 DEF ClaimTask
    <3>2. pc[w] = "claim" /\ UNCHANGED <<history, queue, unused, todo>>
      BY <2>5 DEF ClaimTask
    <3> QED BY <1>5, <1>9, <1>12, <2>2, <3>1, <3>2, ReturnMoves, GotoMoves
  <2>6. CASE AppendTaskLog(w)
    BY <1>5, <1>9, <1>12, <2>2, <2>6 DEF AppendTaskLog
  <2>7. CASE Retry(w)
    BY <1>5, <1>9, <1>12, <2>2, <2>7, TakeUpMoves DEF Retry
  <2>8. CASE \E state \in {"success", "fail"} : Finish(w, state)
    <3>1. pc[w] = "run" /\ \E task : TakeUp(w, cur[w], task, "find")
      BY <2>8 DEF Finish
    <3>2. UNCHANGED <<history, queue, unused, todo>>
      BY <2>8 DEF Finish
    <3> QED BY <1>5, <1>9, <1>12, <2>2, <3>1, <3>2, TakeUpMoves
  <2> QED BY <1>12, <2>3, <2>4, <2>5, <2>6, <2>7, <2>8
<1>13. ASSUME ~\E c \in Client : Insert(c), NEW h \in Handler,
              \/ SweepProcessing(h) \/ SweepWaiting(h) \/ SweepEnd(h)
              \/ \E t \in TaskId : TimeoutFinish(h, t) \/ TimeoutRetry(h, t)
              \/ HandlerCrash(h)
       PROVE  Goal
  <2>1. CASE SweepProcessing(h) \/ SweepWaiting(h) \/ SweepEnd(h)
    <3>1. /\ cur[h] = NoTask /\ cur' = cur /\ pc'[h] \in {"idle", "sweep"}
          /\ \A q \in Proc \ {h} : pc'[q] = pc[q]
      BY <1>5, <2>1 DEF SweepProcessing, SweepWaiting, SweepEnd, EntOK, EntAt, Goto, TypeOK
    <3>2. UNCHANGED <<history, queue, unused>>
      BY <2>1 DEF SweepProcessing, SweepWaiting, SweepEnd
    <3>3. \A g \in Handler, t \in TaskId : Exists(todo'[g][t]) => Known(t)
      <4>1. \/ todo' = todo
            \/ \E state \in {"processing", "waiting"} :
                 todo' = [todo EXCEPT ![h] = TimeoutTasks(state)]
        BY <2>1 DEF SweepProcessing, SweepWaiting, SweepEnd
      <4> QED BY <1>2, <1>4, <4>1 DEF TypeOK
    <3> QED BY <1>2, <1>5, <1>8, <1>13, <3>1, <3>2, <3>3, MoveIds
  <2>2. ASSUME NEW t \in TaskId, TimeoutFinish(h, t) \/ TimeoutRetry(h, t)
        PROVE  Goal
    <3>1. PICK state \in {"timeout", "waiting"}, label \in {"find", "save"} :
            NextOnList(h, t, state, label)
      BY <2>2 DEF TimeoutFinish, TimeoutRetry
    <3>2. /\ \A q \in Proc \ {h} : pc'[q] = pc[q] /\ cur'[q] = cur[q]
          /\ pc'[h] = label /\ cur'[h] = t
      BY <1>5, <3>1, TakeUpMoves DEF NextOnList
    <3>3. Known(t) /\ UNCHANGED <<history, queue, unused>>
      BY <1>2, <3>1 DEF NextOnList
    <3>4. \A g \in Handler, u \in TaskId : Exists(todo'[g][u]) => Known(u)
      BY <1>2, <3>1, <3>3 DEF NextOnList, TypeOK
    <3> QED BY <1>2, <1>5, <1>8, <1>13, <3>2, <3>3, <3>4, MoveIds
  <2>3. CASE HandlerCrash(h)
    <3>1. /\ \A q \in Proc \ {h} : pc'[q] = pc[q] /\ cur'[q] = cur[q]
          /\ pc'[h] = "idle" /\ cur'[h] = NoTask
      BY <1>5, <2>3, TakeUpMoves DEF HandlerCrash
    <3>2. \A g \in Handler, u \in TaskId : Exists(todo'[g][u]) => Known(u)
      BY <1>2, <2>3 DEF HandlerCrash, TypeOK, Exists, Absent
    <3>3. UNCHANGED <<history, queue, unused>>
      BY <2>3 DEF HandlerCrash
    <3> QED BY <1>2, <1>5, <1>8, <1>13, <3>1, <3>2, <3>3, MoveIds
  <2> QED BY <1>13, <2>1, <2>2, <2>3
<1>14. ASSUME NEW t \in TaskId, TimePasses(t)
       PROVE  Goal
  BY <1>14 DEF TimePasses, IdsResolve, IdsFresh, Known
<1> QED
  BY <1>5, <1>6, <1>7, <1>10, <1>11, <1>12, <1>13, <1>14
  DEF Next, ClientStep, WorkerStep, HandlerStep, SharedStep

-----------------------------------------------------------------------------
(* One holder per task *)

\* OneHolder and AttemptsOK, for one task.
OwnAt(t) ==
  /\ \A p, q \in Proc : Holds(p, t) /\ Holds(q, t) => p = q
  /\ AttemptsAt(t)

LEMMA OwnEverywhere ==
  (OneHolder /\ AttemptsOK) <=> \A t \in TaskId \ raced : OwnAt(t)
BY DEF OneHolder, AttemptsOK, OwnAt

\* A step of p that leaves the state and the attempts of row t alone, or is
\* taken by a holder of t, and after which p neither newly holds nor claims t.
LEMMA FrameOwn ==
  ASSUME TypeOK, NEW t \in TaskId, OwnAt(t), NEW p \in Proc,
         \A q \in Proc \ {p} : pc'[q] = pc[q] /\ cur'[q] = cur[q] /\ ent'[q] = ent[q],
         Exists(tasks'[t]) <=> Exists(tasks[t]),
         Exists(tasks[t]) => /\ tasks'[t].attempts = tasks[t].attempts
                             /\ tasks'[t].state = tasks[t].state \/ Holds(p, t),
         ~(pc'[p] = "claim" /\ cur'[p] = t),
         pc'[p] \in Holding /\ cur'[p] = t =>
           /\ Holds(p, t) /\ ent'[p].attempts = ent[p].attempts
           /\ p \in Worker /\ Exists(tasks'[t]) => tasks'[t].state = "processing"
           /\ pc'[p] \in {"history", "remove"} => Exists(tasks'[t])
  PROVE  OwnAt(t)'
<1>1. \A q \in Proc \ {p} : (Holds(q, t)' <=> Holds(q, t)) /\ (Claims(q, t)' <=> Claims(q, t))
  BY DEF Holds, Claims
<1>2. Holds(p, t)' => Holds(p, t) /\ ent'[p].attempts = ent[p].attempts
  BY DEF Holds
<1>3. ~Claims(p, t)'
  BY DEF Claims
<1>4. \A q, r \in Proc : Holds(q, t)' /\ Holds(r, t)' => q = r
  BY <1>1, <1>2 DEF OwnAt
<1>5. ASSUME NEW q \in Proc, Holds(q, t)', Exists(tasks'[t])
      PROVE  /\ tasks'[t].attempts = ent'[q].attempts
             /\ q \in Worker => tasks'[t].state = "processing"
  BY <1>1, <1>2, <1>5 DEF OwnAt, AttemptsAt, Holds
<1>6. ASSUME NEW q \in Proc, Claims(q, t)'
      PROVE  /\ Exists(tasks'[t]) => ent'[q].attempts <= tasks'[t].attempts + 1
             /\ \A r \in Worker : Holds(r, t)' => ent'[q].attempts <= ent'[r].attempts
  <2>1. q # p /\ Claims(q, t) /\ ent'[q] = ent[q]
    BY <1>1, <1>3, <1>6
  <2>2. \A r \in Worker : Holds(r, t)' => Holds(r, t) /\ ent'[r].attempts = ent[r].attempts
    BY <1>1, <1>2 DEF Proc
  <2> QED BY <2>1, <2>2 DEF OwnAt, AttemptsAt
<1>7. ASSUME NEW q \in Proc, pc'[q] \in {"history", "remove"}, cur'[q] = t
      PROVE  Exists(tasks'[t])
  BY <1>7 DEF OwnAt, AttemptsAt, Holding
<1> QED BY <1>4, <1>5, <1>6, <1>7 DEF OwnAt, AttemptsAt, Exists

\* A step after which p neither holds nor claims a task, and that leaves the
\* state and the attempts of row t alone.
LEMMA LetGoOwn ==
  ASSUME TypeOK, NEW t \in TaskId, OwnAt(t), NEW p \in Proc,
         \A q \in Proc \ {p} : pc'[q] = pc[q] /\ cur'[q] = cur[q] /\ ent'[q] = ent[q],
         tasks'[t].state = tasks[t].state /\ tasks'[t].attempts = tasks[t].attempts,
         pc'[p] \notin Holding \cup {"claim"}
  PROVE  OwnAt(t)'
  BY FrameOwn DEF Exists

\* A step of p that is about another task.
LEMMA OtherOwn ==
  ASSUME TypeOK, NEW t \in TaskId, OwnAt(t), NEW p \in Proc,
         \A q \in Proc \ {p} : pc'[q] = pc[q] /\ cur'[q] = cur[q] /\ ent'[q] = ent[q],
         tasks'[t] = tasks[t], cur'[p] # t
  PROVE  OwnAt(t)'
  BY FrameOwn DEF Exists

\* What TakeUp, Return and Goto do to the local variables.
LEMMA TakeUpLocals ==
  ASSUME TypeOK, NEW p \in Proc, NEW t, NEW task, NEW label, TakeUp(p, t, task, label)
  PROVE  /\ \A q \in Proc \ {p} : pc'[q] = pc[q] /\ cur'[q] = cur[q] /\ ent'[q] = ent[q]
         /\ pc'[p] = label /\ cur'[p] = t /\ ent'[p] = task
  BY DEF TypeOK, TakeUp, Goto

LEMMA ReturnLocals ==
  ASSUME TypeOK, NEW p \in Proc, Return(p)
  PROVE  /\ \A q \in Proc \ {p} : pc'[q] = pc[q] /\ cur'[q] = cur[q] /\ ent'[q] = ent[q]
         /\ pc'[p] \in {"idle", "sweep"} /\ cur'[p] = NoTask
  BY DEF TypeOK, Return, Goto

LEMMA GotoLocals ==
  ASSUME TypeOK, NEW p \in Proc, NEW label, Goto(p, label), UNCHANGED <<cur, ent>>
  PROVE  /\ \A q \in Proc \ {p} : pc'[q] = pc[q] /\ cur'[q] = cur[q] /\ ent'[q] = ent[q]
         /\ pc'[p] = label /\ cur'[p] = cur[p] /\ ent'[p] = ent[p]
  BY DEF TypeOK, Goto

\* Clients hold nothing and claim nothing; an INSERT is of an id of their own.
LEMMA OwnClient ==
  ASSUME TypeOK, EntOK, IdsFresh, NEW t \in TaskId, OwnAt(t),
         NEW c \in Client, ClientStep(c)
  PROVE  OwnAt(t)'
<1> USE DEF tables, Holding
<1>1. c \in Proc
  BY DEF Proc
<1>2. ASSUME NEW u \in TaskId, CreateNew(c, u)
      PROVE  OwnAt(t)'
  <2>1. TakeUp(c, u, Request[u], "insert") /\ tasks' = tasks
    BY <1>2 DEF CreateNew
  <2> QED BY <1>1, <2>1, TakeUpLocals, LetGoOwn
<1>3. ASSUME NEW v \in TaskId, NEW u \in TaskId, CreateExisting(c, v, u)
      PROVE  OwnAt(t)'
  <2>1. /\ \E label \in {"merge", "boost"} : TakeUp(c, u, Request[v], label)
        /\ tasks' = tasks
    BY <1>3 DEF CreateExisting
  <2> QED BY <1>1, <2>1, TakeUpLocals, LetGoOwn
<1>4. ASSUME NEW v \in TaskId, NEW u \in TaskId, CreateSwallowed(c, v, u)
      PROVE  OwnAt(t)'
  <2>1. UNCHANGED <<tasks, pc, cur, ent>> /\ pc[c] = "idle"
    BY <1>4 DEF CreateSwallowed, locals
  <2> QED BY <1>1, <2>1, LetGoOwn
<1>5. ASSUME MergeRead(c)
      PROVE  OwnAt(t)'
  <2>1. /\ \E label \in {"update", "boost"} : \E task : TakeUp(c, cur[c], task, label)
        /\ tasks' = tasks
    BY <1>5 DEF MergeRead
  <2> QED BY <1>1, <2>1, TakeUpLocals, LetGoOwn
<1>6. ASSUME MergeUpdate(c)
      PROVE  OwnAt(t)'
  <2>1. cur[c] \in TaskId /\ ent[c] \in Row
    BY <1>1, <1>6, BusyHasTask DEF MergeUpdate, TypeOK
  <2>2. tasks'[t].state = tasks[t].state /\ tasks'[t].attempts = tasks[t].attempts
    BY <1>6, <2>1, UpdateDataRows DEF MergeUpdate, TypeOK
  <2>3. Goto(c, "boost") /\ UNCHANGED <<cur, ent>>
    BY <1>6 DEF MergeUpdate
  <2> QED BY <1>1, <2>2, <2>3, GotoLocals, LetGoOwn
<1>7. ASSUME BoostQueued(c)
      PROVE  OwnAt(t)'
  <2>1. Goto(c, "push") /\ UNCHANGED <<cur, ent, tasks>>
    BY <1>7 DEF BoostQueued
  <2> QED BY <1>1, <2>1, GotoLocals, LetGoOwn
<1>8. ASSUME BoostSkipped(c)
      PROVE  OwnAt(t)'
  <2>1. Return(c) /\ tasks' = tasks
    BY <1>8 DEF BoostSkipped
  <2> QED BY <1>1, <2>1, ReturnLocals, LetGoOwn
<1>9. ASSUME Insert(c)
      PROVE  OwnAt(t)'
  <2>1. /\ \E label \in {"push", "adopt"} : Goto(c, label)
        /\ UNCHANGED <<cur, ent>>
        /\ cur[c] \in TaskId
        /\ \A u \in TaskId \ {cur[c]} : tasks'[u] = tasks[u]
    BY <1>1, <1>9, BusyHasTask DEF Insert, TypeOK
  <2>2. /\ \A q \in Proc \ {c} : pc'[q] = pc[q] /\ cur'[q] = cur[q] /\ ent'[q] = ent[q]
        /\ pc'[c] \in {"push", "adopt"}
    BY <1>1, <2>1, GotoLocals
  <2>3. CASE t # cur[c]
    BY <1>1, <2>1, <2>2, <2>3, LetGoOwn
  <2>4. CASE t = cur[c]
    <3>1. \A q \in Proc \ {c} : cur[q] # t
      BY <1>1, <1>9, <2>4 DEF Insert, IdsFresh
    <3> QED BY <2>2, <3>1 DEF OwnAt, AttemptsAt, Holds, Claims
  <2> QED BY <2>3, <2>4
<1>10. ASSUME Adopt(c)
       PROVE  OwnAt(t)'
  <2>1. (Return(c) \/ \E u, task : TakeUp(c, u, task, "push")) /\ tasks' = tasks
    BY <1>10 DEF Adopt
  <2> QED BY <1>1, <2>1, ReturnLocals, TakeUpLocals, LetGoOwn
<1> QED
  BY <1>2, <1>3, <1>4, <1>5, <1>6, <1>7, <1>8, <1>9, <1>10 DEF ClientStep


\* The steps that a worker and the handler share: they write back the copy they
\* hold, or let it go.
LEMMA OwnShared ==
  ASSUME TypeOK, EntOK, NEW t \in TaskId, OwnAt(t), NEW p \in Proc, SharedStep(p)
  PROVE  OwnAt(t)'
<1> USE DEF tables
<1>1. cur[p] \in TaskId /\ ent[p] \in Row
  BY BusyHasTask
  DEF SharedStep, PushTask, SaveRetry, FindFinished, SaveHistory, RemoveTask,
      CallFails, TypeOK
<1>2. ASSUME PushTask(p) \/ CallFails(p)
      PROVE  OwnAt(t)'
  <2>1. Return(p) /\ tasks' = tasks
    BY <1>2 DEF PushTask, CallFails
  <2> QED BY <2>1, ReturnLocals, LetGoOwn DEF Holding
<1>3. ASSUME SaveRetry(p)
      PROVE  OwnAt(t)'
  <2>1. /\ pc[p] = "save" /\ Goto(p, "push") /\ UNCHANGED <<cur, ent>>
        /\ tasks' = SaveTask(tasks, cur[p], ent[p])
    BY <1>3 DEF SaveRetry
  <2>2. ent[p] \in LiveRow /\ Exists(ent[p])
    BY <1>1, <2>1 DEF EntOK, EntAt, Row, LiveRow, RowWith, Exists
  <2>3. /\ t # cur[p] => tasks'[t] = tasks[t]
        /\ t = cur[p] => tasks'[t] = IF Exists(tasks[t]) THEN ent[p] ELSE tasks[t]
    BY <1>1, <2>1 DEF TypeOK, SaveTask
  <2>4. t = cur[p] => /\ Holds(p, t)
                      /\ Exists(tasks[t]) => tasks[t].attempts = ent[p].attempts
    BY <2>1 DEF Holds, Holding, OwnAt, AttemptsAt
  <2>5. /\ \A q \in Proc \ {p} : pc'[q] = pc[q] /\ cur'[q] = cur[q] /\ ent'[q] = ent[q]
        /\ pc'[p] = "push"
    BY <2>1, GotoLocals
  <2> QED BY <2>2, <2>3, <2>4, <2>5, FrameOwn, LetGoOwn DEF Holding
<1>4. ASSUME FindFinished(p)
      PROVE  OwnAt(t)'
  <2>1. pc[p] = "find" /\ tasks' = tasks
    BY <1>4 DEF FindFinished
  <2>2. CASE Return(p)
    BY <2>1, <2>2, ReturnLocals, LetGoOwn DEF Holding
  <2>3. CASE Exists(tasks[cur[p]]) /\ Goto(p, "history") /\ UNCHANGED <<cur, ent>>
    <3>1. /\ \A q \in Proc \ {p} : pc'[q] = pc[q] /\ cur'[q] = cur[q] /\ ent'[q] = ent[q]
          /\ pc'[p] = "history" /\ cur'[p] = cur[p] /\ ent'[p] = ent[p]
      BY <2>3, GotoLocals
    <3>2. cur[p] = t => /\ Holds(p, t)
                        /\ p \in Worker => tasks[t].state = "processing"
      BY <2>1, <2>3 DEF Holds, Holding, OwnAt, AttemptsAt
    <3> QED BY <2>1, <2>3, <3>1, <3>2, FrameOwn
  <2> QED BY <1>4, <2>2, <2>3 DEF FindFinished
<1>5. ASSUME SaveHistory(p)
      PROVE  OwnAt(t)'
  <2>1. pc[p] = "history" /\ tasks' = tasks /\ Goto(p, "remove") /\ UNCHANGED <<cur, ent>>
    BY <1>5 DEF SaveHistory
  <2>2. /\ \A q \in Proc \ {p} : pc'[q] = pc[q] /\ cur'[q] = cur[q] /\ ent'[q] = ent[q]
        /\ pc'[p] = "remove" /\ cur'[p] = cur[p] /\ ent'[p] = ent[p]
    BY <2>1, GotoLocals
  <2>3. cur[p] = t => /\ Holds(p, t) /\ Exists(tasks[t])
                      /\ p \in Worker => tasks[t].state = "processing"
    BY <2>1 DEF Holds, Holding, OwnAt, AttemptsAt
  <2> QED BY <2>1, <2>2, <2>3, FrameOwn
<1>6. ASSUME RemoveTask(p)
      PROVE  OwnAt(t)'
  <2>1. /\ pc[p] = "remove" /\ Return(p)
        /\ tasks' = [tasks EXCEPT ![cur[p]] = Absent]
    BY <1>6 DEF RemoveTask
  <2>2. /\ \A q \in Proc \ {p} : pc'[q] = pc[q] /\ cur'[q] = cur[q] /\ ent'[q] = ent[q]
        /\ pc'[p] \in {"idle", "sweep"}
    BY <2>1, ReturnLocals
  <2>3. CASE cur[p] # t
    BY <1>1, <2>1, <2>2, <2>3, LetGoOwn DEF Holding, TypeOK
  <2>4. CASE cur[p] = t
    <3>1. Holds(p, t) /\ ~Exists(tasks'[t])
      BY <2>1, <2>4 DEF Holds, Holding, TypeOK, Exists, Absent
    <3>2. \A q \in Proc : ~Holds(q, t)'
      BY <2>2, <3>1 DEF OwnAt, Holds, Holding
    <3>3. \A q \in Proc : ~(pc'[q] \in {"history", "remove"} /\ cur'[q] = t)
      BY <3>2 DEF Holds, Holding
    <3> QED BY <3>1, <3>2, <3>3 DEF OwnAt, AttemptsAt, Proc, Exists
  <2> QED BY <2>3, <2>4
<1> QED BY <1>2, <1>3, <1>4, <1>5, <1>6 DEF SharedStep

\* A sweep takes up a task nobody holds, with an up-to-date copy, or races it.
LEMMA OwnHandler ==
  ASSUME TypeOK, EntOK, NEW t \in TaskId, OwnAt(t), NEW h \in Handler,
         HandlerStep(h), t \notin raced'
  PROVE  OwnAt(t)'
<1> USE DEF tables
<1>1. h \in Proc /\ h \notin Worker
  BY ProcAssumption DEF Proc
<1>2. ASSUME SweepProcessing(h) \/ SweepWaiting(h) \/ SweepEnd(h)
      PROVE  OwnAt(t)'
  <2>1. /\ \A q \in Proc \ {h} : pc'[q] = pc[q] /\ cur'[q] = cur[q] /\ ent'[q] = ent[q]
        /\ pc'[h] \in {"idle", "sweep"} /\ tasks' = tasks
    BY <1>1, <1>2 DEF SweepProcessing, SweepWaiting, SweepEnd, Goto, TypeOK, locals
  <2> QED BY <1>1, <2>1, LetGoOwn DEF Holding
<1>3. ASSUME HandlerCrash(h)
      PROVE  OwnAt(t)'
  <2>1. TakeUp(h, NoTask, Absent, "idle") /\ tasks' = tasks
    BY <1>3 DEF HandlerCrash
  <2> QED BY <1>1, <2>1, TakeUpLocals, LetGoOwn DEF Holding
<1>4. ASSUME NEW u \in TaskId, TimeoutFinish(h, u) \/ TimeoutRetry(h, u)
      PROVE  OwnAt(t)'
  <2>1. PICK state \in {"timeout", "waiting"}, label \in {"find", "save"} :
          NextOnList(h, u, state, label)
    BY <1>4 DEF TimeoutFinish, TimeoutRetry
  <2>2. /\ \A q \in Proc \ {h} : pc'[q] = pc[q] /\ cur'[q] = cur[q] /\ ent'[q] = ent[q]
        /\ pc'[h] = label /\ cur'[h] = u
        /\ ent'[h] = [todo[h][u] EXCEPT !.state = state]
        /\ tasks' = tasks /\ pc[h] = "sweep" /\ todo[h][u] \in LiveRow
    BY <1>1, <2>1, TakeUpLocals DEF NextOnList, TypeOK
  <2>3. CASE u # t
    BY <1>1, <2>2, <2>3, OtherOwn
  <2>4. CASE u = t
    <3>1. ~Overtakes(h, t)
      BY <2>1, <2>4 DEF NextOnList
    <3>2. ent'[h].attempts = tasks[t].attempts
      BY <2>2, <2>4, <3>1 DEF Overtakes, LiveRow, RowWith
    <3>3. \A q \in Proc \ {h} : ~Holds(q, t)'
      BY <2>2, <3>1 DEF Overtakes, Holds
    <3>4. \A q \in Proc : Claims(q, t)' => Claims(q, t) /\ ent'[q] = ent[q]
      BY <2>2 DEF Claims
    <3>5. \A q \in Proc : pc'[q] \in {"history", "remove"} => cur'[q] # t
      BY <2>2, <3>3 DEF Holds, Holding
    <3>6. \A q \in Worker : ~Holds(q, t)'
      BY <1>1, <3>3 DEF Proc
    <3>7. \A q \in Proc : Holds(q, t)' =>
            /\ tasks'[t].attempts = ent'[q].attempts
            /\ q \notin Worker
      BY <1>1, <2>2, <3>2, <3>3
    <3>8. \A q \in Proc : Claims(q, t)' /\ Exists(tasks'[t]) =>
            ent'[q].attempts <= tasks'[t].attempts + 1
      BY <2>2, <3>4 DEF OwnAt, AttemptsAt
    <3> QED BY <3>3, <3>5, <3>6, <3>7, <3>8 DEF OwnAt, AttemptsAt, Exists
  <2> QED BY <2>3, <2>4
<1> QED BY <1>2, <1>3, <1>4 DEF HandlerStep

\* A worker starts to hold a task by the compare-and-set alone, and that fails
\* as long as another worker holds the task.
LEMMA OwnWorker ==
  ASSUME TypeOK, EntOK, NEW t \in TaskId, OwnAt(t), NEW w \in Worker,
         WorkerStep(w), t \notin raced'
  PROVE  OwnAt(t)'
<1> USE DEF tables
<1>1. w \in Proc
  BY DEF Proc
<1>2. ASSUME PopTask(w)
      PROVE  OwnAt(t)'
  <2>1. TakeUp(w, Head(queue), Absent, "fetch") /\ tasks' = tasks
    BY <1>2 DEF PopTask
  <2> QED BY <1>1, <2>1, TakeUpLocals, LetGoOwn DEF Holding
<1>3. ASSUME FetchTask(w)
      PROVE  OwnAt(t)'
  <2> DEFINE found == FindTask(tasks, history, cur[w])
  <2>1. pc[w] = "fetch" /\ tasks' = tasks /\ cur[w] \in TaskId
    BY <1>1, <1>3, BusyHasTask DEF FetchTask
  <2>2. CASE Return(w)
    BY <1>1, <2>1, <2>2, ReturnLocals, LetGoOwn DEF Holding
  <2>3. CASE found.state = "waiting" /\ TakeUp(w, cur[w], Started(found), "claim")
    <3>1. /\ \A q \in Proc \ {w} : pc'[q] = pc[q] /\ cur'[q] = cur[q] /\ ent'[q] = ent[q]
          /\ pc'[w] = "claim" /\ cur'[w] = cur[w] /\ ent'[w] = Started(found)
      BY <1>1, <2>3, TakeUpLocals
    <3>2. CASE cur[w] # t
      BY <1>1, <2>1, <3>1, <3>2, OtherOwn
    <3>3. CASE cur[w] = t
      <4>1. history[t] \in HistoryRow /\ tasks[t] \in LiveRow
        BY DEF TypeOK
      <4>2. Exists(tasks[t]) /\ found = tasks[t] /\ tasks[t].state = "waiting"
        BY <2>3, <3>3, <4>1
        DEF FindTask, HistoryRow, RowWith, FinalState, Exists
      <4>3. ent'[w].attempts = tasks[t].attempts + 1 /\ tasks[t].attempts \in Nat
        BY <3>1, <4>1, <4>2 DEF Started, LiveRow, RowWith
      <4>4. \A q \in Proc : Holds(q, t)' => Holds(q, t) /\ ent'[q] = ent[q]
        BY <3>1 DEF Holds, Holding
      <4>5. \A q \in Worker : ~Holds(q, t)'
        BY <4>2, <4>4 DEF OwnAt, AttemptsAt, Proc
      <4>6. \A q, r \in Proc : Holds(q, t)' /\ Holds(r, t)' => q = r
        BY <4>4 DEF OwnAt
      <4>7. \A q \in Proc : Holds(q, t)' =>
              tasks'[t].attempts = ent'[q].attempts /\ q \notin Worker
        BY <2>1, <4>2, <4>4, <4>5 DEF OwnAt, AttemptsAt
      <4>8. \A q \in Proc : Claims(q, t)' => ent'[q].attempts <= tasks'[t].attempts + 1
        <5> TAKE q \in Proc
        <5>1. CASE q = w
          BY <2>1, <4>3, <5>1
        <5>2. CASE q # w
          <6>1. Claims(q, t)' => Claims(q, t) /\ ent'[q] = ent[q]
            BY <3>1, <5>2 DEF Claims
          <6> QED BY <2>1, <4>2, <6>1 DEF OwnAt, AttemptsAt
        <5> QED BY <5>1, <5>2
      <4>9. Exists(tasks'[t])
        BY <2>1, <4>2
      <4> QED BY <4>5, <4>6, <4>7, <4>8, <4>9 DEF OwnAt, AttemptsAt, Exists
    <3> QED BY <3>2, <3>3
  <2> QED BY <1>3, <2>2, <2>3 DEF FetchTask
<1>4. ASSUME ClaimTask(w)
      PROVE  OwnAt(t)'
  <2>1. pc[w] = "claim" /\ cur[w] \in TaskId
    BY <1>1, <1>4, BusyHasTask DEF ClaimTask
  <2>2. CASE Return(w) /\ tasks' = tasks
    BY <1>1, <2>2, ReturnLocals, LetGoOwn DEF Holding
  <2>3. CASE /\ CanClaim(tasks, cur[w], ent[w])
             /\ tasks' = [tasks EXCEPT ![cur[w]] = ent[w]]
             /\ Goto(w, "run") /\ UNCHANGED <<cur, ent>>
             /\ raced' = IF \E h \in Handler : Holds(h, cur[w])
                         THEN raced \cup {cur[w]} ELSE raced
    <3>1. /\ \A q \in Proc \ {w} : pc'[q] = pc[q] /\ cur'[q] = cur[q] /\ ent'[q] = ent[q]
          /\ pc'[w] = "run" /\ cur'[w] = cur[w] /\ ent'[w] = ent[w]
      BY <1>1, <2>3, GotoLocals
    <3>2. CASE cur[w] # t
      BY <1>1, <2>1, <2>3, <3>1, <3>2, OtherOwn DEF TypeOK
    <3>3. CASE cur[w] = t
      <4>1. /\ ent[w] \in Row /\ ent[w].attempts \in Nat /\ ent[w].state = "processing"
            /\ tasks[t].attempts \in Nat
        BY <1>1, <2>1 DEF EntOK, EntAt, TypeOK, Row, LiveRow, RowWith
      <4>2. Exists(tasks[t]) /\ tasks[t].attempts + 1 = ent[w].attempts /\ tasks'[t] = ent[w]
        BY <2>1, <2>3, <3>3 DEF CanClaim, TypeOK
      <4>3. Claims(w, t)
        BY <2>1, <3>3 DEF Claims
      <4>4. \A q \in Worker : ~Holds(q, t)
        <5> SUFFICES ASSUME NEW q \in Worker, Holds(q, t) PROVE FALSE
          OBVIOUS
        <5>1. ent[w].attempts <= ent[q].attempts
          BY <1>1, <4>3 DEF OwnAt, AttemptsAt
        <5>2. tasks[t].attempts = ent[q].attempts
          BY <4>2 DEF OwnAt, AttemptsAt, Proc
        <5> QED BY <4>1, <4>2, <5>1, <5>2
      <4>5. \A q \in Handler : ~Holds(q, t)
        BY <2>3, <3>3
      <4>6. \A q \in Client : ~Holds(q, t)
        BY DEF EntOK, EntAt, Holds, Proc
      <4>7. \A q \in Proc : Holds(q, t)' => q = w
        BY <3>1, <4>4, <4>5, <4>6 DEF Proc, Holds
      <4>8. \A q \in Proc : Claims(q, t)' => Claims(q, t) /\ ent'[q] = ent[q]
        BY <3>1 DEF Claims
      <4>9. \A q \in Proc : Claims(q, t)' => ent'[q].attempts <= ent[w].attempts
        BY <4>2, <4>8 DEF OwnAt, AttemptsAt
      <4>10. \A q \in Proc : Claims(q, t)' => ent'[q].attempts <= tasks'[t].attempts + 1
        <5> TAKE q \in Proc
        <5>1. ent'[q].attempts \in Nat \/ ~Claims(q, t)'
          BY <4>8 DEF TypeOK, Row, RowWith
        <5> QED BY <4>1, <4>2, <4>9, <5>1
      <4>11. \A q \in Proc : Claims(q, t)' => \A r \in Worker : Holds(r, t)' =>
               ent'[q].attempts <= ent'[r].attempts
        BY <3>1, <4>7, <4>9 DEF Proc
      <4>12. /\ tasks'[t].attempts = ent'[w].attempts
             /\ tasks'[t].state = "processing" /\ Exists(tasks'[t])
        BY <3>1, <4>1, <4>2 DEF Exists
      <4> QED BY <4>7, <4>10, <4>11, <4>12 DEF OwnAt, AttemptsAt, Exists
    <3> QED BY <3>2, <3>3
  <2> QED BY <1>4, <2>2, <2>3 DEF ClaimTask
<1>5. ASSUME AppendTaskLog(w)
      PROVE  OwnAt(t)'
  <2>1. /\ pc[w] = "run" /\ UNCHANGED <<pc, cur, ent>>
        /\ tasks' = SaveTask(tasks, cur[w], ent[w])
    BY <1>5 DEF AppendTaskLog, locals
  <2>2. cur[w] \in TaskId /\ ent[w].state = "processing"
    BY <1>1, <2>1, BusyHasTask DEF EntOK, EntAt
  <2>3. CASE cur[w] # t
    <3>1. tasks'[t] = tasks[t]
      BY <2>1, <2>2, <2>3 DEF SaveTask, TypeOK
    <3> QED BY <1>1, <2>1, <2>3, <3>1, OtherOwn
  <2>4. CASE cur[w] = t
    <3>1. /\ Holds(w, t)
          /\ Exists(tasks[t]) => /\ tasks[t].attempts = ent[w].attempts
                                 /\ tasks[t].state = "processing"
      BY <1>1, <2>1, <2>4 DEF Holds, Holding, OwnAt, AttemptsAt
    <3>2. tasks'[t] = IF Exists(tasks[t]) THEN ent[w] ELSE tasks[t]
      BY <2>1, <2>2, <2>4 DEF SaveTask, TypeOK
    <3>3. Exists(ent[w])
      BY <2>2 DEF Exists
    <3> QED BY <1>1, <2>1, <2>2, <3>1, <3>2, <3>3, FrameOwn
  <2> QED BY <2>3, <2>4
<1>6. ASSUME NEW state, NEW label \in {"find", "save"}, pc[w] = "run", tasks' = tasks,
             TakeUp(w, cur[w], [ent[w] EXCEPT !.state = state], label)
      PROVE  OwnAt(t)'
  <2>1. /\ \A q \in Proc \ {w} : pc'[q] = pc[q] /\ cur'[q] = cur[q] /\ ent'[q] = ent[q]
        /\ pc'[w] = label /\ cur'[w] = cur[w]
        /\ ent'[w] = [ent[w] EXCEPT !.state = state] /\ ent[w] \in Row
    BY <1>1, <1>6, TakeUpLocals DEF TypeOK
  <2>2. cur[w] = t => /\ Holds(w, t)
                      /\ Exists(tasks[t]) => tasks[t].state = "processing"
    BY <1>1, <1>6 DEF Holds, Holding, OwnAt, AttemptsAt
  <2>3. ent'[w].attempts = ent[w].attempts
    BY <2>1 DEF Row, RowWith
  <2> QED BY <1>1, <1>6, <2>1, <2>2, <2>3, FrameOwn
<1>7. ASSUME Retry(w)
      PROVE  OwnAt(t)'
  BY <1>6, <1>7 DEF Retry
<1>8. ASSUME NEW state \in {"success", "fail"}, Finish(w, state)
      PROVE  OwnAt(t)'
  BY <1>6, <1>8 DEF Finish
<1> QED
  BY <1>2, <1>3, <1>4, <1>5, <1>7, <1>8 DEF WorkerStep

\* A task that was raced once counts as raced for ever.
LEMMA RacedGrows == Next => raced \subseteq raced'
<1> SUFFICES ASSUME Next PROVE raced \subseteq raced'
  OBVIOUS
<1> USE DEF ghosts
<1>1. ASSUME NEW c \in Client, ClientStep(c)
      PROVE  raced' = raced
  BY <1>1 DEF ClientStep, CreateNew, CreateExisting, CreateSwallowed, MergeRead,
              MergeUpdate, BoostQueued, BoostSkipped, Insert, Adopt
<1>2. ASSUME NEW w \in Worker, WorkerStep(w)
      PROVE  raced \subseteq raced'
  BY <1>2 DEF WorkerStep, PopTask, FetchTask, ClaimTask, AppendTaskLog, Retry, Finish
<1>3. ASSUME NEW h \in Handler, HandlerStep(h)
      PROVE  raced \subseteq raced'
  BY <1>3 DEF HandlerStep, SweepProcessing, SweepWaiting, SweepEnd, TimeoutFinish,
              TimeoutRetry, NextOnList, HandlerCrash
<1>4. ASSUME NEW p \in Proc, SharedStep(p)
      PROVE  raced' = raced
  BY <1>4 DEF SharedStep, PushTask, SaveRetry, FindFinished, SaveHistory,
              RemoveTask, CallFails
<1>5. ASSUME NEW t \in TaskId, TimePasses(t)
      PROVE  raced' = raced
  BY <1>5 DEF TimePasses
<1> QED BY <1>1, <1>2, <1>3, <1>4, <1>5 DEF Next

LEMMA OwnStep ==
  ASSUME Inductive, Next
  PROVE  (OneHolder /\ AttemptsOK)'
<1> SUFFICES ASSUME NEW t \in TaskId, t \notin raced' PROVE OwnAt(t)'
  BY DEF OneHolder, AttemptsOK, OwnAt
<1>1. TypeOK /\ EntOK /\ IdsFresh /\ OwnAt(t)
  BY RacedGrows, OwnEverywhere DEF Inductive
<1>2. ASSUME NEW u \in TaskId, TimePasses(u)
      PROVE  OwnAt(t)'
  BY <1>1, <1>2 DEF TimePasses, locals, OwnAt, AttemptsAt, Holds, Claims, Exists
<1> QED BY <1>1, <1>2, OwnClient, OwnWorker, OwnHandler, OwnShared DEF Next

-----------------------------------------------------------------------------
(* Theorems *)

\* Inductive is an inductive invariant.
LEMMA InductiveStep == Inductive /\ [Next]_vars => Inductive'
<1> SUFFICES ASSUME Inductive, [Next]_vars PROVE Inductive'
  OBVIOUS
<1>1. CASE Next
  <2>1. TypeOK' /\ EntOK'
    BY <1>1, TypeStep, EntStep DEF Inductive
  <2>2. IdsResolve' /\ IdsFresh'
    BY <1>1, IdsStep DEF Inductive
  <2>3. OneHolder' /\ AttemptsOK'
    BY <1>1, OwnStep
  <2> QED BY <2>1, <2>2, <2>3 DEF Inductive
<1>2. CASE UNCHANGED vars
  <2> USE <1>2 DEF vars, tables, locals, sweep, ghosts
  <2>1. TypeOK' /\ EntOK'
    BY DEF Inductive, TypeOK, EntOK
  <2>2. IdsResolve' /\ IdsFresh'
    BY DEF Inductive, IdsResolve, IdsFresh, Known
  <2>3. OneHolder' /\ AttemptsOK'
    BY DEF Inductive, OneHolder, AttemptsOK, AttemptsAt, Holds, Claims
  <2> QED BY <2>1, <2>2, <2>3 DEF Inductive
<1> QED BY <1>1, <1>2

\* Every reachable state satisfies the whole inductive invariant.
THEOREM InductiveInvariant == Spec => []Inductive
<1>1. Init => Inductive
  BY InitInductive
<1>2. Inductive /\ [Next]_vars => Inductive'
  BY InductiveStep
<1> QED BY <1>1, <1>2, PTL DEF Spec

\* Every variable keeps its type: in particular, a task with a final state is
\* never found in the tables of unfinished tasks (TaskRepository.ts:71-81).
THEOREM TypeCorrect == Spec => []TypeOK
<1>1. Inductive => TypeOK
  BY DEF Inductive
<1> QED BY <1>1, InductiveInvariant, PTL

\* No id in the queue or in a process's hands is ever lost from both tables,
\* whatever handlers, workers and crashes do between the two writes of
\* saveTaskToHistory (TaskRepository.ts:71-81).
THEOREM IdsAlwaysResolve == Spec => []IdsResolve
<1>1. Inductive => IdsResolve
  BY DEF Inductive
<1> QED BY <1>1, InductiveInvariant, PTL

\* The compare-and-set of idempotentSaveTask (TaskRepository.ts:55-69) gives a
\* task to one owner at a time, for any number of workers, unless the timeout
\* handler treats the task while it is held or from an outdated copy.
THEOREM MutualExclusion == Spec => []OneHolder
<1>1. Inductive => OneHolder
  BY DEF Inductive
<1> QED BY <1>1, InductiveInvariant, PTL

\* A task that has come to rest in history keeps its verdict, unless a timeout
\* overtook its execution.
THEOREM VerdictsAreFinal == Spec => VerdictFinal
<1> DEFINE Kept == \A t \in TaskId \ raced :
                     Exists(history[t]) /\ ~Exists(tasks[t]) => history'[t] = history[t]
<1>1. Inductive /\ [Next]_vars => [Kept]_vars
  <2> SUFFICES ASSUME Inductive, Next, NEW t \in TaskId \ raced, ~Exists(tasks[t])
               PROVE  history'[t] = history[t]
    BY DEF vars
  <2> USE DEF tables
  <2>1. ASSUME NEW p \in Proc, SaveHistory(p)
        PROVE  history'[t] = history[t]
    <3>1. cur[p] # t
      BY <2>1 DEF Inductive, AttemptsOK, AttemptsAt, SaveHistory
    <3> QED BY <2>1, <3>1 DEF SaveHistory, Inductive, TypeOK
  <2>2. ASSUME NEW p \in Proc, SharedStep(p), ~SaveHistory(p)
        PROVE  history' = history
    BY <2>2 DEF SharedStep, PushTask, SaveRetry, FindFinished, RemoveTask, CallFails
  <2>3. ASSUME NEW c \in Client, ClientStep(c)
        PROVE  history' = history
    BY <2>3 DEF ClientStep, CreateNew, CreateExisting, CreateSwallowed, MergeRead,
                MergeUpdate, BoostQueued, BoostSkipped, Insert, Adopt
  <2>4. ASSUME NEW w \in Worker, WorkerStep(w)
        PROVE  history' = history
    BY <2>4 DEF WorkerStep, PopTask, FetchTask, ClaimTask, AppendTaskLog, Retry, Finish
  <2>5. ASSUME NEW h \in Handler, HandlerStep(h)
        PROVE  history' = history
    BY <2>5 DEF HandlerStep, SweepProcessing, SweepWaiting, SweepEnd, TimeoutFinish,
                TimeoutRetry, NextOnList, HandlerCrash
  <2>6. ASSUME NEW u \in TaskId, TimePasses(u)
        PROVE  history' = history
    BY <2>6 DEF TimePasses
  <2> QED BY <2>1, <2>2, <2>3, <2>4, <2>5, <2>6 DEF Next
<1> QED BY <1>1, InductiveInvariant, PTL DEF Spec, VerdictFinal

-----------------------------------------------------------------------------
(* TaskQueue implements TaskLifecycle *)

\* The moves TaskLifecycle allows one task.
Moves(from, to) ==
  \/ to = from
  \/ from = "none" /\ to = "waiting"
  \/ from = "waiting" /\ to = "processing"
  \/ from = "processing" /\ to = "waiting"
  \/ from # "none" /\ to \in FinalState

LEMMA StatusTypes ==
  ASSUME TypeOK, NEW t \in TaskId
  PROVE  /\ Exists(tasks[t]) => Status(t) = tasks[t].state
         /\ Status(t) \in TaskState \cup {"none"}
         /\ ~Exists(tasks[t]) => Status(t) \in FinalState \cup {"none"}
         /\ Status(t) = "none" <=> ~Known(t)
  BY DEF TypeOK, Status, Known, Exists, LiveRow, HistoryRow, RowWith, TaskState, FinalState

\* A step that moves one task one way is a step of TaskLifecycle.
LEMMA OneMoves ==
  ASSUME TypeOK, NEW u \in TaskId, Moves(Status(u), Status(u)'),
         \A t \in TaskId \ {u} : tasks'[t] = tasks[t] /\ history'[t] = history[t]
  PROVE  [Lifecycle!Next]_[t \in TaskId |-> Status(t)]
<1> DEFINE st == [t \in TaskId |-> Status(t)]
<1>1. \A t \in TaskId \ {u} : Status(t)' = Status(t)
  BY DEF Status, Exists
<1>2. st' = [st EXCEPT ![u] = Status(u)']
  BY <1>1
<1>3. st[u] = Status(u) /\ Status(u) \in TaskState \cup {"none"}
  BY StatusTypes
<1>4. CASE Status(u)' = Status(u)
  <2>1. st' = st
    BY <1>1, <1>4
  <2> QED BY <2>1
<1>5. CASE Status(u) = "none" /\ Status(u)' = "waiting"
  BY <1>2, <1>3, <1>5 DEF Lifecycle!Next, Lifecycle!Create, Lifecycle!Move
<1>6. CASE Status(u) = "waiting" /\ Status(u)' = "processing"
  BY <1>2, <1>3, <1>6 DEF Lifecycle!Next, Lifecycle!Start, Lifecycle!Move
<1>7. CASE Status(u) = "processing" /\ Status(u)' = "waiting"
  BY <1>2, <1>3, <1>7 DEF Lifecycle!Next, Lifecycle!PutBack, Lifecycle!Move
<1>8. CASE Status(u) # "none" /\ Status(u)' \in FinalState
  BY <1>2, <1>3, <1>8
  DEF Lifecycle!Next, Lifecycle!End, Lifecycle!Amend, Lifecycle!Move, TaskState
<1> QED BY <1>4, <1>5, <1>6, <1>7, <1>8 DEF Moves

LEMMA LifecycleStep ==
  ASSUME Inductive, Inductive', Next
  PROVE  [Lifecycle!Next]_[t \in TaskId |-> Status(t)]
<1> DEFINE Goal == [Lifecycle!Next]_[t \in TaskId |-> Status(t)]
<1> USE DEF tables
<1>1. TypeOK /\ TypeOK' /\ EntOK
  BY DEF Inductive
<1>2. ASSUME UNCHANGED <<tasks, history>>
      PROVE  Goal
  BY <1>2 DEF Status, Exists
<1>3. ASSUME NEW u \in TaskId, history' = history,
             \A t \in TaskId \ {u} : tasks'[t] = tasks[t],
             Exists(tasks[u]) => Exists(tasks'[u]),
             Exists(tasks'[u]) =>
               Exists(tasks[u]) \/ (~Known(u) /\ tasks'[u].state = "waiting")
      PROVE  Goal
  <2>1. Exists(tasks[u]) => /\ Status(u) = tasks[u].state
                            /\ tasks[u].state \in {"waiting", "processing"}
    BY <1>1 DEF Status, TypeOK, LiveRow, RowWith, Exists
  <2>2. Exists(tasks'[u]) => /\ Status(u)' = tasks'[u].state
                             /\ tasks'[u].state \in {"waiting", "processing"}
    BY <1>1 DEF Status, TypeOK, LiveRow, RowWith, Exists
  <2>3. ~Exists(tasks[u]) /\ ~Exists(tasks'[u]) => Status(u)' = Status(u)
    BY <1>3 DEF Status, Exists
  <2>4. ~Known(u) => Status(u) = "none"
    BY DEF Status, Known
  <2>5. Moves(Status(u), Status(u)')
    BY <1>3, <2>1, <2>2, <2>3, <2>4 DEF Moves
  <2> QED BY <1>1, <1>3, <2>5, OneMoves
<1>4. ASSUME NEW c \in Client, ClientStep(c)
      PROVE  Goal
  <2>1. c \in Proc
    BY DEF Proc
  <2>2. CASE Insert(c)
    <3>1. /\ cur[c] \in TaskId /\ ~Known(cur[c]) /\ ent[c].state = "waiting"
          /\ ~Exists(tasks[cur[c]])
      BY <1>1, <2>1, <2>2, BusyHasTask
      DEF Insert, Inductive, IdsFresh, EntOK, EntAt, Known
    <3> QED BY <1>1, <1>3, <2>2, <3>1 DEF Insert, TypeOK, Known
  <2>3. CASE MergeUpdate(c)
    <3>1. cur[c] \in TaskId /\ ent[c] \in Row
      BY <1>1, <2>1, <2>3, BusyHasTask DEF MergeUpdate, TypeOK
    <3>2. \A t \in TaskId \ {cur[c]} : tasks'[t] = tasks[t]
      BY <1>1, <2>3, <3>1 DEF MergeUpdate, UpdateData, TypeOK
    <3>3. tasks'[cur[c]].state = tasks[cur[c]].state
      BY <1>1, <2>3, <3>1, UpdateDataRows DEF MergeUpdate, TypeOK
    <3> QED BY <1>3, <2>3, <3>1, <3>2, <3>3 DEF MergeUpdate, Exists
  <2>4. CASE ~Insert(c) /\ ~MergeUpdate(c)
    BY <1>2, <1>4, <2>4
    DEF ClientStep, CreateNew, CreateExisting, CreateSwallowed, MergeRead,
        BoostQueued, BoostSkipped, Adopt
  <2> QED BY <2>2, <2>3, <2>4
<1>5. ASSUME NEW w \in Worker, WorkerStep(w)
      PROVE  Goal
  <2>1. w \in Proc
    BY DEF Proc
  <2>2. CASE ClaimTask(w)
    <3>1. cur[w] \in TaskId /\ ent[w].state = "processing"
      BY <1>1, <2>1, <2>2, BusyHasTask DEF ClaimTask, EntOK, EntAt
    <3>2. CASE tasks' = tasks
      BY <1>2, <2>2, <3>2 DEF ClaimTask
    <3>3. CASE /\ Exists(tasks[cur[w]])
               /\ tasks' = [tasks EXCEPT ![cur[w]] = ent[w]]
      BY <1>1, <1>3, <2>2, <3>1, <3>3 DEF ClaimTask, TypeOK, Exists
    <3> QED BY <2>2, <3>2, <3>3 DEF ClaimTask, CanClaim
  <2>3. CASE AppendTaskLog(w)
    <3>1. cur[w] \in TaskId /\ ent[w].state = "processing"
      BY <1>1, <2>1, <2>3, BusyHasTask DEF AppendTaskLog, EntOK, EntAt
    <3> QED BY <1>1, <1>3, <2>3, <3>1 DEF AppendTaskLog, SaveTask, TypeOK, Exists
  <2>4. CASE ~ClaimTask(w) /\ ~AppendTaskLog(w)
    BY <1>2, <1>5, <2>4 DEF WorkerStep, PopTask, FetchTask, Retry, Finish
  <2> QED BY <2>2, <2>3, <2>4
<1>6. ASSUME NEW h \in Handler, HandlerStep(h)
      PROVE  Goal
  BY <1>2, <1>6 DEF HandlerStep, SweepProcessing, SweepWaiting, SweepEnd, TimeoutFinish,
                    TimeoutRetry, NextOnList, HandlerCrash
<1>7. ASSUME NEW p \in Proc, SharedStep(p)
      PROVE  Goal
  <2>1. PICK u \in TaskId : u = cur[p]
    BY <1>1, <1>7, BusyHasTask
    DEF SharedStep, PushTask, SaveRetry, FindFinished, SaveHistory, RemoveTask, CallFails
  <2>2. CASE SaveRetry(p)
    <3>1. ent[p].state = "waiting"
      BY <1>1, <2>2 DEF SaveRetry, EntOK, EntAt
    <3> QED BY <1>1, <1>3, <2>1, <2>2, <3>1 DEF SaveRetry, SaveTask, TypeOK, Exists
  <2>3. CASE SaveHistory(p)
    <3>1. Known(u) /\ ent[p].state \in FinalState
      BY <1>1, <2>1, <2>3, TaskAssumption
      DEF SaveHistory, Inductive, IdsResolve, EntOK, EntAt
    <3>2. tasks' = tasks /\ history' = [history EXCEPT ![u] = ent[p]]
      BY <2>1, <2>3 DEF SaveHistory
    <3>3. CASE Exists(tasks[u])
      <4>1. Status(u)' = Status(u)
        BY <3>2, <3>3 DEF Status
      <4>2. \A t \in TaskId \ {u} : history'[t] = history[t]
        BY <1>1, <3>2 DEF TypeOK
      <4> QED BY <1>1, <2>1, <3>2, <4>1, <4>2, OneMoves DEF Moves
    <3>4. CASE ~Exists(tasks[u])
      <4>1. Status(u) # "none"
        BY <1>1, <2>1, <3>1, StatusTypes
      <4>2. Status(u)' \in FinalState
        BY <1>1, <2>1, <3>1, <3>2, <3>4 DEF Status, TypeOK, Exists, FinalState
      <4>3. \A t \in TaskId \ {u} : history'[t] = history[t]
        BY <1>1, <3>2 DEF TypeOK
      <4> QED BY <1>1, <2>1, <3>2, <4>1, <4>2, <4>3, OneMoves DEF Moves
    <3> QED BY <3>3, <3>4
  <2>4. CASE RemoveTask(p)
    <3>1. history' = history /\ tasks' = [tasks EXCEPT ![u] = Absent]
      BY <2>1, <2>4 DEF RemoveTask
    <3>2. Exists(history[u])
      BY <2>1, <2>4 DEF RemoveTask, Inductive, IdsFresh
    <3>3. Status(u)' \in FinalState
      BY <1>1, <2>1, <3>1, <3>2
      DEF Status, TypeOK, Exists, Absent, HistoryRow, RowWith, FinalState
    <3>4. Status(u) # "none"
      BY <1>1, <2>1, <3>2, StatusTypes DEF Known
    <3>5. \A t \in TaskId \ {u} : tasks'[t] = tasks[t]
      BY <1>1, <3>1 DEF TypeOK
    <3> QED BY <1>1, <2>1, <3>1, <3>3, <3>4, <3>5, OneMoves DEF Moves
  <2>5. CASE PushTask(p) \/ FindFinished(p) \/ CallFails(p)
    BY <1>2, <2>5 DEF PushTask, FindFinished, CallFails
  <2> QED BY <1>7, <2>2, <2>3, <2>4, <2>5 DEF SharedStep
<1>8. ASSUME NEW t \in TaskId, TimePasses(t)
      PROVE  Goal
  BY <1>2, <1>8 DEF TimePasses
<1> QED BY <1>4, <1>5, <1>6, <1>7, <1>8 DEF Next

\* The queue, the two tables and the crash gaps between them implement the
\* life of a task as TaskLifecycle states it: final once final, never forgotten.
THEOREM Implementation == Spec => ImplementsLifecycle
<1>1. Init => Lifecycle!Init
  BY DEF Init, Lifecycle!Init, Status, Exists, Absent
<1>2. Inductive /\ Inductive' /\ [Next]_vars
        => [Lifecycle!Next]_[t \in TaskId |-> Status(t)]
  <2>1. UNCHANGED vars => UNCHANGED [t \in TaskId |-> Status(t)]
    BY DEF vars, tables, Status, Exists
  <2> QED BY <2>1, LifecycleStep
<1> QED
  BY <1>1, <1>2, InductiveInvariant, PTL DEF Spec, ImplementsLifecycle, Lifecycle!Spec

-----------------------------------------------------------------------------
(* How often a task is started *)

LEMMA InitStarts == Init => StartsOK
<1> SUFFICES ASSUME Init PROVE StartsOK
  OBVIOUS
<1>1. StartsLeft(Absent, 0)
  BY BoundAssumption DEF StartsLeft, Absent
<1> QED BY <1>1 DEF Init, StartsOK, Exists, Absent

\* More retries leave more starts.
LEMMA StartsGrow ==
  ASSUME NEW task \in Row, NEW m \in Nat, NEW n \in Nat, m <= n, StartsLeft(task, m)
  PROVE  StartsLeft(task, n)
  BY BoundAssumption DEF StartsLeft, Row, RowWith

\* A step of p that leaves the rows' states and attempts and the lists alone.
LEMMA StartsLocal ==
  ASSUME TypeOK, StartsOK, NEW p \in Proc,
         \A q \in Proc \ {p} : pc'[q] = pc[q] /\ cur'[q] = cur[q] /\ ent'[q] = ent[q],
         \A t \in TaskId : tasks'[t].state = tasks[t].state /\ tasks'[t].attempts = tasks[t].attempts,
         UNCHANGED <<todo, phase, retries>>,
         Type # "changes_stream" =>
           /\ cur'[p] \in TaskId => StartsLeft(ent'[p], retries[cur'[p]])
           /\ pc'[p] \in {"insert", "adopt"} => ent'[p].attempts = 0
  PROVE  StartsOK'
<1> SUFFICES ASSUME Type # "changes_stream" PROVE StartsOK'
  BY DEF StartsOK
<1>1. \A q \in Proc : pc'[q] \in {"insert", "adopt"} => ent'[q].attempts = 0
  BY DEF StartsOK
<1>2. ASSUME NEW t \in TaskId
      PROVE  /\ StartsLeft(tasks'[t], retries'[t])
             /\ \A q \in Proc : cur'[q] = t => StartsLeft(ent'[q], retries'[t])
             /\ \A h \in Handler :
                  /\ StartsLeft(todo'[h][t], retries'[t])
                  /\ phase'[h] = "waiting" /\ Exists(todo'[h][t]) => todo'[h][t].state = "waiting"
  <2>1. StartsLeft(tasks[t], retries[t])
    BY DEF StartsOK
  <2>2. StartsLeft(tasks'[t], retries'[t])
    BY <2>1 DEF StartsLeft
  <2> QED BY <2>2 DEF StartsOK
<1> QED BY <1>1, <1>2 DEF StartsOK, Exists

\* A step of p that writes a row, a copy of which it has.
LEMMA StartsWrite ==
  ASSUME TypeOK, StartsOK, NEW p \in Proc, cur[p] \in TaskId,
         \A q \in Proc \ {p} : pc'[q] = pc[q] /\ cur'[q] = cur[q] /\ ent'[q] = ent[q],
         \A t \in TaskId : tasks'[t] = tasks[t] \/ tasks'[t] = Absent
                           \/ (t = cur[p] /\ tasks'[t] = ent[p]),
         UNCHANGED <<todo, phase, retries>>,
         cur'[p] = NoTask \/ (cur'[p] = cur[p] /\ ent'[p] = ent[p]),
         pc'[p] \in {"insert", "adopt"} => pc[p] = "insert" /\ ent'[p] = ent[p]
  PROVE  StartsOK'
<1> SUFFICES ASSUME Type # "changes_stream" PROVE StartsOK'
  BY DEF StartsOK
<1>1. \A q \in Proc : pc'[q] \in {"insert", "adopt"} => ent'[q].attempts = 0
  BY TaskAssumption DEF StartsOK
<1>2. ASSUME NEW t \in TaskId
      PROVE  /\ StartsLeft(tasks'[t], retries'[t])
             /\ \A q \in Proc : cur'[q] = t => StartsLeft(ent'[q], retries'[t])
             /\ \A h \in Handler :
                  /\ StartsLeft(todo'[h][t], retries'[t])
                  /\ phase'[h] = "waiting" /\ Exists(todo'[h][t]) => todo'[h][t].state = "waiting"
  <2>1. StartsLeft(tasks[t], retries[t]) /\ \A q \in Proc : cur[q] = t => StartsLeft(ent[q], retries[t])
    BY DEF StartsOK
  <2>2. StartsLeft(Absent, retries[t])
    BY BoundAssumption DEF StartsLeft, Absent, TypeOK
  <2>3. \A q \in Proc : cur'[q] = t => cur[q] = t /\ ent'[q] = ent[q]
    BY TaskAssumption
  <2> QED BY <2>1, <2>2, <2>3 DEF StartsOK
<1> QED BY <1>1, <1>2 DEF StartsOK, Exists

\* A process that takes up a copy that has a start left.
LEMMA StartsTakeUp ==
  ASSUME TypeOK, StartsOK, NEW p \in Proc, NEW t \in TaskId, NEW task \in Row, NEW label \in PC,
         TakeUp(p, t, task, label), UNCHANGED <<tasks, todo, phase, retries>>,
         label \in {"insert", "adopt"} => task.attempts = 0,
         Type # "changes_stream" => StartsLeft(task, retries[t])
  PROVE  StartsOK'
<1>1. /\ \A q \in Proc \ {p} : pc'[q] = pc[q] /\ cur'[q] = cur[q] /\ ent'[q] = ent[q]
      /\ pc'[p] = label /\ cur'[p] = t /\ ent'[p] = task
  BY TakeUpLocals
<1>2. \A u \in TaskId : tasks'[u] = tasks[u]
  OBVIOUS
<1> QED BY <1>1, <1>2, StartsLocal

\* A process that returns has no copy left.
LEMMA StartsReturn ==
  ASSUME TypeOK, StartsOK, NEW p \in Proc, Return(p), UNCHANGED <<tasks, todo, phase, retries>>
  PROVE  StartsOK'
  BY ReturnLocals, StartsLocal, TaskAssumption DEF TypeOK

\* A process that goes on with the copy it has.
LEMMA StartsGoto ==
  ASSUME TypeOK, StartsOK, NEW p \in Proc, NEW label \in PC, Goto(p, label),
         label \notin {"insert", "adopt"} \/ pc[p] = "insert",
         UNCHANGED <<cur, ent, tasks, todo, phase, retries>>
  PROVE  StartsOK'
<1>1. \A q \in Proc \ {p} : pc'[q] = pc[q] /\ cur'[q] = cur[q] /\ ent'[q] = ent[q]
  BY GotoLocals
<1> QED BY <1>1, GotoLocals, StartsLocal DEF TypeOK, StartsOK

LEMMA StartsClient ==
  ASSUME TypeOK, EntOK, StartsOK, NEW c \in Client, ClientStep(c)
  PROVE  StartsOK'
<1> USE DEF tables, locals, sweep, ghosts
<1>c. c \in Proc /\ {"insert", "adopt", "merge", "update", "boost", "push"} \subseteq PC
  BY DEF Proc, PC
<1>n. ASSUME NEW t \in TaskId, NEW u \in TaskId
      PROVE  Request[t] \in Row /\ Request[t].attempts = 0 /\ StartsLeft(Request[t], retries[u])
  BY RequestRow, RowKinds, BoundAssumption DEF StartsLeft, TypeOK
<1>1. ASSUME NEW t \in TaskId, CreateNew(c, t)
      PROVE  StartsOK'
  BY <1>1, <1>c, <1>n, StartsTakeUp DEF CreateNew
<1>2. ASSUME NEW t \in TaskId, NEW u \in TaskId, CreateExisting(c, t, u)
      PROVE  StartsOK'
  <2>1. \E label \in {"merge", "boost"} : TakeUp(c, u, Request[t], label)
    BY <1>2 DEF CreateExisting
  <2> QED BY <1>2, <1>c, <1>n, <2>1, StartsTakeUp DEF CreateExisting
<1>3. ASSUME NEW t \in TaskId, NEW u \in TaskId, CreateSwallowed(c, t, u)
      PROVE  StartsOK'
  BY <1>3 DEF CreateSwallowed, StartsOK
<1>4. ASSUME MergeRead(c)
      PROVE  StartsOK'
  <2>1. cur[c] \in TaskId /\ tasks[cur[c]] \in Row /\ ent[c] \in Row
    BY <1>4, <1>c, BusyHasTask, RowKinds DEF MergeRead, TypeOK
  <2>2. Type # "changes_stream" =>
          /\ StartsLeft(tasks[cur[c]], retries[cur[c]])
          /\ StartsLeft(ent[c], retries[cur[c]])
    BY <1>c, <2>1 DEF StartsOK
  <2>3. LET m == Merged(tasks[cur[c]], ent[c])
        IN  m \in Row /\ m.state = tasks[cur[c]].state /\ m.attempts = tasks[cur[c]].attempts
    BY <2>1, MergedRow DEF Merged, Row, RowWith
  <2>4. PICK task \in Row, label \in {"update", "boost"} :
          /\ TakeUp(c, cur[c], task, label)
          /\ Type # "changes_stream" => StartsLeft(task, retries[cur[c]])
    BY <1>4, <2>1, <2>2, <2>3 DEF MergeRead, StartsLeft
  <2> QED BY <1>4, <1>c, <2>1, <2>4, StartsTakeUp DEF MergeRead
<1>5. ASSUME MergeUpdate(c)
      PROVE  StartsOK'
  <2>1. cur[c] \in TaskId /\ ent[c] \in Row
    BY <1>5, <1>c, BusyHasTask DEF MergeUpdate, TypeOK
  <2>2. \A t \in TaskId : tasks'[t].state = tasks[t].state /\ tasks'[t].attempts = tasks[t].attempts
    BY <1>5, <2>1, UpdateDataRows DEF MergeUpdate, TypeOK
  <2>3. Goto(c, "boost") /\ cur' = cur /\ ent' = ent /\ UNCHANGED <<todo, phase, retries>>
    BY <1>5 DEF MergeUpdate
  <2>4. Type # "changes_stream" => (cur[c] \in TaskId => StartsLeft(ent[c], retries[cur[c]]))
    BY <1>c DEF StartsOK
  <2> QED BY <1>c, <2>2, <2>3, <2>4, StartsLocal DEF Goto, TypeOK
<1>6. ASSUME BoostQueued(c)
      PROVE  StartsOK'
  BY <1>6, <1>c, StartsGoto DEF BoostQueued
<1>7. ASSUME BoostSkipped(c)
      PROVE  StartsOK'
  BY <1>7, <1>c, StartsReturn DEF BoostSkipped
<1>8. ASSUME Insert(c)
      PROVE  StartsOK'
  <2>1. cur[c] \in TaskId
    BY <1>8, <1>c, BusyHasTask DEF Insert
  <2>2. \A t \in TaskId : tasks'[t] = tasks[t] \/ (t = cur[c] /\ tasks'[t] = ent[c])
    BY <1>8, <2>1 DEF Insert, TypeOK
  <2>3. \A q \in Proc \ {c} : pc'[q] = pc[q] /\ cur'[q] = cur[q] /\ ent'[q] = ent[q]
    BY <1>8 DEF Insert, Goto, TypeOK
  <2> QED BY <1>8, <1>c, <2>1, <2>2, <2>3, StartsWrite DEF Insert
<1>9. ASSUME Adopt(c)
      PROVE  StartsOK'
  <2>1. ASSUME NEW u \in SameBizId(cur[c]), TakeUp(c, u, ent[c], "push")
        PROVE  StartsOK'
    <3>1. u \in TaskId /\ ent[c] \in Row /\ ent[c].attempts \in Nat
      BY <1>c DEF SameBizId, LiveTasks, TypeOK, Row, RowWith
    <3>2. Type # "changes_stream" => ent[c].attempts = 0
      BY <1>9, <1>c DEF Adopt, StartsOK
    <3>3. Type # "changes_stream" => StartsLeft(ent[c], retries[u])
      BY <3>1, <3>2, BoundAssumption DEF StartsLeft, TypeOK
    <3> QED BY <1>9, <1>c, <2>1, <3>1, <3>3, StartsTakeUp DEF Adopt
  <2>2. ASSUME Return(c)
        PROVE  StartsOK'
    BY <1>9, <1>c, <2>2, StartsReturn DEF Adopt
  <2> QED BY <1>9, <2>1, <2>2 DEF Adopt
<1> QED BY <1>1, <1>2, <1>3, <1>4, <1>5, <1>6, <1>7, <1>8, <1>9 DEF ClientStep

LEMMA StartsWorker ==
  ASSUME TypeOK, EntOK, IdsResolve, StartsOK, NEW w \in Worker, WorkerStep(w)
  PROVE  StartsOK'
<1> USE DEF tables, locals, sweep, ghosts
<1>w. w \in Proc /\ {"fetch", "claim", "run", "save", "find"} \subseteq PC
  BY DEF Proc, PC
<1>1. ASSUME PopTask(w)
      PROVE  StartsOK'
  <2>1. Head(queue) \in TaskId
    BY <1>1, HeadTailProperties DEF PopTask, TypeOK
  <2>2. Absent \in Row /\ StartsLeft(Absent, retries[Head(queue)])
    BY <2>1, RowKinds, BoundAssumption DEF StartsLeft, Absent, TypeOK
  <2> QED BY <1>1, <1>w, <2>1, <2>2, StartsTakeUp DEF PopTask
<1>2. ASSUME FetchTask(w)
      PROVE  StartsOK'
  <2>1. cur[w] \in TaskId
    BY <1>2, <1>w, BusyHasTask DEF FetchTask
  <2> DEFINE found == FindTask(tasks, history, cur[w])
  <2>2. CASE found.state = "waiting"
    <3>1. found = tasks[cur[w]] /\ found \in Row
      BY <2>1, <2>2, RowKinds DEF FindTask, TypeOK, HistoryRow, RowWith, FinalState
    <3>2. Started(found) \in Row /\ Started(found).attempts = found.attempts + 1
          /\ Started(found).state = "processing"
      BY <3>1, StartedRow
    <3>3. Type # "changes_stream" => found.attempts < MaxAttempts + retries[cur[w]]
      BY <2>1, <2>2, <3>1 DEF StartsOK, StartsLeft
    <3>4. Type # "changes_stream" => StartsLeft(Started(found), retries[cur[w]])
      <4>1. found.attempts \in Nat /\ MaxAttempts \in Nat /\ retries[cur[w]] \in Nat
        BY <2>1, <3>1, BoundAssumption DEF TypeOK, Row, RowWith
      <4> QED BY <3>2, <3>3, <4>1 DEF StartsLeft
    <3>5. TakeUp(w, cur[w], Started(found), "claim")
      BY <1>2, <2>2 DEF FetchTask
    <3> QED BY <1>2, <1>w, <2>1, <3>2, <3>4, <3>5, StartsTakeUp DEF FetchTask
  <2>3. CASE found.state # "waiting"
    BY <1>2, <1>w, <2>3, StartsReturn DEF FetchTask
  <2> QED BY <2>2, <2>3
<1>3. ASSUME ClaimTask(w)
      PROVE  StartsOK'
  <2>1. cur[w] \in TaskId
    BY <1>3, <1>w, BusyHasTask DEF ClaimTask
  <2>2. CASE CanClaim(tasks, cur[w], ent[w])
    <3>1. \A t \in TaskId : tasks'[t] = tasks[t] \/ (t = cur[w] /\ tasks'[t] = ent[w])
      BY <1>3, <2>1, <2>2 DEF ClaimTask, TypeOK
    <3>2. /\ \A q \in Proc \ {w} : pc'[q] = pc[q] /\ cur'[q] = cur[q] /\ ent'[q] = ent[q]
          /\ pc'[w] = "run" /\ cur'[w] = cur[w] /\ ent'[w] = ent[w]
      BY <1>3, <1>w, <2>2 DEF ClaimTask, Goto, TypeOK
    <3> QED BY <1>3, <1>w, <2>1, <3>1, <3>2, StartsWrite DEF ClaimTask
  <2>3. CASE ~CanClaim(tasks, cur[w], ent[w])
    BY <1>3, <1>w, <2>3, StartsReturn DEF ClaimTask
  <2> QED BY <2>2, <2>3
<1>4. ASSUME AppendTaskLog(w)
      PROVE  StartsOK'
  <2>1. cur[w] \in TaskId
    BY <1>4, <1>w, BusyHasTask DEF AppendTaskLog
  <2>2. \A t \in TaskId : tasks'[t] = tasks[t] \/ (t = cur[w] /\ tasks'[t] = ent[w])
    BY <1>4, <2>1 DEF AppendTaskLog, SaveTask, TypeOK
  <2> QED BY <1>4, <1>w, <2>1, <2>2, StartsWrite DEF AppendTaskLog
<1>5. ASSUME Retry(w)
      PROVE  StartsOK'
  <2>1. cur[w] \in TaskId /\ ent[w] \in Row
    BY <1>5, <1>w, BusyHasTask DEF Retry, TypeOK
  <2> DEFINE task == [ent[w] EXCEPT !.state = "waiting"]
  <2>2. /\ \A q \in Proc \ {w} : pc'[q] = pc[q] /\ cur'[q] = cur[q] /\ ent'[q] = ent[q]
        /\ pc'[w] = "save" /\ cur'[w] = cur[w] /\ ent'[w] = task
    BY <1>5, <1>w, <2>1, TakeUpLocals DEF Retry
  <2>3. /\ \A t \in TaskId : retries[t] \in Nat /\ retries'[t] \in Nat /\ retries[t] <= retries'[t]
        /\ retries'[cur[w]] = retries[cur[w]] + 1
    BY <1>5, <2>1, BoundAssumption DEF Retry, TypeOK
  <2>4. Type # "changes_stream" => StartsLeft(task, retries'[cur[w]])
    <3>1. task.attempts = ent[w].attempts /\ ent[w].attempts \in Nat
      BY <2>1 DEF Row, RowWith
    <3>2. Type # "changes_stream" => ent[w].attempts <= MaxAttempts + retries[cur[w]]
      BY <1>w, <2>1 DEF StartsOK, StartsLeft
    <3> QED BY <2>1, <2>3, <3>1, <3>2, BoundAssumption DEF StartsLeft
  <2>5. UNCHANGED <<tasks, todo, phase>>
    BY <1>5 DEF Retry
  <2> HIDE DEF task
  <2> SUFFICES ASSUME Type # "changes_stream" PROVE StartsOK'
    BY DEF StartsOK
  <2>6. \A q \in Proc : pc'[q] \in {"insert", "adopt"} => ent'[q].attempts = 0
    BY <2>2 DEF StartsOK
  <2>7. ASSUME NEW t \in TaskId
        PROVE  /\ StartsLeft(tasks'[t], retries'[t])
               /\ \A q \in Proc : cur'[q] = t => StartsLeft(ent'[q], retries'[t])
               /\ \A h \in Handler :
                    /\ StartsLeft(todo'[h][t], retries'[t])
                    /\ phase'[h] = "waiting" /\ Exists(todo'[h][t]) => todo'[h][t].state = "waiting"
    <3>1. tasks[t] \in Row /\ StartsLeft(tasks[t], retries[t])
      BY RowKinds DEF TypeOK, StartsOK
    <3>2. StartsLeft(tasks'[t], retries'[t])
      BY <2>3, <2>5, <3>1, StartsGrow
    <3>3. ASSUME NEW q \in Proc, cur'[q] = t
          PROVE  StartsLeft(ent'[q], retries'[t])
      <4>1. CASE q = w
        BY <2>2, <2>4, <3>3, <4>1
      <4>2. CASE q # w
        <5>1. ent[q] \in Row /\ StartsLeft(ent[q], retries[t])
          BY <2>2, <3>3, <4>2 DEF TypeOK, StartsOK
        <5> QED BY <2>2, <2>3, <4>2, <5>1, StartsGrow
      <4> QED BY <4>1, <4>2
    <3>4. ASSUME NEW h \in Handler
          PROVE  /\ StartsLeft(todo'[h][t], retries'[t])
                 /\ phase'[h] = "waiting" /\ Exists(todo'[h][t]) => todo'[h][t].state = "waiting"
      <4>1. todo[h][t] \in Row /\ StartsLeft(todo[h][t], retries[t])
        BY RowKinds DEF TypeOK, StartsOK
      <4>2. StartsLeft(todo[h][t], retries'[t])
        BY <2>3, <4>1, StartsGrow
      <4> QED BY <2>5, <4>2 DEF StartsOK
    <3> QED BY <3>2, <3>3, <3>4
  <2> QED BY <2>6, <2>7 DEF StartsOK, Exists
<1>6. ASSUME NEW state \in {"success", "fail"}, Finish(w, state)
      PROVE  StartsOK'
  <2>1. cur[w] \in TaskId /\ ent[w] \in Row
    BY <1>6, <1>w, BusyHasTask DEF Finish, TypeOK
  <2> DEFINE task == [ent[w] EXCEPT !.state = state]
  <2>2. task \in Row /\ task.attempts = ent[w].attempts /\ task.state # "waiting"
    BY <2>1 DEF Row, RowWith, TaskState, FinalState
  <2>3. Type # "changes_stream" => StartsLeft(task, retries[cur[w]])
    BY <1>w, <2>1, <2>2 DEF StartsOK, StartsLeft
  <2>4. TakeUp(w, cur[w], task, "find")
    BY <1>6 DEF Finish
  <2> QED BY <1>6, <1>w, <2>1, <2>2, <2>3, <2>4, StartsTakeUp DEF Finish
<1> QED BY <1>1, <1>2, <1>3, <1>4, <1>5, <1>6 DEF WorkerStep

\* A step that gives handler h another list.
LEMMA StartsList ==
  ASSUME TypeOK, StartsOK, NEW h \in Handler,
         UNCHANGED <<tasks, cur, ent, retries>>,
         \A q \in Proc : pc'[q] = pc[q] \/ pc'[q] \in {"idle", "sweep"},
         \A g \in Handler \ {h} : todo'[g] = todo[g] /\ phase'[g] = phase[g],
         \A t \in TaskId : \/ todo'[h][t] = Absent
                           \/ /\ todo'[h][t] = tasks[t]
                              /\ phase'[h] = "waiting" => tasks[t].state = "waiting"
  PROVE  StartsOK'
<1> SUFFICES ASSUME Type # "changes_stream" PROVE StartsOK'
  BY DEF StartsOK
<1>1. \A q \in Proc : pc'[q] \in {"insert", "adopt"} => ent'[q].attempts = 0
  BY DEF StartsOK
<1>2. ASSUME NEW t \in TaskId, NEW g \in Handler
      PROVE  /\ StartsLeft(todo'[g][t], retries'[t])
             /\ phase'[g] = "waiting" /\ Exists(todo'[g][t]) => todo'[g][t].state = "waiting"
  <2>1. StartsLeft(tasks[t], retries[t])
    BY DEF StartsOK
  <2>2. StartsLeft(Absent, retries[t]) /\ ~Exists(Absent)
    BY BoundAssumption DEF StartsLeft, Absent, Exists, TypeOK
  <2>3. CASE g = h
    BY <2>1, <2>2, <2>3
  <2>4. CASE g # h
    BY <2>4 DEF StartsOK
  <2> QED BY <2>3, <2>4
<1>3. ASSUME NEW t \in TaskId
      PROVE  /\ StartsLeft(tasks'[t], retries'[t])
             /\ \A q \in Proc : cur'[q] = t => StartsLeft(ent'[q], retries'[t])
  BY DEF StartsOK
<1> QED BY <1>1, <1>2, <1>3 DEF StartsOK, Exists

LEMMA StartsHandler ==
  ASSUME TypeOK, EntOK, StartsOK, NEW h \in Handler, HandlerStep(h)
  PROVE  StartsOK'
<1> USE DEF tables, locals, sweep, ghosts
<1>h. h \in Proc /\ {"idle", "sweep", "save", "find"} \subseteq PC
  BY DEF Proc, PC
<1>1. ASSUME SweepProcessing(h)
      PROVE  StartsOK'
  <2>1. \A t \in TaskId : todo'[h][t] = Absent \/ todo'[h][t] = tasks[t]
    BY <1>1 DEF SweepProcessing, TimeoutTasks, TypeOK
  <2>2. phase'[h] = "processing" /\ \A g \in Handler \ {h} : todo'[g] = todo[g] /\ phase'[g] = phase[g]
    BY <1>1 DEF SweepProcessing, TypeOK
  <2>3. \A q \in Proc : pc'[q] = pc[q] \/ pc'[q] \in {"idle", "sweep"}
    BY <1>1 DEF SweepProcessing, Goto, TypeOK
  <2> QED BY <1>1, <2>1, <2>2, <2>3, StartsList DEF SweepProcessing
<1>2. ASSUME SweepWaiting(h)
      PROVE  StartsOK'
  <2>1. \A t \in TaskId : \/ todo'[h][t] = Absent
                          \/ todo'[h][t] = tasks[t] /\ tasks[t].state = "waiting"
    BY <1>2 DEF SweepWaiting, TimeoutTasks, TypeOK
  <2>2. \A g \in Handler \ {h} : todo'[g] = todo[g] /\ phase'[g] = phase[g]
    BY <1>2 DEF SweepWaiting, TypeOK
  <2> QED BY <1>2, <2>1, <2>2, StartsList DEF SweepWaiting
<1>3. ASSUME SweepEnd(h)
      PROVE  StartsOK'
  <2>1. \A t \in TaskId : ~Exists(todo[h][t])
    BY <1>3 DEF SweepEnd, ListDone
  <2>2. todo' = todo /\ phase'[h] = "processing" /\ \A g \in Handler \ {h} : phase'[g] = phase[g]
    BY <1>3 DEF SweepEnd, TypeOK
  <2>3. \A q \in Proc : pc'[q] = pc[q] \/ pc'[q] \in {"idle", "sweep"}
    BY <1>3 DEF SweepEnd, Goto, TypeOK
  <2>4. UNCHANGED <<tasks, cur, ent, retries>>
    BY <1>3 DEF SweepEnd
  <2> SUFFICES ASSUME Type # "changes_stream" PROVE StartsOK'
    BY DEF StartsOK
  <2>5. \A q \in Proc : pc'[q] \in {"insert", "adopt"} => ent'[q].attempts = 0
    BY <2>3, <2>4 DEF StartsOK
  <2>6. ASSUME NEW t \in TaskId, NEW g \in Handler, phase'[g] = "waiting", Exists(todo'[g][t])
        PROVE  todo'[g][t].state = "waiting"
    BY <2>1, <2>2, <2>6 DEF StartsOK
  <2> QED BY <2>2, <2>4, <2>5, <2>6 DEF StartsOK, StartsLeft, Exists
<1>4. ASSUME NEW t \in TaskId, NEW state \in {"waiting", "timeout"}, NEW label \in {"save", "find"},
             NextOnList(h, t, state, label),
             state = "waiting" => phase[h] = "waiting" \/ ~GivesUp(todo[h][t])
      PROVE  StartsOK'
  <2> DEFINE task == [todo[h][t] EXCEPT !.state = state]
  <2>1. todo[h][t] \in Row /\ task.attempts = todo[h][t].attempts /\ task.state = state
        /\ todo[h][t].attempts \in Nat /\ retries[t] \in Nat
    BY RowKinds, BoundAssumption DEF TypeOK, Row, RowWith
  <2>2. /\ \A q \in Proc \ {h} : pc'[q] = pc[q] /\ cur'[q] = cur[q] /\ ent'[q] = ent[q]
        /\ pc'[h] = label /\ cur'[h] = t /\ ent'[h] = task
    BY <1>4, <1>h, TakeUpLocals DEF NextOnList
  <2>3. Type # "changes_stream" => StartsLeft(task, retries[t])
    <3>1. CASE state = "timeout"
      BY <2>1, <3>1 DEF StartsOK, StartsLeft
    <3>2. CASE state = "waiting" /\ phase[h] = "waiting"
      BY <1>4, <2>1, <3>2 DEF StartsOK, StartsLeft, NextOnList
    <3>3. CASE state = "waiting" /\ ~GivesUp(todo[h][t])
      BY <2>1, <3>3, BoundAssumption DEF GivesUp, StartsLeft
    <3> QED BY <1>4, <3>1, <3>2, <3>3
  <2>4. /\ UNCHANGED <<tasks, phase, retries>>
        /\ \A g \in Handler, u \in TaskId : todo'[g][u] = todo[g][u] \/ todo'[g][u] = Absent
    BY <1>4 DEF NextOnList, TypeOK
  <2> HIDE DEF task
  <2> SUFFICES ASSUME Type # "changes_stream" PROVE StartsOK'
    BY DEF StartsOK
  <2>5. \A q \in Proc : pc'[q] \in {"insert", "adopt"} => ent'[q].attempts = 0
    BY <2>2 DEF StartsOK
  <2>6. ASSUME NEW u \in TaskId, NEW g \in Handler
        PROVE  /\ StartsLeft(todo'[g][u], retries'[u])
               /\ phase'[g] = "waiting" /\ Exists(todo'[g][u]) => todo'[g][u].state = "waiting"
    <3>1. StartsLeft(Absent, retries[u]) /\ ~Exists(Absent)
      BY BoundAssumption DEF StartsLeft, Absent, Exists, TypeOK
    <3> QED BY <2>4, <3>1 DEF StartsOK
  <2>7. ASSUME NEW u \in TaskId
        PROVE  /\ StartsLeft(tasks'[u], retries'[u])
               /\ \A q \in Proc : cur'[q] = u => StartsLeft(ent'[q], retries'[u])
    BY <2>2, <2>3, <2>4 DEF StartsOK
  <2> QED BY <2>5, <2>6, <2>7 DEF StartsOK, Exists
<1>5. ASSUME NEW t \in TaskId, TimeoutFinish(h, t)
      PROVE  StartsOK'
  BY <1>4, <1>5 DEF TimeoutFinish
<1>6. ASSUME NEW t \in TaskId, TimeoutRetry(h, t)
      PROVE  StartsOK'
  BY <1>4, <1>6 DEF TimeoutRetry
<1>7. ASSUME HandlerCrash(h)
      PROVE  StartsOK'
  <2>1. /\ \A q \in Proc \ {h} : pc'[q] = pc[q] /\ cur'[q] = cur[q] /\ ent'[q] = ent[q]
        /\ pc'[h] = "idle" /\ cur'[h] = NoTask /\ ent'[h] = Absent
    BY <1>7, <1>h, TakeUpLocals DEF HandlerCrash
  <2>2. /\ UNCHANGED <<tasks, retries>>
        /\ \A g \in Handler \ {h} : todo'[g] = todo[g] /\ phase'[g] = phase[g]
        /\ \A u \in TaskId : todo'[h][u] = Absent
    BY <1>7 DEF HandlerCrash, TypeOK
  <2> SUFFICES ASSUME Type # "changes_stream" PROVE StartsOK'
    BY DEF StartsOK
  <2>5. \A q \in Proc : pc'[q] \in {"insert", "adopt"} => ent'[q].attempts = 0
    BY <2>1 DEF StartsOK
  <2>6. ASSUME NEW u \in TaskId, NEW g \in Handler
        PROVE  /\ StartsLeft(todo'[g][u], retries'[u])
               /\ phase'[g] = "waiting" /\ Exists(todo'[g][u]) => todo'[g][u].state = "waiting"
    <3>1. StartsLeft(Absent, retries[u]) /\ ~Exists(Absent)
      BY BoundAssumption DEF StartsLeft, Absent, Exists, TypeOK
    <3> QED BY <2>2, <3>1 DEF StartsOK
  <2>7. ASSUME NEW u \in TaskId
        PROVE  /\ StartsLeft(tasks'[u], retries'[u])
               /\ \A q \in Proc : cur'[q] = u => StartsLeft(ent'[q], retries'[u])
    BY <2>1, <2>2, TaskAssumption DEF StartsOK
  <2> QED BY <2>5, <2>6, <2>7 DEF StartsOK, Exists
<1> QED BY <1>1, <1>2, <1>3, <1>5, <1>6, <1>7 DEF HandlerStep

LEMMA StartsShared ==
  ASSUME TypeOK, EntOK, StartsOK, NEW p \in Proc, SharedStep(p)
  PROVE  StartsOK'
<1> USE DEF tables, locals, sweep, ghosts
<1>p. cur[p] \in TaskId
  BY BusyHasTask
  DEF SharedStep, PushTask, SaveRetry, FindFinished, SaveHistory, RemoveTask, CallFails
<1>c. {"push", "history", "remove"} \subseteq PC
  BY DEF PC
<1>1. CASE PushTask(p)
  BY <1>1, StartsReturn DEF PushTask
<1>2. CASE SaveRetry(p)
  <2>1. \A t \in TaskId : tasks'[t] = tasks[t] \/ (t = cur[p] /\ tasks'[t] = ent[p])
    BY <1>2, <1>p DEF SaveRetry, SaveTask, TypeOK
  <2>2. /\ \A q \in Proc \ {p} : pc'[q] = pc[q] /\ cur'[q] = cur[q] /\ ent'[q] = ent[q]
        /\ pc'[p] = "push" /\ cur'[p] = cur[p] /\ ent'[p] = ent[p]
    BY <1>2, GotoLocals DEF SaveRetry
  <2> QED BY <1>2, <1>p, <2>1, <2>2, StartsWrite DEF SaveRetry
<1>3. CASE FindFinished(p)
  BY <1>3, <1>c, StartsGoto, StartsReturn DEF FindFinished
<1>4. CASE SaveHistory(p)
  BY <1>4, <1>c, StartsGoto DEF SaveHistory
<1>5. CASE RemoveTask(p)
  <2>1. \A t \in TaskId : tasks'[t] = tasks[t] \/ tasks'[t] = Absent
    BY <1>5, <1>p DEF RemoveTask, TypeOK
  <2>2. /\ \A q \in Proc \ {p} : pc'[q] = pc[q] /\ cur'[q] = cur[q] /\ ent'[q] = ent[q]
        /\ pc'[p] \in {"idle", "sweep"} /\ cur'[p] = NoTask
    BY <1>5, ReturnLocals DEF RemoveTask
  <2> QED BY <1>5, <1>p, <2>1, <2>2, StartsWrite DEF RemoveTask
<1>6. CASE CallFails(p)
  BY <1>6, StartsReturn DEF CallFails
<1> QED BY <1>1, <1>2, <1>3, <1>4, <1>5, <1>6 DEF SharedStep

LEMMA StartsStep == Inductive /\ StartsOK /\ [Next]_vars => StartsOK'
<1> SUFFICES ASSUME Inductive, StartsOK, [Next]_vars PROVE StartsOK'
  OBVIOUS
<1>1. TypeOK /\ EntOK /\ IdsResolve
  BY DEF Inductive
<1>2. ASSUME NEW t \in TaskId, TimePasses(t)
      PROVE  StartsOK'
  BY <1>2 DEF TimePasses, StartsOK, locals, sweep, ghosts, Exists
<1>3. CASE UNCHANGED vars
  BY <1>3 DEF vars, tables, locals, sweep, ghosts, StartsOK, Exists
<1> QED BY <1>1, <1>2, <1>3, StartsClient, StartsWorker, StartsHandler, StartsShared DEF Next

\* The attempts of a row count its starts, unless a save has lowered them.
LEMMA InitCounted == Init => StartsCounted
<1> SUFFICES ASSUME Init, NEW t \in TaskId PROVE CountedAt(t)
  BY DEF StartsCounted
<1> QED BY BoundAssumption DEF Init, CountedAt, Absent, Exists

\* A step that counts no start and lowers no row unnoticed.  A row that goes had
\* the attempts that StartsOK bounds.
LEMMA CountedKeeps ==
  ASSUME TypeOK, NEW t \in TaskId, CountedAt(t),
         starts'[t] = starts[t], Known(t) => Known(t)',
         Exists(tasks'[t]) /\ Exists(tasks[t]) => tasks[t].attempts <= tasks'[t].attempts,
         Exists(tasks'[t]) => tasks'[t].attempts \in Nat,
         Exists(tasks[t]) \/ ~Exists(tasks'[t]) \/ ~Known(t),
         retries'[t] \in Nat, retries[t] <= retries'[t]
  PROVE  CountedAt(t)'
<1>1. /\ starts[t] \in Nat /\ tasks[t].attempts \in Nat /\ retries[t] \in Nat /\ MaxAttempts \in Nat
  BY BoundAssumption DEF TypeOK, LiveRow, RowWith
<1>2. Type # "changes_stream" => starts'[t] <= MaxAttempts + retries'[t]
  BY <1>1 DEF CountedAt
<1>3. ~Known(t)' => starts'[t] = 0
  BY DEF CountedAt
<1>4. Exists(tasks'[t]) => starts'[t] <= tasks'[t].attempts
  BY <1>1 DEF CountedAt
<1> QED BY <1>2, <1>3, <1>4 DEF CountedAt, Exists

LEMMA CountedStep == Inductive /\ StartsOK /\ StartsCounted /\ [Next]_vars => StartsCounted'
<1> SUFFICES ASSUME Inductive, StartsOK, StartsCounted, [Next]_vars,
                    NEW t \in TaskId, t \notin setBack'
             PROVE  CountedAt(t)'
  BY DEF StartsCounted
<1> USE DEF tables, locals, sweep, ghosts
<1>t. TypeOK /\ EntOK /\ IdsFresh /\ IdsResolve /\ TypeOK'
  BY InductiveStep DEF Inductive
<1>o. TypeOK
  BY <1>t
<1>n. /\ retries[t] \in Nat /\ retries'[t] \in Nat
      /\ tasks[t].attempts \in Nat /\ tasks'[t].attempts \in Nat /\ starts[t] \in Nat
  BY <1>t, BoundAssumption DEF TypeOK, LiveRow, RowWith
<1>k. Known(t) => Known(t)'
  BY <1>t, KnownStep DEF vars, Known, Exists
<1>1. CASE \E w \in Worker : ClaimTask(w)
  <2>1. PICK w \in Worker : ClaimTask(w)
    BY <1>1
  <2>2. cur[w] \in TaskId /\ t \notin setBack /\ CountedAt(t) /\ w \in Proc
    BY <1>t, <2>1, BusyHasTask DEF ClaimTask, StartsCounted, Proc
  <2>3. CASE CanClaim(tasks, cur[w], ent[w]) /\ cur[w] = t
    <3>1. /\ Exists(tasks[t]) /\ tasks'[t] = ent[w] /\ ent[w].attempts = tasks[t].attempts + 1
          /\ starts'[t] = starts[t] + 1 /\ retries' = retries
      BY <1>t, <2>1, <2>2, <2>3 DEF ClaimTask, CanClaim, TypeOK
    <3>2. Type # "changes_stream" => ent[w].attempts <= MaxAttempts + retries[t]
      BY <2>2, <2>3 DEF StartsOK, StartsLeft
    <3>3. starts[t] <= tasks[t].attempts
      BY <2>2, <3>1 DEF CountedAt
    <3>4. starts'[t] <= tasks'[t].attempts
      BY <1>n, <3>1, <3>3
    <3>5. Type # "changes_stream" => starts'[t] <= MaxAttempts + retries'[t]
      BY <1>n, <3>1, <3>2, <3>4, BoundAssumption
    <3>6. Known(t)'
      BY <1>k, <3>1 DEF Known
    <3> QED BY <3>4, <3>5, <3>6 DEF CountedAt, Exists
  <2>4. CASE ~(CanClaim(tasks, cur[w], ent[w]) /\ cur[w] = t)
    <3>1. tasks'[t] = tasks[t] /\ starts'[t] = starts[t] /\ retries' = retries
      BY <1>t, <2>1, <2>2, <2>4 DEF ClaimTask, TypeOK
    <3> QED BY <1>t, <1>n, <1>k, <2>2, <3>1, CountedKeeps DEF Exists
  <2> QED BY <2>3, <2>4
<1>2. ASSUME ~\E w \in Worker : ClaimTask(w)
      PROVE  /\ starts' = starts /\ setBack \subseteq setBack'
             /\ retries[t] <= retries'[t]
             /\ Exists(tasks'[t]) /\ Exists(tasks[t]) => tasks[t].attempts <= tasks'[t].attempts
             /\ Exists(tasks[t]) \/ ~Exists(tasks'[t]) \/ ~Known(t)
  <2> DEFINE Goal == /\ starts' = starts /\ setBack \subseteq setBack'
                     /\ retries[t] <= retries'[t]
                     /\ Exists(tasks'[t]) /\ Exists(tasks[t]) => tasks[t].attempts <= tasks'[t].attempts
                     /\ Exists(tasks[t]) \/ ~Exists(tasks'[t]) \/ ~Known(t)
  <2>1. ASSUME starts' = starts, setBack \subseteq setBack', retries' = retries,
               tasks'[t].state = tasks[t].state, tasks'[t].attempts = tasks[t].attempts
        PROVE  Goal
    BY <1>n, <2>1 DEF Exists
  <2>2. ASSUME NEW p \in Proc, cur[p] \in TaskId, SaveCopy(p)
        PROVE  Goal
    <3>1. \/ tasks'[t] = tasks[t]
          \/ t = cur[p] /\ Exists(tasks[t])
      BY <1>t, <2>2 DEF SaveTask, TypeOK
    <3>2. t = cur[p] => tasks[t].attempts <= tasks'[t].attempts
      BY <1>n, <2>2
    <3> QED BY <1>n, <2>2, <3>1, <3>2 DEF Exists
  <2>3. ASSUME NEW c \in Client, ClientStep(c)
        PROVE  Goal
    <3>c. c \in Proc
      BY DEF Proc
    <3>1. CASE Insert(c)
      <4>1. cur[c] \in TaskId /\ ~Known(cur[c])
        BY <1>t, <3>c, <3>1, BusyHasTask DEF Insert, IdsFresh
      <4>2. tasks'[t] = tasks[t] \/ t = cur[c]
        BY <1>t, <3>1, <4>1 DEF Insert, TypeOK
      <4> QED BY <1>n, <3>1, <4>1, <4>2 DEF Insert, Known, Exists
    <3>2. CASE MergeUpdate(c)
      <4>1. cur[c] \in TaskId /\ ent[c] \in Row
        BY <1>t, <3>c, <3>2, BusyHasTask DEF MergeUpdate, TypeOK
      <4>2. \A u \in TaskId : tasks'[u].state = tasks[u].state /\ tasks'[u].attempts = tasks[u].attempts
        <5>1. tasks \in [TaskId -> LiveRow]
          BY <1>o DEF TypeOK
        <5>2. tasks' = UpdateData(tasks, cur[c], ent[c])
          BY <3>2 DEF MergeUpdate
        <5> QED BY <4>1, <5>1, <5>2, UpdateDataRows
      <4>3. starts' = starts /\ setBack' = setBack /\ retries' = retries
        BY <3>2 DEF MergeUpdate
      <4> QED BY <2>1, <4>2, <4>3
    <3>3. CASE ~Insert(c) /\ ~MergeUpdate(c)
      BY <2>1, <2>3, <3>3 DEF ClientStep, CreateNew, CreateExisting, CreateSwallowed,
                              MergeRead, BoostQueued, BoostSkipped, Adopt
    <3> QED BY <3>1, <3>2, <3>3
  <2>4. ASSUME NEW w \in Worker, WorkerStep(w)
        PROVE  Goal
    <3>w. w \in Proc
      BY DEF Proc
    <3>1. CASE AppendTaskLog(w)
      BY <1>t, <2>2, <3>w, <3>1, BusyHasTask DEF AppendTaskLog
    <3>2. CASE Retry(w)
      <4>1. cur[w] \in TaskId
        BY <1>t, <3>w, <3>2, BusyHasTask DEF Retry
      <4>2. retries'[t] = retries[t] \/ retries'[t] = retries[t] + 1
        BY <1>t, <3>2, <4>1 DEF Retry, TypeOK
      <4> QED BY <1>n, <3>2, <4>2 DEF Retry, Exists
    <3>3. CASE PopTask(w) \/ FetchTask(w) \/ \E state \in {"success", "fail"} : Finish(w, state)
      BY <2>1, <3>3 DEF PopTask, FetchTask, Finish
    <3> QED BY <1>2, <2>4, <3>1, <3>2, <3>3 DEF WorkerStep
  <2>5. ASSUME NEW h \in Handler, HandlerStep(h)
        PROVE  Goal
    BY <2>1, <2>5 DEF HandlerStep, SweepProcessing, SweepWaiting, SweepEnd, TimeoutFinish,
                      TimeoutRetry, NextOnList, HandlerCrash
  <2>6. ASSUME NEW p \in Proc, SharedStep(p)
        PROVE  Goal
    <3>1. CASE SaveRetry(p)
      BY <1>t, <2>2, <3>1, BusyHasTask DEF SaveRetry
    <3>2. CASE RemoveTask(p)
      <4>1. cur[p] \in TaskId
        BY <1>t, <3>2, BusyHasTask DEF RemoveTask
      <4>2. tasks'[t] = tasks[t] \/ ~Exists(tasks'[t])
        BY <1>t, <3>2, <4>1 DEF RemoveTask, TypeOK, Exists, Absent
      <4> QED BY <1>n, <3>2, <4>2 DEF RemoveTask, Exists
    <3>3. CASE PushTask(p) \/ FindFinished(p) \/ SaveHistory(p) \/ CallFails(p)
      BY <2>1, <3>3 DEF PushTask, FindFinished, SaveHistory, CallFails
    <3> QED BY <2>6, <3>1, <3>2, <3>3 DEF SharedStep
  <2>7. CASE UNCHANGED vars \/ \E u \in TaskId : TimePasses(u)
    BY <2>1, <2>7 DEF vars, TimePasses
  <2> QED BY <2>3, <2>4, <2>5, <2>6, <2>7 DEF Next
<1>3. CASE ~\E w \in Worker : ClaimTask(w)
  <2>1. t \notin setBack /\ CountedAt(t)
    BY <1>2, <1>3 DEF StartsCounted
  <2> QED BY <1>t, <1>n, <1>k, <1>2, <1>3, <2>1, CountedKeeps
<1> QED BY <1>1, <1>3

\* Workers start a task at most MaxAttempts times plus once per retry that
\* executeTask asked for (TaskService.ts:119-220), unless the save of an older
\* copy has lowered the attempts that the handler goes by.
THEOREM StartsBounded == Spec => []StartsLimited
<1>1. Init => StartsOK /\ StartsCounted
  BY InitStarts, InitCounted
<1>2. Inductive /\ StartsOK /\ StartsCounted /\ [Next]_vars => StartsOK' /\ StartsCounted'
  BY StartsStep, CountedStep
<1>3. StartsCounted => StartsLimited
  BY DEF StartsCounted, CountedAt, StartsLimited
<1> QED BY <1>1, <1>2, <1>3, InductiveInvariant, PTL DEF Spec

-----------------------------------------------------------------------------
(* Nothing is stranded *)

\* push puts the id in the queue and lets go of no other.
LEMMA PushKeeps ==
  ASSUME NEW q \in Seq(TaskId), NEW id \in TaskId, NEW u \in TaskId,
         u = id \/ Position(q, u) # {}
  PROVE  Position(Push(q, id), u) # {}
<1>1. CASE Position(q, id) = {}
  <2>1. Push(q, id) = Append(q, id)
    BY <1>1 DEF Push
  <2>2. /\ DOMAIN Append(q, id) = 1..(Len(q) + 1) /\ DOMAIN q = 1..Len(q) /\ Len(q) \in Nat
        /\ Append(q, id)[Len(q) + 1] = id
        /\ \A i \in 1..Len(q) : Append(q, id)[i] = q[i]
    BY AppendProperties
  <2>3. CASE u = id
    BY <2>1, <2>2, <2>3 DEF Position
  <2>4. CASE u # id
    <3>1. PICK i \in 1..Len(q) : q[i] = u
      BY <2>2, <2>4 DEF Position
    <3>2. i \in DOMAIN Append(q, id) /\ Append(q, id)[i] = u
      BY <2>2, <3>1
    <3> QED BY <2>1, <3>2 DEF Position
  <2> QED BY <2>3, <2>4
<1>2. CASE Position(q, id) # {}
  <2> DEFINE i == CHOOSE k \in Position(q, id) : TRUE
             moved(k) == IF k < i THEN q[k]
                         ELSE IF k < Len(q) THEN q[k + 1] ELSE id
  <2>1. Push(q, id) = [k \in DOMAIN q |-> moved(k)]
    BY <1>2 DEF Push
  <2>2. i \in 1..Len(q) /\ q[i] = id /\ DOMAIN q = 1..Len(q) /\ Len(q) \in Nat
    BY <1>2 DEF Position
  <2>3. \E k \in 1..Len(q) : moved(k) = u
    <3> HIDE DEF i
    <3>1. CASE u = id
      <4>1. moved(Len(q)) = id /\ Len(q) \in 1..Len(q)
        BY <2>2
      <4> QED BY <3>1, <4>1
    <3>2. CASE u # id
      <4>1. PICK j \in 1..Len(q) : q[j] = u
        BY <2>2, <3>2 DEF Position
      <4>2. CASE j < i
        BY <4>1, <4>2
      <4>3. CASE ~(j < i)
        <5>1. j > i /\ j - 1 \in 1..Len(q) /\ ~(j - 1 < i) /\ j - 1 < Len(q) /\ (j - 1) + 1 = j
          BY <2>2, <3>2, <4>1, <4>3
        <5>2. moved(j - 1) = q[j]
          BY <5>1
        <5> QED BY <4>1, <5>1, <5>2
      <4> QED BY <4>2, <4>3
    <3> QED BY <3>1, <3>2
  <2> HIDE DEF moved
  <2>4. PICK k \in 1..Len(q) : moved(k) = u
    BY <2>3
  <2>5. k \in DOMAIN Push(q, id) /\ Push(q, id)[k] = u
    BY <2>1, <2>2, <2>4
  <2> QED BY <2>5 DEF Position
<1> QED BY <1>1, <1>2

\* Popping takes nothing but the head.
LEMMA PopKeeps ==
  ASSUME NEW q \in Seq(TaskId), q # <<>>, NEW u, u # Head(q), Position(q, u) # {}
  PROVE  Position(Tail(q), u) # {}
<1>1. PICK i \in DOMAIN q : q[i] = u
  BY DEF Position
<1>2. /\ Len(q) \in Nat /\ DOMAIN q = 1..Len(q) /\ Head(q) = q[1]
      /\ DOMAIN Tail(q) = 1..(Len(q) - 1)
      /\ \A k \in 1..(Len(q) - 1) : Tail(q)[k] = q[k + 1]
  <2>1. Len(q) \in Nat /\ Len(q) # 0 /\ DOMAIN q = 1..Len(q) /\ Head(q) = q[1]
    BY HeadTailProperties, EmptySeq
  <2>2. Tail(q) \in Seq(TaskId) /\ Len(Tail(q)) = Len(q) - 1
        /\ \A k \in 1..(Len(q) - 1) : Tail(q)[k] = q[k + 1]
    BY HeadTailProperties
  <2> QED BY <2>1, <2>2
<1>3. i # 1 /\ i - 1 \in 1..(Len(q) - 1) /\ (i - 1) + 1 = i
  BY <1>1, <1>2
<1>4. i - 1 \in DOMAIN Tail(q) /\ Tail(q)[i - 1] = u
  BY <1>1, <1>2, <1>3
<1> QED BY <1>4 DEF Position

\* What a step of p on top of CarriedAt has to keep for task t.
Keeps(p, t) ==
  /\ InQueue(t) => InQueue(t)' \/ Carries(p, t)'
  /\ \/ /\ tasks'[t].state = tasks[t].state /\ tasks'[t].attempts = tasks[t].attempts
        /\ tasks[t].state = "waiting" /\ Carries(p, t) => Carries(p, t)' \/ InQueue(t)'
        /\ tasks[t].state = "processing" /\ Holds(p, t) => Holds(p, t)'
     \/ /\ tasks'[t].state = "waiting" => Carries(p, t)'
        /\ tasks'[t].state = "processing" => Holds(p, t)'

LEMMA CarriedFrame ==
  ASSUME NEW t \in TaskId, NEW p \in Proc, CarriedAt(t), Keeps(p, t),
         \A q \in Proc \ {p} : pc'[q] = pc[q] /\ cur'[q] = cur[q] /\ ent'[q] = ent[q]
  PROVE  CarriedAt(t)'
<1>1. CASE /\ tasks'[t].state = "waiting" => Carries(p, t)'
           /\ tasks'[t].state = "processing" => Holds(p, t)'
  BY <1>1 DEF CarriedAt
<1>2. CASE /\ tasks'[t].state = tasks[t].state /\ tasks'[t].attempts = tasks[t].attempts
           /\ tasks[t].state = "waiting" /\ Carries(p, t) => Carries(p, t)' \/ InQueue(t)'
           /\ tasks[t].state = "processing" /\ Holds(p, t) => Holds(p, t)'
  <2>1. \A q \in Proc \ {p} : Carries(q, t) => Carries(q, t)'
    BY <1>2 DEF Carries
  <2>2. \A q \in Proc \ {p} : Holds(q, t) => Holds(q, t)'
    BY DEF Holds
  <2>3. tasks'[t].state = "processing" => \E q \in Proc : Holds(q, t)'
    BY <1>2, <2>2 DEF CarriedAt
  <2>4. CASE tasks'[t].state = "waiting"
    <3>1. tasks[t].state = "waiting"
      BY <1>2, <2>4
    <3>2. CASE InQueue(t)
      <4>1. InQueue(t)' \/ Carries(p, t)'
        BY <3>2 DEF Keeps
      <4> QED BY <2>3, <4>1 DEF CarriedAt
    <3>3. CASE Carries(p, t)
      BY <1>2, <3>1, <3>3 DEF CarriedAt
    <3>4. ASSUME NEW q \in Proc \ {p}, Carries(q, t)
          PROVE  CarriedAt(t)'
      <4>1. Carries(q, t)'
        BY <2>1, <3>4
      <4> QED BY <2>4, <4>1 DEF CarriedAt
    <3> QED BY <3>1, <3>2, <3>3, <3>4 DEF CarriedAt
  <2> QED BY <2>3, <2>4 DEF CarriedAt
<1> QED BY <1>1, <1>2 DEF Keeps

\* A step of p that leaves the rows' states, their attempts and the queue alone
\* keeps everything unless p was carrying the task.
LEMMA KeepsLocal ==
  ASSUME NEW t \in TaskId, NEW p \in Proc, queue' = queue,
         tasks'[t].state = tasks[t].state, tasks'[t].attempts = tasks[t].attempts,
         \/ pc[p] \notin {"push", "fetch", "claim"} \cup Holding
         \/ cur[p] # t
         \/ tasks[t].state = "waiting" /\ Carries(p, t)'
         \/ tasks[t].state = "processing" /\ (Holds(p, t) => Holds(p, t)')
         \/ tasks[t].state \notin {"waiting", "processing"}
  PROVE  Keeps(p, t)
  BY DEF Keeps, InQueue, Carries, Holds, Holding

\* A step of p that writes the row of its task.
LEMMA KeepsWrite ==
  ASSUME NEW t \in TaskId, NEW p \in Proc, cur[p] \in TaskId, queue' = queue,
         \A u \in TaskId \ {cur[p]} : tasks'[u] = tasks[u],
         t = cur[p] => /\ tasks'[t].state = "waiting" => Carries(p, t)'
                       /\ tasks'[t].state = "processing" => Holds(p, t)'
  PROVE  Keeps(p, t)
<1>1. CASE t = cur[p]
  BY <1>1 DEF Keeps, InQueue
<1>2. CASE t # cur[p]
  BY <1>2, KeepsLocal
<1> QED BY <1>1, <1>2

LEMMA CarriedClient ==
  ASSUME TypeOK, EntOK, NEW t \in TaskId, CarriedAt(t), NEW c \in Client, ClientStep(c)
  PROVE  CarriedAt(t)'
<1> USE DEF tables, locals, sweep, ghosts
<1>c. c \in Proc
  BY DEF Proc
<1>k. ASSUME Keeps(c, t), \A q \in Proc \ {c} : pc'[q] = pc[q] /\ cur'[q] = cur[q] /\ ent'[q] = ent[q]
      PROVE  CarriedAt(t)'
  BY <1>c, <1>k, CarriedFrame
<1>1. ASSUME pc[c] \in {"idle", "merge", "boost"}, tasks' = tasks, queue' = queue,
             \A q \in Proc \ {c} : pc'[q] = pc[q] /\ cur'[q] = cur[q] /\ ent'[q] = ent[q]
      PROVE  CarriedAt(t)'
  BY <1>c, <1>k, <1>1, KeepsLocal DEF Holding
<1>2. ASSUME NEW u \in TaskId, CreateNew(c, u)
      PROVE  CarriedAt(t)'
  BY <1>c, <1>1, <1>2, TakeUpLocals DEF CreateNew
<1>3. ASSUME NEW u \in TaskId, NEW v \in TaskId, CreateExisting(c, u, v)
      PROVE  CarriedAt(t)'
  BY <1>c, <1>1, <1>3, TakeUpLocals DEF CreateExisting
<1>4. ASSUME NEW u \in TaskId, NEW v \in TaskId, CreateSwallowed(c, u, v)
      PROVE  CarriedAt(t)'
  BY <1>1, <1>4 DEF CreateSwallowed
<1>5. ASSUME MergeRead(c)
      PROVE  CarriedAt(t)'
  <2>1. \A q \in Proc \ {c} : pc'[q] = pc[q] /\ cur'[q] = cur[q] /\ ent'[q] = ent[q]
    BY <1>5 DEF MergeRead, TakeUp, Goto, TypeOK
  <2> QED BY <1>1, <1>5, <2>1 DEF MergeRead
<1>6. ASSUME MergeUpdate(c)
      PROVE  CarriedAt(t)'
  <2>1. cur[c] \in TaskId /\ ent[c] \in Row
    BY <1>6, <1>c, BusyHasTask DEF MergeUpdate, TypeOK
  <2>2. tasks'[t].state = tasks[t].state /\ tasks'[t].attempts = tasks[t].attempts
    BY <1>6, <2>1, UpdateDataRows DEF MergeUpdate, TypeOK
  <2>3. \A q \in Proc \ {c} : pc'[q] = pc[q] /\ cur'[q] = cur[q] /\ ent'[q] = ent[q]
    BY <1>6, <1>c, GotoLocals DEF MergeUpdate, Goto, TypeOK
  <2>4. queue' = queue /\ pc[c] \notin {"push", "fetch", "claim"} \cup Holding
    BY <1>6 DEF MergeUpdate, Holding
  <2> QED BY <1>c, <1>k, <2>2, <2>3, <2>4, KeepsLocal
<1>7. ASSUME BoostQueued(c)
      PROVE  CarriedAt(t)'
  BY <1>c, <1>1, <1>7, GotoLocals DEF BoostQueued
<1>8. ASSUME BoostSkipped(c)
      PROVE  CarriedAt(t)'
  BY <1>c, <1>1, <1>8, ReturnLocals DEF BoostSkipped
<1>9. ASSUME Insert(c)
      PROVE  CarriedAt(t)'
  <2>1. cur[c] \in TaskId /\ ent[c].state = "waiting"
    BY <1>9, <1>c, BusyHasTask DEF Insert, EntOK, EntAt
  <2>2. \A q \in Proc \ {c} : pc'[q] = pc[q] /\ cur'[q] = cur[q] /\ ent'[q] = ent[q]
    BY <1>9, <1>c DEF Insert, Goto, TypeOK
  <2>3. CASE SameBizId(cur[c]) = {}
    <3>1. /\ \A u \in TaskId \ {cur[c]} : tasks'[u] = tasks[u]
          /\ tasks'[cur[c]] = ent[c] /\ queue' = queue
      BY <1>9, <2>1, <2>3 DEF Insert, TypeOK
    <3>2. t = cur[c] => Carries(c, t)'
      BY <1>9, <1>c, <2>3 DEF Insert, Goto, TypeOK, Carries
    <3> QED BY <1>c, <1>k, <2>1, <2>2, <3>1, <3>2, KeepsWrite
  <2>4. CASE SameBizId(cur[c]) # {}
    BY <1>9, <1>c, <1>k, <2>2, <2>4, KeepsLocal DEF Insert, Holding
  <2> QED BY <2>3, <2>4
<1>10. ASSUME Adopt(c)
       PROVE  CarriedAt(t)'
  <2>1. \A q \in Proc \ {c} : pc'[q] = pc[q] /\ cur'[q] = cur[q] /\ ent'[q] = ent[q]
    BY <1>10 DEF Adopt, TakeUp, Return, Goto, TypeOK
  <2> QED BY <1>10, <1>c, <1>k, <2>1, KeepsLocal DEF Adopt, Holding
<1> QED BY <1>2, <1>3, <1>4, <1>5, <1>6, <1>7, <1>8, <1>9, <1>10 DEF ClientStep

LEMMA CarriedWorker ==
  ASSUME TypeOK, EntOK, NEW t \in TaskId, CarriedAt(t), NEW w \in Worker, WorkerStep(w)
  PROVE  CarriedAt(t)'
<1> USE DEF tables, locals, sweep, ghosts
<1>w. w \in Proc
  BY DEF Proc
<1>k. ASSUME Keeps(w, t), \A q \in Proc \ {w} : pc'[q] = pc[q] /\ cur'[q] = cur[q] /\ ent'[q] = ent[q]
      PROVE  CarriedAt(t)'
  BY <1>w, <1>k, CarriedFrame
<1>1. ASSUME PopTask(w)
      PROVE  CarriedAt(t)'
  <2>1. /\ \A q \in Proc \ {w} : pc'[q] = pc[q] /\ cur'[q] = cur[q] /\ ent'[q] = ent[q]
        /\ pc'[w] = "fetch" /\ cur'[w] = Head(queue)
    BY <1>1, <1>w, TakeUpLocals DEF PopTask
  <2>2. ~Carries(w, t) /\ ~Holds(w, t)
    BY <1>1 DEF PopTask, Carries, Holds, Holding
  <2>3. InQueue(t) => InQueue(t)' \/ Carries(w, t)'
    <3>1. CASE t = Head(queue)
      BY <2>1, <3>1 DEF Carries
    <3>2. CASE t # Head(queue)
      <4>1. queue \in Seq(TaskId) /\ queue # <<>> /\ queue' = Tail(queue)
        BY <1>1 DEF PopTask, TypeOK
      <4> QED BY <3>2, <4>1, PopKeeps DEF InQueue
    <3> QED BY <3>1, <3>2
  <2>4. Keeps(w, t)
    BY <1>1, <2>2, <2>3 DEF PopTask, Keeps
  <2> QED BY <1>k, <2>1, <2>4
<1>2. ASSUME FetchTask(w)
      PROVE  CarriedAt(t)'
  <2>1. cur[w] \in TaskId
    BY <1>2, <1>w, BusyHasTask DEF FetchTask
  <2> DEFINE found == FindTask(tasks, history, cur[w])
  <2>2. CASE found.state = "waiting"
    <3>1. /\ \A q \in Proc \ {w} : pc'[q] = pc[q] /\ cur'[q] = cur[q] /\ ent'[q] = ent[q]
          /\ pc'[w] = "claim" /\ cur'[w] = cur[w] /\ ent'[w] = Started(found)
      BY <1>2, <1>w, <2>2, TakeUpLocals DEF FetchTask
    <3>2. found = tasks[cur[w]] /\ tasks' = tasks /\ queue' = queue
      BY <1>2, <2>1, <2>2 DEF FetchTask, FindTask, TypeOK, HistoryRow, RowWith, FinalState
    <3>3. ent'[w].attempts = tasks[cur[w]].attempts + 1
      BY <3>1, <3>2 DEF Started
    <3>4. cur[w] = t => tasks[t].state = "waiting" /\ Carries(w, t)'
      BY <2>2, <3>1, <3>2, <3>3 DEF Carries
    <3>5. Keeps(w, t)
      BY <1>w, <3>2, <3>4, KeepsLocal
    <3> QED BY <1>k, <3>1, <3>5
  <2>3. CASE found.state # "waiting"
    <3>1. \A q \in Proc \ {w} : pc'[q] = pc[q] /\ cur'[q] = cur[q] /\ ent'[q] = ent[q]
      BY <1>2, <1>w, <2>3, ReturnLocals DEF FetchTask
    <3>2. tasks[cur[w]].state # "waiting" /\ tasks' = tasks /\ queue' = queue /\ pc[w] = "fetch"
      BY <1>2, <2>1, <2>3 DEF FetchTask, FindTask, Exists
    <3>3. ~Holds(w, t)
      BY <3>2 DEF Holds, Holding
    <3>4. Keeps(w, t)
      BY <3>2, <3>3 DEF Keeps, InQueue, Carries
    <3> QED BY <1>k, <3>1, <3>4
  <2> QED BY <2>2, <2>3
<1>3. ASSUME ClaimTask(w)
      PROVE  CarriedAt(t)'
  <2>1. cur[w] \in TaskId /\ ent[w].state = "processing" /\ ent[w] \in Row
    BY <1>3, <1>w, BusyHasTask DEF ClaimTask, EntOK, EntAt, TypeOK
  <2>2. CASE CanClaim(tasks, cur[w], ent[w])
    <3>1. /\ \A q \in Proc \ {w} : pc'[q] = pc[q] /\ cur'[q] = cur[q] /\ ent'[q] = ent[q]
          /\ pc'[w] = "run" /\ cur'[w] = cur[w]
      BY <1>3, <1>w, <2>2 DEF ClaimTask, Goto, TypeOK
    <3>2. /\ \A u \in TaskId \ {cur[w]} : tasks'[u] = tasks[u]
          /\ tasks'[cur[w]] = ent[w] /\ queue' = queue
      BY <1>3, <2>1, <2>2 DEF ClaimTask, TypeOK
    <3>3. Keeps(w, t)
      BY <1>w, <2>1, <3>1, <3>2, KeepsWrite DEF Holds, Holding
    <3> QED BY <1>k, <3>1, <3>3
  <2>3. CASE ~CanClaim(tasks, cur[w], ent[w])
    <3>1. \A q \in Proc \ {w} : pc'[q] = pc[q] /\ cur'[q] = cur[q] /\ ent'[q] = ent[q]
      BY <1>3, <1>w, <2>3, ReturnLocals DEF ClaimTask
    <3>2. tasks' = tasks /\ queue' = queue /\ pc[w] = "claim"
      BY <1>3, <2>3 DEF ClaimTask
    <3>3. ~Holds(w, t) /\ (tasks[t].state = "waiting" => ~Carries(w, t))
      BY <2>3, <3>2 DEF Holds, Holding, Carries, CanClaim, Exists
    <3>4. Keeps(w, t)
      BY <3>2, <3>3 DEF Keeps, InQueue
    <3> QED BY <1>k, <3>1, <3>4
  <2> QED BY <2>2, <2>3
<1>4. ASSUME AppendTaskLog(w)
      PROVE  CarriedAt(t)'
  <2>1. cur[w] \in TaskId /\ ent[w].state = "processing"
    BY <1>4, <1>w, BusyHasTask DEF AppendTaskLog, EntOK, EntAt
  <2>2. /\ \A u \in TaskId \ {cur[w]} : tasks'[u] = tasks[u]
        /\ tasks'[cur[w]].state # "waiting" /\ queue' = queue /\ UNCHANGED <<pc, cur, ent>>
    BY <1>4, <2>1 DEF AppendTaskLog, SaveTask, TypeOK, Exists
  <2>3. t = cur[w] => Holds(w, t)'
    BY <1>4, <2>2 DEF AppendTaskLog, Holds, Holding
  <2>4. Keeps(w, t)
    BY <1>w, <2>1, <2>2, <2>3, KeepsWrite
  <2> QED BY <1>k, <2>2, <2>4
<1>5. ASSUME NEW label \in {"save", "find"}, NEW task, TakeUp(w, cur[w], task, label),
             pc[w] = "run", tasks' = tasks, queue' = queue
      PROVE  CarriedAt(t)'
  <2>1. /\ \A q \in Proc \ {w} : pc'[q] = pc[q] /\ cur'[q] = cur[q] /\ ent'[q] = ent[q]
        /\ pc'[w] = label /\ cur'[w] = cur[w]
    BY <1>5, <1>w, TakeUpLocals
  <2>2. Keeps(w, t)
    BY <1>5, <2>1 DEF Keeps, InQueue, Carries, Holds, Holding
  <2> QED BY <1>k, <2>1, <2>2
<1>6. ASSUME Retry(w)
      PROVE  CarriedAt(t)'
  BY <1>5, <1>6 DEF Retry
<1>7. ASSUME NEW state \in {"success", "fail"}, Finish(w, state)
      PROVE  CarriedAt(t)'
  BY <1>5, <1>7 DEF Finish
<1> QED BY <1>1, <1>2, <1>3, <1>4, <1>6, <1>7 DEF WorkerStep

LEMMA CarriedHandler ==
  ASSUME TypeOK, NEW t \in TaskId, CarriedAt(t), NEW h \in Handler, HandlerStep(h),
         ~HandlerCrash(h)
  PROVE  CarriedAt(t)'
<1> USE DEF tables, locals, sweep, ghosts
<1>h. h \in Proc
  BY DEF Proc
<1>1. ASSUME pc[h] \in {"idle", "sweep"}, tasks' = tasks, queue' = queue,
             \A q \in Proc \ {h} : pc'[q] = pc[q] /\ cur'[q] = cur[q] /\ ent'[q] = ent[q]
      PROVE  CarriedAt(t)'
  BY <1>h, <1>1, KeepsLocal, CarriedFrame DEF Holding
<1>2. ASSUME SweepProcessing(h) \/ SweepWaiting(h) \/ SweepEnd(h)
      PROVE  CarriedAt(t)'
  <2>1. \A q \in Proc \ {h} : pc'[q] = pc[q] /\ cur'[q] = cur[q] /\ ent'[q] = ent[q]
    BY <1>2 DEF SweepProcessing, SweepWaiting, SweepEnd, Goto, TypeOK
  <2> QED BY <1>1, <1>2, <2>1 DEF SweepProcessing, SweepWaiting, SweepEnd
<1>3. ASSUME NEW u \in TaskId, NEW state, NEW label, NextOnList(h, u, state, label)
      PROVE  CarriedAt(t)'
  BY <1>h, <1>1, <1>3, TakeUpLocals DEF NextOnList
<1> QED BY <1>2, <1>3 DEF HandlerStep, TimeoutFinish, TimeoutRetry

LEMMA CarriedShared ==
  ASSUME TypeOK, EntOK, NEW t \in TaskId, CarriedAt(t), NEW p \in Proc, SharedStep(p),
         ~CallFails(p)
  PROVE  CarriedAt(t)'
<1> USE DEF tables, locals, sweep, ghosts
<1>p. cur[p] \in TaskId
  BY BusyHasTask
  DEF SharedStep, PushTask, SaveRetry, FindFinished, SaveHistory, RemoveTask, CallFails
<1>k. ASSUME Keeps(p, t), \A q \in Proc \ {p} : pc'[q] = pc[q] /\ cur'[q] = cur[q] /\ ent'[q] = ent[q]
      PROVE  CarriedAt(t)'
  BY <1>k, CarriedFrame
<1>1. CASE PushTask(p)
  <2>1. \A q \in Proc \ {p} : pc'[q] = pc[q] /\ cur'[q] = cur[q] /\ ent'[q] = ent[q]
    BY <1>1, ReturnLocals DEF PushTask
  <2>2. queue \in Seq(TaskId) /\ queue' = Push(queue, cur[p]) /\ tasks' = tasks /\ pc[p] = "push"
    BY <1>1 DEF PushTask, TypeOK
  <2>3. t = cur[p] \/ InQueue(t) => InQueue(t)'
    BY <1>p, <2>2, PushKeeps DEF InQueue
  <2>4. Keeps(p, t)
    BY <2>2, <2>3 DEF Keeps, Carries, Holds, Holding
  <2> QED BY <1>k, <2>1, <2>4
<1>2. CASE SaveRetry(p)
  <2>1. /\ \A q \in Proc \ {p} : pc'[q] = pc[q] /\ cur'[q] = cur[q] /\ ent'[q] = ent[q]
        /\ pc'[p] = "push" /\ cur'[p] = cur[p] /\ ent'[p] = ent[p]
    BY <1>2, GotoLocals DEF SaveRetry
  <2>2. ent[p].state = "waiting"
    BY <1>2 DEF SaveRetry, EntOK, EntAt
  <2>3. /\ \A u \in TaskId \ {cur[p]} : tasks'[u] = tasks[u]
        /\ tasks'[cur[p]].state # "processing" /\ queue' = queue
    BY <1>2, <1>p, <2>2 DEF SaveRetry, SaveTask, TypeOK, Exists
  <2>4. t = cur[p] => Carries(p, t)'
    BY <2>1 DEF Carries
  <2> QED BY <1>p, <1>k, <2>1, <2>3, <2>4, KeepsWrite
<1>3. CASE FindFinished(p)
  <2>1. CASE Exists(tasks[cur[p]])
    <3>1. /\ \A q \in Proc \ {p} : pc'[q] = pc[q] /\ cur'[q] = cur[q] /\ ent'[q] = ent[q]
          /\ pc'[p] = "history" /\ cur'[p] = cur[p] /\ tasks' = tasks /\ queue' = queue
      BY <1>3, <2>1, GotoLocals DEF FindFinished
    <3>2. Keeps(p, t)
      BY <1>3, <3>1 DEF FindFinished, Keeps, InQueue, Carries, Holds, Holding
    <3> QED BY <1>k, <3>1, <3>2
  <2>2. CASE ~Exists(tasks[cur[p]])
    <3>1. /\ \A q \in Proc \ {p} : pc'[q] = pc[q] /\ cur'[q] = cur[q] /\ ent'[q] = ent[q]
          /\ tasks' = tasks /\ queue' = queue
      BY <1>3, <2>2, ReturnLocals DEF FindFinished
    <3>2. Keeps(p, t)
      BY <2>2, <3>1, KeepsLocal DEF Exists
    <3> QED BY <1>k, <3>1, <3>2
  <2> QED BY <2>1, <2>2
<1>4. CASE SaveHistory(p)
  <2>1. /\ \A q \in Proc \ {p} : pc'[q] = pc[q] /\ cur'[q] = cur[q] /\ ent'[q] = ent[q]
        /\ pc'[p] = "remove" /\ cur'[p] = cur[p] /\ tasks' = tasks /\ queue' = queue
    BY <1>4, GotoLocals DEF SaveHistory
  <2>2. Keeps(p, t)
    BY <1>4, <2>1 DEF SaveHistory, Keeps, InQueue, Carries, Holds, Holding
  <2> QED BY <1>k, <2>1, <2>2
<1>5. CASE RemoveTask(p)
  <2>1. \A q \in Proc \ {p} : pc'[q] = pc[q] /\ cur'[q] = cur[q] /\ ent'[q] = ent[q]
    BY <1>5, ReturnLocals DEF RemoveTask
  <2>2. /\ \A u \in TaskId \ {cur[p]} : tasks'[u] = tasks[u]
        /\ tasks'[cur[p]].state = "absent" /\ queue' = queue
    BY <1>5, <1>p DEF RemoveTask, TypeOK, Absent
  <2> QED BY <1>p, <1>k, <2>1, <2>2, KeepsWrite
<1> QED BY <1>1, <1>2, <1>3, <1>4, <1>5 DEF SharedStep

LEMMA CarriedStep == Inductive /\ Carried /\ [Next]_vars => Carried'
<1> SUFFICES ASSUME Inductive, Carried, [Next]_vars, faults' = 0, NEW t \in TaskId
             PROVE  CarriedAt(t)'
  BY DEF Carried
<1>1. TypeOK /\ EntOK /\ faults \in Nat
  BY BoundAssumption DEF Inductive, TypeOK
<1>2. ASSUME NEW h \in Handler, HandlerCrash(h)
      PROVE  FALSE
  BY <1>1, <1>2 DEF HandlerCrash
<1>3. ASSUME NEW p \in Proc, CallFails(p)
      PROVE  FALSE
  BY <1>1, <1>3 DEF CallFails
<1>4. CASE Next
  <2>1. faults = 0
    <3>1. ASSUME NEW c \in Client, ClientStep(c)
          PROVE  faults' = faults
      BY <3>1 DEF ClientStep, CreateNew, CreateExisting, CreateSwallowed, MergeRead, ghosts,
                  MergeUpdate, BoostQueued, BoostSkipped, Insert, Adopt
    <3>2. ASSUME NEW w \in Worker, WorkerStep(w)
          PROVE  faults' = faults
      BY <3>2 DEF WorkerStep, PopTask, FetchTask, ClaimTask, AppendTaskLog, Retry, Finish, ghosts
    <3>3. ASSUME NEW h \in Handler, HandlerStep(h)
          PROVE  faults' = faults
      BY <1>2, <3>3 DEF HandlerStep, SweepProcessing, SweepWaiting, SweepEnd, TimeoutFinish,
                        TimeoutRetry, NextOnList, ghosts
    <3>4. ASSUME NEW p \in Proc, SharedStep(p)
          PROVE  faults' = faults
      BY <1>3, <3>4 DEF SharedStep, PushTask, SaveRetry, FindFinished, SaveHistory,
                        RemoveTask, ghosts
    <3>5. ASSUME NEW u \in TaskId, TimePasses(u)
          PROVE  faults' = faults
      BY <3>5 DEF TimePasses, ghosts
    <3> QED BY <1>4, <3>1, <3>2, <3>3, <3>4, <3>5 DEF Next
  <2>2. CarriedAt(t)
    BY <2>1 DEF Carried
  <2>3. ASSUME NEW u \in TaskId, TimePasses(u)
        PROVE  CarriedAt(t)'
    BY <2>2, <2>3 DEF TimePasses, locals, CarriedAt, Carries, Holds, InQueue
  <2> QED BY <1>1, <1>2, <1>3, <1>4, <2>2, <2>3, CarriedClient, CarriedWorker, CarriedHandler,
             CarriedShared DEF Next
<1>5. CASE UNCHANGED vars
  BY <1>5 DEF vars, tables, locals, ghosts, Carried, CarriedAt, Carries, Holds, InQueue
<1> QED BY <1>4, <1>5

\* While no call fails and no process dies, every live task is in the queue or
\* in the hands of a process that will push, start, finish or retry it: nobody
\* needs retryExecuteTimeoutTasks (TaskService.ts:148-220) to find it again.
THEOREM NothingStranded == Spec => []NoneStranded
<1>1. Init => Carried
  <2> SUFFICES ASSUME Init, NEW t \in TaskId PROVE CarriedAt(t)
    BY DEF Carried
  <2>1. tasks[t].state = "absent"
    BY DEF Init, Absent
  <2> QED BY <2>1 DEF CarriedAt
<1>2. Inductive /\ Carried /\ [Next]_vars => Carried'
  BY CarriedStep
<1>3. Inductive /\ Carried => NoneStranded
  <2> SUFFICES ASSUME Inductive, Carried, faults = 0, NEW t \in LiveTasks
               PROVE  InHand(t) \/ (tasks[t].state = "waiting" /\ InQueue(t))
    BY DEF NoneStranded
  <2>1. t \in TaskId /\ tasks[t].state \in {"waiting", "processing"} /\ CarriedAt(t)
    BY DEF LiveTasks, Inductive, TypeOK, LiveRow, RowWith, Exists, Carried
  <2> QED BY <2>1 DEF CarriedAt, Carries, Holds, Holding, InHand
<1> QED BY <1>1, <1>2, <1>3, InductiveInvariant, PTL DEF Spec

-----------------------------------------------------------------------------
(* Duplicates *)

\* There is room for every request that is about to insert a task of t's target.
RoomAt(t) ==
  /\ IsFiniteSet(SameTarget(t))
  /\ Cardinality(SameTarget(t)) + Cardinality(Inserting(t)) <= Cardinality(Client)

\* Requests that are inserting are finitely many.
LEMMA InsertingFinite ==
  ASSUME IsFiniteSet(Client), NEW t \in TaskId
  PROVE  /\ IsFiniteSet(Inserting(t)) /\ Cardinality(Inserting(t)) \in Nat
         /\ Cardinality(Inserting(t)) <= Cardinality(Client) /\ Cardinality(Client) \in Nat
<1>1. Inserting(t) \subseteq Client
  BY DEF Inserting
<1> QED BY <1>1, FS_Subset, FS_CardinalityType

LEMMA InsertingFiniteNext ==
  ASSUME IsFiniteSet(Client), NEW t \in TaskId
  PROVE  /\ IsFiniteSet(Inserting(t)') /\ Cardinality(Inserting(t)') \in Nat
         /\ Cardinality(Inserting(t)') <= Cardinality(Client)
<1>1. Inserting(t)' \subseteq Client
  BY DEF Inserting
<1> QED BY <1>1, FS_Subset, FS_CardinalityType

\* A step that adds neither a row nor a request that inserts leaves room.
LEMMA RoomShrinks ==
  ASSUME IsFiniteSet(Client), NEW t \in TaskId, RoomAt(t),
         SameTarget(t)' \subseteq SameTarget(t), Inserting(t)' \subseteq Inserting(t)
  PROVE  RoomAt(t)'
<1>1. /\ IsFiniteSet(SameTarget(t)') /\ Cardinality(SameTarget(t)') <= Cardinality(SameTarget(t))
      /\ Cardinality(SameTarget(t)) \in Nat /\ Cardinality(SameTarget(t)') \in Nat
  BY FS_Subset, FS_CardinalityType DEF RoomAt
<1>2. Cardinality(Inserting(t)') <= Cardinality(Inserting(t))
  BY InsertingFinite, FS_Subset
<1>3. Cardinality(Inserting(t)) \in Nat /\ Cardinality(Inserting(t)') \in Nat /\ Cardinality(Client) \in Nat
  BY InsertingFinite, InsertingFiniteNext
<1> QED BY <1>1, <1>2, <1>3 DEF RoomAt

\* Only Insert adds a row, and only CreateNew a request that inserts.
LEMMA RowsAndRequests ==
  ASSUME Inductive, Next,
         \A c \in Client : ~Insert(c) /\ \A t \in TaskId : ~CreateNew(c, t)
  PROVE  /\ LiveTasks' \subseteq LiveTasks
         /\ \A c \in Client : pc'[c] = "insert" => pc[c] = "insert" /\ cur'[c] = cur[c]
<1> USE DEF tables, locals, sweep, ghosts
<1>t. TypeOK /\ EntOK
  BY DEF Inductive
<1> DEFINE Goal == /\ LiveTasks' \subseteq LiveTasks
                   /\ \A c \in Client : pc'[c] = "insert" => pc[c] = "insert" /\ cur'[c] = cur[c]
<1>1. ASSUME \A t \in TaskId : Exists(tasks'[t]) => Exists(tasks[t]),
             NEW p \in Proc, pc'[p] # "insert",
             \A q \in Proc \ {p} : pc'[q] = pc[q] /\ cur'[q] = cur[q]
      PROVE  Goal
  BY <1>1 DEF LiveTasks, Exists, Proc
<1>2. ASSUME tasks' = tasks, UNCHANGED <<pc, cur>>
      PROVE  Goal
  BY <1>2 DEF LiveTasks, Exists
<1>3. ASSUME NEW c \in Client, ClientStep(c)
      PROVE  Goal
  <2>c. c \in Proc
    BY DEF Proc
  <2>1. CASE MergeUpdate(c)
    <3>1. cur[c] \in TaskId /\ ent[c] \in Row
      BY <1>t, <2>c, <2>1, BusyHasTask DEF MergeUpdate, TypeOK
    <3>2. \A t \in TaskId : tasks'[t].state = tasks[t].state
      BY <1>t, <2>1, <3>1, UpdateDataRows DEF MergeUpdate, TypeOK
    <3> QED BY <1>1, <1>t, <2>c, <2>1, <3>2 DEF MergeUpdate, Goto, TypeOK, Exists
  <2>2. ASSUME NEW t \in TaskId, NEW u \in TaskId, CreateExisting(c, t, u)
        PROVE  Goal
    BY <1>1, <1>t, <2>c, <2>2 DEF CreateExisting, TakeUp, Goto, TypeOK
  <2>3. ASSUME NEW t \in TaskId, NEW u \in TaskId, CreateSwallowed(c, t, u)
        PROVE  Goal
    BY <1>2, <2>3 DEF CreateSwallowed
  <2>4. CASE MergeRead(c)
    BY <1>1, <1>t, <2>c, <2>4 DEF MergeRead, TakeUp, Goto, TypeOK
  <2>5. CASE BoostQueued(c) \/ BoostSkipped(c) \/ Adopt(c)
    BY <1>1, <1>t, <2>c, <2>5 DEF BoostQueued, BoostSkipped, Adopt, TakeUp, Return, Goto, TypeOK
  <2> QED BY <1>3, <2>1, <2>2, <2>3, <2>4, <2>5 DEF ClientStep
<1>4. ASSUME NEW w \in Worker, WorkerStep(w)
      PROVE  Goal
  <2>w. w \in Proc
    BY DEF Proc
  <2>1. CASE PopTask(w)
    BY <1>1, <1>t, <2>w, <2>1 DEF PopTask, TakeUp, Goto, TypeOK
  <2>2. CASE FetchTask(w)
    BY <1>1, <1>t, <2>w, <2>2 DEF FetchTask, TakeUp, Return, Goto, TypeOK
  <2>3. CASE ClaimTask(w)
    <3>1. \A t \in TaskId : Exists(tasks'[t]) => Exists(tasks[t])
      BY <1>t, <2>3 DEF ClaimTask, CanClaim, TypeOK
    <3> QED BY <1>1, <1>t, <2>w, <2>3, <3>1 DEF ClaimTask, Return, Goto, TypeOK
  <2>4. CASE AppendTaskLog(w)
    <3>1. \A t \in TaskId : Exists(tasks'[t]) => Exists(tasks[t])
      BY <1>t, <2>4 DEF AppendTaskLog, SaveTask, TypeOK
    <3>2. pc' = pc /\ cur' = cur /\ pc[w] = "run"
      BY <2>4 DEF AppendTaskLog
    <3> QED BY <1>1, <2>w, <3>1, <3>2
  <2>5. CASE Retry(w)
    BY <1>1, <1>t, <2>w, <2>5 DEF Retry, TakeUp, Goto, TypeOK
  <2>6. ASSUME NEW state \in {"success", "fail"}, Finish(w, state)
        PROVE  Goal
    BY <1>1, <1>t, <2>w, <2>6 DEF Finish, TakeUp, Goto, TypeOK
  <2> QED BY <1>4, <2>1, <2>2, <2>3, <2>4, <2>5, <2>6 DEF WorkerStep
<1>5. ASSUME NEW h \in Handler, HandlerStep(h)
      PROVE  Goal
  <2>h. h \in Proc
    BY DEF Proc
  <2>1. CASE SweepWaiting(h)
    BY <1>2, <2>1 DEF SweepWaiting
  <2>2. CASE SweepProcessing(h) \/ SweepEnd(h)
    BY <1>1, <1>t, <2>h, <2>2 DEF SweepProcessing, SweepEnd, Goto, TypeOK
  <2>3. ASSUME NEW t \in TaskId, NEW state, NEW label \in {"save", "find"}, NextOnList(h, t, state, label)
        PROVE  Goal
    BY <1>1, <1>t, <2>h, <2>3 DEF NextOnList, TakeUp, Goto, TypeOK
  <2>4. CASE HandlerCrash(h)
    BY <1>1, <1>t, <2>h, <2>4 DEF HandlerCrash, TakeUp, Goto, TypeOK
  <2> QED BY <1>5, <2>1, <2>2, <2>3, <2>4 DEF HandlerStep, TimeoutFinish, TimeoutRetry
<1>6. ASSUME NEW p \in Proc, SharedStep(p)
      PROVE  Goal
  <2>1. CASE PushTask(p) \/ FindFinished(p) \/ SaveHistory(p) \/ CallFails(p)
    BY <1>1, <1>t, <2>1 DEF PushTask, FindFinished, SaveHistory, CallFails, Return, Goto, TypeOK
  <2>2. CASE SaveRetry(p)
    <3>1. \A t \in TaskId : Exists(tasks'[t]) => Exists(tasks[t])
      BY <1>t, <2>2 DEF SaveRetry, SaveTask, TypeOK
    <3> QED BY <1>1, <1>t, <2>2, <3>1 DEF SaveRetry, Goto, TypeOK
  <2>3. CASE RemoveTask(p)
    <3>1. \A t \in TaskId : Exists(tasks'[t]) => Exists(tasks[t])
      BY <1>t, <2>3 DEF RemoveTask, TypeOK, Absent, Exists
    <3> QED BY <1>1, <1>t, <2>3, <3>1 DEF RemoveTask, Return, Goto, TypeOK
  <2> QED BY <1>6, <2>1, <2>2, <2>3 DEF SharedStep
<1>7. ASSUME NEW t \in TaskId, TimePasses(t)
      PROVE  Goal
  BY <1>2, <1>7 DEF TimePasses
<1> QED BY <1>3, <1>4, <1>5, <1>6, <1>7 DEF Next

LEMMA RoomStep ==
  ASSUME IsFiniteSet(Client), NeedMergeWhenWaiting, Inductive, Next, NEW t \in TaskId, RoomAt(t)
  PROVE  RoomAt(t)'
<1> USE DEF tables, locals, sweep, ghosts
<1>t. TypeOK /\ EntOK
  BY DEF Inductive
<1>1. CASE \A c \in Client : ~Insert(c) /\ \A u \in TaskId : ~CreateNew(c, u)
  <2>1. SameTarget(t)' \subseteq SameTarget(t)
    BY <1>1, RowsAndRequests DEF SameTarget
  <2>2. Inserting(t)' \subseteq Inserting(t)
    BY <1>1, RowsAndRequests DEF Inserting
  <2> QED BY <2>1, <2>2, RoomShrinks
<1>2. ASSUME NEW c \in Client, NEW u \in TaskId, CreateNew(c, u)
      PROVE  RoomAt(t)'
  <2>1. SameTarget(t)' = SameTarget(t) /\ SameTarget(u) = {}
    BY <1>2 DEF CreateNew, SameTarget, LiveTasks, Exists
  <2>2. CASE Target[u] = Target[t]
    <3>1. SameTarget(t)' = {}
      BY <2>1, <2>2 DEF SameTarget
    <3>2. IsFiniteSet(SameTarget(t)') /\ Cardinality(SameTarget(t)') = 0
      BY <3>1, FS_EmptySet
    <3>3. /\ Cardinality(Inserting(t)') \in Nat /\ Cardinality(Client) \in Nat
          /\ Cardinality(Inserting(t)') <= Cardinality(Client)
      BY InsertingFinite, InsertingFiniteNext
    <3> QED BY <3>2, <3>3 DEF RoomAt
  <2>3. CASE Target[u] # Target[t]
    <3>1. /\ \A d \in Client \ {c} : pc'[d] = pc[d] /\ cur'[d] = cur[d]
          /\ cur'[c] = u
      BY <1>2, <1>t DEF CreateNew, TakeUp, Goto, TypeOK, Proc
    <3>2. Inserting(t)' \subseteq Inserting(t)
      BY <2>3, <3>1 DEF Inserting
    <3> QED BY <2>1, <3>2, RoomShrinks
  <2> QED BY <2>2, <2>3
<1>3. ASSUME NEW c \in Client, Insert(c)
      PROVE  RoomAt(t)'
  <2>1. c \in Proc /\ cur[c] \in TaskId /\ pc[c] = "insert"
    BY <1>3, <1>t, BusyHasTask DEF Insert, Proc
  <2>2. /\ \A d \in Client \ {c} : pc'[d] = pc[d]
        /\ pc'[c] # "insert" /\ cur' = cur
    BY <1>3, <1>t, <2>1 DEF Insert, Goto, TypeOK, Proc
  <2>3. Inserting(t)' = Inserting(t) \ {c}
    BY <2>1, <2>2 DEF Inserting
  <2>4. /\ \A u \in TaskId \ {cur[c]} : Exists(tasks'[u]) => Exists(tasks[u])
    BY <1>3, <1>t, <2>1 DEF Insert, TypeOK
  <2>5. CASE Target[cur[c]] # Target[t]
    <3>1. SameTarget(t)' \subseteq SameTarget(t)
      BY <2>4, <2>5 DEF SameTarget, LiveTasks, Exists
    <3> QED BY <2>3, <3>1, RoomShrinks
  <2>6. CASE Target[cur[c]] = Target[t]
    <3> DEFINE with == SameTarget(t) \cup {cur[c]}
    <3>1. IsFiniteSet(SameTarget(t)) /\ Cardinality(SameTarget(t)) \in Nat
      BY FS_CardinalityType DEF RoomAt
    <3>2. /\ IsFiniteSet(with) /\ Cardinality(with) \in Nat
          /\ Cardinality(with) <= Cardinality(SameTarget(t)) + 1
      <4>1. /\ IsFiniteSet(with)
            /\ Cardinality(with) = IF cur[c] \in SameTarget(t) THEN Cardinality(SameTarget(t))
                                   ELSE Cardinality(SameTarget(t)) + 1
        BY <3>1, FS_AddElement
      <4> HIDE DEF with
      <4> QED BY <3>1, <4>1, FS_CardinalityType
    <3>3. SameTarget(t)' \subseteq with
      BY <2>4 DEF SameTarget, LiveTasks, Exists
    <3>4. /\ IsFiniteSet(SameTarget(t)') /\ Cardinality(SameTarget(t)') \in Nat
          /\ Cardinality(SameTarget(t)') <= Cardinality(with)
      BY <3>2, <3>3, FS_Subset, FS_CardinalityType
    <3>5. c \in Inserting(t)
      BY <2>1, <2>6 DEF Inserting
    <3>6. Cardinality(Inserting(t)') = Cardinality(Inserting(t)) - 1
      BY <2>3, <3>5, InsertingFinite, FS_RemoveElement
    <3>7. Cardinality(SameTarget(t)') + Cardinality(Inserting(t)') <= Cardinality(Client)
      <4>1. Cardinality(SameTarget(t)) + Cardinality(Inserting(t)) <= Cardinality(Client)
        BY DEF RoomAt
      <4>2. Cardinality(Inserting(t)) \in Nat /\ Cardinality(Client) \in Nat
        BY InsertingFinite
      <4> HIDE DEF with
      <4> QED BY <3>1, <3>2, <3>4, <3>6, <4>1, <4>2
    <3> QED BY <3>4, <3>7 DEF RoomAt
  <2> QED BY <2>5, <2>6
<1> QED BY <1>1, <1>2, <1>3

\* With finitely many requests at a time, a target has at most as many waiting
\* tasks as there are requests: the window between the lookup and the INSERT of
\* createTask (TaskService.ts:25-88) lets no more in than overlap in it.
THEOREM FewDuplicates ==
  ASSUME IsFiniteSet(Client)
  PROVE  Spec => []DuplicatesBounded
<1>0. RoomLeft <=> (NeedMergeWhenWaiting => \A t \in TaskId : RoomAt(t))
  BY DEF RoomLeft, RoomAt
<1>1. Init => RoomLeft
  <2> SUFFICES ASSUME Init, NEW t \in TaskId PROVE RoomAt(t)
    BY <1>0
  <2>1. SameTarget(t) = {}
    BY DEF Init, SameTarget, LiveTasks, Exists, Absent
  <2>2. IsFiniteSet(SameTarget(t)) /\ Cardinality(SameTarget(t)) = 0
    BY <2>1, FS_EmptySet
  <2> QED BY <2>2, InsertingFinite DEF RoomAt
<1>2. Inductive /\ RoomLeft /\ [Next]_vars => RoomLeft'
  <2> SUFFICES ASSUME Inductive, RoomLeft, [Next]_vars PROVE RoomLeft'
    OBVIOUS
  <2>1. CASE Next
    <3>1. ASSUME NeedMergeWhenWaiting, NEW t \in TaskId PROVE RoomAt(t)'
      BY <1>0, <2>1, <3>1, RoomStep
    <3> QED BY <3>1 DEF RoomLeft, RoomAt
  <2>2. CASE UNCHANGED vars
    BY <2>2 DEF vars, tables, locals, RoomLeft, SameTarget, LiveTasks, Exists, Inserting
  <2> QED BY <2>1, <2>2
<1>3. RoomLeft => DuplicatesBounded
  <2> SUFFICES ASSUME NeedMergeWhenWaiting, NEW t \in LiveTasks, RoomAt(t)
               PROVE  Cardinality(WaitingTasks(t)) <= Cardinality(Client)
    BY <1>0 DEF DuplicatesBounded, LiveTasks
  <2>1. t \in TaskId /\ WaitingTasks(t) \subseteq SameTarget(t)
    BY DEF LiveTasks, WaitingTasks
  <2>2. /\ Cardinality(WaitingTasks(t)) <= Cardinality(SameTarget(t))
        /\ Cardinality(WaitingTasks(t)) \in Nat /\ Cardinality(SameTarget(t)) \in Nat
    BY <2>1, FS_Subset, FS_CardinalityType DEF RoomAt
  <2> QED BY <2>1, <2>2, InsertingFinite DEF RoomAt
<1> QED BY <1>1, <1>2, <1>3, InductiveInvariant, PTL DEF Spec
=============================================================================
