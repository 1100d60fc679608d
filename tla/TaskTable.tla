------------------------------ MODULE TaskTable ------------------------------
(***************************************************************************)
(* The two tables behind a task (tasks, history_tasks), the in-memory Task *)
(* entity, and the calls TaskRepository makes on them.  A call that is one *)
(* SQL statement, or one read followed by one write of the same row, is an *)
(* operator here; every call made of several writes is split into several  *)
(* actions by TaskQueue.                                                   *)
(*                                                                         *)
(* A table is a function from task ids to rows.  `Absent' stands for "no   *)
(* such row".  Of the columns only those that decide control are kept:     *)
(*   state     TaskState, as the source spells it                          *)
(*   attempts  number of times the task was started                        *)
(*   full      TRUE iff data.specificVersions is not set (sync everything) *)
(*   versions  data.specificVersions otherwise                             *)
(***************************************************************************)
EXTENDS Naturals, Sequences

CONSTANTS
  TaskId,     \* the task ids the program may hand out
  Version     \* the versions a caller may ask to synchronise

FinalState == {"success", "fail", "timeout"}

TaskState == {"waiting", "processing"} \cup FinalState

RowWith(states) == [state    : states \cup {"absent"},
                    attempts : Nat,
                    full     : BOOLEAN,
                    versions : SUBSET Version]

Row        == RowWith(TaskState)
LiveRow    == RowWith({"waiting", "processing"})
HistoryRow == RowWith(FinalState)

Absent == [state |-> "absent", attempts |-> 0, full |-> FALSE, versions |-> {}]

Exists(row) == row.state # "absent"

\* Task.createXxx: a task that has not been saved yet.
NewTask(full, versions) ==
  [state |-> "waiting", attempts |-> 0, full |-> full, versions |-> versions]

\* Task.start(): the entity a worker tries to save when it takes the task.
Started(row) ==
  [state |-> "processing", attempts |-> row.attempts + 1,
   full |-> row.full, versions |-> row.versions]

\* Mutant: the row is written even if it is gone (an upsert).
Upsert(table, id, task) == [table EXCEPT ![id] = task]

\* TaskRepository.saveTask on an entity that has an id: the whole row is
\* overwritten, unless the row is gone.
SaveTask(table, id, task) ==
  IF Exists(table[id]) THEN [table EXCEPT ![id] = task] ELSE table

\* Mutant: UPDATE ... WHERE task_id only.
CanClaimAnyway(table, id, task) == Exists(table[id])

\* TaskRepository.idempotentSaveTask: UPDATE ... WHERE task_id AND attempts.
\* `task' is the started entity, so the expected attempts are one less.
CanClaim(table, id, task) ==
  Exists(table[id]) /\ table[id].attempts + 1 = task.attempts

\* TaskRepository.updateSpecificVersionsOfWaitingTask reads the row again and
\* computes the merged data, whatever state the row is in by now ...
Merged(row, request) ==
  IF request.full
  THEN [row EXCEPT !.full = TRUE, !.versions = {}]
  ELSE [row EXCEPT !.versions = @ \cup request.versions]

\* ... and then updates the data column alone.
UpdateData(table, id, task) ==
  IF Exists(table[id])
  THEN [table EXCEPT ![id].full = task.full, ![id].versions = task.versions]
  ELSE table

\* TaskRepository.findTask: the live row, or else the history row.
FindTask(tasks, history, id) ==
  IF Exists(tasks[id]) THEN tasks[id] ELSE history[id]

\* RedisQueueAdapter.push: ZADD of a member that is already there moves it to
\* its new score, which is the highest so far, so to the back.  A queue holds
\* an id at most once.
Position(queue, id) == {i \in DOMAIN queue : queue[i] = id}

Push(queue, id) ==
  IF Position(queue, id) = {}
  THEN Append(queue, id)
  ELSE LET i == CHOOSE k \in Position(queue, id) : TRUE
       IN  [k \in DOMAIN queue |-> IF k < i THEN queue[k]
                                   ELSE IF k < Len(queue) THEN queue[k + 1]
                                   ELSE id]
=============================================================================
