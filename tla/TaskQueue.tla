------------------------------ MODULE TaskQueue ------------------------------
(***************************************************************************)
(* TaskService on top of TaskRepository and RedisQueueAdapter, for the     *)
(* tasks of one TaskType: requests that create tasks, worker slots that    *)
(* take and execute them, and the timeout handler that gives timed-out     *)
(* tasks another chance.  Every `await' that lets another process in is a  *)
(* boundary between two actions.                                           *)
(*                                                                         *)
(*   Client   a request (or a worker executing another task) in createTask *)
(*   Worker   one slot of a SyncPackageWorker, TriggerHookWorker, ...      *)
(*   Handler  a process running retryExecuteTimeoutTasks                   *)
(***************************************************************************)
EXTENDS TaskTable, FiniteSets

CONSTANTS
  Type,             \* the TaskType, as the source spells it
  Target,           \* Target[t]: targetName of task t
  BizId,            \* BizId[t]: its bizId, or NoBizId
  NoBizId,
  Request,          \* Request[t]: the new task of the call that creates t
  Client, Worker, Handler,
  NoTask,           \* value of cur[p] while p has no task in hand
  HighWater,        \* config.cnpmcore.taskQueueHighWaterSize
  MaxAttempts,      \* 3 in the source: TaskService.ts:157
  MaxRetries,       \* bound: times workers call retryTask on one task
  MaxFaults         \* bound: failing calls and crashing processes in a run

Proc == Client \cup Worker \cup Handler

ASSUME ProcAssumption ==
  /\ Client \cap Worker = {}
  /\ Client \cap Handler = {}
  /\ Worker \cap Handler = {}

ASSUME TaskAssumption ==
  /\ NoTask \notin TaskId
  /\ \A t \in TaskId : \E full \in BOOLEAN, versions \in SUBSET Version :
       Request[t] = NewTask(full, versions)

ASSUME BoundAssumption ==
  /\ HighWater \in Nat
  /\ MaxAttempts \in Nat \ {0}
  /\ MaxRetries \in Nat
  /\ MaxFaults \in Nat

\* Task.needMergeWhenWaiting
NeedMergeWhenWaiting == Type \in {"sync_binary", "sync_package"}

VARIABLES
  tasks,     \* the tasks table
  history,   \* the history_tasks table
  old,       \* ids of rows whose updatedAt is older than their state's timeout
  queue,     \* the redis sorted set, lowest score first
  unused,    \* ids no createTask call has drawn yet
  pc,        \* where each process is
  cur,       \* the task id it has in hand
  ent,       \* its in-memory Task entity
  todo,      \* the rows a handler's findTimeoutTasks returned, still to do
  phase,     \* which of its two lists the handler is going through
  retries,   \* history: calls of retryTask by workers, per task
  raced,     \* history: tasks a handler treated while, or after, others did
  faults,    \* history: faults so far
  starts,    \* history: times workers started a task, while not in setBack
  setBack    \* history: tasks whose attempts a save of an older copy lowered

tables == <<tasks, history, old>>
locals == <<pc, cur, ent>>
sweep  == <<todo, phase>>
counts == <<starts, setBack>>
ghosts == <<retries, raced, faults, counts>>
vars   == <<tables, queue, unused, locals, sweep, ghosts>>

PC == {"idle", "insert", "adopt", "merge", "update", "boost",   \* createTask
       "fetch", "claim", "run",                                 \* a worker
       "sweep",                                                 \* a handler
       "save", "push",                                          \* retryTask
       "find", "history", "remove"}                             \* finishTask

\* A process at one of these has a copy of the task that it will write back.
Holding == {"run", "save", "find", "history", "remove"}
Holds(p, t) == cur[p] = t /\ pc[p] \in Holding

Init ==
  /\ tasks = [t \in TaskId |-> Absent]
  /\ history = [t \in TaskId |-> Absent]
  /\ old = {}
  /\ queue = <<>>
  /\ unused = TaskId
  /\ pc = [p \in Proc |-> "idle"]
  /\ cur = [p \in Proc |-> NoTask]
  /\ ent = [p \in Proc |-> Absent]
  /\ todo = [h \in Handler |-> [t \in TaskId |-> Absent]]
  /\ phase = [h \in Handler |-> "processing"]
  /\ retries = [t \in TaskId |-> 0]
  /\ raced = {}
  /\ faults = 0
  /\ starts = [t \in TaskId |-> 0]
  /\ setBack = {}

Goto(p, label) == pc' = [pc EXCEPT ![p] = label]

\* The call p was executing returns.  A handler goes on with its list.
Return(p) ==
  /\ Goto(p, IF p \in Handler THEN "sweep" ELSE "idle")
  /\ cur' = [cur EXCEPT ![p] = NoTask]
  /\ ent' = [ent EXCEPT ![p] = Absent]

TakeUp(p, t, task, label) ==
  /\ Goto(p, label)
  /\ cur' = [cur EXCEPT ![p] = t]
  /\ ent' = [ent EXCEPT ![p] = task]

-----------------------------------------------------------------------------
(* createTask *)

LiveTasks == {t \in TaskId : Exists(tasks[t])}

SameTarget(t) == {u \in LiveTasks : Target[u] = Target[t]}
SameBizId(t) == {u \in LiveTasks : BizId[t] # NoBizId /\ BizId[u] = BizId[t]}

\* Mutant: the comparison of the state is inverted.
CreateUnlessExecuting(c, t) ==
  /\ pc[c] = "idle" /\ t \in unused
  /\ ~NeedMergeWhenWaiting \/ \A u \in SameTarget(t) : tasks[u].state = "waiting"
  /\ unused' = unused \ {t}
  /\ TakeUp(c, t, Request[t], "insert")
  /\ UNCHANGED <<tables, queue, sweep, ghosts>>

\* findTaskByTargetName finds nothing, or the type is never merged.
CreateNew(c, t) ==
  /\ pc[c] = "idle" /\ t \in unused
  /\ ~NeedMergeWhenWaiting \/ SameTarget(t) = {}
  /\ unused' = unused \ {t}
  /\ TakeUp(c, t, Request[t], "insert")
  /\ UNCHANGED <<tables, queue, sweep, ghosts>>

\* It finds u, still waiting: the request is to be folded into u.
CreateExisting(c, t, u) ==
  /\ pc[c] = "idle" /\ t \in unused
  /\ NeedMergeWhenWaiting /\ u \in SameTarget(t)
  /\ tasks[u].state = "waiting"
  /\ unused' = unused \ {t}
  /\ TakeUp(c, u, Request[t],
            IF Type = "sync_package" /\ ~tasks[u].full THEN "merge" ELSE "boost")
  /\ UNCHANGED <<tables, queue, sweep, ghosts>>

\* It finds u, no longer waiting: the call returns u and does nothing.
CreateSwallowed(c, t, u) ==
  /\ pc[c] = "idle" /\ t \in unused
  /\ NeedMergeWhenWaiting /\ u \in SameTarget(t)
  /\ tasks[u].state # "waiting"
  /\ unused' = unused \ {t}
  /\ UNCHANGED <<tables, queue, locals, sweep, ghosts>>

\* updateSpecificVersionsOfWaitingTask: the second read of the row.
MergeRead(c) ==
  /\ pc[c] = "merge"
  /\ IF Exists(tasks[cur[c]]) /\ ~tasks[cur[c]].full
     THEN TakeUp(c, cur[c], Merged(tasks[cur[c]], ent[c]), "update")
     ELSE TakeUp(c, cur[c], ent[c], "boost")
  /\ UNCHANGED <<tables, queue, unused, sweep, ghosts>>

MergeUpdate(c) ==
  /\ pc[c] = "update"
  /\ tasks' = UpdateData(tasks, cur[c], ent[c])
  /\ old' = old \ {cur[c]}
  /\ Goto(c, "boost")
  /\ UNCHANGED <<history, queue, unused, cur, ent, sweep, ghosts>>

\* addTaskQueueOnExists and a queue below the high-water mark.
BoostQueued(c) ==
  /\ pc[c] = "boost"
  /\ Len(queue) < HighWater
  /\ Goto(c, "push")
  /\ UNCHANGED <<tables, queue, unused, cur, ent, sweep, ghosts>>

\* Not addTaskQueueOnExists, or too many tasks in the queue.
BoostSkipped(c) ==
  /\ pc[c] = "boost"
  /\ Return(c)
  /\ UNCHANGED <<tables, queue, unused, sweep, ghosts>>

\* Mutant: the high-water mark also holds back the task that was just saved.
InsertBelowHighWater(c) ==
  /\ pc[c] = "insert"
  /\ IF SameBizId(cur[c]) = {}
     THEN /\ tasks' = [tasks EXCEPT ![cur[c]] = ent[c]]
          /\ IF Len(queue) < HighWater
             THEN Goto(c, "push") /\ UNCHANGED <<cur, ent>>
             ELSE Return(c)
     ELSE /\ Goto(c, "adopt")
          /\ UNCHANGED <<tasks, cur, ent>>
  /\ UNCHANGED <<history, old, queue, unused, sweep, ghosts>>

\* saveTask of a task without id: INSERT, unless bizId is taken.
Insert(c) ==
  /\ pc[c] = "insert"
  /\ IF SameBizId(cur[c]) = {}
     THEN /\ tasks' = [tasks EXCEPT ![cur[c]] = ent[c]]
          /\ Goto(c, "push")
     ELSE /\ Goto(c, "adopt")
          /\ UNCHANGED tasks
  /\ UNCHANGED <<history, old, queue, unused, cur, ent, sweep, ghosts>>

\* Mutant: the duplicate keeps the id it was created with.
AdoptNothing(c) ==
  /\ pc[c] = "adopt"
  /\ Goto(c, "push")
  /\ UNCHANGED <<tables, queue, unused, cur, ent, sweep, ghosts>>

\* The duplicate-key branch: take over the id of the row with this bizId, or
\* rethrow when that row is gone by now.
Adopt(c) ==
  /\ pc[c] = "adopt"
  /\ \/ \E u \in SameBizId(cur[c]) : TakeUp(c, u, ent[c], "push")
     \/ SameBizId(cur[c]) = {} /\ Return(c)
  /\ UNCHANGED <<tables, queue, unused, sweep, ghosts>>

\* The last step of createTask and of retryTask.
PushTask(p) ==
  /\ pc[p] = "push"
  /\ queue' = Push(queue, cur[p])
  /\ Return(p)
  /\ UNCHANGED <<tables, unused, sweep, ghosts>>

-----------------------------------------------------------------------------
(* findExecuteTask *)

PopTask(w) ==
  /\ pc[w] = "idle" /\ queue # <<>>
  /\ queue' = Tail(queue)
  /\ TakeUp(w, Head(queue), Absent, "fetch")
  /\ UNCHANGED <<tables, unused, sweep, ghosts>>

\* A task that is gone or not waiting is skipped, and the loop pops again.
FetchTask(w) ==
  /\ pc[w] = "fetch"
  /\ LET found == FindTask(tasks, history, cur[w])
     IN  IF found.state = "waiting"
         THEN TakeUp(w, cur[w], Started(found), "claim")
         ELSE Return(w)
  /\ UNCHANGED <<tables, queue, unused, sweep, ghosts>>

\* idempotentSaveTask: the row is overwritten with the started entity if its
\* attempts are still those that were read.
ClaimTask(w) ==
  /\ pc[w] = "claim"
  /\ IF CanClaim(tasks, cur[w], ent[w])
     THEN /\ tasks' = [tasks EXCEPT ![cur[w]] = ent[w]]
          /\ old' = old \ {cur[w]}
          /\ Goto(w, "run")
          /\ raced' = IF \E h \in Handler : Holds(h, cur[w])
                      THEN raced \cup {cur[w]} ELSE raced
          /\ starts' = IF cur[w] \in setBack THEN starts
                       ELSE [starts EXCEPT ![cur[w]] = @ + 1]
          /\ UNCHANGED <<cur, ent>>
     ELSE Return(w) /\ UNCHANGED <<tasks, old, raced, starts>>
  /\ UNCHANGED <<history, queue, unused, sweep, retries, faults, setBack>>

-----------------------------------------------------------------------------
(* executeTask, as far as it touches the task itself *)

\* p saves the whole of its copy, and with it the attempts the copy has.
SaveCopy(p) ==
  /\ tasks' = SaveTask(tasks, cur[p], ent[p])
  /\ old' = old \ {cur[p]}
  /\ setBack' = IF tasks'[cur[p]].attempts < tasks[cur[p]].attempts
                THEN setBack \cup {cur[p]} ELSE setBack
  /\ UNCHANGED <<retries, raced, faults, starts>>

\* appendTaskLog saves the whole entity.
AppendTaskLog(w) ==
  /\ pc[w] = "run"
  /\ SaveCopy(w)
  /\ UNCHANGED <<history, queue, unused, locals, sweep>>

\* Mutant: finishTask saves the final state in the tasks table.
FinishBySaving(w, state) ==
  /\ pc[w] = "run"
  /\ TakeUp(w, cur[w], [ent[w] EXCEPT !.state = state], "save")
  /\ UNCHANGED <<tables, queue, unused, sweep, ghosts>>

\* executeTask calls finishTask(task, state) ...
Finish(w, state) ==
  /\ pc[w] = "run"
  /\ TakeUp(w, cur[w], [ent[w] EXCEPT !.state = state], "find")
  /\ UNCHANGED <<tables, queue, unused, sweep, ghosts>>

\* ... or retryTask(task).
Retry(w) ==
  /\ pc[w] = "run"
  /\ retries[cur[w]] < MaxRetries
  /\ retries' = [retries EXCEPT ![cur[w]] = @ + 1]
  /\ TakeUp(w, cur[w], [ent[w] EXCEPT !.state = "waiting"], "save")
  /\ UNCHANGED <<tables, queue, unused, sweep, raced, faults, counts>>

\* retryTask: save, then PushTask.
SaveRetry(p) ==
  /\ pc[p] = "save"
  /\ SaveCopy(p)
  /\ Goto(p, "push")
  /\ UNCHANGED <<history, queue, unused, cur, ent, sweep>>

\* Mutant: the live row is removed before the history row is written.
FindAndRemove(p) ==
  /\ pc[p] = "find"
  /\ IF Exists(tasks[cur[p]])
     THEN /\ tasks' = [tasks EXCEPT ![cur[p]] = Absent]
          /\ Goto(p, "history")
          /\ UNCHANGED <<cur, ent>>
     ELSE Return(p) /\ UNCHANGED tasks
  /\ UNCHANGED <<history, old, queue, unused, sweep, ghosts>>

\* saveTaskToHistory: nothing to do if the row is gone, else write the history
\* row (insert or overwrite), then remove the live one.
FindFinished(p) ==
  /\ pc[p] = "find"
  /\ IF Exists(tasks[cur[p]])
     THEN Goto(p, "history") /\ UNCHANGED <<cur, ent>>
     ELSE Return(p)
  /\ UNCHANGED <<tables, queue, unused, sweep, ghosts>>

SaveHistory(p) ==
  /\ pc[p] = "history"
  /\ history' = [history EXCEPT ![cur[p]] = ent[p]]
  /\ Goto(p, "remove")
  /\ UNCHANGED <<tasks, old, queue, unused, cur, ent, sweep, ghosts>>

RemoveTask(p) ==
  /\ pc[p] = "remove"
  /\ tasks' = [tasks EXCEPT ![cur[p]] = Absent]
  /\ old' = old \ {cur[p]}
  /\ Return(p)
  /\ UNCHANGED <<history, queue, unused, sweep, ghosts>>

-----------------------------------------------------------------------------
(* retryExecuteTimeoutTasks *)

\* Mutant: waiting tasks are taken to be in the queue anyway.
ProcessingTimeoutTasks(state) ==
  [t \in TaskId |-> IF t \in old /\ tasks[t].state = state /\ state = "processing"
                    THEN tasks[t] ELSE Absent]

\* findTimeoutTasks(state, timeout)
TimeoutTasks(state) ==
  [t \in TaskId |-> IF t \in old /\ tasks[t].state = state
                    THEN tasks[t] ELSE Absent]

ListDone(h) == \A t \in TaskId : ~Exists(todo[h][t])

\* A schedule tick.  A sweep that would find nothing is not started.
SweepProcessing(h) ==
  /\ pc[h] = "idle" /\ old # {}
  /\ Goto(h, "sweep")
  /\ phase' = [phase EXCEPT ![h] = "processing"]
  /\ todo' = [todo EXCEPT ![h] = TimeoutTasks("processing")]
  /\ UNCHANGED <<tables, queue, unused, cur, ent, ghosts>>

SweepWaiting(h) ==
  /\ pc[h] = "sweep" /\ phase[h] = "processing" /\ ListDone(h)
  /\ phase' = [phase EXCEPT ![h] = "waiting"]
  /\ todo' = [todo EXCEPT ![h] = TimeoutTasks("waiting")]
  /\ UNCHANGED <<tables, queue, unused, locals, ghosts>>

SweepEnd(h) ==
  /\ pc[h] = "sweep" /\ phase[h] = "waiting" /\ ListDone(h)
  /\ Goto(h, "idle")
  /\ phase' = [phase EXCEPT ![h] = "processing"]
  /\ UNCHANGED <<tables, queue, unused, cur, ent, todo, ghosts>>

\* The handler comes to task t of its list: its copy may be outdated, and
\* others may be holding t.
Overtakes(h, t) ==
  \/ tasks[t] # todo[h][t]
  \/ \E p \in Proc \ {h} : Holds(p, t)

NextOnList(h, t, state, label) ==
  /\ pc[h] = "sweep" /\ Exists(todo[h][t])
  /\ todo' = [todo EXCEPT ![h][t] = Absent]
  /\ TakeUp(h, t, [todo[h][t] EXCEPT !.state = state], label)
  /\ raced' = IF Overtakes(h, t) THEN raced \cup {t} ELSE raced
  /\ UNCHANGED <<tables, queue, unused, phase, retries, faults, counts>>

\* Mutant: off by one.
GivesUpLate(task) == task.attempts > MaxAttempts /\ Type # "changes_stream"

\* A ChangesStream task never gives up, whatever its attempts.
GivesUp(task) == task.attempts >= MaxAttempts /\ Type # "changes_stream"

TimeoutFinish(h, t) ==
  /\ phase[h] = "processing" /\ GivesUp(todo[h][t])
  /\ NextOnList(h, t, "timeout", "find")

TimeoutRetry(h, t) ==
  /\ phase[h] = "waiting" \/ ~GivesUp(todo[h][t])
  /\ NextOnList(h, t, "waiting", "save")

-----------------------------------------------------------------------------
(* the environment *)

\* updatedAt of row t falls behind its timeout: 10 minutes if processing, 30
\* if waiting.  Nothing in the code keeps this from happening to a task that a
\* slow worker is still executing or that is far back in the queue.
TimePasses(t) ==
  /\ Exists(tasks[t]) /\ t \notin old
  /\ old' = old \cup {t}
  /\ UNCHANGED <<tasks, history, queue, unused, locals, sweep, ghosts>>

\* A database, redis or storage call of p throws: the caller of p's operation
\* logs the error, and a handler goes on with the next task of its list.
CallFails(p) ==
  /\ pc[p] \notin {"idle", "sweep"}
  /\ faults < MaxFaults
  /\ faults' = faults + 1
  /\ Return(p)
  /\ UNCHANGED <<tables, queue, unused, sweep, retries, raced, counts>>

\* The process that runs the handler dies in the middle of a sweep.
HandlerCrash(h) ==
  /\ pc[h] # "idle"
  /\ faults < MaxFaults
  /\ faults' = faults + 1
  /\ TakeUp(h, NoTask, Absent, "idle")
  /\ todo' = [todo EXCEPT ![h] = [t \in TaskId |-> Absent]]
  /\ phase' = [phase EXCEPT ![h] = "processing"]
  /\ UNCHANGED <<tables, queue, unused, retries, raced, counts>>

-----------------------------------------------------------------------------
ClientStep(c) ==
  \/ \E t \in TaskId : \/ CreateNew(c, t)
                       \/ \E u \in TaskId : CreateExisting(c, t, u)
                       \/ \E u \in TaskId : CreateSwallowed(c, t, u)
  \/ MergeRead(c) \/ MergeUpdate(c) \/ BoostQueued(c) \/ BoostSkipped(c)
  \/ Insert(c) \/ Adopt(c)

WorkerStep(w) ==
  \/ PopTask(w) \/ FetchTask(w) \/ ClaimTask(w)
  \/ AppendTaskLog(w) \/ Retry(w)
  \/ \E state \in {"success", "fail"} : Finish(w, state)

HandlerStep(h) ==
  \/ SweepProcessing(h) \/ SweepWaiting(h) \/ SweepEnd(h)
  \/ \E t \in TaskId : TimeoutFinish(h, t) \/ TimeoutRetry(h, t)
  \/ HandlerCrash(h)

SharedStep(p) ==
  \/ PushTask(p) \/ SaveRetry(p)
  \/ FindFinished(p) \/ SaveHistory(p) \/ RemoveTask(p)
  \/ CallFails(p)

Next ==
  \/ \E c \in Client : ClientStep(c)
  \/ \E w \in Worker : WorkerStep(w)
  \/ \E h \in Handler : HandlerStep(h)
  \/ \E p \in Proc : SharedStep(p)
  \/ \E t \in TaskId : TimePasses(t)

Spec == Init /\ [][Next]_vars

-----------------------------------------------------------------------------
(* Fairness.  Workers and the handler are schedules that tick for ever, and  *)
(* an awaited call returns or throws, so every process that has something to *)
(* do next does it.  Requests, retries, log lines and faults owe nothing.    *)
Fairness ==
  /\ \A c \in Client :
       WF_vars(MergeRead(c) \/ MergeUpdate(c) \/ BoostQueued(c)
               \/ BoostSkipped(c) \/ Insert(c) \/ Adopt(c))
  /\ \A w \in Worker :
       WF_vars(PopTask(w) \/ FetchTask(w) \/ ClaimTask(w)
               \/ \E state \in {"success", "fail"} : Finish(w, state))
  /\ \A h \in Handler :
       WF_vars(SweepProcessing(h) \/ SweepWaiting(h) \/ SweepEnd(h)
               \/ \E t \in TaskId : TimeoutFinish(h, t) \/ TimeoutRetry(h, t))
  /\ \A p \in Proc :
       WF_vars(PushTask(p) \/ SaveRetry(p)
               \/ FindFinished(p) \/ SaveHistory(p) \/ RemoveTask(p))
  /\ \A t \in TaskId : WF_vars(TimePasses(t))

FairSpec == Spec /\ Fairness

-----------------------------------------------------------------------------
(* Properties *)

\* Types of the variables.  No task has a final state while it is in the tasks
\* table, so that TaskRepository's lookups find unfinished tasks only, and none
\* has another in history.
TypeOK ==
  /\ tasks \in [TaskId -> LiveRow] /\ history \in [TaskId -> HistoryRow]
  /\ old \subseteq TaskId
  /\ queue \in Seq(TaskId)
  /\ unused \subseteq TaskId
  /\ pc \in [Proc -> PC]
  /\ cur \in [Proc -> TaskId \cup {NoTask}]
  /\ ent \in [Proc -> Row]
  /\ todo \in [Handler -> [TaskId -> LiveRow]]
  /\ phase \in [Handler -> {"processing", "waiting"}]
  /\ retries \in [TaskId -> 0..MaxRetries]
  /\ raced \subseteq TaskId
  /\ faults \in 0..MaxFaults
  /\ starts \in [TaskId -> Nat] /\ setBack \subseteq TaskId

Known(t) == Exists(tasks[t]) \/ Exists(history[t])

\* Every id that is in the queue, or that a process works on, can be looked up
\* in one of the two tables: finishTask moves a task between the tables without
\* an instant at which it is in neither.
IdsResolve ==
  /\ \A i \in DOMAIN queue : Known(queue[i])
  /\ \A p \in Proc : cur[p] # NoTask /\ pc[p] \notin {"insert", "adopt"}
                       => Known(cur[p])

\* The compare-and-set on attempts in findExecuteTask gives a task to one owner
\* at a time: two processes hold copies of a task they will write back only if
\* the timeout handler treated it while somebody held it, or from an outdated
\* copy.
OneHolder ==
  \A t \in TaskId \ raced : \A p, q \in Proc :
    Holds(p, t) /\ Holds(q, t) => p = q

\* Workers start a task at most as often as the handler's limit allows and
\* executeTask asked for a retry, whatever sweeps, crashes and races give it back
\* to the queue.  A task whose attempts were lowered is excepted: a worker that
\* timed out and still logs saves its older copy over the row, so that the
\* handler, which goes by the row's attempts, retries the task once more, and may
\* do so again and again.
StartsLimited ==
  Type # "changes_stream" =>
    \A t \in TaskId \ setBack : starts[t] <= MaxAttempts + retries[t]

InHand(t) == \E p \in Proc : cur[p] = t /\ pc[p] # "insert"
InQueue(t) == Position(queue, t) # {}

\* As long as no call fails and no process dies, no task needs the timeouts: a
\* waiting one is in the queue or in the hands of somebody who will push or
\* start it, a processing one is in the hands of a worker.
NoneStranded ==
  faults = 0 =>
    \A t \in LiveTasks :
      \/ InHand(t)
      \/ tasks[t].state = "waiting" /\ InQueue(t)

\* The lookup and the insert of createTask are two statements, so that requests
\* which overlap create duplicates, but no others do: no more tasks of a package
\* wait than there are requests at a time.  It is about waiting tasks: a request
\* that finds its package's task executing makes none at all (TaskService.ts:75),
\* although the comment in createTask asks for one.
WaitingTasks(t) == {u \in SameTarget(t) : tasks[u].state = "waiting"}

DuplicatesBounded ==
  NeedMergeWhenWaiting =>
    \A t \in LiveTasks : Cardinality(WaitingTasks(t)) <= Cardinality(Client)

\* A task's verdict does not change once it is in, and only in, history,
\* unless a timeout overtook its execution.
VerdictFinal ==
  [][\A t \in TaskId \ raced :
       Exists(history[t]) /\ ~Exists(tasks[t]) => history'[t] = history[t]]_vars

\* A caller polling findTask sees the life of a task that TaskLifecycle states.
Status(t) ==
  IF Exists(tasks[t]) THEN tasks[t].state
  ELSE IF Exists(history[t]) THEN history[t].state ELSE "none"

Lifecycle == INSTANCE TaskLifecycle
               WITH status <- [t \in TaskId |-> Status(t)]

ImplementsLifecycle == Lifecycle!Spec

\* With finitely many faults, every task that was saved ends up in history and
\* out of the tasks table: retries and timeouts do not go round for ever.
EveryTaskFinishes ==
  \A t \in TaskId : Exists(tasks[t]) ~> Exists(history[t]) /\ ~Exists(tasks[t])

-----------------------------------------------------------------------------
(* The inductive invariant behind TypeOK, IdsResolve, OneHolder and          *)
(* VerdictFinal.                                                             *)

\* What process p's task t and entity are when p is at label.
EntAt(p, label, t, task) ==
  /\ label \in {"insert", "adopt", "merge", "update", "boost"} => p \in Client
  /\ label \in {"fetch", "claim", "run"} => p \in Worker
  /\ label \in Holding => p \notin Client
  /\ label \in {"idle", "sweep"} <=> t = NoTask
  /\ label \in {"insert", "save"} => task.state = "waiting"
  /\ label \in {"claim", "run"} => task.state = "processing"
  /\ label \in {"find", "history", "remove"} => task.state \in FinalState

EntOK == \A p \in Proc : EntAt(p, pc[p], cur[p], ent[p])

\* Nobody but its creator knows an id before its row is saved, and every list
\* a handler works through holds ids that were saved.
IdsFresh ==
  /\ \A t \in unused : ~Known(t) /\ \A p \in Proc : cur[p] # t
  /\ \A p \in Proc : pc[p] \in {"insert", "adopt"} =>
       /\ ~Known(cur[p]) /\ cur[p] \notin unused
       /\ \A q \in Proc : cur[q] = cur[p] => q = p
  /\ \A h \in Handler, t \in TaskId : Exists(todo[h][t]) => Known(t)
  /\ \A p \in Proc : pc[p] = "remove" => Exists(history[cur[p]])

\* The attempts of a row that was not raced never fall: its holder has the
\* row's attempts, and everybody about to claim it expects attempts that the
\* row has at most, and that it has passed if a worker holds it.
Claims(p, t) == pc[p] = "claim" /\ cur[p] = t

AttemptsAt(t) ==
  \A p \in Proc :
    /\ Holds(p, t) /\ Exists(tasks[t]) =>
         /\ tasks[t].attempts = ent[p].attempts
         /\ p \in Worker => tasks[t].state = "processing"
    /\ Claims(p, t) /\ Exists(tasks[t]) =>
         ent[p].attempts <= tasks[t].attempts + 1
    /\ Claims(p, t) => \A q \in Worker : Holds(q, t) =>
         ent[p].attempts <= ent[q].attempts
    /\ pc[p] \in {"history", "remove"} /\ cur[p] = t => Exists(tasks[t])

AttemptsOK == \A t \in TaskId \ raced : AttemptsAt(t)

Inductive ==
  TypeOK /\ EntOK /\ IdsResolve /\ IdsFresh /\ OneHolder /\ AttemptsOK
-----------------------------------------------------------------------------
(* The inductive invariants behind StartsLimited, NoneStranded and           *)
(* DuplicatesBounded; each holds on top of Inductive.                        *)

\* Of a task that was retried n times, a copy that waits has a start left.
StartsLeft(task, n) ==
  /\ task.attempts <= MaxAttempts + n
  /\ task.state = "waiting" => task.attempts < MaxAttempts + n

StartsOK ==
  Type # "changes_stream" =>
    /\ \A t \in TaskId :
         /\ StartsLeft(tasks[t], retries[t])
         /\ \A p \in Proc : cur[p] = t => StartsLeft(ent[p], retries[t])
         /\ \A h \in Handler :
              /\ StartsLeft(todo[h][t], retries[t])
              /\ phase[h] = "waiting" /\ Exists(todo[h][t]) => todo[h][t].state = "waiting"
    /\ \A p \in Proc : pc[p] \in {"insert", "adopt"} => ent[p].attempts = 0

\* The attempts of a live row count its starts, until a save lowers them.
CountedAt(t) ==
  /\ ~Known(t) => starts[t] = 0
  /\ Exists(tasks[t]) => starts[t] <= tasks[t].attempts
  /\ Type # "changes_stream" => starts[t] <= MaxAttempts + retries[t]

StartsCounted == \A t \in TaskId \ setBack : CountedAt(t)

\* p will push t, or start it, or finish it or let it wait again.
Carries(p, t) ==
  /\ cur[p] = t
  /\ \/ pc[p] \in {"push", "fetch"} \cup Holding
     \/ pc[p] = "claim" /\ tasks[t].attempts + 1 = ent[p].attempts

CarriedAt(t) ==
  /\ tasks[t].state = "processing" => \E p \in Proc : Holds(p, t)
  /\ tasks[t].state = "waiting" => InQueue(t) \/ \E p \in Proc : Carries(p, t)

Carried == faults = 0 => \A t \in TaskId : CarriedAt(t)

\* Requests that have found no task of this target and will insert one.
Inserting(t) == {c \in Client : pc[c] = "insert" /\ Target[cur[c]] = Target[t]}

RoomLeft ==
  NeedMergeWhenWaiting =>
    \A t \in TaskId :
      /\ IsFiniteSet(SameTarget(t))
      /\ Cardinality(SameTarget(t)) + Cardinality(Inserting(t)) <= Cardinality(Client)
=============================================================================
