---------------------------- MODULE HookPipeline ----------------------------
(***************************************************************************)
(* Webhooks.  A change of a package is recorded and becomes one            *)
(* create_hook task per detail of the change; executing that one pages     *)
(* through the hooks on the package, its scope and its maintainers and     *)
(* makes a trigger_hook task for each; executing this one calls the hook's *)
(* endpoint and saves the hook.  Meanwhile the owner creates, updates and  *)
(* deletes hooks.                                                          *)
(*                                                                         *)
(* A Task entity carries the numeric id of the row it was last read from   *)
(* or written to, and finishing a task writes it to history_tasks, so from *)
(* then on the entity carries the id of the history row.  The executors of *)
(* hooks go on using it.  That is why rows are numbered here, and a task   *)
(* is known by the number of the row it was inserted as.  The races for a  *)
(* claim and inside finishTask are the subject of TaskQueue: both are one  *)
(* step here.  No call of the program removes a package or a user, so      *)
(* looking them up succeeds.                                               *)
(***************************************************************************)
EXTENDS FiniteSetsExt

CONSTANTS
  Change,         \* the changes of packages that may happen
  Details,        \* Details[c]: the tasks its event handler creates
  Queries,        \* lookups per event: package, scope, one per maintainer
  MaxHook,        \* bound: hooks ever created
  Query,          \* Query[h]: the lookup that finds hook h
  InitialHooks,   \* hooks 1..InitialHooks exist from the start
  Others,         \* those among them that belong to other users
  PageSize,       \* 100 in the source: HookRepository.ts:70
  HooksLimit,     \* config.cnpmcore.hooksLimit
  Creator,        \* slots of CreateTriggerHookWorker
  Triggerer,      \* slots of TriggerHookWorker
  Owner,          \* requests of the one user who owns the hooks
  MaxRow,         \* bound: rows ever inserted into tasks
  HistoryStart,   \* auto-increment of history_tasks, when that of tasks is 1;
                  \* 1 if both tables are new
  MaxUpdates,     \* bound: updates of hooks by their owner
  MaxFaults       \* bound: failing calls and crashing processes

RowId  == 1 .. MaxRow
HookId == 1 .. MaxHook
Worker == Creator \cup Triggerer

ASSUME SetAssumption ==
  /\ Creator \cap Triggerer = {}
  /\ Details \in [Change -> Nat \ {0}]
  /\ Query \in [HookId -> 1 .. Queries]
  /\ Others \subseteq 1 .. InitialHooks
  \* uk_type_name_owner_id
  /\ \A g, h \in (1 .. InitialHooks) \ Others : Query[g] = Query[h] => g = h

ASSUME NumberAssumption ==
  /\ Queries \in Nat \ {0}     \* the package is always looked up
  /\ MaxHook \in Nat /\ MaxRow \in Nat
  /\ PageSize \in Nat \ {0}
  /\ HooksLimit \in Nat /\ InitialHooks \in 0 .. MaxHook
  /\ HistoryStart \in Nat \ {0}
  /\ MaxUpdates \in Nat
  /\ MaxFaults \in 0 .. 2      \* a third attempt that fails is the last one

VARIABLES
  rows,       \* the tasks table
  nextRow,    \* its auto-increment
  hist,       \* history_tasks: the state of each task in it
  nextHist,   \* its auto-increment
  strayed,    \* history: a row was saved or removed for another task than its own
  queue,      \* per type, the ids in the redis queue
  hooks,      \* the hooks table
  nextHook,   \* its auto-increment
  recorded,   \* the changes table
  sent,       \* per change: details whose task was saved
  pending,    \* per change: the task still to be pushed, or 0
  due,        \* history: changes, with the hooks there were at the time
  at,         \* where each worker is
  ent,        \* its Task entity: row id, task id, data
  cursor,     \* a creator's query, and the last hook id of its page
  todo,       \* hooks of the page that have no task yet
  unpushed,   \* tasks saved for the page, not pushed yet
  disordered, \* history: a page was not the next hooks in the order of their ids
  copy,       \* the hook a triggerer has read
  asks,       \* what each request of the owner is about to write
  updates,    \* updates so far; the n-th sets endpoint n
  removed,    \* history: the hooks the owner deleted
  calls,      \* history: calls made, per event and hook
  faults      \* faults so far

tables    == <<rows, nextRow, hist, nextHist, strayed>>
publisher == <<recorded, sent, pending, due>>
creator   == <<cursor, todo, unpushed, disordered>>
owner     == <<nextHook, asks, updates, removed>>
vars == <<tables, queue, hooks, publisher, at, ent, creator, copy, owner,
          calls, faults>>

\* data of a task: hook = 0 in a create_hook task.  change and hook make its
\* bizId; detail tells apart the events of one change.
Job(c, d, h) == [change |-> c, detail |-> d, hook |-> h]
Type(job) == IF job.hook = 0 THEN "create_hook" ELSE "trigger_hook"
BizId(job) == <<job.change, job.hook>>

Events == UNION {{<<c, d>> : d \in 1 .. Details[c]} : c \in Change}
Jobs   == {Job(e[1], e[2], h) : e \in Events, h \in 0 .. MaxHook}

TaskRow(task, job, state) == [task |-> task, job |-> job, state |-> state]

NoTask == [task |-> 0, state |-> "absent"]
NoHook == [endpoint |-> 0, latest |-> 0, exists |-> FALSE]
NoEnt  == [id |-> 0, task |-> 0]
NoAsk  == [write |-> "nothing"]
NoCursor == [query |-> 0, since |-> 0]

Serves(w) == IF w \in Creator THEN "create_hook" ELSE "trigger_hook"

Init ==
  /\ rows = [r \in RowId |-> NoTask]
  /\ nextRow = 1
  /\ hist = [t \in RowId |-> "absent"]
  /\ nextHist = HistoryStart
  /\ strayed = FALSE
  /\ queue = [type \in {"create_hook", "trigger_hook"} |-> {}]
  /\ hooks = [h \in HookId |-> [NoHook EXCEPT !.exists = h <= InitialHooks]]
  /\ nextHook = InitialHooks + 1
  /\ recorded = {}
  /\ sent = [c \in Change |-> 0]
  /\ pending = [c \in Change |-> 0]
  /\ due = {}
  /\ at = [w \in Worker |-> "idle"]
  /\ ent = [w \in Worker |-> NoEnt]
  /\ cursor = [w \in Creator |-> NoCursor]
  /\ todo = [w \in Creator |-> {}]
  /\ unpushed = [w \in Creator |-> {}]
  /\ disordered = FALSE
  /\ copy = [w \in Triggerer |-> NoHook]
  /\ asks = [o \in Owner |-> NoAsk]
  /\ updates = 0
  /\ removed = {}
  /\ calls = [k \in Events \X HookId |-> 0]
  /\ faults = 0

-----------------------------------------------------------------------------
(* The calls of TaskService and TaskRepository *)

InTable(r) == r \in RowId /\ rows[r].state # "absent"
RowsOf(task) == {r \in RowId : InTable(r) /\ rows[r].task = task}
SameBizId(job) == {r \in RowId : InTable(r) /\ BizId(rows[r].job) = BizId(job)}

Known(task) == RowsOf(task) # {} \/ hist[task] # "absent"

\* saveTask of a new task: an insert, or, when the bizId is taken, the id of the
\* task that has it.  task is what is left to push.
SaveNew(job, task) ==
  IF SameBizId(job) = {}
  THEN /\ task = nextRow /\ nextRow \in RowId
       /\ rows' = [rows EXCEPT ![nextRow] = TaskRow(nextRow, job, "waiting")]
       /\ nextRow' = nextRow + 1
  ELSE /\ \E r \in SameBizId(job) : task = rows[r].task
       /\ UNCHANGED <<rows, nextRow>>

PushTasks(type, tasks) == queue' = [queue EXCEPT ![type] = @ \cup tasks]

\* The row of the entity's number is that of another task.
Strays(w) == InTable(ent[w].id) /\ rows[ent[w].id].task # ent[w].task
Stray(w) == strayed' = (strayed \/ Strays(w))

\* uk_biz_id: another row has the bizId that would be written.
Refused(w) == InTable(ent[w].id) /\ SameBizId(ent[w].job) \ {ent[w].id} # {}

\* saveTask of an entity with an id: the row of that number, whosever it is.
SaveEnt(w, state) ==
  /\ ~Refused(w)
  /\ rows' = IF InTable(ent[w].id)
             THEN [rows EXCEPT ![ent[w].id] = TaskRow(ent[w].task, ent[w].job, state)]
             ELSE rows
  /\ Stray(w)

Goto(w, label) == at' = [at EXCEPT ![w] = label]

\* Mutant: the state is saved, the row stays where it is.
FinishBySaving(w, state) ==
  /\ SaveEnt(w, state)
  /\ UNCHANGED <<nextRow, hist, nextHist>>

\* Mutant: the row is removed before, and whether or not, history is written.
FinishWithoutHistory(w, state) ==
  /\ rows' = IF InTable(ent[w].id)
             THEN [rows EXCEPT ![ent[w].id] = NoTask] ELSE rows
  /\ Stray(w)
  /\ UNCHANGED <<nextRow, hist, nextHist>>

\* finishTask: saveTaskToHistory gives up if there is no row of the entity's
\* number; a first history row gives the entity its own number.
Finish(w, state) ==
  /\ IF InTable(ent[w].id)
     THEN /\ rows' = [rows EXCEPT ![ent[w].id] = NoTask]
          /\ hist' = [hist EXCEPT ![ent[w].task] = state]
          /\ nextHist' = IF hist[ent[w].task] = "absent"
                         THEN nextHist + 1 ELSE nextHist
     ELSE UNCHANGED <<rows, hist, nextHist>>
  /\ Stray(w)
  /\ UNCHANGED nextRow

FinishedId(w) ==
  IF InTable(ent[w].id) /\ hist[ent[w].task] = "absent"
  THEN nextHist ELSE ent[w].id

\* executeTask returns.
Leave(w) ==
  /\ Goto(w, "idle")
  /\ ent' = [ent EXCEPT ![w] = NoEnt]
  /\ cursor' = [v \in Creator |-> IF v = w THEN NoCursor ELSE cursor[v]]
  /\ todo' = [v \in Creator |-> IF v = w THEN {} ELSE todo[v]]
  /\ unpushed' = [v \in Creator |-> IF v = w THEN {} ELSE unpushed[v]]
  /\ copy' = [v \in Triggerer |-> IF v = w THEN NoHook ELSE copy[v]]
  /\ UNCHANGED disordered

\* findExecuteTask: pop; an id that no waiting task has is skipped.
Take(w) ==
  /\ at[w] = "idle"
  /\ \E task \in queue[Serves(w)] :
       /\ queue' = [queue EXCEPT ![Serves(w)] = @ \ {task}]
       /\ \/ /\ \E r \in RowsOf(task) :
                  /\ rows[r].state = "waiting"
                  /\ rows' = [rows EXCEPT ![r].state = "processing"]
                  /\ ent' = [ent EXCEPT ![w] =
                               [id |-> r, task |-> task, job |-> rows[r].job]]
             /\ Goto(w, "start")
          \/ /\ \A r \in RowsOf(task) : rows[r].state # "waiting"
             /\ UNCHANGED <<rows, at, ent>>
  /\ UNCHANGED <<nextRow, hist, nextHist, strayed, hooks, publisher, creator, copy,
                 owner, calls, faults>>

-----------------------------------------------------------------------------
(* event/ChangesStream: the handlers of package events *)

\* addChange; the first detail's task comes next.
Record(c) ==
  /\ c \notin recorded
  /\ recorded' = recorded \cup {c}
  /\ due' = due \cup {<<c, h>> : h \in {g \in HookId : hooks[g].exists}}
  /\ UNCHANGED <<tables, queue, hooks, sent, pending, at, ent, creator, copy,
                 owner, calls, faults>>

\* createTask for the next detail: saveTask ...
SaveCreateHook(c) ==
  /\ c \in recorded /\ pending[c] = 0 /\ sent[c] < Details[c]
  /\ \E task \in RowId :
       /\ SaveNew(Job(c, sent[c] + 1, 0), task)
       /\ pending' = [pending EXCEPT ![c] = task]
  /\ sent' = [sent EXCEPT ![c] = @ + 1]
  /\ UNCHANGED <<hist, nextHist, strayed, queue, hooks, recorded, due, at, ent,
                 creator, copy, owner, calls, faults>>

\* ... and push.
PushCreateHook(c) ==
  /\ pending[c] # 0
  /\ PushTasks("create_hook", {pending[c]})
  /\ pending' = [pending EXCEPT ![c] = 0]
  /\ UNCHANGED <<tables, hooks, recorded, sent, due, at, ent, creator, copy,
                 owner, calls, faults>>

-----------------------------------------------------------------------------
(* CreateHookTriggerService.executeTask *)

\* The task is finished, as "processing", before the work begins.
StartCreate(w) ==
  /\ at[w] = "start"
  /\ Finish(w, "processing")
  /\ ent' = [ent EXCEPT ![w].id = FinishedId(w)]
  /\ cursor' = [cursor EXCEPT ![w] = [query |-> 1, since |-> 0]]
  /\ Goto(w, "log")
  /\ UNCHANGED <<queue, hooks, publisher, todo, unpushed, disordered, copy, owner,
                 calls, faults>>

\* listHooksByTypeAndName.
Matching(query, since) ==
  {h \in HookId : hooks[h].exists /\ Query[h] = query /\ h > since}

\* Mutant: the last hook of a page is on the next one too.
PagesFromSince(query, since) ==
  LET found == {h \in HookId : hooks[h].exists /\ Query[h] = query /\ h >= since}
  IN  {page \in SUBSET found : Cardinality(page) = Min({PageSize, Cardinality(found)})}

\* Any of them, as many as fit: without ORDER BY they come as the index that is
\* used has them, by owner or by id.
Pages(query, since) ==
  {page \in SUBSET Matching(query, since) :
     \/ Cardinality(page) = PageSize
     \/ Cardinality(page) < PageSize /\ page = Matching(query, since)}

\* The hooks up to last are on the page, and no others.
InOrder(page, last, found) == \A h \in found : h \in page <=> h <= last

\* Mutant: only the first page of every lookup but the last is worked through.
TurnOnce(w, since) ==
  LET query == cursor[w].query
      found == Matching(query, since)
  IN  \E page \in Pages(query, since) :
        /\ \/ \E last \in page :
                /\ since = 0
                /\ cursor' = [cursor EXCEPT ![w] = [query |-> query, since |-> last]]
                /\ disordered' = (disordered \/ ~InOrder(page, last, found))
                /\ todo' = [todo EXCEPT ![w] = page]
                /\ Goto(w, "page")
           \/ /\ page = {} \/ since > 0
              /\ cursor' = [cursor EXCEPT ![w] = [query |-> query + 1, since |-> 0]]
              /\ UNCHANGED disordered
              /\ todo' = [todo EXCEPT ![w] = {}]
              /\ Goto(w, IF query < Queries THEN "log" ELSE "finish")

\* The next page to work through, or the next lookup, or the end.
Turn(w, since) ==
  LET query == cursor[w].query
      found == Matching(query, since)
  IN  \E page \in Pages(query, since) :
        /\ todo' = [todo EXCEPT ![w] = page]
        /\ \/ \E last \in page :
                /\ cursor' = [cursor EXCEPT ![w] = [query |-> query, since |-> last]]
                /\ disordered' = (disordered \/ ~InOrder(page, last, found))
                /\ Goto(w, "page")
           \/ /\ page = {}
              /\ cursor' = [cursor EXCEPT ![w] = [query |-> query + 1, since |-> 0]]
              /\ UNCHANGED disordered
              /\ Goto(w, IF query < Queries THEN "log" ELSE "finish")

\* The first page of a lookup, after appendTaskLog.
PushHooks(w) ==
  /\ at[w] = "log"
  /\ SaveEnt(w, "processing")
  /\ Turn(w, 0)
  /\ UNCHANGED <<nextRow, hist, nextHist, queue, hooks, publisher, ent, unpushed,
                 copy, owner, calls, faults>>

\* createTask for one hook of the page: up to five are under way at a time.
SaveTriggerHook(w, h) ==
  /\ at[w] = "page" /\ h \in todo[w]
  /\ \E task \in RowId :
       /\ SaveNew(Job(ent[w].job.change, ent[w].job.detail, h), task)
       /\ unpushed' = [unpushed EXCEPT ![w] = @ \cup {task}]
  /\ todo' = [todo EXCEPT ![w] = @ \ {h}]
  /\ UNCHANGED <<hist, nextHist, strayed, queue, hooks, publisher, at, ent, cursor,
                 disordered, copy, owner, calls, faults>>

PushTriggerHook(w, task) ==
  /\ at[w] = "page" /\ task \in unpushed[w]
  /\ PushTasks("trigger_hook", {task})
  /\ unpushed' = [unpushed EXCEPT ![w] = @ \ {task}]
  /\ UNCHANGED <<tables, hooks, publisher, at, ent, cursor, todo, disordered, copy,
                 owner, calls, faults>>

PageDone(w) == at[w] = "page" /\ todo[w] = {} /\ unpushed[w] = {}

\* All of the page have their tasks: list the next one and append to the log.
NextPage(w) ==
  /\ PageDone(w)
  /\ SaveEnt(w, "processing")
  /\ Turn(w, cursor[w].since)
  /\ UNCHANGED <<nextRow, hist, nextHist, queue, hooks, publisher, ent, unpushed,
                 copy, owner, calls, faults>>

FinishCreate(w) ==
  /\ at[w] = "finish"
  /\ Finish(w, "success")
  /\ Leave(w)
  /\ UNCHANGED <<queue, hooks, publisher, owner, calls, faults>>

\* A call inside the try block throws, because of a fault or of a bizId: pMap
\* starts no other hook of the page, createTask calls under way run to their
\* end, but for the one that failed.
CreateFails(w) ==
  /\ at[w] \in {"log", "page", "finish"}
  /\ \/ faults < MaxFaults /\ faults' = faults + 1
     \/ Refused(w) /\ (at[w] = "log" \/ PageDone(w)) /\ UNCHANGED faults
  /\ \E lost \in SUBSET unpushed[w] :
       /\ Cardinality(lost) <= 1
       /\ PushTasks("trigger_hook", unpushed[w] \ lost)
  /\ Finish(w, "fail")
  /\ Leave(w)
  /\ UNCHANGED <<hooks, publisher, owner, calls>>

-----------------------------------------------------------------------------
(* HookTriggerService.executeTask *)

HookOf(w) == ent[w].job.hook

\* findHookById: a hook deleted meanwhile needs no call.
FindHook(w) ==
  /\ at[w] = "start" /\ hooks[HookOf(w)].exists
  /\ copy' = [copy EXCEPT ![w] = hooks[HookOf(w)]]
  /\ Goto(w, "call")
  /\ UNCHANGED <<tables, queue, hooks, publisher, ent, creator, owner, calls,
                 faults>>

HookGone(w) ==
  /\ at[w] = "start" /\ ~hooks[HookOf(w)].exists
  /\ Finish(w, "success")
  /\ Leave(w)
  /\ UNCHANGED <<queue, hooks, publisher, owner, calls, faults>>

Event(w) == <<ent[w].job.change, ent[w].job.detail>>

\* createTriggerPayload reads the package, the user and the manifest;
\* doExecuteTrigger posts them to the endpoint the worker read.
Call(w) ==
  /\ at[w] = "call"
  /\ calls' = [calls EXCEPT ![<<Event(w), HookOf(w)>>] = @ + 1]
  /\ Goto(w, "save")
  /\ UNCHANGED <<tables, queue, hooks, publisher, ent, creator, copy, owner,
                 faults>>

\* The endpoint answers with another status than 2xx, or not at all.
CallRefused(w) ==
  /\ at[w] = "call"
  /\ calls' = [calls EXCEPT ![<<Event(w), HookOf(w)>>] = @ + 1]
  /\ Finish(w, "fail")
  /\ Leave(w)
  /\ UNCHANGED <<queue, hooks, publisher, owner, faults>>

\* Mutant: a hook that is gone is inserted again.
SaveHookAnyway(w) ==
  /\ at[w] = "save"
  /\ hooks' = [hooks EXCEPT ![HookOf(w)] = [copy[w] EXCEPT !.latest = ent[w].task]]
  /\ Goto(w, "finish")
  /\ UNCHANGED <<tables, queue, publisher, ent, creator, copy, owner, calls,
                 faults>>

\* saveHook writes back the whole hook, unless it is gone.
SaveHook(w) ==
  /\ at[w] = "save"
  /\ hooks' = IF hooks[HookOf(w)].exists
              THEN [hooks EXCEPT ![HookOf(w)] = [copy[w] EXCEPT !.latest = ent[w].task]]
              ELSE hooks
  /\ Goto(w, "finish")
  /\ UNCHANGED <<tables, queue, publisher, ent, creator, copy, owner, calls,
                 faults>>

FinishTrigger(w) ==
  /\ at[w] = "finish"
  /\ Finish(w, "success")
  /\ Leave(w)
  /\ UNCHANGED <<queue, hooks, publisher, owner, calls, faults>>

\* A call inside the try block throws.
TriggerFails(w) ==
  /\ at[w] \in {"call", "save", "finish"} /\ faults < MaxFaults
  /\ Finish(w, "fail")
  /\ Leave(w)
  /\ faults' = faults + 1
  /\ UNCHANGED <<queue, hooks, publisher, owner, calls>>

-----------------------------------------------------------------------------
(* Crashes and timeouts *)

\* The process of a worker dies, or a call outside the try block throws.
WorkerCrash(w) ==
  /\ at[w] # "idle" /\ faults < MaxFaults
  /\ Leave(w)
  /\ faults' = faults + 1
  /\ UNCHANGED <<tables, queue, hooks, publisher, owner, calls>>

\* The process of an event handler dies: the other details get no task.
HandlerCrash(c) ==
  /\ c \in recorded /\ faults < MaxFaults
  /\ pending[c] # 0 \/ sent[c] < Details[c]
  /\ pending' = [pending EXCEPT ![c] = 0]
  /\ sent' = [sent EXCEPT ![c] = Details[c]]
  /\ faults' = faults + 1
  /\ UNCHANGED <<tables, queue, hooks, recorded, due, at, ent, creator, copy,
                 owner, calls>>

InHand(task) ==
  \/ \E w \in Worker : at[w] # "idle" /\ ent[w].task = task
  \/ \E w \in Creator : task \in unpushed[w]
  \/ \E c \in Change : pending[c] = task

\* Mutant: only processing tasks are looked for.
TimeoutRetryProcessing(r) ==
  /\ InTable(r) /\ ~InHand(rows[r].task)
  /\ rows[r].state = "processing"
  /\ rows' = [rows EXCEPT ![r].state = "waiting"]
  /\ PushTasks(Type(rows[r].job), {rows[r].task})
  /\ UNCHANGED <<nextRow, hist, nextHist, strayed, hooks, publisher, at, ent,
                 creator, copy, owner, calls, faults>>

\* retryExecuteTimeoutTasks, on a task that nobody works on any more.
TimeoutRetry(r) ==
  /\ InTable(r) /\ ~InHand(rows[r].task)
  /\ rows[r].task \notin queue[Type(rows[r].job)]
  /\ rows' = [rows EXCEPT ![r].state = "waiting"]
  /\ PushTasks(Type(rows[r].job), {rows[r].task})
  /\ UNCHANGED <<nextRow, hist, nextHist, strayed, hooks, publisher, at, ent,
                 creator, copy, owner, calls, faults>>

-----------------------------------------------------------------------------
(* HookManageService: requests of the hooks' owner *)

Own == {h \in HookId \ Others : hooks[h].exists}

\* createHook counts the owner's hooks ...
CountHooks(o) ==
  /\ asks[o] = NoAsk /\ nextHook \in HookId
  /\ Cardinality(Own) < HooksLimit
  /\ asks' = [asks EXCEPT ![o] = [write |-> "new"]]
  /\ UNCHANGED <<tables, queue, hooks, publisher, at, ent, creator, copy,
                 nextHook, updates, removed, calls, faults>>

\* ... and then inserts the new one, but not a second on the same name.
InsertHook(o) ==
  /\ asks[o].write = "new" /\ nextHook \in HookId
  /\ hooks' = IF \E h \in Own : Query[h] = Query[nextHook] THEN hooks
              ELSE [hooks EXCEPT ![nextHook].exists = TRUE]
  /\ nextHook' = nextHook + 1
  /\ asks' = [asks EXCEPT ![o] = NoAsk]
  /\ UNCHANGED <<tables, queue, publisher, at, ent, creator, copy, updates,
                 removed, calls, faults>>

\* updateHook reads the hook and changes endpoint and secret ...
ReadHook(o, h) ==
  /\ asks[o] = NoAsk /\ h \in Own /\ updates < MaxUpdates
  /\ updates' = updates + 1
  /\ asks' = [asks EXCEPT ![o] =
                [write |-> "update", hook |-> h,
                 row |-> [hooks[h] EXCEPT !.endpoint = updates + 1]]]
  /\ UNCHANGED <<tables, queue, hooks, publisher, at, ent, creator, copy,
                 nextHook, removed, calls, faults>>

\* ... and saves all of it.
UpdateHook(o) ==
  /\ asks[o].write = "update"
  /\ LET h == asks[o].hook IN
       hooks' = IF hooks[h].exists THEN [hooks EXCEPT ![h] = asks[o].row] ELSE hooks
  /\ asks' = [asks EXCEPT ![o] = NoAsk]
  /\ UNCHANGED <<tables, queue, publisher, at, ent, creator, copy, nextHook,
                 updates, removed, calls, faults>>

DeleteHook(o, h) ==
  /\ asks[o] = NoAsk /\ h \in Own
  /\ hooks' = [hooks EXCEPT ![h] = NoHook]
  /\ removed' = removed \cup {h}
  /\ UNCHANGED <<tables, queue, publisher, at, ent, creator, copy, nextHook,
                 asks, updates, calls, faults>>

-----------------------------------------------------------------------------
HandlerStep(c) == SaveCreateHook(c) \/ PushCreateHook(c)

CreatorStep(w) ==
  \/ Take(w) \/ StartCreate(w) \/ PushHooks(w) \/ NextPage(w) \/ FinishCreate(w)
  \/ \E h \in HookId : SaveTriggerHook(w, h)
  \/ \E task \in RowId : PushTriggerHook(w, task)

TriggererStep(w) ==
  \/ Take(w) \/ FindHook(w) \/ HookGone(w) \/ Call(w) \/ CallRefused(w)
  \/ SaveHook(w) \/ FinishTrigger(w)

OwnerStep(o) ==
  \/ CountHooks(o) \/ InsertHook(o) \/ UpdateHook(o)
  \/ \E h \in HookId : ReadHook(o, h) \/ DeleteHook(o, h)

FaultStep ==
  \/ \E w \in Creator : CreateFails(w)
  \/ \E w \in Triggerer : TriggerFails(w)
  \/ \E w \in Worker : WorkerCrash(w)
  \/ \E c \in Change : HandlerCrash(c)

Next ==
  \/ \E c \in Change : Record(c) \/ HandlerStep(c)
  \/ \E w \in Creator : CreatorStep(w)
  \/ \E w \in Triggerer : TriggererStep(w)
  \/ \E r \in RowId : TimeoutRetry(r)
  \/ \E o \in Owner : OwnerStep(o)
  \/ FaultStep

Spec == Init /\ [][Next]_vars

\* Event handlers run to their end, workers are called every second and the
\* timeout handler every minute.  Changes and the owner come as they like.
FairSpec ==
  /\ Spec
  /\ \A c \in Change : WF_vars(HandlerStep(c))
  /\ \A w \in Creator : WF_vars(CreatorStep(w))
  /\ \A w \in Triggerer : WF_vars(TriggererStep(w))
  /\ \A r \in RowId : WF_vars(TimeoutRetry(r))

-----------------------------------------------------------------------------
(* Properties *)

Endpoint == 0 .. MaxUpdates
HookRow == [endpoint : Endpoint, latest : 0 .. MaxRow, exists : BOOLEAN]

\* Types of the variables; a finished create_hook task may be "processing" in
\* history, a waiting one never is there.
TypeOK ==
  /\ rows \in [RowId -> {NoTask} \cup
                 [task : RowId, job : Jobs, state : {"waiting", "processing"}]]
  /\ nextRow \in 1 .. MaxRow + 1
  /\ hist \in [RowId -> {"absent", "processing", "success", "fail"}]
  /\ nextHist \in Nat
  /\ queue \in [{"create_hook", "trigger_hook"} -> SUBSET RowId]
  /\ hooks \in [HookId -> HookRow]
  /\ nextHook \in 1 .. MaxHook + 1
  /\ recorded \subseteq Change /\ due \subseteq Change \X HookId
  /\ \A c \in Change : sent[c] \in 0 .. Details[c]
  /\ pending \in [Change -> 0 .. MaxRow]
  /\ \A w \in Worker :
       at[w] # "idle" => ent[w] \in [id : Nat, task : RowId, job : Jobs]
  /\ cursor \in [Creator -> [query : 0 .. Queries + 1, since : 0 .. MaxHook]]
  /\ todo \in [Creator -> SUBSET HookId]
  /\ unpushed \in [Creator -> SUBSET RowId]
  /\ copy \in [Triggerer -> HookRow]
  /\ updates \in Endpoint
  /\ removed \subseteq HookId
  /\ calls \in [Events \X HookId -> Nat]
  /\ faults \in 0 .. MaxFaults

\* Every task id that is queued, or shown as the latest task of a hook, is found
\* by findTask; TaskService.ts:126 takes an id that is not found for a task that
\* was executed already.
IdsFound ==
  /\ \A type \in DOMAIN queue : \A task \in queue[type] : Known(task)
  /\ \A h \in HookId : hooks[h].latest # 0 => Known(hooks[h].latest)

\* ... as long as no row was saved or removed for another task than its own.
\* The entity of a finished create_hook task has the number of its history row,
\* and the executor goes on saving it; nothing else takes a row away.
IdsResolve == strayed \/ IdsFound

\* A hook is called once for an event, and once more at most for every crash:
\* paging, merging by bizId and claiming together make no second task for it;
\* where pages come by id and no row is taken away.
CalledOnce ==
  strayed \/ disordered \/ \A k \in Events \X HookId : calls[k] <= 1 + faults

\* What the owner deleted stays deleted, although workers and other requests
\* still hold copies of the hook that they will save.
DeletedStaysDeleted == \A h \in removed : ~hooks[h].exists

\* createHook counts and inserts in two statements: hooksLimit is exceeded by
\* less than the number of requests under way at a time.
HooksNearLimit == Cardinality(Own) <= HooksLimit + Cardinality(Owner) - 1

\* Hooks that are there when the package changes are called, whatever hooks the
\* owner adds, updates or deletes while their pages are gone through; where
\* those come by id and no row is taken away.  A call is made for good, and
\* changes are finite in number, so all calls that are due are made some day.
Called(c, h) == \E d \in 1 .. Details[c] : calls[<<<<c, d>>, h>>] > 0

EveryHookCalled ==
  []<>\/ faults > 0 \/ strayed \/ disordered
      \/ \A k \in due : Called(k[1], k[2]) \/ k[2] \in removed

\* A task for a hook is worked off, whoever crashes on the way: a call made and
\* not finished is made again; unless its row is taken away.  Rows are never
\* numbered anew, so each of them goes if some day there is none.
EveryTriggerEnds ==
  []<>(strayed \/ \A r \in RowId : InTable(r) => rows[r].job.hook = 0)

-----------------------------------------------------------------------------
(* The inductive invariant behind IdsResolve, as long as nothing has strayed. *)

JobData  == {job \in [change : Change, detail : Nat, hook : 0 .. MaxHook] :
               job.detail \in 1 .. Details[job.change]}
RowData  == [task : Nat, job : JobData, state : {"waiting", "processing"}]
HookData == [endpoint : Nat, latest : 0 .. MaxRow, exists : BOOLEAN]
AskData  == [write : {"update"}, hook : HookId, row : HookData]

\* Every row is that of its task, and rows are numbered in their order.
RowsOwn ==
  /\ rows \in [RowId -> {NoTask} \cup RowData]
  /\ hist \in [RowId -> {"absent", "processing", "success", "fail"}]
  /\ nextRow \in Nat /\ nextHist \in Nat
  /\ \A r \in RowId :
       /\ InTable(r) => rows[r].task = r
       /\ InTable(r) \/ hist[r] # "absent" => r < nextRow

\* A task that was saved is in one of the tables, and of the type it is taken
\* for.
Saved(task, type) ==
  /\ task \in RowId
  /\ InTable(task) \/ hist[task] # "absent"
  /\ InTable(task) => Type(rows[task].job) = type

\* A worker's entity is that of a task it was given.
EntitiesOwn ==
  /\ at \in [Worker -> {"idle", "start", "log", "page", "finish", "call", "save"}]
  /\ ent \in [Worker -> {NoEnt} \cup [id : Nat, task : Nat, job : JobData]]
  /\ \A w \in Worker : at[w] # "idle" =>
       /\ ent[w] # NoEnt
       /\ Saved(ent[w].task, Serves(w)) /\ Type(ent[w].job) = Serves(w)

\* So is every other task whose id anybody has.
QueuesSaved ==
  /\ queue \in [{"create_hook", "trigger_hook"} -> SUBSET Nat]
  /\ \A type \in DOMAIN queue : \A task \in queue[type] : Saved(task, type)

PublishersSaved ==
  /\ sent \in [Change -> Nat] /\ pending \in [Change -> Nat]
  /\ \A c \in Change : sent[c] <= Details[c]
  /\ \A c \in Change : pending[c] # 0 => Saved(pending[c], "create_hook")

PagesSaved ==
  /\ todo \in [Creator -> SUBSET HookId] /\ unpushed \in [Creator -> SUBSET Nat]
  /\ \A w \in Creator : \A task \in unpushed[w] : Saved(task, "trigger_hook")

LatestSaved(hook) == hook.latest # 0 => Saved(hook.latest, "trigger_hook")

HooksSaved ==
  /\ hooks \in [HookId -> HookData] /\ copy \in [Triggerer -> HookData]
  /\ asks \in [Owner -> {NoAsk, [write |-> "new"]} \cup AskData]
  /\ \A h \in HookId : LatestSaved(hooks[h])
  /\ \A w \in Triggerer : LatestSaved(copy[w])
  /\ \A o \in Owner : asks[o].write = "update" => LatestSaved(asks[o].row)

\* Only the newest hook number comes into existence; this holds however rows of
\* tasks stray.
HooksInserted ==
  /\ DOMAIN hooks = HookId
  /\ nextHook \in Nat /\ updates \in Nat /\ removed \subseteq HookId
  /\ \A h \in HookId : hooks[h].exists => h < nextHook
  /\ \A h \in removed : h < nextHook /\ ~hooks[h].exists

PipelineInductive ==
  /\ RowsOwn /\ EntitiesOwn /\ QueuesSaved /\ PublishersSaved /\ PagesSaved
  /\ HooksSaved /\ HooksInserted

PipelineHolds == strayed \/ PipelineInductive
-----------------------------------------------------------------------------
(* The inductive invariant behind HooksNearLimit. *)

\* Requests that have counted the hooks and will insert one.
Inserting == {o \in Owner : asks[o].write = "new"}

LimitNear ==
  /\ DOMAIN hooks = HookId /\ DOMAIN asks = Owner
  /\ Cardinality(Own) + Cardinality(Inserting) <= HooksLimit + Cardinality(Owner) - 1
-----------------------------------------------------------------------------
(* The inductive invariant behind CalledOnce; it holds on top of             *)
(* PipelineInductive, as long as pages come in the order of ids.             *)

\* w works on a task that is in the table, or, having finished it, pages on.
OnRow(w)  == at[w] # "idle" /\ (w \in Triggerer \/ at[w] = "start")
Paging(w) == w \in Creator /\ at[w] \notin {"idle", "start"}

\* Live rows differ in their bizId, and a row in work has one worker.
RowsApart ==
  /\ \A r \in RowId : InTable(r) =>
       /\ hist[r] = "absent"
       /\ \A s \in RowId : InTable(s) /\ BizId(rows[s].job) = BizId(rows[r].job) => s = r
  /\ \A w \in Worker : OnRow(w) =>
       /\ InTable(ent[w].task) /\ ent[w].id = ent[w].task
       /\ rows[ent[w].task].state = "processing" /\ rows[ent[w].task].job = ent[w].job
       /\ \A v \in Worker : OnRow(v) /\ ent[v].task = ent[w].task => v = w

\* Hooks that the lookups of w have still to find, or have found.
Ahead(w, h)  == \/ Query[h] > cursor[w].query
                \/ Query[h] = cursor[w].query /\ h > cursor[w].since
ToCome(w, h) == h \in todo[w] \/ Ahead(w, h)

\* A creator's lookups go forward, and its page is behind them.
LookupsAdvance ==
  /\ cursor \in [Creator -> [query : Nat, since : Nat]]
  /\ \A w \in Creator :
       /\ ~Paging(w) => todo[w] = {}
       /\ Paging(w) => ~InTable(ent[w].task)
       /\ at[w] = "log" => cursor[w].since = 0 /\ todo[w] = {}
       /\ \A h \in todo[w] : ~Ahead(w, h)

\* Detail d of change c may still bring about a task for hook h.
MayCreate(c, d, h) ==
  \/ d > sent[c]
  \/ \E r \in RowId : InTable(r) /\ rows[r].job = Job(c, d, 0)
  \/ \E w \in Creator : Paging(w) /\ ent[w].job = Job(c, d, 0) /\ ToCome(w, h)

CreatedOnce ==
  /\ \A r \in RowId : InTable(r) =>
       rows[r].job.detail \in 1 .. sent[rows[r].job.change]
  /\ \A c \in Change : \A d \in 1 .. Details[c] : \A h \in HookId : \A r \in RowId :
       InTable(r) /\ rows[r].job = Job(c, d, h) => ~MayCreate(c, d, h)
  /\ \A w \in Creator : Paging(w) =>
       /\ ent[w].job.detail \in 1 .. sent[ent[w].job.change]
       /\ \A r \in RowId : InTable(r) => rows[r].job # ent[w].job
       /\ \A v \in Creator : Paging(v) /\ ent[v].job = ent[w].job => v = w

\* A worker has called the hook of row r, and will finish the task.
Calling(w, r) == at[w] \in {"save", "finish"} /\ ent[w].task = r

\* Without another fault, hook h may still be called for detail d of change c.
MayCall(c, d, h) ==
  \/ MayCreate(c, d, h)
  \/ \E r \in RowId : /\ InTable(r) /\ rows[r].job = Job(c, d, h)
                      /\ \A w \in Triggerer : ~Calling(w, r)

CallsCounted ==
  /\ faults \in Nat
  /\ \A c \in Change : \A d \in 1 .. Details[c] : \A h \in HookId :
       /\ calls[<<<<c, d>>, h>>] <= 1 + faults
       /\ MayCall(c, d, h) => calls[<<<<c, d>>, h>>] <= faults

CallsInductive == RowsApart /\ LookupsAdvance /\ CreatedOnce /\ CallsCounted
-----------------------------------------------------------------------------
(* The inductive invariant behind TypeOK, however rows of tasks stray. *)

\* Somebody has the task, and takes it for one of the type.
Has(task, type) ==
  \/ \E r \in RowId : InTable(r) /\ rows[r].task = task /\ Type(rows[r].job) = type
  \/ \E w \in Worker : at[w] # "idle" /\ ent[w].task = task /\ Serves(w) = type
  \/ task \in queue[type]
  \/ type = "trigger_hook" /\ \E w \in Creator : task \in unpushed[w]
  \/ type = "create_hook" /\ \E c \in Change : pending[c] = task

\* A row may be that of another task than its own, but who takes a task for one
\* of its type is right.
TypesApart ==
  \A task \in RowId :
    /\ Has(task, "create_hook") \/ Has(task, "trigger_hook") => task < nextRow
    /\ ~(Has(task, "create_hook") /\ Has(task, "trigger_hook"))

TablesTyped ==
  /\ rows \in [RowId -> {NoTask} \cup
                 [task : RowId, job : JobData, state : {"waiting", "processing"}]]
  /\ nextRow \in 1 .. MaxRow + 1
  /\ hist \in [RowId -> {"absent", "processing", "success", "fail"}]
  /\ nextHist \in Nat

QueuesTyped ==
  /\ queue \in [{"create_hook", "trigger_hook"} -> SUBSET RowId]
  /\ sent \in [Change -> Nat] /\ \A c \in Change : sent[c] <= Details[c]
  /\ pending \in [Change -> 0 .. MaxRow]
  /\ todo \in [Creator -> SUBSET HookId] /\ unpushed \in [Creator -> SUBSET RowId]

EntitiesTyped ==
  /\ at \in [Worker -> {"idle", "start", "log", "page", "finish", "call", "save"}]
  /\ ent \in [Worker -> {NoEnt} \cup [id : Nat, task : RowId, job : JobData]]
  /\ \A w \in Worker :
       at[w] # "idle" => ent[w] # NoEnt /\ Type(ent[w].job) = Serves(w)

HooksTyped ==
  /\ hooks \in [HookId -> HookData] /\ copy \in [Triggerer -> HookData]
  /\ asks \in [Owner -> {NoAsk, [write |-> "new"]} \cup AskData]

TypesInductive ==
  TablesTyped /\ QueuesTyped /\ EntitiesTyped /\ HooksTyped /\ TypesApart

\* Numbers within their bounds, on top of that.
EndpointKnown(hook) == hook.endpoint \in 0 .. updates

BoundsKept ==
  /\ nextHook \in 1 .. MaxHook + 1 /\ removed \subseteq HookId
  /\ recorded \subseteq Change /\ due \subseteq Change \X HookId
  /\ cursor \in [Creator -> [query : 0 .. Queries + 1, since : 0 .. MaxHook]]
  /\ \A w \in Creator : at[w] \in {"log", "page"} => cursor[w].query <= Queries
  /\ updates \in Endpoint /\ faults \in 0 .. MaxFaults
  /\ calls \in [Events \X HookId -> Nat]
  /\ \A h \in HookId : EndpointKnown(hooks[h])
  /\ \A w \in Triggerer : EndpointKnown(copy[w])
  /\ \A o \in Owner : asks[o].write = "update" => EndpointKnown(asks[o].row)
=============================================================================
