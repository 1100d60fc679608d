------------------------- MODULE HookPipelineProofs -------------------------
(***************************************************************************)
(* What an owner deletes stays deleted, and the limit on hooks is exceeded *)
(* by few.  As long as no entity has strayed to the row of another task,   *)
(* no task id is lost, whatever fails; and where pages come in the order   *)
(* of ids, a hook is called once for an event, but for the calls that      *)
(* faults repeat.  Each table operation is treated once, by a lemma that   *)
(* says what it does to the tasks that were saved; the actions follow.     *)
(***************************************************************************)
EXTENDS HookPipeline, FiniteSetTheorems, TLAPS

\* What a step must keep of the tables.
Keeps ==
  /\ RowsOwn'
  /\ \A task, type : Saved(task, type) => Saved(task, type)'

\* Tables that do not change keep everything.
LEMMA TablesUnchanged ==
  ASSUME RowsOwn, UNCHANGED <<rows, nextRow, hist, nextHist>>
  PROVE  Keeps
  BY DEF RowsOwn, Keeps, Saved, InTable

\* A row whose state alone changes is the same task.
LEMMA RowMarked ==
  ASSUME RowsOwn, NEW r \in RowId, InTable(r),
         NEW state \in {"waiting", "processing"},
         rows' = [rows EXCEPT ![r].state = state],
         UNCHANGED <<nextRow, hist, nextHist>>
  PROVE  Keeps
<1>1. rows[r] \in RowData
  BY DEF RowsOwn, InTable, NoTask
<1>2. rows'[r] \in RowData /\ rows'[r].task = rows[r].task /\ rows'[r].job = rows[r].job
      /\ rows'[r].state = state
  BY <1>1 DEF RowsOwn, RowData
<1>3. \A q \in RowId : q # r => rows'[q] = rows[q]
  BY DEF RowsOwn
<1>4. \A q \in RowId : InTable(q)' <=> InTable(q)
  BY <1>1, <1>2, <1>3 DEF InTable, RowData
<1>5. RowsOwn'
  BY <1>1, <1>2, <1>3, <1>4 DEF RowsOwn
<1>6. ASSUME NEW task, NEW type, Saved(task, type) PROVE Saved(task, type)'
  BY <1>2, <1>3, <1>4, <1>6 DEF Saved
<1> QED  BY <1>5, <1>6 DEF Keeps

\* A new task is saved under a number nobody knows, or is found by its bizId.
LEMMA NewSaved ==
  ASSUME RowsOwn, NEW job \in JobData, NEW task, SaveNew(job, task),
         UNCHANGED <<hist, nextHist>>
  PROVE  Keeps /\ Saved(task, Type(job))' /\ task # 0 /\ task \in Nat
<1>0. RowId \subseteq Nat \ {0} /\ nextRow \in Nat
  BY NumberAssumption DEF RowId, RowsOwn
<1>1. CASE SameBizId(job) = {}
  <2>0. PICK n : n = nextRow
    OBVIOUS
  <2>1. task = n /\ n \in RowId /\ nextRow' = n + 1
        /\ rows' = [rows EXCEPT ![n] = TaskRow(n, job, "waiting")]
    BY <1>1, <2>0 DEF SaveNew
  <2>2. rows'[n] = TaskRow(n, job, "waiting")
        /\ TaskRow(n, job, "waiting") \in RowData
    BY <1>0, <2>0, <2>1 DEF RowsOwn, TaskRow, RowData
  <2>3. \A q \in RowId : q # n => rows'[q] = rows[q]
    BY <2>1 DEF RowsOwn
  <2>4. InTable(n)' /\ \A q \in RowId : q # n => (InTable(q)' <=> InTable(q))
    BY <2>1, <2>2, <2>3 DEF InTable, TaskRow
  <2>5. rows'[n].task = n /\ rows'[n].job = job
    BY <2>2 DEF TaskRow
  <2>6. \A q \in RowId : InTable(q) \/ hist[q] # "absent" => q # n
    BY <1>0, <2>0 DEF RowsOwn
  <2>7. RowsOwn'
    <3>1. rows' \in [RowId -> {NoTask} \cup RowData]
      BY <2>1, <2>2 DEF RowsOwn
    <3>2. \A q \in RowId : InTable(q)' => rows'[q].task = q
      BY <2>3, <2>4, <2>5 DEF RowsOwn
    <3>3. \A q \in RowId : InTable(q)' \/ hist'[q] # "absent" => q < nextRow'
      BY <1>0, <2>0, <2>1, <2>4 DEF RowsOwn
    <3> QED  BY <1>0, <2>0, <2>1, <3>1, <3>2, <3>3 DEF RowsOwn
  <2>8. ASSUME NEW t, NEW type, Saved(t, type) PROVE Saved(t, type)'
    BY <2>3, <2>4, <2>6, <2>8 DEF Saved
  <2>9. Saved(task, Type(job))'
    BY <2>1, <2>4, <2>5 DEF Saved
  <2> QED  BY <1>0, <2>1, <2>7, <2>8, <2>9 DEF Keeps
<1>2. CASE SameBizId(job) # {}
  <2>1. PICK r \in SameBizId(job) : task = rows[r].task
    BY <1>2 DEF SaveNew
  <2>2. UNCHANGED <<rows, nextRow, hist, nextHist>>
    BY <1>2 DEF SaveNew
  <2>3. r \in RowId /\ InTable(r) /\ BizId(rows[r].job) = BizId(job) /\ task = r
    BY <2>1 DEF SameBizId, RowsOwn
  <2>4. Type(rows[r].job) = Type(job)
    BY <2>3 DEF BizId, Type
  <2>5. Keeps
    BY <2>2, TablesUnchanged
  <2>6. Saved(task, Type(job))
    BY <2>3, <2>4 DEF Saved
  <2> QED  BY <1>0, <2>3, <2>5, <2>6 DEF Keeps
<1> QED  BY <1>1, <1>2

\* An entity that does not stray has the number of its own row.
LEMMA OwnRow ==
  ASSUME RowsOwn, NEW w \in Worker, InTable(ent[w].id), Stray(w), ~strayed'
  PROVE  ent[w].id \in RowId /\ ent[w].id = ent[w].task
<1>1. ~Strays(w)
  BY DEF Stray
<1>2. ent[w].id \in RowId /\ rows[ent[w].id].task = ent[w].id
  BY DEF InTable, RowsOwn
<1> QED BY <1>1, <1>2 DEF Strays

\* An entity written back meets its own row or none.
LEMMA EntSaved ==
  ASSUME RowsOwn, EntitiesOwn, NEW w \in Worker, at[w] # "idle",
         SaveEnt(w, "processing"), ~strayed', UNCHANGED <<nextRow, hist, nextHist>>
  PROVE  Keeps
<1> DEFINE e == ent[w]
<1>0. e \in [id : Nat, task : Nat, job : JobData] /\ Saved(e.task, Serves(w))
      /\ Type(e.job) = Serves(w)
  BY DEF EntitiesOwn
<1>1. CASE ~InTable(e.id)
  BY <1>1, TablesUnchanged DEF SaveEnt
<1>2. CASE InTable(e.id)
  <2>1. e.id \in RowId /\ e.id = e.task
    BY <1>2, OwnRow DEF SaveEnt
  <2>2. rows' = [rows EXCEPT ![e.id] = TaskRow(e.task, e.job, "processing")]
    BY <1>2 DEF SaveEnt
  <2>3. rows'[e.id] = TaskRow(e.task, e.job, "processing")
        /\ TaskRow(e.task, e.job, "processing") \in RowData
    BY <1>0, <2>1, <2>2 DEF RowsOwn, TaskRow, RowData
  <2>4. \A q \in RowId : q # e.id => rows'[q] = rows[q]
    BY <2>2 DEF RowsOwn
  <2>5. \A q \in RowId : InTable(q)' <=> InTable(q)
    BY <1>2, <2>1, <2>3, <2>4 DEF InTable, TaskRow
  <2>6. rows'[e.id].task = e.id /\ rows'[e.id].job = e.job
    BY <2>1, <2>3 DEF TaskRow
  <2>7. RowsOwn'
    <3>1. rows' \in [RowId -> {NoTask} \cup RowData]
      BY <2>1, <2>2, <2>3 DEF RowsOwn
    <3> QED  BY <2>4, <2>5, <2>6, <3>1 DEF RowsOwn
  <2>8. ASSUME NEW t, NEW type, Saved(t, type) PROVE Saved(t, type)'
    BY <1>0, <1>2, <2>1, <2>4, <2>5, <2>6, <2>8 DEF Saved
  <2> QED  BY <2>7, <2>8 DEF Keeps
<1> QED  BY <1>1, <1>2

\* A task leaves the live table for history, and no other task is touched.
LEMMA Finished ==
  ASSUME RowsOwn, EntitiesOwn, NEW w \in Worker, at[w] # "idle",
         NEW state \in {"processing", "success", "fail"}, Finish(w, state), ~strayed'
  PROVE  Keeps /\ FinishedId(w) \in Nat
<1> DEFINE e == ent[w]
<1>0. e \in [id : Nat, task : Nat, job : JobData] /\ Saved(e.task, Serves(w))
  BY DEF EntitiesOwn
<1>1. FinishedId(w) \in Nat
  BY <1>0 DEF FinishedId, RowsOwn
<1>2. CASE ~InTable(e.id)
  <2>1. UNCHANGED <<rows, nextRow, hist, nextHist>>
    BY <1>2 DEF Finish
  <2> QED  BY <1>1, <2>1, TablesUnchanged
<1>3. CASE InTable(e.id)
  <2>0. PICK u : u = e.task
    OBVIOUS
  <2>1. e.id \in RowId /\ e.id = u /\ e.task = u
    BY <1>3, <2>0, OwnRow DEF Finish
  <2>2. /\ rows' = [rows EXCEPT ![u] = NoTask]
        /\ hist' = [hist EXCEPT ![u] = state]
        /\ nextHist' \in {nextHist, nextHist + 1} /\ nextRow' = nextRow
    BY <1>3, <2>1 DEF Finish
  <2>3. \A q \in RowId : q # u => rows'[q] = rows[q] /\ hist'[q] = hist[q]
    BY <2>2 DEF RowsOwn
  <2>4. rows'[u] = NoTask /\ hist'[u] = state
    BY <2>1, <2>2 DEF RowsOwn
  <2>5. ~InTable(u)' /\ \A q \in RowId : q # u => (InTable(q)' <=> InTable(q))
    BY <2>3, <2>4 DEF InTable, NoTask
  <2>6. u < nextRow
    BY <1>3, <2>1 DEF RowsOwn
  <2>7. RowsOwn'
    <3>1. rows' \in [RowId -> {NoTask} \cup RowData]
          /\ hist' \in [RowId -> {"absent", "processing", "success", "fail"}]
      BY <2>2 DEF RowsOwn
    <3>2. nextHist' \in Nat
      BY <2>2, NumberAssumption DEF RowsOwn
    <3>3. \A q \in RowId : InTable(q)' => rows'[q].task = q
      BY <2>3, <2>5 DEF RowsOwn
    <3>4. \A q \in RowId : InTable(q)' \/ hist'[q] # "absent" => q < nextRow'
      BY <2>2, <2>3, <2>5, <2>6 DEF RowsOwn
    <3> QED  BY <2>2, <3>1, <3>2, <3>3, <3>4 DEF RowsOwn
  <2>8. ASSUME NEW t, NEW type, Saved(t, type) PROVE Saved(t, type)'
    BY <2>1, <2>3, <2>4, <2>5, <2>8 DEF Saved
  <2> QED  BY <1>1, <2>7, <2>8 DEF Keeps
<1> QED  BY <1>2, <1>3

-----------------------------------------------------------------------------
(* What a step that keeps the saved tasks leaves alone stays in order. *)

LEMMA EntitiesKept ==
  ASSUME EntitiesOwn, Keeps, UNCHANGED <<at, ent>>
  PROVE  EntitiesOwn'
  BY DEF EntitiesOwn, Keeps, Saved, InTable, Serves

LEMMA QueuesKept ==
  ASSUME QueuesSaved, Keeps, UNCHANGED queue
  PROVE  QueuesSaved'
  BY DEF QueuesSaved, Keeps, Saved, InTable

LEMMA PublishersKept ==
  ASSUME PublishersSaved, Keeps, UNCHANGED <<sent, pending>>
  PROVE  PublishersSaved'
  BY DEF PublishersSaved, Keeps, Saved, InTable

LEMMA PagesKept ==
  ASSUME PagesSaved, Keeps, UNCHANGED <<todo, unpushed>>
  PROVE  PagesSaved'
  BY DEF PagesSaved, Keeps, Saved, InTable

LEMMA HooksKept ==
  ASSUME HooksSaved, Keeps, UNCHANGED <<hooks, copy, asks>>
  PROVE  HooksSaved'
  BY DEF HooksSaved, LatestSaved, Keeps, Saved, InTable

LEMMA InsertedKept ==
  ASSUME HooksInserted, UNCHANGED <<hooks, owner>>
  PROVE  HooksInserted'
  BY DEF HooksInserted, owner

\* An id leaves a queue.
LEMMA QueuesTaken ==
  ASSUME QueuesSaved, Keeps, NEW type \in {"create_hook", "trigger_hook"},
         NEW task, queue' = [queue EXCEPT ![type] = @ \ {task}]
  PROVE  QueuesSaved'
<1>1. /\ queue' \in [{"create_hook", "trigger_hook"} -> SUBSET Nat]
      /\ \A x \in {"create_hook", "trigger_hook"} : queue'[x] \subseteq queue[x]
  BY DEF QueuesSaved
<1>2. \A x \in {"create_hook", "trigger_hook"} : \A t \in queue'[x] : Saved(t, x)
  BY <1>1 DEF QueuesSaved
<1>3. \A x \in {"create_hook", "trigger_hook"} : \A t \in queue'[x] : Saved(t, x)'
  BY <1>2 DEF Keeps
<1> QED  BY <1>1, <1>3 DEF QueuesSaved, Saved, InTable

\* Tasks pushed to the queue of their type.
LEMMA QueuesPushed ==
  ASSUME QueuesSaved, Keeps, NEW type \in {"create_hook", "trigger_hook"},
         NEW tasks \in SUBSET Nat, PushTasks(type, tasks),
         \A task \in tasks : Saved(task, type)
  PROVE  QueuesSaved'
<1>1. /\ queue' \in [{"create_hook", "trigger_hook"} -> SUBSET Nat]
      /\ DOMAIN queue' = {"create_hook", "trigger_hook"}
      /\ \A x \in {"create_hook", "trigger_hook"} : \A task \in queue'[x] :
           task \in queue[x] \/ (x = type /\ task \in tasks)
  BY DEF QueuesSaved, PushTasks
<1>2. \A x \in {"create_hook", "trigger_hook"} : \A task \in queue'[x] : Saved(task, x)
  BY <1>1 DEF QueuesSaved
<1>3. \A x \in {"create_hook", "trigger_hook"} : \A task \in queue'[x] : Saved(task, x)'
  BY <1>2 DEF Keeps
<1> QED  BY <1>1, <1>3 DEF QueuesSaved, Saved, InTable

LEMMA NoHookData ==
  NoHook \in HookData
BY NumberAssumption DEF NoHook, HookData

\* An execution that is over leaves nothing behind.
LEMMA Left ==
  ASSUME EntitiesOwn, PagesSaved, HooksSaved, Keeps, NEW w \in Worker, Leave(w)
  PROVE  /\ EntitiesOwn' /\ PagesSaved'
         /\ UNCHANGED <<hooks, asks>> => HooksSaved'
<1>1. EntitiesOwn'
  <2>1. at' = [at EXCEPT ![w] = "idle"] /\ ent' = [ent EXCEPT ![w] = NoEnt]
    BY DEF Leave, Goto
  <2>2. /\ at' \in [Worker -> {"idle", "start", "log", "page", "finish", "call", "save"}]
        /\ ent' \in [Worker -> {NoEnt} \cup [id : Nat, task : Nat, job : JobData]]
    BY <2>1 DEF EntitiesOwn
  <2>3. \A v \in Worker : at'[v] # "idle" => at[v] = at'[v] /\ ent'[v] = ent[v]
    BY <2>1 DEF EntitiesOwn
  <2>4. ASSUME NEW v \in Worker, at'[v] # "idle"
        PROVE  /\ ent'[v] # NoEnt
               /\ Saved(ent[v].task, Serves(v))' /\ Type(ent'[v].job) = Serves(v)
    <3>1. PICK t, type : t = ent[v].task /\ type = Serves(v)
      OBVIOUS
    <3>2. Saved(t, type) /\ ent'[v] = ent[v] /\ ent[v] # NoEnt
          /\ Type(ent[v].job) = Serves(v)
      BY <2>3, <2>4, <3>1 DEF EntitiesOwn
    <3>3. Saved(t, type)'
      BY <3>2 DEF Keeps
    <3> QED  BY <3>1, <3>2, <3>3 DEF Saved, InTable, Serves
  <2> QED  BY <2>2, <2>4 DEF EntitiesOwn, Serves
<1>2. PagesSaved'
  <2>1. /\ todo' \in [Creator -> SUBSET HookId]
        /\ unpushed' \in [Creator -> SUBSET Nat]
        /\ \A v \in Creator : unpushed'[v] \subseteq unpushed[v]
    BY DEF Leave, PagesSaved
  <2> QED  BY <2>1 DEF PagesSaved, Keeps, Saved, InTable
<1>3. ASSUME UNCHANGED <<hooks, asks>> PROVE HooksSaved'
  <2>1. /\ copy' \in [Triggerer -> HookData]
        /\ \A v \in Triggerer : copy'[v] = NoHook \/ copy'[v] = copy[v]
    BY NoHookData DEF Leave, HooksSaved
  <2>2. \A v \in Triggerer : LatestSaved(copy[v])'
    <3>1. ASSUME NEW v \in Triggerer, copy'[v].latest # 0
          PROVE  Saved(copy[v].latest, "trigger_hook")'
      <4>1. PICK t : t = copy[v].latest
        OBVIOUS
      <4>2. copy'[v] = copy[v]
        BY <2>1, <3>1 DEF NoHook
      <4>3. Saved(t, "trigger_hook")
        BY <3>1, <4>1, <4>2 DEF HooksSaved, LatestSaved
      <4>4. Saved(t, "trigger_hook")'
        BY <4>3 DEF Keeps
      <4> QED  BY <4>1, <4>2, <4>4 DEF Saved, InTable
    <3> QED  BY <3>1 DEF LatestSaved
  <2>3. \A h \in HookId : LatestSaved(hooks[h])'
    BY <1>3 DEF HooksSaved, LatestSaved, Keeps, Saved, InTable
  <2>4. \A o \in Owner : asks[o].write = "update" => LatestSaved(asks[o].row)'
    BY <1>3 DEF HooksSaved, LatestSaved, Keeps, Saved, InTable
  <2> QED  BY <1>3, <2>1, <2>2, <2>3, <2>4 DEF HooksSaved
<1> QED  BY <1>1, <1>2, <1>3

\* finishTask at the end of an execution.
LEMMA FinishedAndLeft ==
  ASSUME PipelineInductive, NEW w \in Worker, at[w] # "idle",
         NEW state \in {"processing", "success", "fail"}, Finish(w, state), ~strayed',
         Leave(w), UNCHANGED <<hooks, publisher, owner>>
  PROVE  Keeps /\ (UNCHANGED queue => PipelineInductive')
<1>1. Keeps
  BY Finished DEF PipelineInductive
<1>2. EntitiesOwn' /\ PagesSaved' /\ HooksSaved'
  BY <1>1, Left DEF PipelineInductive, owner
<1>3. PublishersSaved' /\ HooksInserted'
  BY <1>1, PublishersKept, InsertedKept DEF PipelineInductive, publisher
<1> QED
  BY <1>1, <1>2, <1>3, QueuesKept DEF PipelineInductive, Keeps

\* A worker goes to another call, with an entity that is in order.
LEMMA Moved ==
  ASSUME EntitiesOwn, Keeps, NEW w \in Worker,
         NEW label \in {"start", "log", "page", "finish", "call", "save"},
         Goto(w, label),
         NEW e \in [id : Nat, task : Nat, job : JobData],
         Saved(e.task, Serves(w))', Type(e.job) = Serves(w), e # NoEnt,
         ent' = [ent EXCEPT ![w] = e]
  PROVE  EntitiesOwn'
<1>1. /\ at' \in [Worker -> {"idle", "start", "log", "page", "finish", "call", "save"}]
      /\ ent' \in [Worker -> {NoEnt} \cup [id : Nat, task : Nat, job : JobData]]
      /\ ent'[w] = e
      /\ \A v \in Worker : v # w => at'[v] = at[v] /\ ent'[v] = ent[v]
  BY DEF EntitiesOwn, Goto
<1>2. ASSUME NEW v \in Worker, at'[v] # "idle"
      PROVE  /\ ent'[v] # NoEnt
             /\ Saved(ent[v].task, Serves(v))' /\ Type(ent'[v].job) = Serves(v)
  <2>1. CASE v = w
    BY <1>1, <2>1 DEF Saved, InTable, Serves
  <2>2. CASE v # w
    <3>1. PICK t, type : t = ent[v].task /\ type = Serves(v)
      OBVIOUS
    <3>2. Saved(t, type) /\ ent'[v] = ent[v] /\ ent[v] # NoEnt
          /\ Type(ent[v].job) = Serves(v)
      BY <1>1, <1>2, <2>2, <3>1 DEF EntitiesOwn
    <3>3. Saved(t, type)'
      BY <3>2 DEF Keeps
    <3> QED  BY <3>1, <3>2, <3>3 DEF Saved, InTable, Serves
  <2> QED  BY <2>1, <2>2
<1> QED  BY <1>1, <1>2 DEF EntitiesOwn, Serves

\* The same entity.
LEMMA MovedOn ==
  ASSUME EntitiesOwn, Keeps, NEW w \in Worker, at[w] # "idle",
         NEW label \in {"start", "log", "page", "finish", "call", "save"},
         Goto(w, label), UNCHANGED ent
  PROVE  EntitiesOwn'
<1>1. PICK e, t, type : e = ent[w] /\ t = e.task /\ type = Serves(w)
  OBVIOUS
<1>2. e \in [id : Nat, task : Nat, job : JobData] /\ Saved(t, type)
      /\ Type(e.job) = Serves(w) /\ e # NoEnt
  BY <1>1 DEF EntitiesOwn
<1>3. Saved(t, type)'
  BY <1>2 DEF Keeps
<1>4. Saved(e.task, Serves(w))'
  BY <1>1, <1>3 DEF Serves
<1>5. ent' = [ent EXCEPT ![w] = e]
  BY <1>1 DEF EntitiesOwn
<1> QED  BY <1>2, <1>4, <1>5, Moved

-----------------------------------------------------------------------------
(* One lemma per action, or per group of actions that do the same to the part *)
(* of the state the invariant speaks of.                                      *)

LEMMA TakeStep ==
  ASSUME PipelineInductive, NEW w \in Worker, Take(w)
  PROVE  PipelineInductive'
<1>0. /\ RowsOwn /\ EntitiesOwn /\ QueuesSaved /\ PublishersSaved /\ PagesSaved
      /\ HooksSaved /\ HooksInserted
  BY DEF PipelineInductive
<1>1. PICK task \in queue[Serves(w)] :
        /\ queue' = [queue EXCEPT ![Serves(w)] = @ \ {task}]
        /\ \/ /\ \E r \in RowsOf(task) :
                   /\ rows[r].state = "waiting"
                   /\ rows' = [rows EXCEPT ![r].state = "processing"]
                   /\ ent' = [ent EXCEPT ![w] =
                                [id |-> r, task |-> task, job |-> rows[r].job]]
              /\ Goto(w, "start")
           \/ UNCHANGED <<rows, at, ent>>
  BY DEF Take
<1>2. Serves(w) \in {"create_hook", "trigger_hook"}
  BY DEF Serves
<1>3. Saved(task, Serves(w))
  BY <1>0, <1>2 DEF QueuesSaved
<1>4. Keeps /\ EntitiesOwn'
  <2>1. CASE UNCHANGED <<rows, at, ent>>
    <3>1. Keeps
      BY <1>0, <2>1, TablesUnchanged DEF Take, tables
    <3> QED  BY <1>0, <2>1, <3>1, EntitiesKept
  <2>2. CASE /\ \E r \in RowsOf(task) :
                  /\ rows[r].state = "waiting"
                  /\ rows' = [rows EXCEPT ![r].state = "processing"]
                  /\ ent' = [ent EXCEPT ![w] =
                               [id |-> r, task |-> task, job |-> rows[r].job]]
             /\ Goto(w, "start")
    <3>1. PICK r \in RowsOf(task) :
            /\ rows' = [rows EXCEPT ![r].state = "processing"]
            /\ ent' = [ent EXCEPT ![w] =
                         [id |-> r, task |-> task, job |-> rows[r].job]]
      BY <2>2
    <3>2. r \in RowId /\ InTable(r) /\ r = task
      BY <1>0 DEF RowsOf, RowsOwn
    <3>3. Keeps
      BY <1>0, <3>1, <3>2, RowMarked DEF Take
    <3>4. PICK e : e = [id |-> r, task |-> task, job |-> rows[r].job]
      OBVIOUS
    <3>5. /\ e \in [id : Nat, task : Nat, job : JobData]
          /\ e.task = task /\ e.id = task /\ e # NoEnt
          /\ Type(e.job) = Serves(w)
      <4>1. rows[r] \in RowData /\ task \in Nat /\ r \in Nat
        BY <1>0, <3>2, NumberAssumption DEF RowsOwn, InTable, NoTask, RowId
      <4>2. Type(rows[r].job) = Serves(w)
        BY <1>3, <3>2 DEF Saved
      <4> QED  BY <3>2, <3>4, <4>1, <4>2, NumberAssumption DEF RowData, NoEnt, RowId
    <3>6. PICK type : type = Serves(w)
      OBVIOUS
    <3>7. Saved(task, type)'
      BY <1>3, <3>3, <3>6 DEF Keeps
    <3>8. Saved(e.task, Serves(w))'
      BY <3>5, <3>6, <3>7 DEF Saved, InTable, Serves
    <3> QED  BY <1>0, <2>2, <3>1, <3>3, <3>4, <3>5, <3>8, Moved
  <2> QED  BY <1>1, <2>1, <2>2
<1>5. QueuesSaved'
  BY <1>0, <1>1, <1>2, <1>4, QueuesTaken
<1>6. PublishersSaved' /\ PagesSaved' /\ HooksSaved' /\ HooksInserted'
  BY <1>0, <1>4, PublishersKept, PagesKept, HooksKept, InsertedKept
     DEF Take, publisher, creator, owner
<1> QED  BY <1>4, <1>5, <1>6 DEF PipelineInductive, Keeps

LEMMA RecordStep ==
  ASSUME PipelineInductive, NEW c \in Change, Record(c)
  PROVE  PipelineInductive'
<1>1. Keeps
  BY TablesUnchanged DEF PipelineInductive, Record, tables
<1>2. EntitiesOwn' /\ QueuesSaved' /\ PublishersSaved' /\ PagesSaved'
  BY <1>1, EntitiesKept, QueuesKept, PublishersKept, PagesKept
     DEF PipelineInductive, Record, creator
<1>3. HooksSaved' /\ HooksInserted'
  BY <1>1, HooksKept, InsertedKept DEF PipelineInductive, Record, owner
<1> QED  BY <1>1, <1>2, <1>3 DEF PipelineInductive, Keeps

LEMMA SaveCreateHookStep ==
  ASSUME PipelineInductive, NEW c \in Change, SaveCreateHook(c)
  PROVE  PipelineInductive'
<1>1. PICK task : /\ SaveNew(Job(c, sent[c] + 1, 0), task)
                  /\ pending' = [pending EXCEPT ![c] = task]
  BY DEF SaveCreateHook
<1>2. PICK job : job = Job(c, sent[c] + 1, 0)
  OBVIOUS
<1>3. job \in JobData /\ Type(job) = "create_hook"
  <2>1. sent[c] \in Nat /\ Details[c] \in Nat /\ sent[c] < Details[c]
    BY SetAssumption DEF PipelineInductive, PublishersSaved, SaveCreateHook
  <2> QED BY <1>2, <2>1, NumberAssumption DEF Job, JobData, Type
<1>4. Keeps /\ Saved(task, Type(job))' /\ task \in Nat
  BY <1>1, <1>2, <1>3, NewSaved DEF PipelineInductive, SaveCreateHook
<1>5. PublishersSaved'
  <2>1. /\ sent' \in [Change -> Nat] /\ pending' \in [Change -> Nat]
        /\ \A d \in Change : sent'[d] <= Details[d]
    <3>1. /\ sent \in [Change -> Nat] /\ pending \in [Change -> Nat]
          /\ sent' = [sent EXCEPT ![c] = @ + 1]
          /\ sent[c] \in Nat /\ Details[c] \in Nat /\ sent[c] < Details[c]
      BY SetAssumption DEF PipelineInductive, PublishersSaved, SaveCreateHook
    <3>2. sent[c] + 1 \in Nat /\ sent[c] + 1 <= Details[c]
      BY <3>1
    <3>3. \A d \in Change : sent'[d] = IF d = c THEN sent[c] + 1 ELSE sent[d]
      BY <3>1
    <3>4. \A d \in Change : sent'[d] <= Details[d]
      BY <3>2, <3>3 DEF PipelineInductive, PublishersSaved
    <3> QED BY <1>1, <1>4, <3>1, <3>2, <3>4
  <2>2. ASSUME NEW d \in Change, pending'[d] # 0
        PROVE  Saved(pending[d], "create_hook")'
    <3>1. PICK t : t = pending'[d]
      OBVIOUS
    <3>2. Saved(t, "create_hook")'
      <4>1. CASE d = c
        BY <1>1, <1>3, <1>4, <3>1, <4>1 DEF PipelineInductive, PublishersSaved, Saved, InTable
      <4>2. CASE d # c
        BY <1>1, <1>4, <2>2, <3>1, <4>2 DEF PipelineInductive, PublishersSaved, Keeps
      <4> QED  BY <4>1, <4>2
    <3> QED  BY <3>1, <3>2 DEF Saved, InTable
  <2> QED  BY <2>1, <2>2 DEF PublishersSaved
<1>6. EntitiesOwn' /\ QueuesSaved' /\ PagesSaved'
  BY <1>4, EntitiesKept, QueuesKept, PagesKept
     DEF PipelineInductive, SaveCreateHook, creator
<1>7. HooksSaved' /\ HooksInserted'
  BY <1>4, HooksKept, InsertedKept DEF PipelineInductive, SaveCreateHook, owner
<1> QED  BY <1>4, <1>5, <1>6, <1>7 DEF PipelineInductive, Keeps

LEMMA PushCreateHookStep ==
  ASSUME PipelineInductive, NEW c \in Change, PushCreateHook(c)
  PROVE  PipelineInductive'
<1>1. Keeps
  BY TablesUnchanged DEF PipelineInductive, PushCreateHook, tables
<1>2. QueuesSaved'
  <2>1. Saved(pending[c], "create_hook") /\ pending[c] \in Nat
    BY DEF PipelineInductive, PublishersSaved, PushCreateHook
  <2> QED  BY <1>1, <2>1, QueuesPushed DEF PipelineInductive, PushCreateHook
<1>3. PublishersSaved'
  <2>1. /\ pending' \in [Change -> Nat] /\ UNCHANGED sent
        /\ \A d \in Change : pending'[d] # 0 => pending'[d] = pending[d]
    BY DEF PipelineInductive, PublishersSaved, PushCreateHook
  <2>2. ASSUME NEW d \in Change, pending'[d] # 0
        PROVE  Saved(pending[d], "create_hook")'
    <3>1. PICK t : t = pending[d]
      OBVIOUS
    <3>2. Saved(t, "create_hook")'
      BY <1>1, <2>1, <2>2, <3>1 DEF PipelineInductive, PublishersSaved, Keeps
    <3> QED  BY <2>1, <2>2, <3>1, <3>2 DEF Saved, InTable
  <2> QED  BY <2>1, <2>2 DEF PipelineInductive, PublishersSaved
<1>4. EntitiesOwn' /\ PagesSaved'
  BY <1>1, EntitiesKept, PagesKept DEF PipelineInductive, PushCreateHook, creator
<1>5. HooksSaved' /\ HooksInserted'
  BY <1>1, HooksKept, InsertedKept DEF PipelineInductive, PushCreateHook, owner
<1> QED  BY <1>1, <1>2, <1>3, <1>4, <1>5 DEF PipelineInductive, Keeps

LEMMA StartCreateStep ==
  ASSUME PipelineInductive, NEW w \in Creator, StartCreate(w), ~strayed'
  PROVE  PipelineInductive'
<1>0. w \in Worker /\ at[w] # "idle"
  BY DEF StartCreate, Worker
<1>1. Keeps /\ FinishedId(w) \in Nat
  BY <1>0, Finished DEF PipelineInductive, StartCreate
<1>2. EntitiesOwn'
  <2>1. PICK e, type : e = [ent[w] EXCEPT !.id = FinishedId(w)] /\ type = Serves(w)
    OBVIOUS
  <2>2. /\ ent[w] \in [id : Nat, task : Nat, job : JobData]
        /\ Saved(ent[w].task, type) /\ Type(ent[w].job) = Serves(w)
    BY <1>0, <2>1 DEF PipelineInductive, EntitiesOwn
  <2>3. /\ e \in [id : Nat, task : Nat, job : JobData] /\ e # NoEnt
        /\ e.task = ent[w].task /\ e.job = ent[w].job /\ e.id = FinishedId(w)
    BY <1>1, <2>1, <2>2 DEF NoEnt
  <2>4. Saved(e.task, type)
    BY <2>2, <2>3
  <2>5. Saved(e.task, type)'
    BY <1>1, <2>4 DEF Keeps
  <2>6. Saved(e.task, Serves(w))'
    BY <2>1, <2>5 DEF Serves
  <2>7. ent' = [ent EXCEPT ![w] = e] /\ Goto(w, "log")
    BY <2>1 DEF StartCreate
  <2> QED  BY <1>0, <1>1, <2>2, <2>3, <2>6, <2>7, Moved DEF PipelineInductive
<1>3. QueuesSaved' /\ PublishersSaved' /\ PagesSaved'
  BY <1>1, QueuesKept, PublishersKept, PagesKept
     DEF PipelineInductive, StartCreate, publisher
<1>4. HooksSaved' /\ HooksInserted'
  BY <1>1, HooksKept, InsertedKept DEF PipelineInductive, StartCreate, owner
<1> QED  BY <1>1, <1>2, <1>3, <1>4 DEF PipelineInductive, Keeps

\* PushHooks and NextPage.
LEMMA TurnStep ==
  ASSUME PipelineInductive, NEW w \in Creator, at[w] # "idle",
         NEW since, SaveEnt(w, "processing"), ~strayed', Turn(w, since),
         UNCHANGED <<nextRow, hist, nextHist, queue, hooks, publisher, ent,
                     unpushed, copy, owner>>
  PROVE  PipelineInductive'
<1>0. w \in Worker /\ \A query : UNION Pages(query, since) \subseteq HookId
  BY DEF Worker, Pages, Matching
<1>1. Keeps
  BY <1>0, EntSaved DEF PipelineInductive
<1>2. EntitiesOwn'
  <2>1. \E label \in {"page", "log", "finish"} : Goto(w, label)
    BY DEF Turn
  <2> QED  BY <1>0, <1>1, <2>1, MovedOn DEF PipelineInductive
<1>3. PagesSaved'
  <2>1. todo' \in [Creator -> SUBSET HookId] /\ UNCHANGED unpushed
    BY <1>0 DEF PipelineInductive, PagesSaved, Turn
  <2> QED  BY <1>1, <2>1 DEF PipelineInductive, PagesSaved, Keeps, Saved, InTable
<1>4. QueuesSaved' /\ PublishersSaved' /\ HooksSaved' /\ HooksInserted'
  BY <1>1, QueuesKept, PublishersKept, HooksKept, InsertedKept
     DEF PipelineInductive, publisher, owner
<1> QED  BY <1>1, <1>2, <1>3, <1>4 DEF PipelineInductive, Keeps

LEMMA SaveTriggerHookStep ==
  ASSUME PipelineInductive, NEW w \in Creator, NEW h \in HookId,
         SaveTriggerHook(w, h)
  PROVE  PipelineInductive'
<1>0. w \in Worker /\ at[w] # "idle" /\ h \in 1 .. MaxHook
  BY DEF SaveTriggerHook, Worker, HookId
<1>1. PICK task : /\ SaveNew(Job(ent[w].job.change, ent[w].job.detail, h), task)
                  /\ unpushed' = [unpushed EXCEPT ![w] = @ \cup {task}]
  BY DEF SaveTriggerHook
<1>2. PICK job : job = Job(ent[w].job.change, ent[w].job.detail, h)
  OBVIOUS
<1>3. job \in JobData /\ Type(job) = "trigger_hook"
  <2>1. ent[w].job \in JobData
    BY <1>0 DEF PipelineInductive, EntitiesOwn
  <2> QED  BY <1>0, <1>2, <2>1, NumberAssumption DEF Job, JobData, Type
<1>4. Keeps /\ Saved(task, "trigger_hook")' /\ task \in Nat
  BY <1>1, <1>2, <1>3, NewSaved DEF PipelineInductive, SaveTriggerHook
<1>5. PagesSaved'
  <2>1. /\ todo' \in [Creator -> SUBSET HookId]
        /\ unpushed' \in [Creator -> SUBSET Nat]
        /\ \A v \in Creator : unpushed'[v] \subseteq unpushed[v] \cup {task}
    BY <1>1, <1>4 DEF PipelineInductive, PagesSaved, SaveTriggerHook
  <2>2. ASSUME NEW v \in Creator, NEW t \in unpushed'[v]
        PROVE  Saved(t, "trigger_hook")'
    BY <1>4, <2>1 DEF PipelineInductive, PagesSaved, Keeps
  <2> QED  BY <2>1, <2>2 DEF PagesSaved, Saved, InTable
<1>6. EntitiesOwn' /\ QueuesSaved' /\ PublishersSaved'
  BY <1>4, EntitiesKept, QueuesKept, PublishersKept
     DEF PipelineInductive, SaveTriggerHook, publisher
<1>7. HooksSaved' /\ HooksInserted'
  BY <1>4, HooksKept, InsertedKept DEF PipelineInductive, SaveTriggerHook, owner
<1> QED  BY <1>4, <1>5, <1>6, <1>7 DEF PipelineInductive, Keeps

LEMMA PushTriggerHookStep ==
  ASSUME PipelineInductive, NEW w \in Creator, NEW task, PushTriggerHook(w, task)
  PROVE  PipelineInductive'
<1>1. Keeps
  BY TablesUnchanged DEF PipelineInductive, PushTriggerHook, tables
<1>2. QueuesSaved'
  <2>1. Saved(task, "trigger_hook") /\ task \in Nat
    BY DEF PipelineInductive, PagesSaved, PushTriggerHook
  <2> QED  BY <1>1, <2>1, QueuesPushed DEF PipelineInductive, PushTriggerHook
<1>3. PagesSaved'
  <2>1. /\ unpushed' \in [Creator -> SUBSET Nat] /\ UNCHANGED todo
        /\ \A v \in Creator : unpushed'[v] \subseteq unpushed[v]
    BY DEF PipelineInductive, PagesSaved, PushTriggerHook
  <2>2. ASSUME NEW v \in Creator, NEW t \in unpushed'[v]
        PROVE  Saved(t, "trigger_hook")'
    BY <1>1, <2>1 DEF PipelineInductive, PagesSaved, Keeps
  <2> QED  BY <2>1, <2>2 DEF PipelineInductive, PagesSaved, Saved, InTable
<1>4. EntitiesOwn' /\ PublishersSaved'
  BY <1>1, EntitiesKept, PublishersKept
     DEF PipelineInductive, PushTriggerHook, publisher
<1>5. HooksSaved' /\ HooksInserted'
  BY <1>1, HooksKept, InsertedKept DEF PipelineInductive, PushTriggerHook, owner
<1> QED  BY <1>1, <1>2, <1>3, <1>4, <1>5 DEF PipelineInductive, Keeps

\* The actions that end an execution with finishTask.
LEMMA EndStep ==
  ASSUME PipelineInductive, NEW w \in Worker,
         \/ w \in Creator /\ FinishCreate(w)
         \/ HookGone(w) \/ CallRefused(w) \/ FinishTrigger(w) \/ TriggerFails(w),
         ~strayed'
  PROVE  PipelineInductive'
<1>1. \E state \in {"processing", "success", "fail"} : Finish(w, state)
  BY DEF FinishCreate, HookGone, CallRefused, FinishTrigger, TriggerFails
<1>2. /\ at[w] # "idle" /\ Leave(w)
      /\ UNCHANGED <<queue, hooks, publisher, owner>>
  BY DEF FinishCreate, HookGone, CallRefused, FinishTrigger, TriggerFails
<1> QED  BY <1>1, <1>2, FinishedAndLeft

LEMMA CreateFailsStep ==
  ASSUME PipelineInductive, NEW w \in Creator, CreateFails(w), ~strayed'
  PROVE  PipelineInductive'
<1>0. /\ w \in Worker /\ at[w] # "idle" /\ Leave(w) /\ Finish(w, "fail")
      /\ UNCHANGED <<hooks, publisher, owner>>
  BY DEF CreateFails, Worker
<1>1. Keeps
  BY <1>0, FinishedAndLeft
<1>2. QueuesSaved'
  <2>1. PICK lost \in SUBSET unpushed[w] :
          PushTasks("trigger_hook", unpushed[w] \ lost)
    BY DEF CreateFails
  <2>2. /\ unpushed[w] \ lost \in SUBSET Nat
        /\ \A task \in unpushed[w] \ lost : Saved(task, "trigger_hook")
    BY DEF PipelineInductive, PagesSaved
  <2> QED  BY <1>1, <2>1, <2>2, QueuesPushed DEF PipelineInductive
<1>3. EntitiesOwn' /\ PagesSaved' /\ HooksSaved'
  BY <1>0, <1>1, Left DEF PipelineInductive, owner
<1>4. PublishersSaved' /\ HooksInserted'
  BY <1>0, <1>1, PublishersKept, InsertedKept DEF PipelineInductive, publisher
<1> QED  BY <1>1, <1>2, <1>3, <1>4 DEF PipelineInductive, Keeps

\* A trigger_hook task is about a hook.
LEMMA TriggererHook ==
  ASSUME PipelineInductive, NEW w \in Triggerer, at[w] # "idle"
  PROVE  /\ w \in Worker /\ HookOf(w) \in HookId
         /\ ent[w].task \in Nat /\ Saved(ent[w].task, "trigger_hook")
<1>1. w \in Worker /\ Serves(w) = "trigger_hook"
  BY SetAssumption DEF Worker, Serves
<1>2. /\ Saved(ent[w].task, "trigger_hook") /\ Type(ent[w].job) = "trigger_hook"
      /\ ent[w] \in [id : Nat, task : Nat, job : JobData]
  BY <1>1 DEF PipelineInductive, EntitiesOwn
<1>3. ent[w].job.hook \in 0 .. MaxHook /\ ent[w].job.hook # 0
  BY <1>2 DEF JobData, Type
<1> QED  BY <1>1, <1>2, <1>3, NumberAssumption DEF HookOf, HookId

LEMMA FindHookStep ==
  ASSUME PipelineInductive, NEW w \in Triggerer, FindHook(w)
  PROVE  PipelineInductive'
<1>1. w \in Worker /\ at[w] # "idle" /\ HookOf(w) \in HookId
  BY TriggererHook DEF FindHook
<1>2. Keeps
  BY TablesUnchanged DEF PipelineInductive, FindHook, tables
<1>3. HooksSaved'
  <2>1. /\ copy' \in [Triggerer -> HookData]
        /\ copy' = [copy EXCEPT ![w] = hooks[HookOf(w)]]
        /\ UNCHANGED <<hooks, asks, rows, hist>>
    BY <1>1 DEF PipelineInductive, HooksSaved, FindHook, owner, tables
  <2>2. \A v \in Triggerer : LatestSaved(copy'[v])
    BY <1>1, <2>1 DEF PipelineInductive, HooksSaved
  <2> QED  BY <2>1, <2>2 DEF PipelineInductive, HooksSaved, LatestSaved, Saved, InTable
<1>4. EntitiesOwn'
  BY <1>1, <1>2, MovedOn DEF PipelineInductive, FindHook
<1>5. QueuesSaved' /\ PublishersSaved' /\ PagesSaved' /\ HooksInserted'
  BY <1>2, QueuesKept, PublishersKept, PagesKept, InsertedKept
     DEF PipelineInductive, FindHook, publisher, creator
<1> QED  BY <1>2, <1>3, <1>4, <1>5 DEF PipelineInductive, Keeps

LEMMA CallStep ==
  ASSUME PipelineInductive, NEW w \in Triggerer, Call(w)
  PROVE  PipelineInductive'
<1>1. Keeps
  BY TablesUnchanged DEF PipelineInductive, Call, tables
<1>2. EntitiesOwn'
  BY <1>1, MovedOn DEF PipelineInductive, Call, Worker
<1>3. QueuesSaved' /\ PublishersSaved' /\ PagesSaved'
  BY <1>1, QueuesKept, PublishersKept, PagesKept
     DEF PipelineInductive, Call, publisher, creator
<1>4. HooksSaved' /\ HooksInserted'
  BY <1>1, HooksKept, InsertedKept DEF PipelineInductive, Call, owner
<1> QED  BY <1>1, <1>2, <1>3, <1>4 DEF PipelineInductive, Keeps

LEMMA SaveHookStep ==
  ASSUME PipelineInductive, NEW w \in Triggerer, SaveHook(w)
  PROVE  PipelineInductive'
<1>1. /\ w \in Worker /\ at[w] # "idle" /\ HookOf(w) \in HookId
      /\ ent[w].task \in Nat /\ Saved(ent[w].task, "trigger_hook")
  BY TriggererHook DEF SaveHook
<1>2. Keeps
  BY TablesUnchanged DEF PipelineInductive, SaveHook, tables
<1>3. HooksSaved' /\ HooksInserted'
  <2>1. PICK row : row = [copy[w] EXCEPT !.latest = ent[w].task]
    OBVIOUS
  <2>2. row \in HookData /\ row.latest = ent[w].task
    <3>1. ent[w].task \in 0 .. MaxRow
      BY <1>1, NumberAssumption DEF Saved, RowId
    <3> QED BY <2>1, <3>1 DEF PipelineInductive, HooksSaved, HookData
  <2>3. /\ hooks' = IF hooks[HookOf(w)].exists
                    THEN [hooks EXCEPT ![HookOf(w)] = row] ELSE hooks
        /\ UNCHANGED <<rows, hist, copy, owner>>
    BY <2>1 DEF SaveHook, tables
  <2>4. hooks' \in [HookId -> HookData] /\ \A h \in HookId : LatestSaved(hooks'[h])
    BY <1>1, <2>2, <2>3 DEF PipelineInductive, HooksSaved, LatestSaved
  <2>5. \A h \in HookId : ~hooks[h].exists => ~hooks'[h].exists
    BY <2>3 DEF PipelineInductive, HooksSaved
  <2>6. HooksSaved'
    BY <2>3, <2>4 DEF PipelineInductive, HooksSaved, LatestSaved, Saved, InTable, owner
  <2>7. HooksInserted'
    BY <2>3, <2>5, NumberAssumption DEF PipelineInductive, HooksInserted, owner
  <2> QED  BY <2>6, <2>7
<1>4. EntitiesOwn'
  BY <1>1, <1>2, MovedOn DEF PipelineInductive, SaveHook
<1>5. QueuesSaved' /\ PublishersSaved' /\ PagesSaved'
  BY <1>2, QueuesKept, PublishersKept, PagesKept
     DEF PipelineInductive, SaveHook, publisher, creator
<1> QED  BY <1>2, <1>3, <1>4, <1>5 DEF PipelineInductive, Keeps

LEMMA WorkerCrashStep ==
  ASSUME PipelineInductive, NEW w \in Worker, WorkerCrash(w)
  PROVE  PipelineInductive'
<1>1. Keeps /\ Leave(w)
  BY TablesUnchanged DEF PipelineInductive, WorkerCrash, tables
<1>2. EntitiesOwn' /\ PagesSaved' /\ HooksSaved'
  BY <1>1, Left DEF PipelineInductive, WorkerCrash, owner
<1>3. QueuesSaved' /\ PublishersSaved' /\ HooksInserted'
  BY <1>1, QueuesKept, PublishersKept, InsertedKept
     DEF PipelineInductive, WorkerCrash, publisher
<1> QED  BY <1>1, <1>2, <1>3 DEF PipelineInductive, Keeps

LEMMA HandlerCrashStep ==
  ASSUME PipelineInductive, NEW c \in Change, HandlerCrash(c)
  PROVE  PipelineInductive'
<1>1. Keeps
  BY TablesUnchanged DEF PipelineInductive, HandlerCrash, tables
<1>2. PublishersSaved'
  <2>1. /\ pending' \in [Change -> Nat]
        /\ \A d \in Change : pending'[d] # 0 => pending'[d] = pending[d]
    BY DEF PipelineInductive, PublishersSaved, HandlerCrash
  <2>2. sent' \in [Change -> Nat] /\ \A d \in Change : sent'[d] <= Details[d]
    <3>1. /\ sent \in [Change -> Nat] /\ Details \in [Change -> Nat]
          /\ sent' = [sent EXCEPT ![c] = Details[c]]
      BY SetAssumption DEF PipelineInductive, PublishersSaved, HandlerCrash
    <3>2. \A d \in Change : sent'[d] = IF d = c THEN Details[c] ELSE sent[d]
      BY <3>1
    <3> QED BY <3>1, <3>2 DEF PipelineInductive, PublishersSaved
  <2>3. UNCHANGED <<rows, hist>>
    BY DEF HandlerCrash, tables
  <2> QED
    BY <2>1, <2>2, <2>3 DEF PipelineInductive, PublishersSaved, Saved, InTable
<1>3. EntitiesOwn' /\ QueuesSaved' /\ PagesSaved'
  BY <1>1, EntitiesKept, QueuesKept, PagesKept
     DEF PipelineInductive, HandlerCrash, creator
<1>4. HooksSaved' /\ HooksInserted'
  BY <1>1, HooksKept, InsertedKept DEF PipelineInductive, HandlerCrash, owner
<1> QED  BY <1>1, <1>2, <1>3, <1>4 DEF PipelineInductive, Keeps

LEMMA TimeoutRetryStep ==
  ASSUME PipelineInductive, NEW r \in RowId, TimeoutRetry(r)
  PROVE  PipelineInductive'
<1>1. Keeps
  BY RowMarked DEF PipelineInductive, TimeoutRetry
<1>2. QueuesSaved'
  <2>1. PICK type : type = Type(rows[r].job)
    OBVIOUS
  <2>2. type \in {"create_hook", "trigger_hook"}
    BY <2>1 DEF Type
  <2>3. rows[r].task = r /\ r \in Nat /\ Saved(r, type)
    BY <2>1, NumberAssumption DEF PipelineInductive, RowsOwn, TimeoutRetry, Saved, RowId
  <2>4. PushTasks(type, {r})
    BY <2>1, <2>3 DEF TimeoutRetry
  <2> QED  BY <1>1, <2>2, <2>3, <2>4, QueuesPushed DEF PipelineInductive
<1>3. EntitiesOwn' /\ PublishersSaved' /\ PagesSaved'
  BY <1>1, EntitiesKept, PublishersKept, PagesKept
     DEF PipelineInductive, TimeoutRetry, publisher, creator
<1>4. HooksSaved' /\ HooksInserted'
  BY <1>1, HooksKept, InsertedKept DEF PipelineInductive, TimeoutRetry, owner
<1> QED  BY <1>1, <1>2, <1>3, <1>4 DEF PipelineInductive, Keeps

-----------------------------------------------------------------------------
(* The owner *)

\* What all of the owner's steps leave alone.
LEMMA OwnerKeeps ==
  ASSUME PipelineInductive,
         UNCHANGED <<tables, queue, publisher, at, ent, creator, copy>>
  PROVE  /\ Keeps /\ UNCHANGED <<rows, hist, copy>>
         /\ EntitiesOwn' /\ QueuesSaved' /\ PublishersSaved' /\ PagesSaved'
<1>1. Keeps
  BY TablesUnchanged DEF PipelineInductive, tables
<1> QED
  BY <1>1, EntitiesKept, QueuesKept, PublishersKept, PagesKept
     DEF PipelineInductive, publisher, creator, tables

LEMMA CreateHookStep ==
  ASSUME PipelineInductive, NEW o \in Owner, CountHooks(o) \/ InsertHook(o)
  PROVE  PipelineInductive'
<1>1. /\ Keeps /\ UNCHANGED <<rows, hist, copy>>
      /\ EntitiesOwn' /\ QueuesSaved' /\ PublishersSaved' /\ PagesSaved'
  BY OwnerKeeps DEF CountHooks, InsertHook
<1>2. /\ asks' \in [Owner -> {NoAsk, [write |-> "new"]} \cup AskData]
      /\ \A p \in Owner : asks'[p].write = "update" => asks'[p] = asks[p]
  <2>1. asks' = [asks EXCEPT ![o] = NoAsk] \/ asks' = [asks EXCEPT ![o] = [write |-> "new"]]
    BY DEF CountHooks, InsertHook
  <2> QED  BY <2>1 DEF PipelineInductive, HooksSaved, NoAsk
<1>3. /\ hooks' \in [HookId -> HookData]
      /\ \A h \in HookId : hooks'[h].latest = hooks[h].latest
      /\ \A h \in HookId : hooks'[h].exists => hooks[h].exists \/ (InsertHook(o) /\ h = nextHook)
  <2>1. CASE CountHooks(o)
    BY <2>1 DEF PipelineInductive, HooksSaved, CountHooks
  <2>2. CASE InsertHook(o)
    <3>0. CASE UNCHANGED hooks
      BY <2>2, <3>0 DEF PipelineInductive, HooksSaved
    <3>1. CASE hooks' # hooks
      <4>1. nextHook \in HookId /\ hooks' = [hooks EXCEPT ![nextHook].exists = TRUE]
        BY <2>2, <3>1 DEF InsertHook
      <4>2. hooks[nextHook] \in HookData
        BY <4>1 DEF PipelineInductive, HooksSaved
      <4>3. [hooks[nextHook] EXCEPT !.exists = TRUE] \in HookData
            /\ [hooks[nextHook] EXCEPT !.exists = TRUE].latest = hooks[nextHook].latest
        BY <4>2 DEF HookData
      <4>4. hooks'[nextHook] = [hooks[nextHook] EXCEPT !.exists = TRUE]
            /\ \A h \in HookId : h # nextHook => hooks'[h] = hooks[h]
        BY <4>1 DEF PipelineInductive, HooksSaved
      <4>5. hooks' \in [HookId -> HookData]
        BY <4>1, <4>3 DEF PipelineInductive, HooksSaved
      <4> QED  BY <2>2, <4>3, <4>4, <4>5
    <3> QED  BY <3>0, <3>1
  <2> QED  BY <2>1, <2>2
<1>4. HooksSaved'
  BY <1>1, <1>2, <1>3 DEF PipelineInductive, HooksSaved, LatestSaved, Saved, InTable
<1>5. HooksInserted'
  <2>1. /\ nextHook \in Nat /\ nextHook' \in {nextHook, nextHook + 1}
        /\ InsertHook(o) => nextHook' = nextHook + 1
        /\ UNCHANGED <<updates, removed>>
    BY DEF PipelineInductive, HooksInserted, CountHooks, InsertHook
  <2>2. /\ updates \in Nat /\ removed \subseteq HookId
        /\ \A h \in removed : h < nextHook /\ ~hooks[h].exists
        /\ \A h \in HookId : hooks[h].exists => h < nextHook
    BY DEF PipelineInductive, HooksInserted
  <2>3. ASSUME NEW h \in removed PROVE h < nextHook' /\ ~hooks'[h].exists
    <3>1. h \in HookId /\ h < nextHook /\ ~hooks[h].exists
      BY <2>2
    <3>2. h # nextHook /\ h < nextHook'
      BY <2>1, <3>1, NumberAssumption DEF HookId
    <3> QED  BY <1>3, <3>1, <3>2
  <2>4. ASSUME NEW h \in HookId, hooks'[h].exists PROVE h < nextHook'
    <3>1. h < nextHook \/ (InsertHook(o) /\ h = nextHook)
      BY <1>3, <2>2, <2>4
    <3> QED  BY <2>1, <3>1, NumberAssumption DEF HookId
  <2>5. nextHook' \in Nat
    BY <2>1
  <2> QED  BY <1>3, <2>1, <2>2, <2>3, <2>4, <2>5 DEF HooksInserted
<1> QED  BY <1>1, <1>4, <1>5 DEF PipelineInductive, Keeps

LEMMA ReadHookStep ==
  ASSUME PipelineInductive, NEW o \in Owner, NEW h \in HookId, ReadHook(o, h)
  PROVE  PipelineInductive'
<1>1. /\ Keeps /\ UNCHANGED <<rows, hist, copy>>
      /\ EntitiesOwn' /\ QueuesSaved' /\ PublishersSaved' /\ PagesSaved'
  BY OwnerKeeps DEF ReadHook
<1>2. PICK row : row = [hooks[h] EXCEPT !.endpoint = updates + 1]
  OBVIOUS
<1>3. row \in HookData /\ row.latest = hooks[h].latest
  BY <1>2 DEF PipelineInductive, HooksSaved, HooksInserted, HookData
<1>4. PICK ask : ask = [write |-> "update", hook |-> h, row |-> row]
  OBVIOUS
<1>5. ask \in AskData /\ ask.row = row
  BY <1>3, <1>4 DEF AskData
<1>6. asks' = [asks EXCEPT ![o] = ask] /\ UNCHANGED hooks
  BY <1>2, <1>4 DEF ReadHook
<1>7. /\ asks' \in [Owner -> {NoAsk, [write |-> "new"]} \cup AskData]
      /\ \A p \in Owner : asks'[p] = asks[p] \/ asks'[p] = ask
  BY <1>5, <1>6 DEF PipelineInductive, HooksSaved
<1>8. \A p \in Owner : asks'[p].write = "update" => LatestSaved(asks'[p].row)
  BY <1>3, <1>5, <1>7 DEF PipelineInductive, HooksSaved, LatestSaved
<1>9. HooksSaved'
  BY <1>1, <1>6, <1>7, <1>8
     DEF PipelineInductive, HooksSaved, LatestSaved, Saved, InTable
<1>10. HooksInserted'
  BY DEF PipelineInductive, HooksInserted, ReadHook
<1> QED  BY <1>1, <1>9, <1>10 DEF PipelineInductive, Keeps

LEMMA UpdateHookStep ==
  ASSUME PipelineInductive, NEW o \in Owner, UpdateHook(o)
  PROVE  PipelineInductive'
<1>1. /\ Keeps /\ UNCHANGED <<rows, hist, copy>>
      /\ EntitiesOwn' /\ QueuesSaved' /\ PublishersSaved' /\ PagesSaved'
  BY OwnerKeeps DEF UpdateHook
<1>2. asks[o].write = "update" /\ asks[o] \in AskData /\ LatestSaved(asks[o].row)
  BY DEF PipelineInductive, HooksSaved, UpdateHook, NoAsk
<1>3. PICK h, row : h = asks[o].hook /\ row = asks[o].row
  OBVIOUS
<1>4. h \in HookId /\ row \in HookData /\ LatestSaved(row)
  BY <1>2, <1>3 DEF AskData
<1>5. /\ hooks' = IF hooks[h].exists THEN [hooks EXCEPT ![h] = row] ELSE hooks
      /\ asks' = [asks EXCEPT ![o] = NoAsk]
  BY <1>3 DEF UpdateHook
<1>6. /\ hooks' \in [HookId -> HookData]
      /\ \A g \in HookId : LatestSaved(hooks'[g])
      /\ \A g \in HookId : ~hooks[g].exists => ~hooks'[g].exists
  BY <1>4, <1>5 DEF PipelineInductive, HooksSaved
<1>7. /\ asks' \in [Owner -> {NoAsk, [write |-> "new"]} \cup AskData]
      /\ \A p \in Owner : asks'[p].write = "update" => asks'[p] = asks[p]
  BY <1>5 DEF PipelineInductive, HooksSaved, NoAsk
<1>8. HooksSaved'
  BY <1>1, <1>6, <1>7
     DEF PipelineInductive, HooksSaved, LatestSaved, Saved, InTable
<1>9. HooksInserted'
  BY <1>6, NumberAssumption
     DEF PipelineInductive, HooksInserted, UpdateHook, HookId
<1> QED  BY <1>1, <1>8, <1>9 DEF PipelineInductive, Keeps

LEMMA DeleteHookStep ==
  ASSUME PipelineInductive, NEW o \in Owner, NEW h \in HookId, DeleteHook(o, h)
  PROVE  PipelineInductive'
<1>1. /\ Keeps /\ UNCHANGED <<rows, hist, copy>>
      /\ EntitiesOwn' /\ QueuesSaved' /\ PublishersSaved' /\ PagesSaved'
  BY OwnerKeeps DEF DeleteHook
<1>2. /\ hooks' \in [HookId -> HookData] /\ UNCHANGED asks
      /\ hooks'[h] = NoHook
      /\ \A g \in HookId : g # h => hooks'[g] = hooks[g]
  BY NoHookData DEF PipelineInductive, HooksSaved, DeleteHook
<1>3. HooksSaved'
  BY <1>1, <1>2
     DEF PipelineInductive, HooksSaved, LatestSaved, Saved, InTable, NoHook
<1>4. HooksInserted'
  <2>1. hooks[h].exists /\ removed' = removed \cup {h}
        /\ UNCHANGED <<nextHook, updates>>
    BY DEF DeleteHook, Own
  <2> QED
    BY <1>2, <2>1 DEF PipelineInductive, HooksInserted, NoHook
<1> QED  BY <1>1, <1>3, <1>4 DEF PipelineInductive, Keeps

-----------------------------------------------------------------------------
(* The theorems *)

LEMMA PipelineInit ==
  ASSUME Init
  PROVE  PipelineInductive
<1>1. RowsOwn
  BY NumberAssumption DEF Init, RowsOwn, InTable, NoTask
<1>2. EntitiesOwn /\ QueuesSaved
  BY DEF Init, EntitiesOwn, QueuesSaved
<1>3. PublishersSaved /\ PagesSaved
  BY SetAssumption DEF Init, PublishersSaved, PagesSaved
<1>a. /\ InitialHooks \in Nat /\ updates = 0 /\ removed = {}
      /\ nextHook = InitialHooks + 1
      /\ copy = [w \in Triggerer |-> NoHook] /\ asks = [o \in Owner |-> NoAsk]
      /\ hooks = [h \in HookId |-> [NoHook EXCEPT !.exists = h <= InitialHooks]]
  <2>1. /\ updates = 0 /\ removed = {} /\ nextHook = InitialHooks + 1
        /\ copy = [w \in Triggerer |-> NoHook] /\ asks = [o \in Owner |-> NoAsk]
        /\ hooks = [h \in HookId |-> [NoHook EXCEPT !.exists = h <= InitialHooks]]
    BY Zenon DEF Init
  <2> QED  BY <2>1, NumberAssumption
<1>b. \A h \in HookId : /\ h \in Int /\ hooks[h] \in HookData
                        /\ hooks[h].latest = 0
                        /\ hooks[h].exists = (h <= InitialHooks)
  <2>1. TAKE h \in HookId
  <2>2. hooks[h] = [endpoint |-> 0, latest |-> 0, exists |-> h <= InitialHooks]
    BY <1>a DEF NoHook
  <2>3. h \in Int /\ (h <= InitialHooks) \in BOOLEAN
    BY <1>a, NumberAssumption DEF HookId
  <2> QED  BY <2>2, <2>3, NumberAssumption DEF HookData
<1>4. HooksSaved
  <2>1. hooks \in [HookId -> HookData] /\ \A h \in HookId : LatestSaved(hooks[h])
    BY <1>a, <1>b DEF LatestSaved
  <2>2. copy \in [Triggerer -> HookData] /\ \A w \in Triggerer : LatestSaved(copy[w])
    BY <1>a, NoHookData DEF LatestSaved, NoHook
  <2>3. /\ asks \in [Owner -> {NoAsk, [write |-> "new"]} \cup AskData]
        /\ \A o \in Owner : asks[o].write # "update"
    BY <1>a DEF NoAsk
  <2> QED  BY <2>1, <2>2, <2>3 DEF HooksSaved
<1>5. HooksInserted
  <2>1. /\ InitialHooks \in Nat /\ nextHook = InitialHooks + 1
        /\ updates = 0 /\ removed = {}
    BY <1>a
  <2>2. \A h \in HookId : hooks[h].exists => h <= InitialHooks
    BY <1>b
  <2>3. \A h \in HookId : hooks[h].exists => h < nextHook
    BY <1>b, <2>1, <2>2
  <2>4. DOMAIN hooks = HookId
    BY <1>a
  <2> QED  BY <2>1, <2>3, <2>4 DEF HooksInserted
<1> QED  BY <1>1, <1>2, <1>3, <1>4, <1>5 DEF PipelineInductive

LEMMA PipelineStutter ==
  ASSUME PipelineInductive, UNCHANGED vars
  PROVE  PipelineInductive'
<1>1. Keeps
  BY TablesUnchanged DEF PipelineInductive, vars, tables
<1>2. EntitiesOwn' /\ QueuesSaved' /\ PublishersSaved' /\ PagesSaved'
  BY <1>1, EntitiesKept, QueuesKept, PublishersKept, PagesKept
     DEF PipelineInductive, vars, publisher, creator
<1>3. HooksSaved' /\ HooksInserted'
  BY <1>1, HooksKept, InsertedKept DEF PipelineInductive, vars, owner
<1> QED  BY <1>1, <1>2, <1>3 DEF PipelineInductive, Keeps

LEMMA PipelineStep ==
  ASSUME PipelineInductive, [Next]_vars, ~strayed'
  PROVE  PipelineInductive'
<1>1. ASSUME NEW c \in Change, Record(c) \/ HandlerStep(c) \/ HandlerCrash(c)
      PROVE  PipelineInductive'
  BY <1>1, RecordStep, SaveCreateHookStep, PushCreateHookStep, HandlerCrashStep
     DEF HandlerStep
<1>2. ASSUME NEW w \in Creator, CreatorStep(w) \/ CreateFails(w)
      PROVE  PipelineInductive'
  <2>0. w \in Worker
    BY DEF Worker
  <2>1. CASE PushHooks(w) \/ NextPage(w)
    <3>1. at[w] # "idle" /\ SaveEnt(w, "processing") /\ \E since : Turn(w, since)
      BY <2>1 DEF PushHooks, NextPage, PageDone
    <3>2. UNCHANGED <<nextRow, hist, nextHist, queue, hooks, publisher, ent,
                      unpushed, copy, owner>>
      BY <2>1 DEF PushHooks, NextPage
    <3> QED BY <3>1, <3>2, TurnStep
  <2>2. CASE \E h \in HookId : SaveTriggerHook(w, h)
    BY <2>2, SaveTriggerHookStep
  <2>3. CASE \E task \in RowId : PushTriggerHook(w, task)
    BY <2>3, PushTriggerHookStep
  <2> QED
    BY <1>2, <2>0, <2>1, <2>2, <2>3, TakeStep, StartCreateStep, EndStep,
       CreateFailsStep DEF CreatorStep
<1>3. ASSUME NEW w \in Triggerer, TriggererStep(w) \/ TriggerFails(w)
      PROVE  PipelineInductive'
  BY <1>3, TakeStep, FindHookStep, CallStep, SaveHookStep, EndStep
     DEF TriggererStep, Worker
<1>4. ASSUME NEW o \in Owner, OwnerStep(o)
      PROVE  PipelineInductive'
  BY <1>4, CreateHookStep, ReadHookStep, UpdateHookStep, DeleteHookStep
     DEF OwnerStep
<1> QED
  BY <1>1, <1>2, <1>3, <1>4, TimeoutRetryStep, WorkerCrashStep, PipelineStutter
     DEF Next, FaultStep

\* A task that has strayed is not put back.
LEMMA StrayedStays ==
  ASSUME strayed, [Next]_vars
  PROVE  strayed'
<1> USE DEF tables, Stray, SaveEnt, Finish
<1>1. ASSUME NEW c \in Change, Record(c) \/ HandlerStep(c) \/ HandlerCrash(c)
      PROVE  strayed'
  BY <1>1 DEF Record, HandlerStep, SaveCreateHook, PushCreateHook, HandlerCrash
<1>2. ASSUME NEW w \in Creator, CreatorStep(w) \/ CreateFails(w)
      PROVE  strayed'
  BY <1>2 DEF CreatorStep, CreateFails, Take, StartCreate, PushHooks, NextPage,
              FinishCreate, SaveTriggerHook, PushTriggerHook
<1>3. ASSUME NEW w \in Triggerer, TriggererStep(w) \/ TriggerFails(w)
      PROVE  strayed'
  BY <1>3 DEF TriggererStep, TriggerFails, Take, FindHook, HookGone, Call,
              CallRefused, SaveHook, FinishTrigger
<1>4. ASSUME NEW o \in Owner, OwnerStep(o)
      PROVE  strayed'
  BY <1>4 DEF OwnerStep, CountHooks, InsertHook, ReadHook, UpdateHook, DeleteHook
<1>5. ASSUME NEW r \in RowId, TimeoutRetry(r)
      PROVE  strayed'
  BY <1>5 DEF TimeoutRetry
<1>6. ASSUME NEW w \in Worker, WorkerCrash(w)
      PROVE  strayed'
  BY <1>6 DEF WorkerCrash
<1>7. CASE UNCHANGED vars
  BY <1>7 DEF vars
<1> QED BY <1>1, <1>2, <1>3, <1>4, <1>5, <1>6, <1>7 DEF Next, FaultStep

\* As long as no entity was saved or finished on the row of another task, every
\* row is that of its task, and every id that is queued, held or shown was saved:
\* no bound on changes, hooks, workers, crashes or failing calls is needed, nor
\* any assumption on where the two tables start to number their rows.
THEOREM PipelineInvariant ==
  Spec => []PipelineHolds
<1>1. Init => PipelineHolds
  BY PipelineInit DEF PipelineHolds
<1>2. PipelineHolds /\ [Next]_vars => PipelineHolds'
  BY PipelineStep, StrayedStays DEF PipelineHolds
<1> QED  BY <1>1, <1>2, PTL DEF Spec

\* No queued task id, and no id shown as the latest task of a hook, is ever
\* unknown to both tables (HookTriggerService, CreateHookTriggerService), unless
\* an entity that has the number of a history row has met the live row of that
\* number: whatever else overlaps or fails loses none.
THEOREM HookIdsResolve ==
  Spec => []IdsResolve
<1>1. PipelineHolds => IdsResolve
  <2> SUFFICES ASSUME PipelineInductive PROVE IdsFound
    BY DEF PipelineHolds, IdsResolve
  <2>1. \A task, type : Saved(task, type) => Known(task)
    BY DEF PipelineInductive, RowsOwn, Saved, Known, RowsOf
  <2> QED
    BY <2>1 DEF PipelineInductive, QueuesSaved, HooksSaved, LatestSaved, IdsFound
<1> QED  BY <1>1, PipelineInvariant, PTL

-----------------------------------------------------------------------------
(* Hooks that were deleted *)

LEMMA InsertedStep ==
  ASSUME HooksInserted, [Next]_vars
  PROVE  HooksInserted'
<1> USE DEF publisher, creator, tables
<1>1. ASSUME UNCHANGED <<hooks, owner>> PROVE HooksInserted'
  BY <1>1, InsertedKept
<1>2. ASSUME NEW c \in Change, Record(c) \/ HandlerStep(c) \/ HandlerCrash(c)
      PROVE  HooksInserted'
  BY <1>1, <1>2 DEF Record, HandlerStep, SaveCreateHook, PushCreateHook, HandlerCrash
<1>3. ASSUME NEW w \in Creator, CreatorStep(w) \/ CreateFails(w)
      PROVE  HooksInserted'
  BY <1>1, <1>3 DEF CreatorStep, CreateFails, Take, StartCreate, PushHooks, NextPage,
                    FinishCreate, SaveTriggerHook, PushTriggerHook
\* A hook that is gone is not saved.
<1>4. ASSUME \A h \in HookId : hooks'[h].exists => hooks[h].exists,
             DOMAIN hooks' = HookId, UNCHANGED <<nextHook, removed>>, updates' \in Nat
      PROVE  HooksInserted'
  BY <1>4 DEF HooksInserted
<1>5. DOMAIN hooks = HookId
  BY DEF HooksInserted
<1>6. ASSUME NEW w \in Triggerer, TriggererStep(w) \/ TriggerFails(w)
      PROVE  HooksInserted'
  <2>1. CASE SaveHook(w)
    <3>1. \A h \in HookId : hooks'[h].exists => hooks[h].exists
      BY <1>5, <2>1 DEF SaveHook
    <3>2. DOMAIN hooks' = HookId /\ UNCHANGED <<nextHook, removed>> /\ updates' \in Nat
      BY <1>5, <2>1 DEF SaveHook, owner, HooksInserted
    <3> QED BY <1>4, <3>1, <3>2
  <2>2. CASE ~SaveHook(w)
    BY <1>1, <1>6, <2>2 DEF TriggererStep, TriggerFails, Take, FindHook, HookGone, Call,
                            CallRefused, FinishTrigger
  <2> QED BY <2>1, <2>2
<1>7. ASSUME NEW o \in Owner, OwnerStep(o)
      PROVE  HooksInserted'
  <2>1. CASE CountHooks(o)
    BY <2>1 DEF CountHooks, HooksInserted
  <2>2. CASE InsertHook(o)
    <3>1. /\ nextHook \in HookId /\ nextHook' = nextHook + 1 /\ DOMAIN hooks' = HookId
          /\ UNCHANGED <<updates, removed>>
          /\ \A h \in HookId : hooks'[h].exists => hooks[h].exists \/ h = nextHook
      BY <1>5, <2>2 DEF InsertHook
    <3>2. \A h \in HookId : hooks'[h].exists => h < nextHook'
      BY <3>1, NumberAssumption DEF HookId, HooksInserted
    <3>3. \A h \in removed : h \in HookId /\ h < nextHook /\ ~hooks[h].exists
      BY DEF HooksInserted
    <3>4. \A h \in removed : h < nextHook' /\ ~hooks'[h].exists
      BY <3>1, <3>3, NumberAssumption DEF HookId
    <3>5. nextHook' \in Nat /\ updates' \in Nat /\ removed' \subseteq HookId
      BY <3>1, NumberAssumption DEF HookId, HooksInserted
    <3> QED BY <3>1, <3>2, <3>4, <3>5 DEF HooksInserted
  <2>3. CASE UpdateHook(o)
    <3>1. \A h \in HookId : hooks'[h].exists => hooks[h].exists
      BY <1>5, <2>3 DEF UpdateHook
    <3>2. DOMAIN hooks' = HookId /\ UNCHANGED <<nextHook, removed>> /\ updates' \in Nat
      BY <1>5, <2>3 DEF UpdateHook, HooksInserted
    <3> QED BY <1>4, <3>1, <3>2
  <2>4. ASSUME NEW h \in HookId, ReadHook(o, h)
        PROVE  HooksInserted'
    BY <2>4 DEF ReadHook, HooksInserted
  <2>5. ASSUME NEW h \in HookId, DeleteHook(o, h)
        PROVE  HooksInserted'
    <3>1. /\ hooks[h].exists /\ removed' = removed \cup {h}
          /\ ~hooks'[h].exists /\ DOMAIN hooks' = HookId
          /\ \A g \in HookId : g # h => hooks'[g] = hooks[g]
          /\ UNCHANGED <<nextHook, updates>>
      BY <1>5, <2>5 DEF DeleteHook, Own, NoHook
    <3> QED BY <3>1 DEF HooksInserted
  <2> QED BY <1>7, <2>1, <2>2, <2>3, <2>4, <2>5 DEF OwnerStep
<1>8. ASSUME NEW r \in RowId, TimeoutRetry(r)
      PROVE  HooksInserted'
  BY <1>1, <1>8 DEF TimeoutRetry
<1>9. ASSUME NEW w \in Worker, WorkerCrash(w)
      PROVE  HooksInserted'
  BY <1>1, <1>9 DEF WorkerCrash
<1>10. CASE UNCHANGED vars
  BY <1>1, <1>10 DEF vars
<1> QED BY <1>2, <1>3, <1>6, <1>7, <1>8, <1>9, <1>10 DEF Next, FaultStep

\* A hook the owner deleted does not come back, although workers that have read
\* it save it after the call (HookRepository.saveHook), and whatever becomes of
\* the rows of their tasks.
THEOREM DeletedHooksStayDeleted ==
  Spec => []DeletedStaysDeleted
<1>1. Init => HooksInserted
  BY PipelineInit DEF PipelineInductive
<1>2. HooksInserted /\ [Next]_vars => HooksInserted'
  BY InsertedStep
<1>3. HooksInserted => DeletedStaysDeleted
  BY DEF HooksInserted, DeletedStaysDeleted
<1> QED  BY <1>1, <1>2, <1>3, PTL DEF Spec

-----------------------------------------------------------------------------
(* The limit on an owner's hooks *)

\* Hooks and owners are finitely many.
LEMMA OwnFinite ==
  ASSUME IsFiniteSet(Owner)
  PROVE  /\ IsFiniteSet(Own) /\ Cardinality(Own) \in Nat
         /\ IsFiniteSet(Inserting) /\ Cardinality(Inserting) \in Nat
         /\ Cardinality(Inserting) <= Cardinality(Owner) /\ Cardinality(Owner) \in Nat
<1>1. IsFiniteSet(HookId)
  BY FS_Interval, NumberAssumption DEF HookId
<1>2. Own \subseteq HookId /\ Inserting \subseteq Owner
  BY DEF Own, Inserting
<1>3. IsFiniteSet(Own) /\ Cardinality(Own) \in Nat
  BY <1>1, <1>2, FS_Subset, FS_CardinalityType
<1>4. /\ IsFiniteSet(Inserting) /\ Cardinality(Inserting) \in Nat
      /\ Cardinality(Inserting) <= Cardinality(Owner) /\ Cardinality(Owner) \in Nat
  BY <1>2, FS_Subset, FS_CardinalityType
<1> QED BY <1>3, <1>4

LEMMA OwnFiniteNext ==
  ASSUME IsFiniteSet(Owner)
  PROVE  /\ Cardinality(Own') \in Nat
         /\ IsFiniteSet(Inserting') /\ Cardinality(Inserting') \in Nat
         /\ Cardinality(Inserting') <= Cardinality(Owner)
<1>1. IsFiniteSet(HookId)
  BY FS_Interval, NumberAssumption DEF HookId
<1>2. Own' \subseteq HookId /\ Inserting' \subseteq Owner
  BY DEF Own, Inserting
<1> QED BY <1>1, <1>2, FS_Subset, FS_CardinalityType

\* A step that adds neither a hook nor a request that inserts one.
LEMMA LimitShrinks ==
  ASSUME IsFiniteSet(Owner), LimitNear, DOMAIN hooks' = HookId, DOMAIN asks' = Owner,
         \A h \in HookId : hooks'[h].exists => hooks[h].exists,
         \A o \in Owner : asks'[o].write = "new" => asks[o].write = "new"
  PROVE  LimitNear'
<1>1. Own' \subseteq Own /\ Inserting' \subseteq Inserting
  BY DEF Own, Inserting
<1>2. /\ Cardinality(Own') <= Cardinality(Own)
      /\ Cardinality(Inserting') <= Cardinality(Inserting)
  BY <1>1, OwnFinite, FS_Subset
<1>3. /\ Cardinality(Own) \in Nat /\ Cardinality(Own') \in Nat
      /\ Cardinality(Inserting) \in Nat /\ Cardinality(Inserting') \in Nat
      /\ Cardinality(Owner) \in Nat /\ HooksLimit \in Nat
  BY OwnFinite, OwnFiniteNext, NumberAssumption
<1>4. Cardinality(Own) + Cardinality(Inserting) <= HooksLimit + Cardinality(Owner) - 1
  BY DEF LimitNear
<1>5. Cardinality(Own') + Cardinality(Inserting') <= HooksLimit + Cardinality(Owner) - 1
  BY <1>2, <1>3, <1>4
<1> QED BY <1>5 DEF LimitNear

LEMMA CountHooksLimit ==
  ASSUME IsFiniteSet(Owner), LimitNear, NEW o \in Owner, CountHooks(o)
  PROVE  LimitNear'
<1>1. Own' = Own /\ DOMAIN asks' = Owner /\ hooks' = hooks
  BY DEF CountHooks, LimitNear, Own
<1>2. Cardinality(Own) < HooksLimit
  BY DEF CountHooks
<1>3. /\ Cardinality(Own) \in Nat /\ Cardinality(Inserting') \in Nat
      /\ Cardinality(Inserting') <= Cardinality(Owner)
      /\ Cardinality(Owner) \in Nat /\ HooksLimit \in Nat
  BY OwnFinite, OwnFiniteNext, NumberAssumption
<1>4. Cardinality(Own') + Cardinality(Inserting') <= HooksLimit + Cardinality(Owner) - 1
  BY <1>1, <1>2, <1>3
<1> QED BY <1>1, <1>4 DEF LimitNear

LEMMA InsertHookLimit ==
  ASSUME IsFiniteSet(Owner), LimitNear, NEW o \in Owner, InsertHook(o)
  PROVE  LimitNear'
<1> DEFINE with == Own \cup {nextHook}
<1>1. /\ DOMAIN hooks' = HookId /\ DOMAIN asks' = Owner
      /\ Own' \subseteq with
      /\ Inserting' = Inserting \ {o} /\ o \in Inserting
  BY DEF InsertHook, LimitNear, Own, Inserting, NoAsk
<1>2. IsFiniteSet(Own) /\ Cardinality(Own) \in Nat
  BY OwnFinite
<1>3. /\ IsFiniteSet(with)
      /\ Cardinality(with) = IF nextHook \in Own THEN Cardinality(Own) ELSE Cardinality(Own) + 1
  BY <1>2, FS_AddElement
<1>4. Cardinality(Own') <= Cardinality(with)
  BY <1>1, <1>3, FS_Subset
<1>5. Cardinality(Inserting') = Cardinality(Inserting) - 1
  BY <1>1, OwnFinite, FS_RemoveElement
<1>6. /\ Cardinality(Own') \in Nat /\ Cardinality(with) \in Nat
      /\ Cardinality(Inserting) \in Nat
      /\ Cardinality(Owner) \in Nat /\ HooksLimit \in Nat
  BY <1>3, OwnFinite, OwnFiniteNext, FS_CardinalityType, NumberAssumption
<1>7. Cardinality(Own) + Cardinality(Inserting) <= HooksLimit + Cardinality(Owner) - 1
  BY DEF LimitNear
<1> HIDE DEF with
<1>8. Cardinality(Own') + Cardinality(Inserting') <= HooksLimit + Cardinality(Owner) - 1
  BY <1>2, <1>3, <1>4, <1>5, <1>6, <1>7
<1> QED BY <1>1, <1>8 DEF LimitNear

LEMMA LimitStep ==
  ASSUME IsFiniteSet(Owner), LimitNear, [Next]_vars
  PROVE  LimitNear'
<1> USE DEF owner, publisher, creator
<1>0. DOMAIN hooks = HookId /\ DOMAIN asks = Owner
  BY DEF LimitNear
<1>1. ASSUME UNCHANGED <<hooks, asks>> PROVE LimitNear'
  BY <1>0, <1>1, LimitShrinks
<1>2. ASSUME NEW c \in Change, Record(c) \/ HandlerStep(c) \/ HandlerCrash(c)
      PROVE  LimitNear'
  BY <1>1, <1>2 DEF Record, HandlerStep, SaveCreateHook, PushCreateHook, HandlerCrash
<1>3. ASSUME NEW w \in Creator, CreatorStep(w) \/ CreateFails(w)
      PROVE  LimitNear'
  BY <1>1, <1>3 DEF CreatorStep, CreateFails, Take, StartCreate, PushHooks, NextPage,
                    FinishCreate, SaveTriggerHook, PushTriggerHook
<1>4. ASSUME NEW w \in Triggerer, TriggererStep(w) \/ TriggerFails(w)
      PROVE  LimitNear'
  <2>1. CASE SaveHook(w)
    <3>1. DOMAIN hooks' = HookId /\ asks' = asks
      BY <1>0, <2>1 DEF SaveHook
    <3>2. \A h \in HookId : hooks'[h].exists => hooks[h].exists
      BY <1>0, <2>1 DEF SaveHook
    <3> QED BY <1>0, <3>1, <3>2, LimitShrinks
  <2>2. CASE ~SaveHook(w)
    BY <1>1, <1>4, <2>2 DEF TriggererStep, TriggerFails, Take, FindHook, HookGone, Call,
                            CallRefused, FinishTrigger
  <2> QED BY <2>1, <2>2
<1>5. ASSUME NEW o \in Owner, OwnerStep(o)
      PROVE  LimitNear'
  <2>1. ASSUME NEW h \in HookId, ReadHook(o, h)
        PROVE  LimitNear'
    <3>1. hooks' = hooks /\ DOMAIN asks' = Owner
      BY <1>0, <2>1 DEF ReadHook
    <3>2. \A p \in Owner : asks'[p].write = "new" => asks[p].write = "new"
      BY <1>0, <2>1 DEF ReadHook
    <3> QED BY <1>0, <3>1, <3>2, LimitShrinks
  <2>2. ASSUME NEW h \in HookId, DeleteHook(o, h)
        PROVE  LimitNear'
    <3>1. asks' = asks /\ DOMAIN hooks' = HookId
      BY <1>0, <2>2 DEF DeleteHook
    <3>2. \A g \in HookId : hooks'[g].exists => hooks[g].exists
      BY <1>0, <2>2 DEF DeleteHook, NoHook
    <3> QED BY <1>0, <3>1, <3>2, LimitShrinks
  <2>3. CASE UpdateHook(o)
    <3>1. DOMAIN asks' = Owner /\ DOMAIN hooks' = HookId
      BY <1>0, <2>3 DEF UpdateHook
    <3>2. \A g \in HookId : hooks'[g].exists => hooks[g].exists
      BY <1>0, <2>3 DEF UpdateHook
    <3>3. \A p \in Owner : asks'[p].write = "new" => asks[p].write = "new"
      BY <1>0, <2>3 DEF UpdateHook, NoAsk
    <3> QED BY <1>0, <3>1, <3>2, <3>3, LimitShrinks
  <2> QED BY <1>5, <2>1, <2>2, <2>3, CountHooksLimit, InsertHookLimit DEF OwnerStep
<1>6. ASSUME NEW r \in RowId, TimeoutRetry(r)
      PROVE  LimitNear'
  BY <1>1, <1>6 DEF TimeoutRetry
<1>7. ASSUME NEW w \in Worker, WorkerCrash(w)
      PROVE  LimitNear'
  BY <1>1, <1>7 DEF WorkerCrash
<1>8. CASE UNCHANGED vars
  BY <1>1, <1>8 DEF vars
<1> QED BY <1>2, <1>3, <1>4, <1>5, <1>6, <1>7, <1>8 DEF Next, FaultStep

\* createHook counts and then inserts (HookManageService.ts:42-51): an owner who
\* was not beyond hooksLimit exceeds it by less than the number of requests
\* under way at a time, however these overlap.
THEOREM LimitHolds ==
  ASSUME IsFiniteSet(Owner), Owner # {}, InitialHooks <= HooksLimit
  PROVE  Spec => []HooksNearLimit
<1>1. Init => LimitNear
  <2> SUFFICES ASSUME Init PROVE LimitNear
    OBVIOUS
  <2>1. /\ hooks = [h \in HookId |-> [NoHook EXCEPT !.exists = h <= InitialHooks]]
        /\ asks = [o \in Owner |-> NoAsk]
    BY Zenon DEF Init
  <2>2. Own \subseteq 1 .. InitialHooks /\ Inserting = {}
    <3>1. \A h \in HookId : hooks[h].exists = (h <= InitialHooks)
      BY <2>1 DEF NoHook
    <3>2. \A h : h \in HookId /\ h <= InitialHooks <=> h \in 1 .. InitialHooks
      BY NumberAssumption DEF HookId
    <3>3. Own \subseteq 1 .. InitialHooks
      BY <3>1, <3>2 DEF Own
    <3>4. Inserting = {}
      BY <2>1 DEF Inserting, NoAsk
    <3> QED BY <3>3, <3>4
  <2>3. Cardinality(Own) \in Nat /\ Cardinality(Own) <= InitialHooks
        /\ Cardinality(Inserting) = 0
    <3>1. IsFiniteSet(1 .. InitialHooks) /\ Cardinality(1 .. InitialHooks) = InitialHooks
      BY FS_Interval, NumberAssumption
    <3>2. Cardinality(Own) <= InitialHooks
      BY <2>2, <3>1, FS_Subset
    <3> QED BY <2>2, <3>2, OwnFinite, FS_EmptySet
  <2>4. Cardinality(Owner) \in Nat /\ Cardinality(Owner) # 0
    BY FS_CardinalityType, FS_EmptySet
  <2>5. Cardinality(Own) + Cardinality(Inserting) <= HooksLimit + Cardinality(Owner) - 1
    BY <2>3, <2>4, NumberAssumption
  <2> QED BY <2>1, <2>5 DEF LimitNear
<1>2. LimitNear /\ [Next]_vars => LimitNear'
  BY LimitStep
<1>3. LimitNear => HooksNearLimit
  <2>1. Cardinality(Own) \in Nat /\ Cardinality(Inserting) \in Nat /\ Cardinality(Owner) \in Nat
        /\ HooksLimit \in Nat
    BY OwnFinite, NumberAssumption
  <2> QED BY <2>1 DEF LimitNear, HooksNearLimit
<1> QED BY <1>1, <1>2, <1>3, PTL DEF Spec

-----------------------------------------------------------------------------
(* Types and bounds, whosever row an entity meets *)

\* Nobody takes a task for one of a type that it was not taken for before.
HasShrinks ==
  \A task \in RowId : \A type \in {"create_hook", "trigger_hook"} :
    Has(task, type)' => Has(task, type)

\* Who has a task.
LEMMA HasNow ==
  /\ \A r \in RowId : InTable(r) => Has(rows[r].task, Type(rows[r].job))
  /\ \A w \in Worker : at[w] # "idle" => Has(ent[w].task, Serves(w))
  /\ \A type : \A task \in queue[type] : Has(task, type)
  /\ \A w \in Creator : \A task \in unpushed[w] : Has(task, "trigger_hook")
  /\ \A c \in Change : Has(pending[c], "create_hook")
BY DEF Has

\* All the ways to have a task after a step.
LEMMA HasStays ==
  ASSUME \A r \in RowId : InTable(r)' => Has(rows'[r].task, Type(rows'[r].job)),
         \A w \in Worker : at'[w] # "idle" => Has(ent'[w].task, Serves(w)),
         \A type \in {"create_hook", "trigger_hook"} : \A task \in queue'[type] : Has(task, type),
         \A w \in Creator : \A task \in unpushed'[w] : Has(task, "trigger_hook"),
         \A c \in Change : pending'[c] # 0 => Has(pending'[c], "create_hook")
  PROVE  HasShrinks
<1> SUFFICES ASSUME NEW task \in RowId, NEW type \in {"create_hook", "trigger_hook"},
                    Has(task, type)'
             PROVE  Has(task, type)
  BY DEF HasShrinks
<1>1. \/ \E r \in RowId : InTable(r)' /\ rows'[r].task = task /\ Type(rows'[r].job) = type
      \/ \E w \in Worker : at'[w] # "idle" /\ ent'[w].task = task /\ Serves(w) = type
      \/ task \in queue'[type]
      \/ type = "trigger_hook" /\ \E w \in Creator : task \in unpushed'[w]
      \/ type = "create_hook" /\ \E c \in Change : pending'[c] = task
  BY DEF Has, Type, Serves
<1>2. task # 0
  BY NumberAssumption DEF RowId
<1> QED BY <1>1, <1>2

\* A step that inserts no task.
LEMMA TypesKept ==
  ASSUME TypesInductive, TablesTyped', QueuesTyped', EntitiesTyped', HooksTyped',
         nextRow' = nextRow, HasShrinks
  PROVE  TypesInductive'
<1>1. TypesApart'
  BY DEF TypesInductive, TypesApart, HasShrinks
<1> QED BY <1>1 DEF TypesInductive

\* A step that touches neither tasks nor workers.
LEMMA TypesStay ==
  ASSUME TypesInductive, HooksTyped',
         UNCHANGED <<rows, nextRow, hist, nextHist, queue, sent, pending, at, ent, todo,
                     unpushed>>
  PROVE  TypesInductive'
<1>1. TablesTyped' /\ QueuesTyped' /\ EntitiesTyped'
  BY DEF TypesInductive, TablesTyped, QueuesTyped, EntitiesTyped, Serves
<1>2. HasShrinks
  BY DEF HasShrinks, Has, InTable, Serves
<1> QED BY <1>1, <1>2, TypesKept

LEMMA HooksStay ==
  ASSUME TypesInductive, UNCHANGED <<hooks, copy, asks>>
  PROVE  HooksTyped'
BY DEF TypesInductive, HooksTyped

\* What the calls of TaskRepository make of the tables.
RowsHad == \A r \in RowId : InTable(r)' => Has(rows'[r].task, Type(rows'[r].job))

LEMMA TablesSame ==
  ASSUME TypesInductive, UNCHANGED <<rows, nextRow, hist, nextHist>>
  PROVE  TablesTyped' /\ RowsHad
BY HasNow DEF TypesInductive, TablesTyped, RowsHad, InTable

LEMMA EntTyped ==
  ASSUME TypesInductive, NEW w \in Worker, at[w] # "idle"
  PROVE  /\ ent[w] \in [id : Nat, task : RowId, job : JobData]
         /\ Type(ent[w].job) = Serves(w)
BY DEF TypesInductive, EntitiesTyped

LEMMA EntSavedTyped ==
  ASSUME TypesInductive, NEW w \in Worker, at[w] # "idle", SaveEnt(w, "processing"),
         UNCHANGED <<nextRow, hist, nextHist>>
  PROVE  TablesTyped' /\ RowsHad
<1>1. CASE ~InTable(ent[w].id)
  BY <1>1, TablesSame DEF SaveEnt
<1>2. CASE InTable(ent[w].id)
  <2>1. PICK n, row : n = ent[w].id /\ row = TaskRow(ent[w].task, ent[w].job, "processing")
    OBVIOUS
  <2>2. /\ rows' = [rows EXCEPT ![n] = row] /\ n \in RowId
        /\ row \in [task : RowId, job : JobData, state : {"waiting", "processing"}]
        /\ row.task = ent[w].task /\ row.job = ent[w].job
    BY <1>2, <2>1, EntTyped DEF SaveEnt, InTable, TaskRow
  <2>3. TablesTyped'
    BY <2>2 DEF TypesInductive, TablesTyped
  <2>4. /\ rows'[n] = row
        /\ \A r \in RowId : r # n => rows'[r] = rows[r]
    BY <2>2 DEF TypesInductive, TablesTyped
  <2>5. Has(row.task, Type(row.job))
    BY <2>2, EntTyped, HasNow
  <2>6. ASSUME NEW r \in RowId, InTable(r)' PROVE Has(rows'[r].task, Type(rows'[r].job))
    <3>1. CASE r = n
      BY <2>4, <2>5, <3>1
    <3>2. CASE r # n
      BY <2>4, <2>6, <3>2, HasNow DEF InTable
    <3> QED BY <3>1, <3>2
  <2> QED BY <2>3, <2>6 DEF RowsHad
<1> QED BY <1>1, <1>2

LEMMA FinishTyped ==
  ASSUME TypesInductive, NEW w \in Worker, at[w] # "idle",
         NEW state \in {"processing", "success", "fail"}, Finish(w, state)
  PROVE  TablesTyped' /\ RowsHad /\ nextRow' = nextRow /\ FinishedId(w) \in Nat
<1>0. FinishedId(w) \in Nat /\ nextRow' = nextRow
  BY EntTyped DEF FinishedId, Finish, TypesInductive, TablesTyped
<1>1. CASE ~InTable(ent[w].id)
  BY <1>0, <1>1, TablesSame DEF Finish
<1>2. CASE InTable(ent[w].id)
  <2>1. PICK n, t : n = ent[w].id /\ t = ent[w].task
    OBVIOUS
  <2>2. /\ n \in RowId /\ t \in RowId
        /\ rows' = [rows EXCEPT ![n] = NoTask] /\ hist' = [hist EXCEPT ![t] = state]
        /\ nextHist' \in {nextHist, nextHist + 1}
    BY <1>2, <2>1, EntTyped DEF Finish, InTable
  <2>3. TablesTyped'
    BY <1>0, <2>2 DEF TypesInductive, TablesTyped
  <2>4. /\ rows'[n] = NoTask
        /\ \A r \in RowId : r # n => rows'[r] = rows[r]
    BY <2>2 DEF TypesInductive, TablesTyped
  <2>5. RowsHad
    BY <2>4, HasNow DEF RowsHad, InTable, NoTask
  <2> QED BY <1>0, <2>3, <2>5
<1> QED BY <1>1, <1>2

\* A new task is taken for its type by who inserts it, and one that is found by
\* its bizId was taken for that.
LEMMA NewTyped ==
  ASSUME TypesInductive, NEW job \in JobData, NEW task \in RowId, SaveNew(job, task),
         UNCHANGED <<hist, nextHist>>
  PROVE  /\ TablesTyped'
         /\ \/ RowsHad /\ nextRow' = nextRow /\ Has(task, Type(job))
            \/ /\ task = nextRow /\ nextRow' = nextRow + 1
               /\ \A r \in RowId : InTable(r)' =>
                    \/ Has(rows'[r].task, Type(rows'[r].job))
                    \/ rows'[r].task = task /\ rows'[r].job = job
<1>1. CASE SameBizId(job) = {}
  <2>1. PICK row : row = TaskRow(task, job, "waiting")
    OBVIOUS
  <2>2. /\ task = nextRow /\ nextRow' = nextRow + 1
        /\ rows' = [rows EXCEPT ![task] = row]
        /\ row \in [task : RowId, job : JobData, state : {"waiting", "processing"}]
        /\ row.task = task /\ row.job = job
    BY <1>1, <2>1 DEF SaveNew, TaskRow
  <2>3. nextRow' \in 1 .. MaxRow + 1
    BY <2>2, NumberAssumption DEF RowId
  <2>4. TablesTyped'
    BY <2>2, <2>3 DEF TypesInductive, TablesTyped
  <2>5. /\ rows'[task] = row
        /\ \A r \in RowId : r # task => rows'[r] = rows[r]
    BY <2>2 DEF TypesInductive, TablesTyped
  <2>6. ASSUME NEW r \in RowId, InTable(r)', r # task
        PROVE  Has(rows'[r].task, Type(rows'[r].job))
    BY <2>5, <2>6, HasNow DEF InTable
  <2> QED BY <2>2, <2>4, <2>5, <2>6
<1>2. CASE SameBizId(job) # {}
  <2>1. PICK r \in SameBizId(job) : task = rows[r].task
    BY <1>2 DEF SaveNew
  <2>2. UNCHANGED <<rows, nextRow>>
    BY <1>2 DEF SaveNew
  <2>3. r \in RowId /\ InTable(r) /\ Type(rows[r].job) = Type(job)
    BY <2>1 DEF SameBizId, BizId, Type
  <2>4. Has(task, Type(job))
    BY <2>1, <2>3, HasNow
  <2> QED BY <2>2, <2>4, TablesSame
<1> QED BY <1>1, <1>2

\* Workers of which none takes up a task.
LEMMA LeaveTyped ==
  ASSUME TypesInductive, NEW w \in Worker, Leave(w)
  PROVE  /\ EntitiesTyped'
         /\ \A v \in Worker : at'[v] # "idle" => Has(ent'[v].task, Serves(v))
         /\ todo' \in [Creator -> SUBSET HookId]
         /\ unpushed' \in [Creator -> SUBSET RowId]
         /\ \A v \in Creator : unpushed'[v] \subseteq unpushed[v]
         /\ copy' \in [Triggerer -> HookData]
<1>1. at' = [at EXCEPT ![w] = "idle"] /\ ent' = [ent EXCEPT ![w] = NoEnt]
  BY DEF Leave, Goto
<1>2. \A v \in Worker : at'[v] # "idle" => at'[v] = at[v] /\ ent'[v] = ent[v]
  BY <1>1 DEF TypesInductive, EntitiesTyped
<1>3. /\ at' \in [Worker -> {"idle", "start", "log", "page", "finish", "call", "save"}]
      /\ ent' \in [Worker -> {NoEnt} \cup [id : Nat, task : RowId, job : JobData]]
  BY <1>1 DEF TypesInductive, EntitiesTyped
<1>4. EntitiesTyped'
  BY <1>2, <1>3 DEF TypesInductive, EntitiesTyped, Serves
<1>5. \A v \in Worker : at'[v] # "idle" => Has(ent'[v].task, Serves(v))
  BY <1>2, HasNow
<1>6. /\ todo' \in [Creator -> SUBSET HookId]
      /\ unpushed' \in [Creator -> SUBSET RowId]
      /\ \A v \in Creator : unpushed'[v] \subseteq unpushed[v]
  BY DEF Leave, TypesInductive, QueuesTyped
<1>7. copy' \in [Triggerer -> HookData]
  BY NoHookData DEF Leave, TypesInductive, HooksTyped
<1> QED BY <1>4, <1>5, <1>6, <1>7

LEMMA GotoTyped ==
  ASSUME TypesInductive, NEW w \in Worker, at[w] # "idle",
         NEW label \in {"start", "log", "page", "finish", "call", "save"},
         Goto(w, label), UNCHANGED ent
  PROVE  /\ EntitiesTyped'
         /\ \A v \in Worker : at'[v] # "idle" => Has(ent'[v].task, Serves(v))
<1>1. /\ at' \in [Worker -> {"idle", "start", "log", "page", "finish", "call", "save"}]
      /\ \A v \in Worker : at'[v] # "idle" => at[v] # "idle"
  BY DEF TypesInductive, EntitiesTyped, Goto
<1> QED BY <1>1, HasNow DEF TypesInductive, EntitiesTyped, Serves

LEMMA WorkersSame ==
  ASSUME TypesInductive, UNCHANGED <<at, ent>>
  PROVE  /\ EntitiesTyped'
         /\ \A v \in Worker : at'[v] # "idle" => Has(ent'[v].task, Serves(v))
BY HasNow DEF TypesInductive, EntitiesTyped, Serves

\* Ids pushed by who has them.
LEMMA PushTyped ==
  ASSUME TypesInductive, NEW type \in {"create_hook", "trigger_hook"},
         NEW tasks \in SUBSET RowId, PushTasks(type, tasks),
         \A task \in tasks : Has(task, type)
  PROVE  /\ queue' \in [{"create_hook", "trigger_hook"} -> SUBSET RowId]
         /\ \A x \in {"create_hook", "trigger_hook"} : \A task \in queue'[x] : Has(task, x)
<1>1. /\ queue' \in [{"create_hook", "trigger_hook"} -> SUBSET RowId]
      /\ \A x \in {"create_hook", "trigger_hook"} : \A task \in queue'[x] :
           task \in queue[x] \/ (x = type /\ task \in tasks)
  BY DEF PushTasks, TypesInductive, QueuesTyped
<1> QED BY <1>1, HasNow

LEMMA QueueSame ==
  ASSUME TypesInductive, UNCHANGED queue
  PROVE  /\ queue' \in [{"create_hook", "trigger_hook"} -> SUBSET RowId]
         /\ \A x \in {"create_hook", "trigger_hook"} : \A task \in queue'[x] : Has(task, x)
BY HasNow DEF TypesInductive, QueuesTyped

LEMMA TakeTypes ==
  ASSUME TypesInductive, NEW w \in Worker, Take(w)
  PROVE  TypesInductive'
<1>1. PICK task \in queue[Serves(w)] :
        /\ queue' = [queue EXCEPT ![Serves(w)] = @ \ {task}]
        /\ \/ /\ \E r \in RowsOf(task) :
                   /\ rows[r].state = "waiting"
                   /\ rows' = [rows EXCEPT ![r].state = "processing"]
                   /\ ent' = [ent EXCEPT ![w] =
                                [id |-> r, task |-> task, job |-> rows[r].job]]
              /\ Goto(w, "start")
           \/ UNCHANGED <<rows, at, ent>>
  BY DEF Take
<1>2. Serves(w) \in {"create_hook", "trigger_hook"}
  BY DEF Serves
<1>3. Has(task, Serves(w)) /\ task \in RowId
  BY <1>1, <1>2, HasNow DEF TypesInductive, QueuesTyped
<1>4. /\ QueuesTyped'
      /\ \A x \in {"create_hook", "trigger_hook"} : \A t \in queue'[x] : Has(t, x)
  <2>1. \A x \in {"create_hook", "trigger_hook"} : queue'[x] \subseteq queue[x]
    BY <1>1, <1>2 DEF TypesInductive, QueuesTyped
  <2> QED BY <1>1, <1>2, <2>1, HasNow DEF Take, publisher, creator, TypesInductive, QueuesTyped
<1>5. HooksTyped' /\ UNCHANGED <<nextRow, hist, nextHist, pending, unpushed>>
  BY HooksStay DEF Take, owner, creator, publisher
<1>6. /\ \A v \in Creator : \A t \in unpushed'[v] : Has(t, "trigger_hook")
      /\ \A c \in Change : pending'[c] # 0 => Has(pending'[c], "create_hook")
  BY <1>5, HasNow
<1>7. CASE UNCHANGED <<rows, at, ent>>
  <2>1. TablesTyped' /\ RowsHad
    BY <1>5, <1>7, TablesSame
  <2>2. EntitiesTyped' /\ \A v \in Worker : at'[v] # "idle" => Has(ent'[v].task, Serves(v))
    BY <1>7, WorkersSame
  <2>3. HasShrinks
    BY <1>4, <1>6, <2>1, <2>2, HasStays DEF RowsHad
  <2> QED BY <1>4, <1>5, <2>1, <2>2, <2>3, TypesKept
<1>8. CASE /\ \E r \in RowsOf(task) :
                /\ rows[r].state = "waiting"
                /\ rows' = [rows EXCEPT ![r].state = "processing"]
                /\ ent' = [ent EXCEPT ![w] =
                             [id |-> r, task |-> task, job |-> rows[r].job]]
           /\ Goto(w, "start")
  <2>1. PICK r \in RowsOf(task) :
          /\ rows' = [rows EXCEPT ![r].state = "processing"]
          /\ ent' = [ent EXCEPT ![w] =
                       [id |-> r, task |-> task, job |-> rows[r].job]]
    BY <1>8
  <2>2. /\ r \in RowId /\ InTable(r) /\ rows[r].task = task
        /\ rows[r] \in [task : RowId, job : JobData, state : {"waiting", "processing"}]
    BY DEF RowsOf, InTable, TypesInductive, TablesTyped, NoTask
  <2>3. PICK row : row = [rows[r] EXCEPT !.state = "processing"]
    OBVIOUS
  <2>4. /\ row \in [task : RowId, job : JobData, state : {"waiting", "processing"}]
        /\ row.task = task /\ row.job = rows[r].job
    BY <2>2, <2>3
  <2>5. rows' = [rows EXCEPT ![r] = row]
    BY <2>1, <2>2, <2>3 DEF TypesInductive, TablesTyped
  <2>6. TablesTyped'
    BY <1>5, <2>2, <2>4, <2>5 DEF TypesInductive, TablesTyped
  <2>7. rows'[r] = row /\ \A q \in RowId : q # r => rows'[q] = rows[q]
    BY <2>2, <2>5 DEF TypesInductive, TablesTyped
  <2>8. Has(task, Type(rows[r].job))
    BY <2>2, HasNow
  <2>9. RowsHad
    <3> SUFFICES ASSUME NEW q \in RowId, InTable(q)'
                 PROVE  Has(rows'[q].task, Type(rows'[q].job))
      BY DEF RowsHad
    <3>1. CASE q = r
      BY <2>4, <2>7, <2>8, <3>1
    <3>2. CASE q # r
      BY <2>7, <3>2, HasNow DEF InTable
    <3> QED BY <3>1, <3>2
  <2>10. Type(rows[r].job) = Serves(w)
    <3>1. Type(rows[r].job) \in {"create_hook", "trigger_hook"}
      BY DEF Type
    <3> QED BY <1>2, <1>3, <2>8, <3>1 DEF TypesInductive, TypesApart
  <2>11. PICK e : e = [id |-> r, task |-> task, job |-> rows[r].job]
    OBVIOUS
  <2>12. /\ e \in [id : Nat, task : RowId, job : JobData]
         /\ e.task = task /\ Type(e.job) = Serves(w) /\ e # NoEnt
    <3>1. r \in Nat /\ task # 0
      BY <1>3, <2>2, NumberAssumption DEF RowId
    <3> QED BY <1>3, <2>2, <2>10, <2>11, <3>1 DEF NoEnt
  <2>13. /\ at' = [at EXCEPT ![w] = "start"] /\ ent' = [ent EXCEPT ![w] = e]
    BY <1>8, <2>1, <2>11 DEF Goto
  <2>14. /\ at' \in [Worker -> {"idle", "start", "log", "page", "finish", "call", "save"}]
         /\ ent' \in [Worker -> {NoEnt} \cup [id : Nat, task : RowId, job : JobData]]
         /\ ent'[w] = e
         /\ \A v \in Worker : v # w => at'[v] = at[v] /\ ent'[v] = ent[v]
    BY <2>12, <2>13 DEF TypesInductive, EntitiesTyped
  <2>15. EntitiesTyped'
    BY <2>12, <2>14 DEF TypesInductive, EntitiesTyped, Serves
  <2>16. \A v \in Worker : at'[v] # "idle" => Has(ent'[v].task, Serves(v))
    BY <1>3, <2>12, <2>14, HasNow
  <2>17. HasShrinks
    BY <1>4, <1>6, <2>9, <2>16, HasStays DEF RowsHad
  <2> QED BY <1>4, <1>5, <2>6, <2>15, <2>17, TypesKept
<1> QED BY <1>1, <1>7, <1>8

\* A new task: nobody had its number before.
LEMMA ApartGrows ==
  ASSUME TypesInductive, NEW job \in JobData, NEW task \in RowId,
         task = nextRow, nextRow' = nextRow + 1,
         TablesTyped', QueuesTyped', EntitiesTyped', HooksTyped',
         \A t \in RowId : \A type \in {"create_hook", "trigger_hook"} :
           Has(t, type)' => Has(t, type) \/ (t = task /\ type = Type(job))
  PROVE  TypesInductive'
<1>1. nextRow \in Nat
  BY DEF TypesInductive, TablesTyped
<1>2. \A type \in {"create_hook", "trigger_hook"} : ~Has(task, type)
  BY <1>1 DEF TypesInductive, TypesApart
<1>3. \A t \in RowId : t \in Int
  BY NumberAssumption DEF RowId
<1>4. TypesApart'
  <2> SUFFICES ASSUME NEW t \in RowId
               PROVE  /\ (Has(t, "create_hook") \/ Has(t, "trigger_hook"))' => t < nextRow'
                      /\ ~(Has(t, "create_hook") /\ Has(t, "trigger_hook"))'
    BY DEF TypesApart
  <2>1. CASE t = task
    BY <1>1, <1>2, <2>1
  <2>2. CASE t # task
    BY <1>1, <1>3, <2>2 DEF TypesInductive, TypesApart
  <2> QED BY <2>1, <2>2
<1> QED BY <1>4 DEF TypesInductive

LEMMA SaveCreateHookTypes ==
  ASSUME TypesInductive, NEW c \in Change, SaveCreateHook(c)
  PROVE  TypesInductive'
<1>1. PICK task \in RowId : /\ SaveNew(Job(c, sent[c] + 1, 0), task)
                            /\ pending' = [pending EXCEPT ![c] = task]
  BY DEF SaveCreateHook
<1>2. PICK job : job = Job(c, sent[c] + 1, 0)
  OBVIOUS
<1>3. sent[c] \in Nat /\ Details[c] \in Nat /\ sent[c] < Details[c]
  BY SetAssumption DEF TypesInductive, QueuesTyped, SaveCreateHook
<1>4. job \in JobData /\ Type(job) = "create_hook"
  BY <1>2, <1>3, NumberAssumption DEF Job, JobData, Type
<1>5. /\ UNCHANGED <<hist, nextHist, queue, hooks, at, ent, todo, unpushed, copy, asks>>
      /\ sent' = [sent EXCEPT ![c] = @ + 1]
  BY DEF SaveCreateHook, creator, owner
<1>6. TablesTyped'
  BY <1>1, <1>2, <1>4, <1>5, NewTyped
<1>7. QueuesTyped'
  <2>1. \A d \in Change : sent'[d] = IF d = c THEN sent[c] + 1 ELSE sent[d]
    BY <1>5 DEF TypesInductive, QueuesTyped
  <2>2. sent' \in [Change -> Nat] /\ \A d \in Change : sent'[d] <= Details[d]
    BY <1>3, <1>5, <2>1 DEF TypesInductive, QueuesTyped
  <2>3. pending' \in [Change -> 0 .. MaxRow]
    BY <1>1, NumberAssumption DEF TypesInductive, QueuesTyped, RowId
  <2> QED BY <1>5, <2>2, <2>3 DEF TypesInductive, QueuesTyped
<1>8. EntitiesTyped' /\ HooksTyped'
  BY <1>5, WorkersSame, HooksStay
<1>9. \A d \in Change : pending'[d] = IF d = c THEN task ELSE pending[d]
  BY <1>1 DEF TypesInductive, QueuesTyped
<1>10. ASSUME RowsHad, nextRow' = nextRow, Has(task, Type(job))
       PROVE  TypesInductive'
  <2>1. \A d \in Change : pending'[d] # 0 => Has(pending'[d], "create_hook")
    BY <1>4, <1>9, <1>10, HasNow
  <2>2. HasShrinks
    BY <1>5, <1>10, <2>1, HasNow, HasStays DEF RowsHad
  <2> QED BY <1>6, <1>7, <1>8, <1>10, <2>2, TypesKept
<1>11. ASSUME task = nextRow, nextRow' = nextRow + 1,
              \A r \in RowId : InTable(r)' =>
                \/ Has(rows'[r].task, Type(rows'[r].job))
                \/ rows'[r].task = task /\ rows'[r].job = job
       PROVE  TypesInductive'
  <2>1. ASSUME NEW t \in RowId, NEW type \in {"create_hook", "trigger_hook"}, Has(t, type)'
        PROVE  Has(t, type) \/ (t = task /\ type = Type(job))
    <3>1. \/ \E r \in RowId : InTable(r)' /\ rows'[r].task = t /\ Type(rows'[r].job) = type
          \/ \E w \in Worker : at'[w] # "idle" /\ ent'[w].task = t /\ Serves(w) = type
          \/ t \in queue'[type]
          \/ type = "trigger_hook" /\ \E w \in Creator : t \in unpushed'[w]
          \/ type = "create_hook" /\ \E d \in Change : pending'[d] = t
      BY <2>1 DEF Has, Type, Serves
    <3>2. CASE \E r \in RowId : InTable(r)' /\ rows'[r].task = t /\ Type(rows'[r].job) = type
      BY <1>11, <3>2
    <3>3. CASE \E w \in Worker : at'[w] # "idle" /\ ent'[w].task = t /\ Serves(w) = type
      BY <1>5, <3>3, HasNow
    <3>4. CASE t \in queue'[type]
      BY <1>5, <3>4, HasNow
    <3>5. CASE type = "trigger_hook" /\ \E w \in Creator : t \in unpushed'[w]
      BY <1>5, <3>5, HasNow
    <3>6. CASE type = "create_hook" /\ \E d \in Change : pending'[d] = t
      BY <1>4, <1>9, <3>6, HasNow
    <3> QED BY <3>1, <3>2, <3>3, <3>4, <3>5, <3>6
  <2> QED BY <1>4, <1>6, <1>7, <1>8, <1>11, <2>1, ApartGrows
<1> QED BY <1>1, <1>2, <1>4, <1>5, <1>10, <1>11, NewTyped

LEMMA SaveTriggerHookTypes ==
  ASSUME TypesInductive, NEW w \in Creator, NEW h \in HookId, SaveTriggerHook(w, h)
  PROVE  TypesInductive'
<1>1. PICK task \in RowId :
        /\ SaveNew(Job(ent[w].job.change, ent[w].job.detail, h), task)
        /\ unpushed' = [unpushed EXCEPT ![w] = @ \cup {task}]
  BY DEF SaveTriggerHook
<1>2. PICK job : job = Job(ent[w].job.change, ent[w].job.detail, h)
  OBVIOUS
<1>3. ent[w].job \in JobData /\ h \in 0 .. MaxHook /\ h # 0
  BY EntTyped, NumberAssumption DEF SaveTriggerHook, Worker, HookId
<1>4. job \in JobData /\ Type(job) = "trigger_hook"
  BY <1>2, <1>3 DEF Job, JobData, Type
<1>5. /\ UNCHANGED <<hist, nextHist, queue, hooks, at, ent, sent, pending, copy, asks>>
      /\ todo' = [todo EXCEPT ![w] = @ \ {h}]
  BY DEF SaveTriggerHook, publisher, owner
<1>6. TablesTyped'
  BY <1>1, <1>2, <1>4, <1>5, NewTyped
<1>7. QueuesTyped'
  BY <1>1, <1>5 DEF TypesInductive, QueuesTyped
<1>8. EntitiesTyped' /\ HooksTyped'
  BY <1>5, WorkersSame, HooksStay
<1>9. \A v \in Creator : unpushed'[v] \subseteq unpushed[v] \cup {task}
  BY <1>1 DEF TypesInductive, QueuesTyped
<1>10. ASSUME RowsHad, nextRow' = nextRow, Has(task, Type(job))
       PROVE  TypesInductive'
  <2>1. \A v \in Creator : \A t \in unpushed'[v] : Has(t, "trigger_hook")
    BY <1>4, <1>9, <1>10, HasNow
  <2>2. HasShrinks
    BY <1>5, <1>10, <2>1, HasNow, HasStays DEF RowsHad
  <2> QED BY <1>6, <1>7, <1>8, <1>10, <2>2, TypesKept
<1>11. ASSUME task = nextRow, nextRow' = nextRow + 1,
              \A r \in RowId : InTable(r)' =>
                \/ Has(rows'[r].task, Type(rows'[r].job))
                \/ rows'[r].task = task /\ rows'[r].job = job
       PROVE  TypesInductive'
  <2>1. ASSUME NEW t \in RowId, NEW type \in {"create_hook", "trigger_hook"}, Has(t, type)'
        PROVE  Has(t, type) \/ (t = task /\ type = Type(job))
    <3>1. \/ \E r \in RowId : InTable(r)' /\ rows'[r].task = t /\ Type(rows'[r].job) = type
          \/ \E v \in Worker : at'[v] # "idle" /\ ent'[v].task = t /\ Serves(v) = type
          \/ t \in queue'[type]
          \/ type = "trigger_hook" /\ \E v \in Creator : t \in unpushed'[v]
          \/ type = "create_hook" /\ \E d \in Change : pending'[d] = t
      BY <2>1 DEF Has, Type, Serves
    <3>2. CASE \E r \in RowId : InTable(r)' /\ rows'[r].task = t /\ Type(rows'[r].job) = type
      BY <1>11, <3>2
    <3>3. CASE \E v \in Worker : at'[v] # "idle" /\ ent'[v].task = t /\ Serves(v) = type
      BY <1>5, <3>3, HasNow
    <3>4. CASE t \in queue'[type]
      BY <1>5, <3>4, HasNow
    <3>5. CASE type = "trigger_hook" /\ \E v \in Creator : t \in unpushed'[v]
      BY <1>4, <1>9, <3>5, HasNow
    <3>6. CASE type = "create_hook" /\ \E d \in Change : pending'[d] = t
      BY <1>5, <3>6, HasNow
    <3> QED BY <3>1, <3>2, <3>3, <3>4, <3>5, <3>6
  <2> QED BY <1>4, <1>6, <1>7, <1>8, <1>11, <2>1, ApartGrows
<1> QED BY <1>1, <1>2, <1>4, <1>5, <1>10, <1>11, NewTyped

LEMMA PublisherTypes ==
  ASSUME TypesInductive, NEW c \in Change, PushCreateHook(c) \/ HandlerCrash(c)
  PROVE  TypesInductive'
<1>1. UNCHANGED <<rows, nextRow, hist, nextHist, hooks, at, ent, todo, unpushed, copy, asks>>
  BY DEF PushCreateHook, HandlerCrash, tables, creator, owner
<1>2. /\ pending' \in [Change -> 0 .. MaxRow]
      /\ \A d \in Change : pending'[d] # 0 => Has(pending'[d], "create_hook")
  <2>1. pending' = [pending EXCEPT ![c] = 0]
    BY DEF PushCreateHook, HandlerCrash
  <2>2. \A d \in Change : pending'[d] # 0 => pending'[d] = pending[d]
    BY <2>1 DEF TypesInductive, QueuesTyped
  <2> QED BY <2>1, <2>2, HasNow, NumberAssumption DEF TypesInductive, QueuesTyped
<1>3. sent' \in [Change -> Nat] /\ \A d \in Change : sent'[d] <= Details[d]
  <2>1. /\ sent \in [Change -> Nat] /\ Details \in [Change -> Nat]
        /\ sent' = sent \/ sent' = [sent EXCEPT ![c] = Details[c]]
    BY SetAssumption DEF TypesInductive, QueuesTyped, PushCreateHook, HandlerCrash
  <2>2. \A d \in Change : sent'[d] \in {sent[d], Details[d]}
    BY <2>1
  <2> QED BY <2>1, <2>2 DEF TypesInductive, QueuesTyped
<1>4. /\ queue' \in [{"create_hook", "trigger_hook"} -> SUBSET RowId]
      /\ \A x \in {"create_hook", "trigger_hook"} : \A task \in queue'[x] : Has(task, x)
  <2>1. CASE PushCreateHook(c)
    <3>1. pending[c] \in RowId /\ Has(pending[c], "create_hook")
      BY <2>1, HasNow, NumberAssumption DEF PushCreateHook, TypesInductive, QueuesTyped, RowId
    <3> QED BY <2>1, <3>1, PushTyped DEF PushCreateHook
  <2>2. CASE HandlerCrash(c)
    BY <2>2, QueueSame DEF HandlerCrash
  <2> QED BY <2>1, <2>2
<1>5. TablesTyped' /\ RowsHad /\ EntitiesTyped' /\ HooksTyped'
      /\ \A w \in Worker : at'[w] # "idle" => Has(ent'[w].task, Serves(w))
  BY <1>1, TablesSame, WorkersSame, HooksStay
<1>6. todo' \in [Creator -> SUBSET HookId] /\ unpushed' \in [Creator -> SUBSET RowId]
      /\ \A w \in Creator : \A task \in unpushed'[w] : Has(task, "trigger_hook")
  BY <1>1, HasNow DEF TypesInductive, QueuesTyped
<1>7. QueuesTyped'
  BY <1>2, <1>3, <1>4, <1>6 DEF QueuesTyped
<1>8. HasShrinks
  BY <1>2, <1>4, <1>5, <1>6, HasStays DEF RowsHad
<1> QED BY <1>1, <1>5, <1>7, <1>8, TypesKept

LEMMA PushTriggerHookTypes ==
  ASSUME TypesInductive, NEW w \in Creator, NEW task \in RowId, PushTriggerHook(w, task)
  PROVE  TypesInductive'
<1>1. UNCHANGED <<rows, nextRow, hist, nextHist, hooks, at, ent, sent, pending, todo, copy,
                  asks>>
  BY DEF PushTriggerHook, tables, publisher, owner
<1>2. Has(task, "trigger_hook")
  BY HasNow DEF PushTriggerHook
<1>3. /\ queue' \in [{"create_hook", "trigger_hook"} -> SUBSET RowId]
      /\ \A x \in {"create_hook", "trigger_hook"} : \A t \in queue'[x] : Has(t, x)
  BY <1>2, PushTyped DEF PushTriggerHook
<1>4. /\ unpushed' \in [Creator -> SUBSET RowId]
      /\ \A v \in Creator : \A t \in unpushed'[v] : Has(t, "trigger_hook")
  <2>1. \A v \in Creator : unpushed'[v] \subseteq unpushed[v]
    BY DEF PushTriggerHook, TypesInductive, QueuesTyped
  <2> QED BY <2>1, HasNow DEF PushTriggerHook, TypesInductive, QueuesTyped
<1>5. TablesTyped' /\ RowsHad /\ EntitiesTyped' /\ HooksTyped'
      /\ \A v \in Worker : at'[v] # "idle" => Has(ent'[v].task, Serves(v))
  BY <1>1, TablesSame, WorkersSame, HooksStay
<1>6. QueuesTyped'
  BY <1>1, <1>3, <1>4 DEF TypesInductive, QueuesTyped
<1>7. HasShrinks
  BY <1>1, <1>3, <1>4, <1>5, HasNow, HasStays DEF RowsHad
<1> QED BY <1>1, <1>5, <1>6, <1>7, TypesKept

LEMMA StartCreateTypes ==
  ASSUME TypesInductive, NEW w \in Creator, StartCreate(w)
  PROVE  TypesInductive'
<1>0. w \in Worker /\ at[w] # "idle"
  BY DEF StartCreate, Worker
<1>1. TablesTyped' /\ RowsHad /\ nextRow' = nextRow /\ FinishedId(w) \in Nat
  BY <1>0, FinishTyped DEF StartCreate
<1>2. PICK e : e = [ent[w] EXCEPT !.id = FinishedId(w)]
  OBVIOUS
<1>3. /\ e \in [id : Nat, task : RowId, job : JobData] /\ e # NoEnt
      /\ e.task = ent[w].task /\ Type(e.job) = Serves(w)
  <2>1. ent[w].task # 0
    BY <1>0, EntTyped, NumberAssumption DEF RowId
  <2> QED BY <1>0, <1>1, <1>2, <2>1, EntTyped DEF NoEnt
<1>4. /\ at' \in [Worker -> {"idle", "start", "log", "page", "finish", "call", "save"}]
      /\ ent' \in [Worker -> {NoEnt} \cup [id : Nat, task : RowId, job : JobData]]
      /\ ent'[w] = e
      /\ \A v \in Worker : v # w => at'[v] = at[v] /\ ent'[v] = ent[v]
  BY <1>0, <1>2, <1>3 DEF StartCreate, Goto, TypesInductive, EntitiesTyped
<1>5. EntitiesTyped'
  BY <1>3, <1>4 DEF TypesInductive, EntitiesTyped, Serves
<1>6. \A v \in Worker : at'[v] # "idle" => Has(ent'[v].task, Serves(v))
  BY <1>0, <1>3, <1>4, HasNow
<1>7. UNCHANGED <<queue, hooks, sent, pending, todo, unpushed, copy, asks>>
  BY DEF StartCreate, publisher, owner
<1>8. QueuesTyped' /\ HooksTyped'
  BY <1>7, HooksStay DEF TypesInductive, QueuesTyped
<1>9. HasShrinks
  BY <1>1, <1>6, <1>7, HasNow, HasStays DEF RowsHad
<1> QED BY <1>1, <1>5, <1>8, <1>9, TypesKept

\* PushHooks and NextPage.
LEMMA TurnTypes ==
  ASSUME TypesInductive, NEW w \in Creator, at[w] # "idle",
         NEW since, SaveEnt(w, "processing"), Turn(w, since),
         UNCHANGED <<nextRow, hist, nextHist, queue, hooks, publisher, ent, unpushed, copy,
                     owner>>
  PROVE  TypesInductive'
<1>0. w \in Worker /\ \A query : UNION Pages(query, since) \subseteq HookId
  BY DEF Worker, Pages, Matching
<1>1. TablesTyped' /\ RowsHad
  BY <1>0, EntSavedTyped
<1>2. \E label \in {"page", "log", "finish"} : Goto(w, label)
  BY DEF Turn
<1>3. EntitiesTyped' /\ \A v \in Worker : at'[v] # "idle" => Has(ent'[v].task, Serves(v))
  BY <1>0, <1>2, GotoTyped
<1>4. todo' \in [Creator -> SUBSET HookId]
  BY <1>0 DEF Turn, TypesInductive, QueuesTyped
<1>5. QueuesTyped' /\ HooksTyped'
  BY <1>4, HooksStay DEF TypesInductive, QueuesTyped, publisher, owner
<1>6. HasShrinks
  BY <1>1, <1>3, HasNow, HasStays DEF RowsHad, publisher
<1> QED BY <1>1, <1>3, <1>5, <1>6, TypesKept

\* The steps that end an execution.
LEMMA EndTypes ==
  ASSUME TypesInductive, NEW w \in Worker, at[w] # "idle", Leave(w),
         \/ \E state \in {"processing", "success", "fail"} : Finish(w, state)
         \/ UNCHANGED <<rows, nextRow, hist, nextHist>>,
         \/ UNCHANGED queue
         \/ w \in Creator /\ \E lost \in SUBSET unpushed[w] :
              PushTasks("trigger_hook", unpushed[w] \ lost),
         UNCHANGED <<hooks, publisher, owner>>
  PROVE  TypesInductive'
<1>1. TablesTyped' /\ RowsHad /\ nextRow' = nextRow
  BY FinishTyped, TablesSame
<1>2. /\ queue' \in [{"create_hook", "trigger_hook"} -> SUBSET RowId]
      /\ \A x \in {"create_hook", "trigger_hook"} : \A task \in queue'[x] : Has(task, x)
  <2>1. CASE UNCHANGED queue
    BY <2>1, QueueSame
  <2>2. CASE w \in Creator /\ \E lost \in SUBSET unpushed[w] :
               PushTasks("trigger_hook", unpushed[w] \ lost)
    <3>1. PICK lost \in SUBSET unpushed[w] : PushTasks("trigger_hook", unpushed[w] \ lost)
      BY <2>2
    <3>2. /\ unpushed[w] \ lost \in SUBSET RowId
          /\ \A task \in unpushed[w] \ lost : Has(task, "trigger_hook")
      BY <2>2, HasNow DEF TypesInductive, QueuesTyped
    <3> QED BY <3>1, <3>2, PushTyped
  <2> QED BY <2>1, <2>2
<1>3. QueuesTyped'
  BY <1>2, LeaveTyped DEF TypesInductive, QueuesTyped, publisher
<1>4. HooksTyped'
  BY LeaveTyped DEF TypesInductive, HooksTyped, owner
<1>5. /\ \A v \in Creator : \A task \in unpushed'[v] : Has(task, "trigger_hook")
      /\ \A c \in Change : pending'[c] # 0 => Has(pending'[c], "create_hook")
  BY LeaveTyped, HasNow DEF publisher
<1>6. HasShrinks
  BY <1>1, <1>2, <1>5, LeaveTyped, HasStays DEF RowsHad
<1> QED BY <1>1, <1>3, <1>4, <1>6, LeaveTyped, TypesKept

LEMMA TimeoutRetryTypes ==
  ASSUME TypesInductive, NEW r \in RowId, TimeoutRetry(r)
  PROVE  TypesInductive'
<1>1. /\ InTable(r) /\ rows[r].task \in RowId
      /\ rows[r] \in [task : RowId, job : JobData, state : {"waiting", "processing"}]
  BY DEF TimeoutRetry, InTable, TypesInductive, TablesTyped, NoTask
<1>2. PICK row : row = [rows[r] EXCEPT !.state = "waiting"]
  OBVIOUS
<1>3. /\ row \in [task : RowId, job : JobData, state : {"waiting", "processing"}]
      /\ row.task = rows[r].task /\ row.job = rows[r].job
  BY <1>1, <1>2
<1>4. rows' = [rows EXCEPT ![r] = row]
  BY <1>2 DEF TimeoutRetry, TypesInductive, TablesTyped
<1>5. TablesTyped' /\ rows'[r] = row /\ \A q \in RowId : q # r => rows'[q] = rows[q]
  <2>1. UNCHANGED <<nextRow, hist, nextHist>>
    BY DEF TimeoutRetry
  <2> QED BY <1>3, <1>4, <2>1 DEF TypesInductive, TablesTyped
<1>6. Has(rows[r].task, Type(rows[r].job))
  BY <1>1, HasNow
<1>7. RowsHad
  <2> SUFFICES ASSUME NEW q \in RowId, InTable(q)'
               PROVE  Has(rows'[q].task, Type(rows'[q].job))
    BY DEF RowsHad
  <2>1. CASE q = r
    BY <1>3, <1>5, <1>6, <2>1
  <2>2. CASE q # r
    BY <1>5, <2>2, HasNow DEF InTable
  <2> QED BY <2>1, <2>2
<1>8. /\ queue' \in [{"create_hook", "trigger_hook"} -> SUBSET RowId]
      /\ \A x \in {"create_hook", "trigger_hook"} : \A task \in queue'[x] : Has(task, x)
  <2>1. Type(rows[r].job) \in {"create_hook", "trigger_hook"}
    BY DEF Type
  <2>2. PICK type : type = Type(rows[r].job)
    OBVIOUS
  <2>3. PushTasks(type, {rows[r].task})
    BY <2>2 DEF TimeoutRetry
  <2> QED BY <1>1, <1>6, <2>1, <2>2, <2>3, PushTyped
<1>9. UNCHANGED <<nextRow, hooks, at, ent, sent, pending, todo, unpushed, copy, asks>>
  BY DEF TimeoutRetry, publisher, creator, owner
<1>10. QueuesTyped' /\ HooksTyped' /\ EntitiesTyped'
       /\ \A w \in Worker : at'[w] # "idle" => Has(ent'[w].task, Serves(w))
  BY <1>8, <1>9, HooksStay, WorkersSame DEF TypesInductive, QueuesTyped
<1>11. HasShrinks
  BY <1>7, <1>8, <1>9, <1>10, HasNow, HasStays DEF RowsHad
<1> QED BY <1>5, <1>9, <1>10, <1>11, TypesKept

\* A trigger_hook task is about a hook.
LEMMA HookKnown ==
  ASSUME TypesInductive, NEW w \in Triggerer, at[w] # "idle"
  PROVE  /\ w \in Worker /\ w \notin Creator /\ HookOf(w) \in HookId
         /\ ent[w].task \in RowId /\ Event(w) \in Events
<1>1. w \in Worker /\ w \notin Creator /\ Serves(w) = "trigger_hook"
  BY SetAssumption DEF Worker, Serves
<1>2. ent[w].task \in RowId /\ ent[w].job \in JobData /\ Type(ent[w].job) = "trigger_hook"
  BY <1>1, EntTyped
<1>3. ent[w].job.hook \in 0 .. MaxHook /\ ent[w].job.hook # 0
  BY <1>2 DEF JobData, Type
<1>4. Event(w) \in Events
  BY <1>2 DEF Event, Events, JobData
<1> QED BY <1>1, <1>2, <1>3, <1>4, NumberAssumption DEF HookOf, HookId

LEMMA TriggererTypes ==
  ASSUME TypesInductive, NEW w \in Triggerer, FindHook(w) \/ Call(w) \/ SaveHook(w)
  PROVE  TypesInductive'
<1>0. w \in Worker /\ at[w] # "idle"
  BY HookKnown DEF FindHook, Call, SaveHook
<1>1. UNCHANGED <<rows, nextRow, hist, nextHist, queue, sent, pending, ent, todo, unpushed>>
  BY DEF FindHook, Call, SaveHook, tables, publisher, creator
<1>2. EntitiesTyped' /\ \A v \in Worker : at'[v] # "idle" => Has(ent'[v].task, Serves(v))
  <2>1. \E label \in {"call", "save", "finish"} : Goto(w, label)
    BY DEF FindHook, Call, SaveHook
  <2> QED BY <1>0, <1>1, <2>1, GotoTyped
<1>3. HooksTyped'
  <2>1. CASE FindHook(w)
    BY <1>0, <2>1, HookKnown DEF FindHook, owner, TypesInductive, HooksTyped
  <2>2. CASE Call(w)
    BY <2>2, HooksStay DEF Call, owner
  <2>3. CASE SaveHook(w)
    <3>1. PICK row : row = [copy[w] EXCEPT !.latest = ent[w].task]
      OBVIOUS
    <3>2. ent[w].task \in 0 .. MaxRow
      BY <1>0, HookKnown, NumberAssumption DEF RowId
    <3>3. row \in HookData
      BY <3>1, <3>2 DEF TypesInductive, HooksTyped, HookData
    <3>4. /\ hooks' = IF hooks[HookOf(w)].exists
                      THEN [hooks EXCEPT ![HookOf(w)] = row] ELSE hooks
          /\ UNCHANGED <<copy, asks>>
      BY <2>3, <3>1 DEF SaveHook, owner
    <3> QED BY <3>3, <3>4 DEF TypesInductive, HooksTyped
  <2> QED BY <2>1, <2>2, <2>3
<1>4. TablesTyped' /\ RowsHad
  BY <1>1, TablesSame
<1>5. QueuesTyped'
  BY <1>1 DEF TypesInductive, QueuesTyped
<1>6. HasShrinks
  BY <1>1, <1>2, <1>4, HasNow, HasStays DEF RowsHad
<1> QED BY <1>1, <1>2, <1>3, <1>4, <1>5, <1>6, TypesKept

LEMMA OwnerTypes ==
  ASSUME TypesInductive, BoundsKept, NEW o \in Owner, OwnerStep(o)
  PROVE  TypesInductive'
<1>0. UNCHANGED <<rows, nextRow, hist, nextHist, queue, sent, pending, at, ent, todo,
                  unpushed, copy>>
  BY DEF OwnerStep, CountHooks, InsertHook, ReadHook, UpdateHook, DeleteHook, tables,
     publisher, creator
<1>1. HooksTyped'
  <2>1. CASE CountHooks(o)
    BY <1>0, <2>1 DEF CountHooks, TypesInductive, HooksTyped
  <2>2. CASE InsertHook(o)
    <3>1. asks' = [asks EXCEPT ![o] = NoAsk] /\ UNCHANGED copy
          /\ (UNCHANGED hooks \/ hooks' = [hooks EXCEPT ![nextHook].exists = TRUE])
      BY <1>0, <2>2 DEF InsertHook
    <3>2. asks' \in [Owner -> {NoAsk, [write |-> "new"]} \cup AskData]
      BY <3>1 DEF TypesInductive, HooksTyped
    <3>3. hooks' \in [HookId -> HookData]
      BY <3>1 DEF TypesInductive, HooksTyped, HookData
    <3> QED BY <3>1, <3>2, <3>3 DEF TypesInductive, HooksTyped
  <2>3. ASSUME NEW h \in HookId, ReadHook(o, h) PROVE HooksTyped'
    <3>1. PICK row : row = [hooks[h] EXCEPT !.endpoint = updates + 1]
      OBVIOUS
    <3>2. updates + 1 \in Nat
      BY NumberAssumption DEF BoundsKept, Endpoint
    <3>3. row \in HookData
      BY <3>1, <3>2 DEF TypesInductive, HooksTyped, HookData
    <3>4. PICK ask : ask = [write |-> "update", hook |-> h, row |-> row]
      OBVIOUS
    <3>5. ask \in AskData
      BY <3>3, <3>4 DEF AskData
    <3>6. asks' = [asks EXCEPT ![o] = ask] /\ UNCHANGED <<hooks, copy>>
      BY <1>0, <2>3, <3>1, <3>4 DEF ReadHook
    <3> QED BY <3>5, <3>6 DEF TypesInductive, HooksTyped
  <2>4. CASE UpdateHook(o)
    <3>1. asks[o] \in AskData
      BY <2>4 DEF UpdateHook, TypesInductive, HooksTyped, NoAsk
    <3>2. PICK h, row : h = asks[o].hook /\ row = asks[o].row
      OBVIOUS
    <3>3. h \in HookId /\ row \in HookData
      BY <3>1, <3>2 DEF AskData
    <3>4. /\ hooks' = IF hooks[h].exists THEN [hooks EXCEPT ![h] = row] ELSE hooks
          /\ asks' = [asks EXCEPT ![o] = NoAsk] /\ UNCHANGED copy
      BY <1>0, <2>4, <3>2 DEF UpdateHook
    <3> QED BY <3>3, <3>4 DEF TypesInductive, HooksTyped
  <2>5. ASSUME NEW h \in HookId, DeleteHook(o, h) PROVE HooksTyped'
    BY <1>0, <2>5, NoHookData DEF DeleteHook, TypesInductive, HooksTyped
  <2> QED BY <2>1, <2>2, <2>3, <2>4, <2>5 DEF OwnerStep
<1> QED BY <1>0, <1>1, TypesStay

LEMMA TypesStep ==
  ASSUME TypesInductive, BoundsKept, [Next]_vars
  PROVE  TypesInductive'
<1>1. ASSUME NEW c \in Change, Record(c) PROVE TypesInductive'
  BY <1>1, HooksStay, TypesStay DEF Record, tables, creator, owner
<1>2. ASSUME NEW c \in Change, HandlerStep(c) \/ HandlerCrash(c) PROVE TypesInductive'
  BY <1>2, SaveCreateHookTypes, PublisherTypes DEF HandlerStep
<1>3. ASSUME NEW w \in Creator, PushHooks(w) \/ NextPage(w) PROVE TypesInductive'
  <2>1. PICK since : Turn(w, since)
    BY <1>3 DEF PushHooks, NextPage
  <2>2. /\ at[w] # "idle" /\ SaveEnt(w, "processing")
        /\ UNCHANGED <<nextRow, hist, nextHist, queue, hooks, publisher, ent, unpushed, copy,
                       owner>>
    BY <1>3 DEF PushHooks, NextPage, PageDone
  <2> QED BY <2>1, <2>2, TurnTypes
<1>4. ASSUME NEW w \in Creator, FinishCreate(w) \/ CreateFails(w) PROVE TypesInductive'
  <2>1. /\ w \in Worker /\ at[w] # "idle" /\ Leave(w) /\ UNCHANGED <<hooks, publisher, owner>>
        /\ \E state \in {"processing", "success", "fail"} : Finish(w, state)
    BY <1>4 DEF FinishCreate, CreateFails, Worker
  <2>2. \/ UNCHANGED queue
        \/ \E lost \in SUBSET unpushed[w] : PushTasks("trigger_hook", unpushed[w] \ lost)
    BY <1>4 DEF FinishCreate, CreateFails
  <2> QED BY <2>1, <2>2, EndTypes
<1>5. ASSUME NEW w \in Triggerer,
             HookGone(w) \/ CallRefused(w) \/ FinishTrigger(w) \/ TriggerFails(w)
      PROVE  TypesInductive'
  <2>1. /\ w \in Worker /\ at[w] # "idle" /\ Leave(w)
        /\ UNCHANGED <<queue, hooks, publisher, owner>>
        /\ \E state \in {"processing", "success", "fail"} : Finish(w, state)
    BY <1>5 DEF HookGone, CallRefused, FinishTrigger, TriggerFails, Worker
  <2> QED BY <2>1, EndTypes
<1>6. ASSUME NEW w \in Worker, WorkerCrash(w) PROVE TypesInductive'
  <2>1. /\ at[w] # "idle" /\ Leave(w)
        /\ UNCHANGED <<rows, nextRow, hist, nextHist, queue, hooks, publisher, owner>>
    BY <1>6 DEF WorkerCrash, tables
  <2> QED BY <2>1, EndTypes
<1>7. ASSUME NEW w \in Creator, CreatorStep(w) PROVE TypesInductive'
  BY <1>3, <1>4, <1>7, TakeTypes, StartCreateTypes, SaveTriggerHookTypes,
     PushTriggerHookTypes DEF CreatorStep, Worker
<1>8. ASSUME NEW w \in Triggerer, TriggererStep(w) PROVE TypesInductive'
  BY <1>5, <1>8, TakeTypes, TriggererTypes DEF TriggererStep, Worker
<1>9. CASE UNCHANGED vars
  BY <1>9, HooksStay, TypesStay DEF vars, tables, publisher, creator, owner
<1> QED BY <1>1, <1>2, <1>4, <1>5, <1>6, <1>7, <1>8, <1>9, TimeoutRetryTypes, OwnerTypes
        DEF Next, FaultStep

LEMMA TypesInit ==
  ASSUME Init
  PROVE  TypesInductive
<1>0. /\ rows = [r \in RowId |-> NoTask] /\ nextRow = 1
      /\ hist = [t \in RowId |-> "absent"] /\ nextHist = HistoryStart
      /\ queue = [type \in {"create_hook", "trigger_hook"} |-> {}]
      /\ hooks = [h \in HookId |-> [NoHook EXCEPT !.exists = h <= InitialHooks]]
      /\ sent = [c \in Change |-> 0] /\ pending = [c \in Change |-> 0]
      /\ at = [w \in Worker |-> "idle"] /\ ent = [w \in Worker |-> NoEnt]
      /\ todo = [w \in Creator |-> {}] /\ unpushed = [w \in Creator |-> {}]
      /\ copy = [w \in Triggerer |-> NoHook] /\ asks = [o \in Owner |-> NoAsk]
  BY Zenon DEF Init
<1>1. TablesTyped
  BY <1>0, NumberAssumption DEF TablesTyped
<1>2. QueuesTyped
  BY <1>0, SetAssumption, NumberAssumption DEF QueuesTyped
<1>3. EntitiesTyped
  BY <1>0 DEF EntitiesTyped
<1>4. HooksTyped
  <2>1. ASSUME NEW h \in HookId PROVE hooks[h] \in HookData
    <3>1. hooks[h] = [endpoint |-> 0, latest |-> 0, exists |-> h <= InitialHooks]
      BY <1>0 DEF NoHook
    <3>2. (h <= InitialHooks) \in BOOLEAN
      BY NumberAssumption DEF HookId
    <3> QED BY <3>1, <3>2, NumberAssumption DEF HookData
  <2> QED BY <1>0, <2>1, NoHookData DEF HooksTyped
<1>5. ASSUME NEW task \in RowId, NEW type \in {"create_hook", "trigger_hook"}
      PROVE  ~Has(task, type)
  <2>1. task # 0
    BY NumberAssumption DEF RowId
  <2>2. /\ \A r \in RowId : ~InTable(r)
        /\ \A w \in Worker : at[w] = "idle"
        /\ queue[type] = {}
        /\ \A w \in Creator : unpushed[w] = {}
        /\ \A c \in Change : pending[c] = 0
    BY <1>0 DEF InTable, NoTask
  <2> QED BY <2>1, <2>2 DEF Has
<1>6. TypesApart
  BY <1>5 DEF TypesApart
<1> QED BY <1>1, <1>2, <1>3, <1>4, <1>6 DEF TypesInductive

\* What most steps leave alone.
LEMMA BoundsStay ==
  ASSUME BoundsKept, UNCHANGED <<recorded, due, owner, calls>>,
         faults' \in 0 .. MaxFaults,
         cursor' \in [Creator -> [query : 0 .. Queries + 1, since : 0 .. MaxHook]],
         \A w \in Creator : at'[w] \in {"log", "page"} => cursor'[w].query <= Queries,
         \A h \in HookId : EndpointKnown(hooks'[h]) \/ hooks'[h].endpoint = hooks[h].endpoint,
         \A w \in Triggerer : EndpointKnown(copy'[w]) \/ copy'[w] = copy[w]
  PROVE  BoundsKept'
BY DEF BoundsKept, EndpointKnown, owner

LEMMA LeaveBounds ==
  ASSUME TypesInductive, BoundsKept, NEW w \in Worker, Leave(w),
         UNCHANGED <<recorded, due, owner, hooks, calls>>, faults' \in 0 .. MaxFaults
  PROVE  BoundsKept'
<1>1. cursor' \in [Creator -> [query : 0 .. Queries + 1, since : 0 .. MaxHook]]
  BY NumberAssumption DEF Leave, NoCursor, BoundsKept
<1>2. \A v \in Creator : at'[v] \in {"log", "page"} => cursor'[v].query <= Queries
  <2> SUFFICES ASSUME NEW v \in Creator, at'[v] \in {"log", "page"}
               PROVE  cursor'[v].query <= Queries
    OBVIOUS
  <2>1. v # w /\ at'[v] = at[v] /\ cursor'[v] = cursor[v]
    BY DEF Leave, Goto, TypesInductive, EntitiesTyped, Worker
  <2> QED BY <2>1 DEF BoundsKept
<1>3. \A v \in Triggerer : EndpointKnown(copy'[v]) \/ copy'[v] = copy[v]
  BY NumberAssumption DEF Leave, NoHook, EndpointKnown, BoundsKept, Endpoint
<1> QED BY <1>1, <1>2, <1>3, BoundsStay

LEMMA TurnBounds ==
  ASSUME TypesInductive, BoundsKept, NEW w \in Creator, at[w] \in {"log", "page"},
         NEW since \in Nat, Turn(w, since),
         UNCHANGED <<recorded, due, owner, hooks, copy, calls, faults>>
  PROVE  BoundsKept'
<1>0. cursor[w].query \in 0 .. Queries
  BY NumberAssumption DEF BoundsKept
<1>1. PICK next, label :
        /\ cursor' = [cursor EXCEPT ![w] = next] /\ Goto(w, label)
        /\ \/ /\ label = "page"
              /\ \E last \in HookId : next = [query |-> cursor[w].query, since |-> last]
           \/ /\ next = [query |-> cursor[w].query + 1, since |-> 0]
              /\ label = IF cursor[w].query < Queries THEN "log" ELSE "finish"
  BY DEF Turn, Pages, Matching
<1>2. /\ next \in [query : 0 .. Queries + 1, since : 0 .. MaxHook]
      /\ label \in {"log", "page"} => next.query <= Queries
  BY <1>0, <1>1, NumberAssumption DEF HookId
<1>3. /\ cursor'[w] = next
      /\ \A v \in Creator : v # w => cursor'[v] = cursor[v] /\ at'[v] = at[v]
      /\ at'[w] = label
  BY <1>1 DEF Goto, BoundsKept, TypesInductive, EntitiesTyped, Worker
<1>4. cursor' \in [Creator -> [query : 0 .. Queries + 1, since : 0 .. MaxHook]]
  BY <1>1, <1>2 DEF BoundsKept
<1>5. \A v \in Creator : at'[v] \in {"log", "page"} => cursor'[v].query <= Queries
  <2> SUFFICES ASSUME NEW v \in Creator, at'[v] \in {"log", "page"}
               PROVE  cursor'[v].query <= Queries
    OBVIOUS
  <2>1. CASE v = w
    BY <1>2, <1>3, <2>1
  <2>2. CASE v # w
    BY <1>3, <2>2 DEF BoundsKept
  <2> QED BY <2>1, <2>2
<1> QED BY <1>4, <1>5, BoundsStay DEF BoundsKept

\* A call is counted.
LEMMA CallBounds ==
  ASSUME TypesInductive, BoundsKept, NEW w \in Triggerer, at[w] # "idle",
         calls' = [calls EXCEPT ![<<Event(w), HookOf(w)>>] = @ + 1]
  PROVE  calls' \in [Events \X HookId -> Nat]
<1>1. calls[<<Event(w), HookOf(w)>>] + 1 \in Nat
  BY HookKnown DEF BoundsKept
<1> QED BY <1>1 DEF BoundsKept

LEMMA BoundsStep ==
  ASSUME TypesInductive, BoundsKept, [Next]_vars
  PROVE  BoundsKept'
<1> USE DEF publisher, tables, creator, owner
<1>1. ASSUME NEW c \in Change, Record(c) PROVE BoundsKept'
  BY <1>1 DEF Record, BoundsKept, EndpointKnown
<1>2. ASSUME NEW c \in Change, HandlerStep(c) PROVE BoundsKept'
  BY <1>2, BoundsStay DEF HandlerStep, SaveCreateHook, PushCreateHook, BoundsKept
<1>3. ASSUME NEW w \in Worker, Take(w) PROVE BoundsKept'
  <2>1. \A v \in Creator : at'[v] \in {"log", "page"} => at[v] \in {"log", "page"}
    BY <1>3 DEF Take, Goto, TypesInductive, EntitiesTyped, Worker
  <2> QED BY <1>3, <2>1, BoundsStay DEF Take, BoundsKept
<1>4. ASSUME NEW w \in Creator, StartCreate(w) PROVE BoundsKept'
  <2>1. cursor' = [cursor EXCEPT ![w] = [query |-> 1, since |-> 0]]
        /\ at' = [at EXCEPT ![w] = "log"]
        /\ UNCHANGED <<hooks, publisher, copy, owner, calls, faults>>
    BY <1>4 DEF StartCreate, Goto
  <2>2. cursor' \in [Creator -> [query : 0 .. Queries + 1, since : 0 .. MaxHook]]
    BY <2>1, NumberAssumption DEF BoundsKept
  <2>3. \A v \in Creator : at'[v] \in {"log", "page"} => cursor'[v].query <= Queries
    BY <2>1, NumberAssumption DEF BoundsKept, TypesInductive, EntitiesTyped, Worker
  <2> QED BY <2>1, <2>2, <2>3, BoundsStay DEF BoundsKept
<1>5. ASSUME NEW w \in Creator, PushHooks(w) \/ NextPage(w) PROVE BoundsKept'
  <2>1. PICK since \in Nat : Turn(w, since)
    <3>1. 0 \in Nat /\ cursor[w].since \in Nat
      BY NumberAssumption DEF BoundsKept
    <3> QED BY <1>5, <3>1 DEF PushHooks, NextPage
  <2>2. /\ at[w] \in {"log", "page"}
        /\ UNCHANGED <<recorded, due, owner, hooks, copy, calls, faults>>
    BY <1>5 DEF PushHooks, NextPage, PageDone
  <2> QED BY <2>1, <2>2, TurnBounds
<1>6. ASSUME NEW w \in Creator, NEW h \in HookId, SaveTriggerHook(w, h) PROVE BoundsKept'
  BY <1>6, BoundsStay DEF SaveTriggerHook, BoundsKept
<1>7. ASSUME NEW w \in Creator, NEW task \in RowId, PushTriggerHook(w, task)
      PROVE  BoundsKept'
  BY <1>7, BoundsStay DEF PushTriggerHook, BoundsKept
<1>8. ASSUME NEW w \in Worker,
             \/ FinishCreate(w) \/ CreateFails(w)
             \/ HookGone(w) \/ FinishTrigger(w) \/ TriggerFails(w) \/ WorkerCrash(w)
      PROVE  BoundsKept'
  <2>1. faults' = faults \/ (faults < MaxFaults /\ faults' = faults + 1)
    BY <1>8 DEF FinishCreate, CreateFails, HookGone, FinishTrigger, TriggerFails, WorkerCrash
  <2>2. faults' \in 0 .. MaxFaults
    BY <2>1, NumberAssumption DEF BoundsKept
  <2>3. Leave(w) /\ UNCHANGED <<recorded, due, owner, hooks, calls>>
    BY <1>8 DEF FinishCreate, CreateFails, HookGone, FinishTrigger, TriggerFails, WorkerCrash
  <2> QED BY <2>2, <2>3, LeaveBounds
<1>9. ASSUME NEW w \in Triggerer, FindHook(w) PROVE BoundsKept'
  <2>1. w \in Worker /\ w \notin Creator /\ HookOf(w) \in HookId
    BY <1>9, HookKnown DEF FindHook
  <2>2. copy' = [copy EXCEPT ![w] = hooks[HookOf(w)]] /\ at' = [at EXCEPT ![w] = "call"]
    BY <1>9 DEF FindHook, Goto
  <2>3. \A v \in Triggerer : EndpointKnown(copy'[v]) \/ copy'[v] = copy[v]
    BY <2>1, <2>2 DEF BoundsKept, TypesInductive, HooksTyped
  <2>4. \A v \in Creator : at'[v] = at[v]
    BY <2>1, <2>2 DEF TypesInductive, EntitiesTyped, Worker
  <2> QED BY <1>9, <2>3, <2>4, BoundsStay DEF FindHook, BoundsKept
<1>10. ASSUME NEW w \in Triggerer, Call(w) PROVE BoundsKept'
  <2>1. calls' \in [Events \X HookId -> Nat]
    BY <1>10, CallBounds DEF Call
  <2>2. \A v \in Creator : at'[v] = at[v]
    BY <1>10, SetAssumption DEF Call, Goto, TypesInductive, EntitiesTyped, Worker
  <2> QED BY <1>10, <2>1, <2>2 DEF Call, BoundsKept, EndpointKnown
<1>11. ASSUME NEW w \in Triggerer, CallRefused(w) PROVE BoundsKept'
  <2>1. calls' \in [Events \X HookId -> Nat]
    BY <1>11, CallBounds DEF CallRefused
  <2>2. /\ Leave(w) /\ UNCHANGED <<recorded, due, owner, hooks, faults>> /\ w \in Worker
    BY <1>11 DEF CallRefused, Worker
  <2>3. \A v \in Creator : at'[v] = at[v] /\ cursor'[v] = cursor[v]
    BY <2>2, SetAssumption DEF Leave, Goto, TypesInductive, EntitiesTyped, Worker, BoundsKept
  <2>4. cursor' = cursor
    BY <2>2, <2>3 DEF Leave, BoundsKept
  <2>5. \A v \in Triggerer : EndpointKnown(copy'[v])
    BY <2>2, NumberAssumption DEF Leave, NoHook, EndpointKnown, BoundsKept, Endpoint
  <2> QED BY <2>1, <2>2, <2>3, <2>4, <2>5 DEF BoundsKept, EndpointKnown
<1>12. ASSUME NEW w \in Triggerer, SaveHook(w) PROVE BoundsKept'
  <2>1. \A v \in Creator : at'[v] = at[v]
    BY <1>12, SetAssumption DEF SaveHook, Goto, TypesInductive, EntitiesTyped, Worker
  <2>2. copy[w] \in HookData /\ EndpointKnown(copy[w])
    BY DEF TypesInductive, HooksTyped, BoundsKept
  <2>3. \A h \in HookId : EndpointKnown(hooks'[h]) \/ hooks'[h].endpoint = hooks[h].endpoint
    <3>1. PICK new : new = [copy[w] EXCEPT !.latest = ent[w].task]
      OBVIOUS
    <3>2. new.endpoint = copy[w].endpoint
      BY <2>2, <3>1 DEF HookData
    <3>3. hooks' = hooks \/ hooks' = [hooks EXCEPT ![HookOf(w)] = new]
      BY <1>12, <3>1 DEF SaveHook
    <3> QED BY <2>2, <3>2, <3>3 DEF EndpointKnown, TypesInductive, HooksTyped
  <2> QED BY <1>12, <2>1, <2>3, BoundsStay DEF SaveHook, BoundsKept
<1>13. ASSUME NEW r \in RowId, TimeoutRetry(r) PROVE BoundsKept'
  BY <1>13, BoundsStay DEF TimeoutRetry, BoundsKept
<1>14. ASSUME NEW c \in Change, HandlerCrash(c) PROVE BoundsKept'
  <2>1. faults' \in 0 .. MaxFaults
    BY <1>14, NumberAssumption DEF HandlerCrash, BoundsKept
  <2> QED BY <1>14, <2>1, BoundsStay DEF HandlerCrash, BoundsKept
<1>15. ASSUME NEW o \in Owner, OwnerStep(o) PROVE BoundsKept'
  <2>1. UNCHANGED <<recorded, due, cursor, at, copy, calls, faults>>
    BY <1>15 DEF OwnerStep, CountHooks, InsertHook, ReadHook, UpdateHook, DeleteHook
  <2>2. updates \in Nat /\ \A a, b : a \in 0 .. updates /\ b \in Nat /\ updates <= b => a \in 0 .. b
    BY NumberAssumption DEF BoundsKept, Endpoint
  <2>3. CASE CountHooks(o)
    BY <2>1, <2>3 DEF CountHooks, BoundsKept, EndpointKnown, TypesInductive, HooksTyped
  <2>4. CASE InsertHook(o)
    <3>1. /\ \A h \in HookId : hooks'[h].endpoint = hooks[h].endpoint
          /\ nextHook' \in 1 .. MaxHook + 1 /\ UNCHANGED <<updates, removed>>
          /\ \A p \in Owner : asks'[p].write = "update" => asks'[p] = asks[p]
      BY <2>4, NumberAssumption DEF InsertHook, NoAsk, HookId, BoundsKept,
         TypesInductive, HooksTyped, HookData
    <3> QED BY <2>1, <3>1 DEF BoundsKept, EndpointKnown
  <2>5. ASSUME NEW h \in HookId, ReadHook(o, h) PROVE BoundsKept'
    <3>1. /\ updates < MaxUpdates /\ updates' = updates + 1
          /\ UNCHANGED <<hooks, nextHook, removed>>
      BY <2>5 DEF ReadHook
    <3>2. hooks[h] \in HookData
      BY DEF TypesInductive, HooksTyped
    <3>3. PICK row : row = [hooks[h] EXCEPT !.endpoint = updates + 1]
      OBVIOUS
    <3>4. row.endpoint = updates + 1
      BY <3>2, <3>3 DEF HookData
    <3>5. asks' = [asks EXCEPT ![o] = [write |-> "update", hook |-> h, row |-> row]]
      BY <2>5, <3>3 DEF ReadHook
    <3>6. \A p \in Owner : asks'[p] = asks[p] \/ (asks'[p].row.endpoint = updates + 1)
      BY <3>4, <3>5 DEF TypesInductive, HooksTyped
    <3>7. \A p \in Owner : asks'[p].write = "update" => asks'[p].row.endpoint \in 0 .. updates'
      BY <2>2, <3>1, <3>6 DEF BoundsKept, EndpointKnown
    <3>8. updates' \in Endpoint
      BY <2>2, <3>1, NumberAssumption DEF Endpoint
    <3>9. /\ \A g \in HookId : hooks'[g].endpoint \in 0 .. updates'
          /\ \A w \in Triggerer : copy'[w].endpoint \in 0 .. updates'
      BY <2>1, <2>2, <3>1 DEF BoundsKept, EndpointKnown
    <3> QED BY <2>1, <3>1, <3>7, <3>8, <3>9 DEF BoundsKept, EndpointKnown
  <2>6. CASE UpdateHook(o)
    <3>1. asks[o].write = "update" /\ asks' = [asks EXCEPT ![o] = NoAsk]
          /\ UNCHANGED <<nextHook, updates, removed>>
      BY <2>6 DEF UpdateHook
    <3>2. \A g \in HookId : hooks'[g] = hooks[g] \/ hooks'[g] = asks[o].row
      BY <2>6 DEF UpdateHook, TypesInductive, HooksTyped
    <3>3. \A p \in Owner : asks'[p].write = "update" => asks'[p] = asks[p]
      BY <3>1 DEF NoAsk, TypesInductive, HooksTyped
    <3> QED BY <2>1, <3>1, <3>2, <3>3 DEF BoundsKept, EndpointKnown
  <2>7. ASSUME NEW h \in HookId, DeleteHook(o, h) PROVE BoundsKept'
    <3>1. /\ \A g \in HookId : hooks'[g] = hooks[g] \/ hooks'[g].endpoint = 0
          /\ removed' = removed \cup {h} /\ UNCHANGED <<nextHook, updates, asks>>
      BY <2>7 DEF DeleteHook, NoHook, TypesInductive, HooksTyped
    <3>2. 0 \in 0 .. updates
      BY <2>2
    <3> QED BY <2>1, <3>1, <3>2 DEF BoundsKept, EndpointKnown
  <2> QED BY <1>15, <2>3, <2>4, <2>5, <2>6, <2>7 DEF OwnerStep
<1>16. CASE UNCHANGED vars
  BY <1>16 DEF vars, BoundsKept, EndpointKnown
<1>17. ASSUME NEW w \in Creator, CreatorStep(w) \/ CreateFails(w) PROVE BoundsKept'
  BY <1>3, <1>4, <1>5, <1>6, <1>7, <1>8, <1>17 DEF CreatorStep, Worker
<1>18. ASSUME NEW w \in Triggerer, TriggererStep(w) \/ TriggerFails(w) PROVE BoundsKept'
  BY <1>3, <1>8, <1>9, <1>10, <1>11, <1>12, <1>18 DEF TriggererStep, Worker
<1> QED BY <1>1, <1>2, <1>8, <1>13, <1>14, <1>15, <1>16, <1>17, <1>18 DEF Next, FaultStep

LEMMA BoundsInit ==
  ASSUME Init
  PROVE  BoundsKept
<1>1. /\ nextHook = InitialHooks + 1 /\ removed = {} /\ recorded = {} /\ due = {}
      /\ hooks = [h \in HookId |-> [NoHook EXCEPT !.exists = h <= InitialHooks]]
      /\ at = [w \in Worker |-> "idle"] /\ cursor = [w \in Creator |-> NoCursor]
      /\ copy = [w \in Triggerer |-> NoHook] /\ asks = [o \in Owner |-> NoAsk]
      /\ calls = [k \in Events \X HookId |-> 0] /\ updates = 0 /\ faults = 0
  BY Zenon DEF Init
<1>2. nextHook \in 1 .. MaxHook + 1 /\ updates \in Endpoint /\ faults \in 0 .. MaxFaults
  BY <1>1, NumberAssumption DEF Endpoint
<1>3. cursor \in [Creator -> [query : 0 .. Queries + 1, since : 0 .. MaxHook]]
      /\ \A w \in Creator : at[w] \notin {"log", "page"}
  BY <1>1, NumberAssumption DEF NoCursor, Worker
<1>4. /\ \A h \in HookId : hooks[h].endpoint = 0
      /\ \A w \in Triggerer : copy[w].endpoint = 0
      /\ \A o \in Owner : asks[o].write # "update"
  BY <1>1 DEF NoHook, NoAsk
<1> QED BY <1>1, <1>2, <1>3, <1>4 DEF BoundsKept, EndpointKnown

\* Whosever rows the entities meet, tasks are taken for what they are and data
\* stay within their bounds.
THEOREM TypesInvariant ==
  Spec => [](TypesInductive /\ BoundsKept)
<1>1. Init => TypesInductive /\ BoundsKept
  BY TypesInit, BoundsInit
<1>2. TypesInductive /\ BoundsKept /\ [Next]_vars => TypesInductive' /\ BoundsKept'
  BY TypesStep, BoundsStep
<1> QED BY <1>1, <1>2, PTL DEF Spec

LEMMA JobsKnown ==
  JobData \subseteq Jobs
<1> SUFFICES ASSUME NEW job \in JobData PROVE job \in Jobs
  OBVIOUS
<1>1. PICK c \in Change, d \in Nat, h \in 0 .. MaxHook : job = Job(c, d, h)
  BY DEF JobData, Job
<1>2. <<c, d>> \in Events
  BY <1>1 DEF JobData, Job, Events
<1> QED BY <1>1, <1>2 DEF Jobs

LEMMA TypesKnown ==
  ASSUME TypesInductive, BoundsKept
  PROVE  TypeOK
<1>1. rows \in [RowId -> {NoTask} \cup
                  [task : RowId, job : Jobs, state : {"waiting", "processing"}]]
  BY JobsKnown DEF TypesInductive, TablesTyped
<1>2. \A hook \in HookData : EndpointKnown(hook) => hook \in HookRow
  <2> SUFFICES ASSUME NEW hook \in HookData, EndpointKnown(hook)
               PROVE  hook \in HookRow
    OBVIOUS
  <2>1. hook.endpoint \in Endpoint
    BY NumberAssumption DEF EndpointKnown, BoundsKept, Endpoint
  <2> QED BY <2>1 DEF HookData, HookRow
<1>3. hooks \in [HookId -> HookRow] /\ copy \in [Triggerer -> HookRow]
  BY <1>2 DEF TypesInductive, HooksTyped, BoundsKept
<1>4. \A c \in Change : sent[c] \in 0 .. Details[c]
  BY SetAssumption DEF TypesInductive, QueuesTyped
<1>5. \A w \in Worker :
        at[w] # "idle" => ent[w] \in [id : Nat, task : RowId, job : Jobs]
  BY EntTyped, JobsKnown
<1> QED BY <1>1, <1>3, <1>4, <1>5
        DEF TypesInductive, TablesTyped, QueuesTyped, BoundsKept, TypeOK

\* The tables of the pipeline, its queues and its workers hold data of their kind,
\* whosever row an entity is saved or finished on: rows and entities only jobs of
\* events their change has, queues only tasks, hooks only endpoints their owner
\* gave them.
THEOREM PipelineTypes ==
  Spec => []TypeOK
<1> QED BY TypesInvariant, TypesKnown, PTL
-----------------------------------------------------------------------------
(* How often a hook is called *)

\* The order of pages is lost once and for all.
LEMMA DisorderStays ==
  ASSUME disordered, [Next]_vars
  PROVE  disordered'
<1> USE DEF creator, Leave
<1>1. ASSUME NEW c \in Change, Record(c) \/ HandlerStep(c) \/ HandlerCrash(c)
      PROVE  disordered'
  BY <1>1 DEF Record, HandlerStep, SaveCreateHook, PushCreateHook, HandlerCrash
<1>2. ASSUME NEW w \in Creator, CreatorStep(w) \/ CreateFails(w)
      PROVE  disordered'
  BY <1>2 DEF CreatorStep, CreateFails, Take, StartCreate, PushHooks, NextPage, Turn,
              FinishCreate, SaveTriggerHook, PushTriggerHook
<1>3. ASSUME NEW w \in Triggerer, TriggererStep(w) \/ TriggerFails(w)
      PROVE  disordered'
  BY <1>3 DEF TriggererStep, TriggerFails, Take, FindHook, HookGone, Call,
              CallRefused, SaveHook, FinishTrigger
<1>4. ASSUME NEW o \in Owner, OwnerStep(o)
      PROVE  disordered'
  BY <1>4 DEF OwnerStep, CountHooks, InsertHook, ReadHook, UpdateHook, DeleteHook
<1>5. ASSUME NEW r \in RowId, TimeoutRetry(r)
      PROVE  disordered'
  BY <1>5 DEF TimeoutRetry
<1>6. ASSUME NEW w \in Worker, WorkerCrash(w)
      PROVE  disordered'
  BY <1>6 DEF WorkerCrash
<1>7. CASE UNCHANGED vars
  BY <1>7 DEF vars
<1> QED BY <1>1, <1>2, <1>3, <1>4, <1>5, <1>6, <1>7 DEF Next, FaultStep

\* What a step does that makes no row, takes up no task and sends no creator on
\* its way.
RowsShrink ==
  \A r \in RowId : InTable(r)' =>
    InTable(r) /\ rows'[r].job = rows[r].job /\ hist'[r] = hist[r]

WorkersShrink ==
  \A w \in Worker : OnRow(w)' =>
    OnRow(w) /\ ent'[w] = ent[w] /\ rows'[ent[w].task].state = "processing"

LookupsShrink ==
  \A w \in Creator : Paging(w)' =>
    /\ Paging(w) /\ ent'[w].job = ent[w].job
    /\ \A h \in HookId : ToCome(w, h)' => ToCome(w, h)

SentGrows ==
  \A c \in Change : sent'[c] \in Nat /\ sent[c] <= sent'[c] /\ sent'[c] <= Details[c]

CallersStay ==
  \A r \in RowId, w \in Triggerer : InTable(r)' /\ Calling(w, r) => Calling(w, r)'

\* What may still come about does not grow.
CreateShrinks ==
  \A c \in Change, d \in Nat, h \in HookId : MayCreate(c, d, h)' => MayCreate(c, d, h)

LEMMA MayCreateShrinks ==
  ASSUME PipelineInductive, RowsShrink, LookupsShrink, SentGrows
  PROVE  CreateShrinks
<1> SUFFICES ASSUME NEW c \in Change, NEW d \in Nat, NEW h \in HookId, MayCreate(c, d, h)'
             PROVE  MayCreate(c, d, h)
  BY DEF CreateShrinks
<1>1. CASE d > sent'[c]
  BY <1>1 DEF SentGrows, MayCreate, PipelineInductive, PublishersSaved
<1>2. ASSUME NEW r \in RowId, InTable(r)', rows'[r].job = Job(c, d, 0)
      PROVE  MayCreate(c, d, h)
  BY <1>2 DEF RowsShrink, MayCreate
<1>3. ASSUME NEW w \in Creator, Paging(w)', ent'[w].job = Job(c, d, 0), ToCome(w, h)'
      PROVE  MayCreate(c, d, h)
  BY <1>3 DEF LookupsShrink, MayCreate
<1> QED BY <1>1, <1>2, <1>3 DEF MayCreate

\* Rows' jobs are job data, and so are those of busy workers.
LEMMA JobsTyped ==
  ASSUME PipelineInductive
  PROVE  /\ \A r \in RowId : InTable(r) => rows[r] \in RowData /\ rows[r].job \in JobData
         /\ \A w \in Worker : at[w] # "idle" =>
              ent[w].job \in JobData /\ ent[w].task \in RowId /\ ent[w].id \in Nat
                /\ Type(ent[w].job) = Serves(w)
<1>1. \A r \in RowId : InTable(r) => rows[r] \in RowData /\ rows[r].job \in JobData
  BY DEF PipelineInductive, RowsOwn, InTable, NoTask, RowData
<1>2. \A w \in Worker : at[w] # "idle" =>
        ent[w].job \in JobData /\ ent[w].task \in RowId /\ ent[w].id \in Nat
          /\ Type(ent[w].job) = Serves(w)
  BY DEF PipelineInductive, EntitiesOwn, Saved
<1> QED BY <1>1, <1>2

LEMMA ApartKept ==
  ASSUME CallsInductive, RowsShrink, WorkersShrink
  PROVE  RowsApart'
<1>1. ASSUME NEW r \in RowId, InTable(r)'
      PROVE  /\ hist'[r] = "absent"
             /\ \A s \in RowId : InTable(s)' /\ BizId(rows'[s].job) = BizId(rows'[r].job) => s = r
  BY <1>1 DEF RowsShrink, CallsInductive, RowsApart
<1>2. ASSUME NEW w \in Worker, OnRow(w)'
      PROVE  /\ ent'[w].task \in RowId /\ rows'[ent'[w].task].state # "absent"
             /\ ent'[w].id = ent'[w].task
             /\ rows'[ent'[w].task].state = "processing" /\ rows'[ent'[w].task].job = ent'[w].job
             /\ \A v \in Worker : OnRow(v)' /\ ent'[v].task = ent'[w].task => v = w
  <2>1. OnRow(w) /\ ent'[w] = ent[w] /\ rows'[ent[w].task].state = "processing"
    BY <1>2 DEF WorkersShrink
  <2>2. PICK r \in RowId : r = ent[w].task /\ InTable(r)
    BY <2>1 DEF CallsInductive, RowsApart, InTable
  <2>3. InTable(r)' /\ ent[w].id = r /\ rows[r].job = ent[w].job
    BY <2>1, <2>2 DEF CallsInductive, RowsApart, InTable
  <2>4. rows'[r].job = rows[r].job
    BY <2>3 DEF RowsShrink
  <2>5. \A v \in Worker : OnRow(v)' /\ ent'[v].task = ent'[w].task => v = w
    BY <2>1 DEF WorkersShrink, CallsInductive, RowsApart
  <2> QED BY <2>1, <2>2, <2>3, <2>4, <2>5
<1> QED BY <1>1, <1>2 DEF RowsApart, InTable

LEMMA OnceKept ==
  ASSUME PipelineInductive, PipelineInductive', CallsInductive, BoundsKept, RowsShrink, SentGrows,
         CreateShrinks,
         \A w \in Creator : Paging(w)' => Paging(w) /\ ent'[w].job = ent[w].job
  PROVE  CreatedOnce'
<1>0. sent \in [Change -> Nat] /\ sent' \in [Change -> Nat]
      /\ \A c \in Change : Details[c] \in Nat
  BY SetAssumption DEF PipelineInductive, PublishersSaved
<1>1. ASSUME NEW r \in RowId, InTable(r)'
      PROVE  rows'[r].job.detail \in 1 .. sent'[rows'[r].job.change]
  <2>1. InTable(r) /\ rows'[r].job = rows[r].job
    BY <1>1 DEF RowsShrink
  <2>2. rows[r].job \in JobData /\ rows[r].job.detail \in 1 .. sent[rows[r].job.change]
    BY <2>1, JobsTyped DEF CallsInductive, CreatedOnce
  <2> QED BY <1>0, <2>1, <2>2 DEF JobData, SentGrows
<1>4. ASSUME NEW c \in Change, NEW d \in 1 .. Details[c], NEW h \in HookId,
             NEW r \in RowId, InTable(r)', rows'[r].job = Job(c, d, h)
      PROVE  ~MayCreate(c, d, h)'
  <2>1. InTable(r) /\ rows[r].job = Job(c, d, h)
    BY <1>4 DEF RowsShrink
  <2>2. ~MayCreate(c, d, h) /\ d \in Nat
    BY <1>0, <2>1 DEF CallsInductive, CreatedOnce
  <2> QED BY <2>2 DEF CreateShrinks
<1>2. ASSUME NEW w \in Creator, Paging(w)'
      PROVE  /\ ent'[w].job.detail \in 1 .. sent'[ent'[w].job.change]
             /\ \A r \in RowId : InTable(r)' => rows'[r].job # ent'[w].job
             /\ \A v \in Creator : Paging(v)' /\ ent'[v].job = ent'[w].job => v = w
  <2>1. Paging(w) /\ ent'[w].job = ent[w].job
    BY <1>2 DEF LookupsShrink
  <2>2. ent[w].job \in JobData /\ ent[w].job.detail \in 1 .. sent[ent[w].job.change]
    BY <2>1, JobsTyped DEF CallsInductive, CreatedOnce, Paging, Worker
  <2>4. ent[w].job.detail \in 1 .. sent'[ent[w].job.change]
    BY <1>0, <2>2 DEF JobData, SentGrows
  <2>5. \A r \in RowId : InTable(r)' => rows'[r].job # ent'[w].job
    BY <2>1 DEF RowsShrink, CallsInductive, CreatedOnce
  <2>6. \A v \in Creator : Paging(v)' /\ ent'[v].job = ent'[w].job => v = w
    BY <2>1 DEF LookupsShrink, CallsInductive, CreatedOnce
  <2> QED BY <2>1, <2>4, <2>5, <2>6
<1> QED BY <1>1, <1>2, <1>4 DEF CreatedOnce

LEMMA CountedKept ==
  ASSUME CallsInductive, RowsShrink, CreateShrinks, calls' = calls,
         calls \in [Events \X HookId -> Nat],
         (faults' = faults /\ CallersStay) \/ faults' = faults + 1
  PROVE  CallsCounted'
<1>1. faults' \in Nat
  BY DEF CallsInductive, CallsCounted
<1>2. ASSUME NEW c \in Change, NEW d \in 1 .. Details[c], NEW h \in HookId
      PROVE  /\ calls'[<<<<c, d>>, h>>] <= 1 + faults'
             /\ MayCall(c, d, h)' => calls'[<<<<c, d>>, h>>] <= faults'
  <2>0. <<<<c, d>>, h>> \in Events \X HookId
    BY DEF Events
  <2>1. /\ calls[<<<<c, d>>, h>>] \in Nat /\ faults \in Nat
        /\ calls[<<<<c, d>>, h>>] <= 1 + faults
        /\ MayCall(c, d, h) => calls[<<<<c, d>>, h>>] <= faults
    BY <2>0 DEF CallsInductive, CallsCounted
  <2>2. CASE faults' = faults + 1
    BY <2>1, <2>2
  <2>3. CASE faults' = faults /\ CallersStay
    <3>1. ASSUME MayCall(c, d, h)' PROVE MayCall(c, d, h)
      <4>1. CASE MayCreate(c, d, h)'
        <5>1. d \in Nat
          BY SetAssumption
        <5> QED BY <4>1, <5>1 DEF CreateShrinks, MayCall
      <4>2. ASSUME NEW r \in RowId, InTable(r)', rows'[r].job = Job(c, d, h),
                   \A w \in Triggerer : ~Calling(w, r)'
            PROVE  MayCall(c, d, h)
        BY <2>3, <4>2 DEF RowsShrink, CallersStay, MayCall
      <4> QED BY <3>1, <4>1, <4>2 DEF MayCall
    <3> QED BY <2>1, <2>3, <3>1
  <2> QED BY <2>2, <2>3
<1> QED BY <1>1, <1>2 DEF CallsCounted

LEMMA CallsShrink ==
  ASSUME PipelineInductive, PipelineInductive', CallsInductive, BoundsKept, LookupsAdvance',
         RowsShrink, WorkersShrink, LookupsShrink, SentGrows, calls' = calls,
         (faults' = faults /\ CallersStay) \/ faults' = faults + 1
  PROVE  CallsInductive'
<1>1. CreateShrinks
  BY MayCreateShrinks
<1>2. RowsApart'
  BY ApartKept
<1>3. CreatedOnce'
  BY <1>1, OnceKept DEF LookupsShrink
<1>4. CallsCounted'
  BY <1>1, CountedKept DEF BoundsKept
<1> QED BY <1>2, <1>3, <1>4 DEF CallsInductive

\* Finishing a task removes its row, and no other.
LEMMA FinishShrinks ==
  ASSUME PipelineInductive, CallsInductive, NEW w \in Worker, at[w] # "idle",
         NEW state, Finish(w, state), ~strayed'
  PROVE  /\ RowsShrink
         /\ \A r \in RowId : ~(OnRow(w) /\ r = ent[w].task) =>
              rows'[r] = rows[r] /\ hist'[r] = hist[r]
         /\ OnRow(w) => rows'[ent[w].task] = NoTask
<1>1. ent[w].task \in RowId
  BY JobsTyped
<1>2. rows \in [RowId -> {NoTask} \cup RowData]
      /\ hist \in [RowId -> {"absent", "processing", "success", "fail"}]
  BY DEF PipelineInductive, RowsOwn
<1>3. OnRow(w) => InTable(ent[w].id) /\ ent[w].id = ent[w].task
  BY DEF CallsInductive, RowsApart
<1>4. ~OnRow(w) => ~InTable(ent[w].id)
  <2> SUFFICES ASSUME ~OnRow(w) PROVE ~InTable(ent[w].id)
    OBVIOUS
  <2>1. Paging(w)
    BY DEF OnRow, Paging, Worker
  <2>2. ~InTable(ent[w].task)
    BY <2>1 DEF CallsInductive, LookupsAdvance, Paging
  <2>3. InTable(ent[w].id) => ent[w].id = ent[w].task
    BY OwnRow DEF PipelineInductive, Finish
  <2> QED BY <2>2, <2>3
<1>5. CASE OnRow(w)
  <2>1. rows' = [rows EXCEPT ![ent[w].task] = NoTask]
        /\ hist' = [hist EXCEPT ![ent[w].task] = state]
    BY <1>3, <1>5 DEF Finish
  <2>2. rows'[ent[w].task] = NoTask
    BY <1>1, <1>2, <2>1
  <2>3. \A r \in RowId : r # ent[w].task => rows'[r] = rows[r] /\ hist'[r] = hist[r]
    BY <1>1, <1>2, <2>1
  <2>4. RowsShrink
    BY <2>2, <2>3 DEF RowsShrink, InTable, NoTask
  <2> QED BY <1>5, <2>2, <2>3, <2>4
<1>6. CASE ~OnRow(w)
  <2>1. rows' = rows /\ hist' = hist
    BY <1>4, <1>6 DEF Finish
  <2> QED BY <1>6, <2>1 DEF RowsShrink, InTable
<1> QED BY <1>5, <1>6

\* A worker that leaves, in whatever way, takes nothing up.
LEMMA LeaveShrinks ==
  ASSUME PipelineInductive, CallsInductive, NEW w \in Worker, Leave(w), RowsShrink,
         \A r \in RowId : ~(OnRow(w) /\ r = ent[w].task) => rows'[r] = rows[r]
  PROVE  /\ WorkersShrink /\ LookupsShrink /\ LookupsAdvance'
         /\ \A v \in Worker : v # w => at'[v] = at[v] /\ ent'[v] = ent[v]
         /\ at'[w] = "idle"
<1>1. /\ at'[w] = "idle"
      /\ \A v \in Worker : v # w => at'[v] = at[v] /\ ent'[v] = ent[v]
  BY DEF Leave, Goto, PipelineInductive, EntitiesOwn
<1>2. /\ \A v \in Creator : v # w => cursor'[v] = cursor[v] /\ todo'[v] = todo[v]
      /\ \A v \in Creator : v = w => todo'[v] = {}
      /\ cursor' \in [Creator -> [query : Nat, since : Nat]]
  BY DEF Leave, CallsInductive, LookupsAdvance, NoCursor
<1>3. WorkersShrink
  <2> SUFFICES ASSUME NEW v \in Worker, OnRow(v)'
               PROVE  OnRow(v) /\ ent'[v] = ent[v]
                      /\ rows'[ent[v].task].state = "processing"
    BY DEF WorkersShrink
  <2>1. v # w
    BY <1>1 DEF OnRow
  <2>2. OnRow(v) /\ ent'[v] = ent[v]
    BY <1>1, <2>1 DEF OnRow
  <2>3. rows[ent[v].task].state = "processing" /\ ent[v].task \in RowId
    BY <2>2 DEF CallsInductive, RowsApart, InTable
  <2>4. ~(OnRow(w) /\ ent[v].task = ent[w].task)
    BY <2>1, <2>2 DEF CallsInductive, RowsApart
  <2> QED BY <2>2, <2>3, <2>4
<1>4. LookupsShrink
  BY <1>1, <1>2 DEF LookupsShrink, Paging, ToCome, Ahead, Worker
<1>5. LookupsAdvance'
  <2>0. \A x : InTable(x)' => InTable(x)
    BY DEF RowsShrink, InTable
  <2>1. ASSUME NEW v \in Creator
        PROVE  /\ ~Paging(v)' => todo'[v] = {}
               /\ Paging(v)' => ~InTable(ent[v].task)'
               /\ at'[v] = "log" => cursor'[v].since = 0 /\ todo'[v] = {}
               /\ \A h \in todo'[v] : ~Ahead(v, h)'
    <3>1. /\ ~Paging(v)' => todo'[v] = {}
          /\ at'[v] = "log" => cursor'[v].since = 0 /\ todo'[v] = {}
          /\ \A h \in todo'[v] : ~Ahead(v, h)'
      BY <1>1, <1>2 DEF Paging, Ahead, Worker, CallsInductive, LookupsAdvance
    <3>2. ASSUME Paging(v)' PROVE ~InTable(ent[v].task)'
      <4>1. Paging(v) /\ ent'[v] = ent[v]
        BY <1>1, <3>2 DEF Paging, Worker
      <4>2. PICK x : x = ent[v].task
        OBVIOUS
      <4>3. ~InTable(x)'
        BY <2>0, <4>1, <4>2 DEF CallsInductive, LookupsAdvance
      <4> QED BY <4>1, <4>2, <4>3 DEF InTable
    <3> QED BY <3>1, <3>2
  <2> QED BY <1>2, <2>1 DEF LookupsAdvance
<1> QED BY <1>1, <1>3, <1>4, <1>5

\* The next page of a lookup, or the next lookup: hooks behind are not found again.
LEMMA TurnShrinks ==
  ASSUME PipelineInductive, CallsInductive, NEW w \in Creator,
         at[w] \in {"log", "page"}, todo[w] = {}, SaveEnt(w, "processing"),
         Turn(w, cursor[w].since), ent' = ent, ~strayed', ~disordered'
  PROVE  /\ rows' = rows /\ LookupsShrink /\ LookupsAdvance'
         /\ \A v \in Worker : v # w => at'[v] = at[v]
         /\ at'[w] \in {"log", "page", "finish"}
<1> DEFINE cur == cursor[w]
<1>0. /\ w \in Worker /\ Paging(w) /\ cur \in [query : Nat, since : Nat]
      /\ ~InTable(ent[w].task)
  BY DEF Worker, Paging, CallsInductive, LookupsAdvance
<1>1. rows' = rows
  <2>1. InTable(ent[w].id) => ent[w].id = ent[w].task
    BY <1>0, OwnRow DEF PipelineInductive, SaveEnt
  <2> QED BY <1>0, <2>1 DEF SaveEnt
<1>a. PICK page \in Pages(cur.query, cur.since) :
        /\ todo' = [todo EXCEPT ![w] = page]
        /\ \/ \E last \in page :
                /\ cursor' = [cursor EXCEPT ![w] = [query |-> cur.query, since |-> last]]
                /\ InOrder(page, last, Matching(cur.query, cur.since))
                /\ Goto(w, "page")
           \/ /\ page = {}
              /\ cursor' = [cursor EXCEPT ![w] = [query |-> cur.query + 1, since |-> 0]]
              /\ \E label \in {"log", "finish"} : Goto(w, label)
  BY DEF Turn
<1>2. /\ page \subseteq HookId
      /\ \A h \in page : Query[h] = cur.query /\ h > cur.since
  BY DEF Pages, Matching
<1>3. \A h \in HookId : h \in Nat /\ h > 0 /\ Query[h] \in Nat
  BY SetAssumption, NumberAssumption DEF HookId
<1>4. PICK next \in [query : Nat, since : Nat] :
        /\ cursor' = [cursor EXCEPT ![w] = next]
        /\ \/ /\ next.query = cur.query /\ next.since \in page
              /\ \A h \in page : h <= next.since
           \/ page = {} /\ next.query = cur.query + 1 /\ next.since = 0
  <2>1. CASE \E last \in page :
               /\ cursor' = [cursor EXCEPT ![w] = [query |-> cur.query, since |-> last]]
               /\ InOrder(page, last, Matching(cur.query, cur.since))
    <3>1. PICK last \in page :
            /\ cursor' = [cursor EXCEPT ![w] = [query |-> cur.query, since |-> last]]
            /\ InOrder(page, last, Matching(cur.query, cur.since))
      BY <2>1
    <3>2. \A h \in page : h <= last
      BY <3>1 DEF Pages, InOrder
    <3>3. [query |-> cur.query, since |-> last] \in [query : Nat, since : Nat]
      BY <1>0, <1>2, <1>3
    <3> QED BY <3>1, <3>2, <3>3
  <2>2. CASE page = {}
    <3>1. [query |-> cur.query + 1, since |-> 0] \in [query : Nat, since : Nat]
      BY <1>0
    <3> QED BY <1>a, <2>2, <3>1
  <2> QED BY <1>a, <2>1, <2>2
<1>5. todo' = [todo EXCEPT ![w] = page]
  BY <1>a
<1>6. /\ at' = [at EXCEPT ![w] = at'[w]] /\ at'[w] \in {"log", "page", "finish"}
      /\ at'[w] = "log" => page = {}
  BY <1>0, <1>a DEF Goto, PipelineInductive, EntitiesOwn
<1>b. todo'[w] = page /\ cursor'[w] = next
  BY <1>4, <1>5 DEF CallsInductive, LookupsAdvance, PipelineInductive, PagesSaved
<1>7. \A h \in HookId : h \in page => ~Ahead(w, h)'
  <2> SUFFICES ASSUME NEW h \in page PROVE ~Ahead(w, h)'
    OBVIOUS
  <2>1. next.query = cur.query /\ h <= next.since
    BY <1>4
  <2>2. Query[h] = cur.query /\ h \in Nat /\ next.since \in Nat /\ cur.query \in Nat
    BY <1>0, <1>2, <1>3
  <2> QED BY <1>b, <2>1, <2>2 DEF Ahead
<1>8. \A h \in HookId : ToCome(w, h)' => ToCome(w, h)
  <2> SUFFICES ASSUME NEW h \in HookId, ToCome(w, h)' PROVE ToCome(w, h)
    OBVIOUS
  <2>1. CASE h \in page
    BY <1>2, <2>1 DEF ToCome, Ahead
  <2>2. CASE h \notin page
    <3>1. Query[h] > next.query \/ (Query[h] = next.query /\ h > next.since)
      BY <1>b, <2>2 DEF ToCome, Ahead
    <3>2. CASE page = {} /\ next.query = cur.query + 1 /\ next.since = 0
      <4>1. Query[h] > cur.query
        BY <1>0, <1>3, <3>1, <3>2
      <4> QED BY <4>1 DEF ToCome, Ahead
    <3>3. CASE next.query = cur.query /\ next.since \in page
      <4>1. next.since > cur.since /\ next.since \in Nat
        BY <1>2, <3>3
      <4>2. h > next.since => h > cur.since
        BY <1>0, <1>3, <4>1
      <4> QED BY <3>1, <3>3, <4>2 DEF ToCome, Ahead
    <3> QED BY <1>4, <3>2, <3>3
  <2> QED BY <2>1, <2>2
<1>9. \A v \in Worker : v # w => at'[v] = at[v]
  BY <1>6 DEF PipelineInductive, EntitiesOwn
<1>10. \A v \in Creator : v # w => cursor'[v] = cursor[v] /\ todo'[v] = todo[v]
  BY <1>4, <1>5 DEF CallsInductive, LookupsAdvance, PipelineInductive, PagesSaved
<1>11. LookupsShrink
  BY <1>0, <1>8, <1>9, <1>10 DEF LookupsShrink, Paging, ToCome, Ahead, Worker
<1>12. LookupsAdvance'
  <2>0. \A v \in Creator : InTable(ent[v].task)' => InTable(ent[v].task)
    BY <1>1 DEF InTable
  <2>1. cursor' \in [Creator -> [query : Nat, since : Nat]]
    BY <1>4 DEF CallsInductive, LookupsAdvance
  <2>2. ASSUME NEW v \in Creator
        PROVE  /\ ~Paging(v)' => todo'[v] = {}
               /\ Paging(v)' => ~InTable(ent[v].task)'
               /\ at'[v] = "log" => cursor'[v].since = 0 /\ todo'[v] = {}
               /\ \A h \in todo'[v] : ~Ahead(v, h)'
    <3>1. CASE v # w
      BY <1>9, <1>10, <2>0, <3>1 DEF Paging, Ahead, Worker, CallsInductive, LookupsAdvance
    <3>2. CASE v = w
      <4>1. Paging(w)'
        BY <1>6 DEF Paging
      <4>2. at'[w] = "log" => next.since = 0 /\ page = {}
        BY <1>4, <1>6
      <4> QED BY <1>0, <1>2, <1>7, <1>b, <2>0, <3>2, <4>1, <4>2
    <3> QED BY <3>1, <3>2
  <2> QED BY <2>1, <2>2 DEF LookupsAdvance
<1> QED BY <1>1, <1>6, <1>9, <1>11, <1>12

\* Steps that touch neither tables nor workers.
LEMMA TablesStay ==
  ASSUME PipelineInductive, CallsInductive,
         UNCHANGED <<rows, hist, at, ent, cursor, todo>>
  PROVE  /\ RowsShrink /\ WorkersShrink /\ LookupsShrink /\ CallersStay /\ LookupsAdvance'
         /\ sent' = sent => SentGrows
<1>1. RowsShrink /\ CallersStay
  BY DEF RowsShrink, CallersStay, InTable, Calling
<1>2. WorkersShrink
  BY DEF WorkersShrink, OnRow, CallsInductive, RowsApart
<1>3. LookupsShrink
  BY DEF LookupsShrink, Paging, ToCome, Ahead
<1>4. LookupsAdvance'
  BY DEF LookupsAdvance, Paging, Ahead, CallsInductive, InTable
<1>5. sent' = sent => SentGrows
  BY DEF SentGrows, PipelineInductive, PublishersSaved
<1> QED BY <1>1, <1>2, <1>3, <1>4, <1>5

LEMMA StayCalls ==
  ASSUME PipelineInductive, PipelineInductive', CallsInductive, BoundsKept,
         UNCHANGED <<rows, hist, at, ent, cursor, todo, sent, calls, faults>>
  PROVE  CallsInductive'
<1>1. /\ RowsShrink /\ WorkersShrink /\ LookupsShrink /\ CallersStay
      /\ LookupsAdvance' /\ SentGrows
  BY TablesStay
<1> QED BY <1>1, CallsShrink

\* The publisher gives up its remaining details.
LEMMA HandlerCrashCalls ==
  ASSUME PipelineInductive, PipelineInductive', CallsInductive, BoundsKept, NEW c \in Change,
         HandlerCrash(c)
  PROVE  CallsInductive'
<1>1. /\ RowsShrink /\ WorkersShrink /\ LookupsShrink /\ LookupsAdvance'
      /\ calls' = calls /\ faults' = faults + 1
  BY TablesStay DEF HandlerCrash, tables, creator
<1>2. SentGrows
  <2>1. sent' = [sent EXCEPT ![c] = Details[c]] /\ sent \in [Change -> Nat]
    BY DEF HandlerCrash, PipelineInductive, PublishersSaved
  <2>2. \A b \in Change : sent[b] <= Details[b] /\ Details[b] \in Nat
    BY SetAssumption DEF PipelineInductive, PublishersSaved
  <2> QED BY <2>1, <2>2 DEF SentGrows
<1> QED BY <1>1, <1>2, CallsShrink

\* A worker that finishes its task and leaves.
LEMMA EndShrinks ==
  ASSUME PipelineInductive, CallsInductive, NEW w \in Worker, at[w] # "idle",
         NEW state, Finish(w, state), Leave(w), ~strayed'
  PROVE  RowsShrink /\ WorkersShrink /\ LookupsShrink /\ CallersStay /\ LookupsAdvance'
<1>1. /\ RowsShrink
      /\ \A r \in RowId : ~(OnRow(w) /\ r = ent[w].task) =>
           rows'[r] = rows[r] /\ hist'[r] = hist[r]
      /\ OnRow(w) => rows'[ent[w].task] = NoTask
  BY FinishShrinks
<1>2. /\ WorkersShrink /\ LookupsShrink /\ LookupsAdvance'
      /\ \A v \in Worker : v # w => at'[v] = at[v] /\ ent'[v] = ent[v]
  BY <1>1, LeaveShrinks
<1>3. CallersStay
  <2> SUFFICES ASSUME NEW r \in RowId, NEW v \in Triggerer, InTable(r)', Calling(v, r)
               PROVE  Calling(v, r)'
    BY DEF CallersStay
  <2>1. v # w
    BY <1>1 DEF Calling, OnRow, InTable, NoTask
  <2> QED BY <1>2, <2>1 DEF Calling, Worker
<1> QED BY <1>1, <1>2, <1>3

LEMMA EndCalls ==
  ASSUME PipelineInductive, PipelineInductive', CallsInductive, BoundsKept, NEW w \in Worker,
         \/ w \in Creator /\ (FinishCreate(w) \/ CreateFails(w))
         \/ HookGone(w) \/ FinishTrigger(w) \/ TriggerFails(w),
         ~strayed'
  PROVE  CallsInductive'
<1>1. /\ at[w] # "idle" /\ Leave(w) /\ sent' = sent /\ calls' = calls
      /\ \E state : Finish(w, state)
      /\ faults' = faults \/ faults' = faults + 1
  BY DEF FinishCreate, CreateFails, HookGone, FinishTrigger, TriggerFails, publisher
<1>2. RowsShrink /\ WorkersShrink /\ LookupsShrink /\ CallersStay /\ LookupsAdvance'
  BY <1>1, EndShrinks
<1>3. SentGrows
  BY <1>1 DEF SentGrows, PipelineInductive, PublishersSaved
<1> QED BY <1>1, <1>2, <1>3, CallsShrink

LEMMA WorkerCrashCalls ==
  ASSUME PipelineInductive, PipelineInductive', CallsInductive, BoundsKept, NEW w \in Worker,
         WorkerCrash(w)
  PROVE  CallsInductive'
<1>1. /\ Leave(w) /\ UNCHANGED <<rows, hist, sent, calls>> /\ faults' = faults + 1
  BY DEF WorkerCrash, tables, publisher
<1>2. RowsShrink /\ SentGrows
  BY <1>1 DEF RowsShrink, InTable, SentGrows, PipelineInductive, PublishersSaved
<1>3. WorkersShrink /\ LookupsShrink /\ LookupsAdvance'
  BY <1>1, <1>2, LeaveShrinks
<1> QED BY <1>1, <1>2, <1>3, CallsShrink

LEMMA TurnCalls ==
  ASSUME PipelineInductive, PipelineInductive', CallsInductive, BoundsKept, NEW w \in Creator,
         PushHooks(w) \/ NextPage(w), ~strayed', ~disordered'
  PROVE  CallsInductive'
<1>1. /\ at[w] \in {"log", "page"} /\ SaveEnt(w, "processing")
      /\ Turn(w, cursor[w].since) /\ todo[w] = {}
      /\ UNCHANGED <<hist, sent, ent, calls, faults>>
  <2>1. CASE PushHooks(w)
    <3>1. cursor[w].since = 0 /\ todo[w] = {}
      BY <2>1 DEF PushHooks, CallsInductive, LookupsAdvance
    <3> QED BY <2>1, <3>1 DEF PushHooks, publisher
  <2>2. CASE NextPage(w)
    BY <2>2 DEF NextPage, PageDone, publisher
  <2> QED BY <2>1, <2>2
<1>2. /\ rows' = rows /\ LookupsShrink /\ LookupsAdvance'
      /\ \A v \in Worker : v # w => at'[v] = at[v]
      /\ at'[w] \in {"log", "page", "finish"}
  BY <1>1, TurnShrinks
<1>3. RowsShrink /\ SentGrows
  BY <1>1, <1>2 DEF RowsShrink, InTable, SentGrows, PipelineInductive, PublishersSaved
<1>4. w \notin Triggerer /\ w \in Worker
  BY SetAssumption DEF Worker
<1>5. WorkersShrink /\ CallersStay
  BY <1>1, <1>2, <1>4 DEF WorkersShrink, CallersStay, OnRow, Calling, CallsInductive,
     RowsApart, Worker
<1> QED BY <1>1, <1>2, <1>3, <1>5, CallsShrink

\* A triggerer goes on with the task it has.
LEMMA GoOn ==
  ASSUME PipelineInductive, CallsInductive, NEW w \in Triggerer,
         NEW label \in {"call", "save", "finish"},
         at[w] # "idle", Goto(w, label), Calling(w, ent[w].task) => label # "call",
         UNCHANGED <<rows, hist, ent, cursor, todo, sent>>
  PROVE  /\ RowsShrink /\ WorkersShrink /\ LookupsShrink /\ CallersStay
         /\ LookupsAdvance' /\ SentGrows
<1>0. w \in Worker /\ w \notin Creator
  BY SetAssumption DEF Worker
<1>1. at'[w] = label /\ \A v \in Worker : v # w => at'[v] = at[v]
  BY <1>0 DEF Goto, PipelineInductive, EntitiesOwn
<1>2. RowsShrink /\ SentGrows
  BY DEF RowsShrink, InTable, SentGrows, PipelineInductive, PublishersSaved
<1>3. \A v \in Worker : OnRow(v)' => OnRow(v)
  BY <1>0, <1>1 DEF OnRow, Worker
<1>4. WorkersShrink
  BY <1>3 DEF WorkersShrink, CallsInductive, RowsApart
<1>5. \A v \in Creator : at'[v] = at[v]
  BY <1>0, <1>1 DEF Worker
<1>6. LookupsShrink /\ LookupsAdvance'
  BY <1>5 DEF LookupsShrink, Paging, ToCome, Ahead, InTable, CallsInductive,
              LookupsAdvance
<1>7. CallersStay
  <2> SUFFICES ASSUME NEW r \in RowId, NEW v \in Triggerer, Calling(v, r)
               PROVE  Calling(v, r)'
    BY DEF CallersStay
  <2>1. CASE v # w
    BY <1>1, <2>1 DEF Calling, Worker
  <2>2. CASE v = w
    BY <1>1, <2>2 DEF Calling
  <2> QED BY <2>1, <2>2
<1> QED BY <1>2, <1>4, <1>6, <1>7

LEMMA GoOnCalls ==
  ASSUME PipelineInductive, PipelineInductive', CallsInductive, BoundsKept, NEW w \in Triggerer,
         FindHook(w) \/ SaveHook(w)
  PROVE  CallsInductive'
<1>1. /\ at[w] # "idle" /\ UNCHANGED <<rows, hist, ent, cursor, todo, sent, calls, faults>>
      /\ (Goto(w, "call") /\ at[w] = "start") \/ Goto(w, "finish")
  BY DEF FindHook, SaveHook, tables, publisher, creator
<1>2. /\ RowsShrink /\ WorkersShrink /\ LookupsShrink /\ CallersStay
      /\ LookupsAdvance' /\ SentGrows
  <2>1. CASE Goto(w, "call") /\ at[w] = "start"
    BY <1>1, <2>1, GoOn DEF Calling
  <2>2. CASE Goto(w, "finish")
    BY <1>1, <2>2, GoOn
  <2> QED BY <1>1, <2>1, <2>2
<1> QED BY <1>1, <1>2, CallsShrink

\* A row goes back to waiting only if nobody works on it.
LEMMA TimeoutRetryCalls ==
  ASSUME PipelineInductive, PipelineInductive', CallsInductive, BoundsKept, NEW r \in RowId,
         TimeoutRetry(r)
  PROVE  CallsInductive'
<1>0. rows[r].task = r /\ InTable(r) /\ rows \in [RowId -> {NoTask} \cup RowData]
  BY DEF TimeoutRetry, PipelineInductive, RowsOwn
<1>1. /\ rows' = [rows EXCEPT ![r].state = "waiting"]
      /\ \A w \in Worker : at[w] # "idle" => ent[w].task # r
      /\ UNCHANGED <<hist, at, ent, cursor, todo, sent, calls, faults>>
  BY <1>0 DEF TimeoutRetry, InHand, publisher, creator
<1>2. /\ \A s \in RowId : s # r => rows'[s] = rows[s]
      /\ rows[r] \in RowData
      /\ rows'[r] = [rows[r] EXCEPT !.state = "waiting"]
  BY <1>0, <1>1 DEF InTable, NoTask
<1>3. RowsShrink
  BY <1>0, <1>1, <1>2 DEF RowsShrink, InTable, RowData
<1>4. WorkersShrink
  <2> SUFFICES ASSUME NEW w \in Worker, OnRow(w)
               PROVE  rows'[ent[w].task].state = "processing"
    BY <1>1 DEF WorkersShrink, OnRow
  <2>1. ent[w].task # r /\ ent[w].task \in RowId /\ rows[ent[w].task].state = "processing"
    BY <1>1 DEF OnRow, CallsInductive, RowsApart, InTable
  <2> QED BY <1>2, <2>1
<1>5. LookupsShrink /\ CallersStay /\ SentGrows
  BY <1>1 DEF LookupsShrink, Paging, ToCome, Ahead, CallersStay, Calling, SentGrows,
              PipelineInductive, PublishersSaved
<1>6. LookupsAdvance'
  <2>1. \A w \in Creator : InTable(ent[w].task)' => InTable(ent[w].task)
    BY <1>1, <1>3 DEF RowsShrink, InTable
  <2> QED BY <1>1, <2>1 DEF Paging, Ahead, CallsInductive, LookupsAdvance
<1> QED BY <1>1, <1>3, <1>4, <1>5, <1>6, CallsShrink

\* A task taken up was waiting: nobody else works on it.
LEMMA TakeCalls ==
  ASSUME PipelineInductive, PipelineInductive', CallsInductive, BoundsKept, NEW w \in Worker, Take(w)
  PROVE  CallsInductive'
<1>0. at[w] = "idle" /\ UNCHANGED <<hist, cursor, todo, sent, calls, faults>>
  BY DEF Take, publisher, creator
<1>1. CASE UNCHANGED <<rows, at, ent>>
  BY <1>0, <1>1, StayCalls
<1>2. CASE \E task : \E r \in RowsOf(task) :
             /\ rows[r].state = "waiting"
             /\ rows' = [rows EXCEPT ![r].state = "processing"]
             /\ ent' = [ent EXCEPT ![w] = [id |-> r, task |-> task, job |-> rows[r].job]]
             /\ Goto(w, "start")
  <2>1. PICK r \in RowId :
          /\ InTable(r) /\ rows[r].state = "waiting"
          /\ rows' = [rows EXCEPT ![r].state = "processing"]
          /\ ent' = [ent EXCEPT ![w] = [id |-> r, task |-> r, job |-> rows[r].job]]
          /\ at' = [at EXCEPT ![w] = "start"]
    BY <1>2 DEF RowsOf, Goto, PipelineInductive, RowsOwn
  <2>2. /\ \A s \in RowId : s # r => rows'[s] = rows[s]
        /\ rows[r] \in RowData
        /\ rows'[r] = [rows[r] EXCEPT !.state = "processing"]
    BY <2>1 DEF InTable, NoTask, PipelineInductive, RowsOwn
  <2>3. /\ \A v \in Worker : v # w => at'[v] = at[v] /\ ent'[v] = ent[v]
        /\ at'[w] = "start"
        /\ ent'[w] = [id |-> r, task |-> r, job |-> rows[r].job]
    BY <2>1 DEF PipelineInductive, EntitiesOwn
  <2>4. RowsShrink
    BY <1>0, <2>1, <2>2 DEF RowsShrink, InTable, RowData
  <2>5. SentGrows
    BY <1>0 DEF SentGrows, PipelineInductive, PublishersSaved
  <2>6. ~Paging(w) /\ ~Paging(w)'
    BY <1>0, <2>3 DEF Paging
  <2>7. LookupsShrink /\ LookupsAdvance'
    <3>1. LookupsShrink
      BY <1>0, <2>3, <2>6 DEF LookupsShrink, Paging, ToCome, Ahead, Worker
    <3>2. ASSUME NEW v \in Creator
          PROVE  /\ ~Paging(v)' => todo'[v] = {}
                 /\ Paging(v)' => ~InTable(ent[v].task)'
                 /\ at'[v] = "log" => cursor'[v].since = 0 /\ todo'[v] = {}
                 /\ \A h \in todo'[v] : ~Ahead(v, h)'
      <4>1. PICK x : x = ent[v].task
        OBVIOUS
      <4>2. Paging(v)' => Paging(v) /\ ent'[v].task = x /\ ~InTable(x)
        BY <2>3, <2>6, <4>1 DEF Paging, Worker, CallsInductive, LookupsAdvance
      <4>3. Paging(v)' => ~InTable(ent[v].task)'
        BY <2>4, <4>2 DEF RowsShrink, InTable
      <4> QED
        BY <1>0, <2>3, <2>6, <4>3 DEF Paging, Ahead, Worker, CallsInductive, LookupsAdvance
    <3> QED BY <1>0, <3>1, <3>2 DEF CallsInductive, LookupsAdvance
  <2>8. CallersStay
    BY <1>0, <2>3 DEF CallersStay, Calling, Worker
  <2>9. RowsApart'
    <3>1. ASSUME NEW s \in RowId, InTable(s)'
          PROVE  /\ hist'[s] = "absent"
                 /\ \A q \in RowId : InTable(q)' /\ BizId(rows'[q].job) = BizId(rows'[s].job)
                      => q = s
      BY <2>4, <3>1 DEF RowsShrink, CallsInductive, RowsApart
    <3>2. \A v \in Worker : v # w /\ OnRow(v)' => ent'[v].task # r
      BY <2>1, <2>3 DEF OnRow, CallsInductive, RowsApart
    <3>3. ASSUME NEW v \in Worker, OnRow(v)'
          PROVE  /\ ent'[v].task \in RowId /\ rows'[ent'[v].task].state # "absent"
                 /\ ent'[v].id = ent'[v].task
                 /\ rows'[ent'[v].task].state = "processing"
                 /\ rows'[ent'[v].task].job = ent'[v].job
                 /\ \A u \in Worker : OnRow(u)' /\ ent'[u].task = ent'[v].task => u = v
      <4>1. CASE v = w
        BY <2>1, <2>2, <2>3, <3>2, <4>1 DEF RowData
      <4>2. CASE v # w
        <5>1. OnRow(v) /\ ent'[v] = ent[v] /\ ent[v].task # r
          BY <2>3, <3>2, <3>3, <4>2 DEF OnRow
        <5>2. ent[v].task \in RowId /\ rows'[ent[v].task] = rows[ent[v].task]
          BY <2>2, <5>1 DEF CallsInductive, RowsApart, InTable
        <5>3. \A u \in Worker : OnRow(u)' /\ ent'[u].task = ent'[v].task => u = v
          BY <2>3, <5>1 DEF OnRow, CallsInductive, RowsApart
        <5> QED BY <5>1, <5>2, <5>3 DEF CallsInductive, RowsApart, InTable
      <4> QED BY <4>1, <4>2
    <3> QED BY <3>1, <3>3 DEF RowsApart, InTable
  <2>10. CreateShrinks
    BY <2>4, <2>5, <2>7, MayCreateShrinks
  <2>11. CreatedOnce'
    BY <2>4, <2>5, <2>7, <2>10, OnceKept DEF LookupsShrink
  <2>12. CallsCounted'
    BY <1>0, <2>4, <2>8, <2>10, CountedKept DEF BoundsKept
  <2> QED BY <2>7, <2>9, <2>11, <2>12 DEF CallsInductive
<1> QED BY <1>1, <1>2 DEF Take

\* The worker's task leaves the table; what it may create, the worker still may.
LEMMA StartCreateCalls ==
  ASSUME PipelineInductive, PipelineInductive', CallsInductive, BoundsKept, NEW w \in Creator,
         StartCreate(w), ~strayed'
  PROVE  CallsInductive'
<1>0. /\ w \in Worker /\ w \notin Triggerer /\ at[w] = "start" /\ OnRow(w) /\ ~Paging(w)
      /\ UNCHANGED <<sent, todo, calls, faults>>
  BY SetAssumption DEF StartCreate, Worker, OnRow, Paging, publisher
<1>1. PICK t \in RowId : /\ ent[w].task = t /\ ent[w].id = t /\ InTable(t)
                         /\ rows[t].job = ent[w].job /\ hist[t] = "absent"
  BY <1>0 DEF CallsInductive, RowsApart, InTable
<1>2. /\ RowsShrink /\ rows'[t] = NoTask
      /\ \A r \in RowId : r # t => rows'[r] = rows[r]
  BY <1>0, <1>1, FinishShrinks DEF StartCreate
<1>3. /\ \A v \in Worker : v # w => at'[v] = at[v] /\ ent'[v] = ent[v]
      /\ at'[w] = "log" /\ ent'[w].job = ent[w].job /\ ent'[w].task = ent[w].task
  BY <1>0, <1>1 DEF StartCreate, Goto, PipelineInductive, EntitiesOwn
<1>4. cursor' = [cursor EXCEPT ![w] = [query |-> 1, since |-> 0]]
  BY DEF StartCreate
<1>5. SentGrows
  BY <1>0 DEF SentGrows, PipelineInductive, PublishersSaved
<1>6. WorkersShrink
  <2> SUFFICES ASSUME NEW v \in Worker, OnRow(v)'
               PROVE  OnRow(v) /\ ent'[v] = ent[v]
                      /\ rows'[ent[v].task].state = "processing"
    BY DEF WorkersShrink
  <2>1. v # w
    BY <1>0, <1>3 DEF OnRow
  <2>2. OnRow(v) /\ ent'[v] = ent[v]
    BY <1>3, <2>1 DEF OnRow
  <2>3. ent[v].task # t /\ ent[v].task \in RowId /\ rows[ent[v].task].state = "processing"
    BY <1>0, <1>1, <2>1, <2>2 DEF CallsInductive, RowsApart, InTable
  <2> QED BY <1>2, <2>2, <2>3
<1>7. RowsApart'
  BY <1>2, <1>6, ApartKept
<1>8. \A v \in Creator : Paging(v)' /\ v # w =>
        /\ Paging(v) /\ ent'[v] = ent[v]
        /\ \A h \in HookId : ToCome(v, h)' => ToCome(v, h)
  BY <1>0, <1>3, <1>4 DEF Paging, ToCome, Ahead, Worker, CallsInductive, LookupsAdvance
<1>9. LookupsAdvance'
  <2>1. cursor' \in [Creator -> [query : Nat, since : Nat]]
    BY <1>4 DEF CallsInductive, LookupsAdvance
  <2>2. ASSUME NEW v \in Creator
        PROVE  /\ ~Paging(v)' => todo'[v] = {}
               /\ Paging(v)' => ~InTable(ent[v].task)'
               /\ at'[v] = "log" => cursor'[v].since = 0 /\ todo'[v] = {}
               /\ \A h \in todo'[v] : ~Ahead(v, h)'
    <3>1. CASE v # w
      <4>1. PICK x : x = ent[v].task
        OBVIOUS
      <4>2. Paging(v)' => Paging(v) /\ ~InTable(x)
        BY <1>8, <3>1, <4>1 DEF CallsInductive, LookupsAdvance
      <4>3. Paging(v)' => ~InTable(x)'
        BY <1>2, <4>2 DEF RowsShrink, InTable
      <4>4. ent'[v].task = x
        BY <1>3, <3>1, <4>1 DEF Worker
      <4>5. Paging(v)' => ~InTable(ent[v].task)'
        BY <4>3, <4>4 DEF InTable
      <4> QED
        BY <1>0, <1>3, <1>4, <3>1, <4>5 DEF Paging, Ahead, Worker, CallsInductive, LookupsAdvance
    <3>2. CASE v = w
      <4>1. todo'[w] = {} /\ cursor'[w].since = 0
        BY <1>0, <1>4 DEF CallsInductive, LookupsAdvance
      <4>2. ent'[w].task = t /\ ~InTable(t)'
        BY <1>1, <1>2, <1>3 DEF InTable, NoTask
      <4>3. ~InTable(ent[w].task)'
        BY <4>2 DEF InTable
      <4> QED BY <1>3, <3>2, <4>1, <4>3
    <3> QED BY <3>1, <3>2
  <2> QED BY <2>1, <2>2 DEF LookupsAdvance
<1>10. CreateShrinks
  <2> SUFFICES ASSUME NEW c \in Change, NEW d \in Nat, NEW h \in HookId,
                      MayCreate(c, d, h)'
               PROVE  MayCreate(c, d, h)
    BY DEF CreateShrinks
  <2>1. CASE d > sent'[c]
    BY <1>0, <2>1 DEF MayCreate
  <2>2. ASSUME NEW r \in RowId, InTable(r)', rows'[r].job = Job(c, d, 0)
        PROVE  MayCreate(c, d, h)
    BY <1>2, <2>2 DEF RowsShrink, MayCreate
  <2>3. ASSUME NEW v \in Creator, Paging(v)', ent'[v].job = Job(c, d, 0), ToCome(v, h)'
        PROVE  MayCreate(c, d, h)
    <3>1. CASE v = w
      BY <1>1, <1>3, <2>3, <3>1 DEF MayCreate
    <3>2. CASE v # w
      BY <1>8, <2>3, <3>2 DEF MayCreate
    <3> QED BY <3>1, <3>2
  <2> QED BY <2>1, <2>2, <2>3 DEF MayCreate
<1>11. CreatedOnce'
  <2>1. ASSUME NEW r \in RowId, InTable(r)'
        PROVE  rows'[r].job.detail \in 1 .. sent'[rows'[r].job.change]
    BY <1>0, <1>2, <2>1 DEF RowsShrink, CallsInductive, CreatedOnce
  <2>2. ASSUME NEW c \in Change, NEW d \in 1 .. Details[c], NEW h \in HookId,
               NEW r \in RowId, InTable(r)', rows'[r].job = Job(c, d, h)
        PROVE  ~MayCreate(c, d, h)'
    <3>1. InTable(r) /\ rows[r].job = Job(c, d, h) /\ d \in Nat
      BY <1>2, <2>2, SetAssumption DEF RowsShrink
    <3>2. ~MayCreate(c, d, h)
      BY <3>1 DEF CallsInductive, CreatedOnce
    <3> QED BY <1>10, <3>1, <3>2 DEF CreateShrinks
  <2>3. ASSUME NEW v \in Creator, Paging(v)'
        PROVE  /\ ent'[v].job.detail \in 1 .. sent'[ent'[v].job.change]
               /\ \A r \in RowId : InTable(r)' => rows'[r].job # ent'[v].job
               /\ \A u \in Creator : Paging(u)' /\ ent'[u].job = ent'[v].job => u = v
    <3>1. \A u \in Creator : Paging(u)' /\ u # w => ent'[u].job # ent[w].job
      BY <1>1, <1>8 DEF CallsInductive, CreatedOnce
    <3>2. CASE v = w
      <4>1. ent[w].job.detail \in 1 .. sent[ent[w].job.change]
        BY <1>1 DEF CallsInductive, CreatedOnce
      <4>2. \A r \in RowId : InTable(r)' => rows'[r].job # ent[w].job
        BY <1>1, <1>2 DEF RowsShrink, InTable, NoTask, CallsInductive, RowsApart
      <4> QED BY <1>0, <1>3, <3>1, <3>2, <4>1, <4>2
    <3>3. CASE v # w
      <4>1. Paging(v) /\ ent'[v] = ent[v]
        BY <1>8, <2>3, <3>3
      <4>2. \A r \in RowId : InTable(r)' => rows'[r].job # ent'[v].job
        BY <1>2, <4>1 DEF RowsShrink, CallsInductive, CreatedOnce
      <4>3. \A u \in Creator : Paging(u)' /\ ent'[u].job = ent'[v].job => u = v
        BY <1>3, <1>8, <2>3, <3>1, <3>3, <4>1 DEF CallsInductive, CreatedOnce
      <4> QED BY <1>0, <4>1, <4>2, <4>3 DEF CallsInductive, CreatedOnce
    <3> QED BY <3>2, <3>3
  <2> QED BY <1>0, <2>1, <2>2, <2>3 DEF CallsInductive, CreatedOnce
<1>12. CallersStay
  BY <1>0, <1>3 DEF CallersStay, Calling, Worker
<1>13. CallsCounted'
  BY <1>0, <1>2, <1>10, <1>12, CountedKept DEF BoundsKept
<1> QED BY <1>7, <1>9, <1>11, <1>13 DEF CallsInductive

\* A call is one more, but the last without another fault.
LEMMA CallCounts ==
  ASSUME PipelineInductive, CallsInductive, BoundsKept, NEW w \in Triggerer,
         at[w] = "call",
         calls' = [calls EXCEPT ![<<Event(w), HookOf(w)>>] = @ + 1],
         faults' = faults, RowsShrink, CreateShrinks, CallersStay,
         NEW t \in RowId, t = ent[w].task,
         InTable(t)' => Calling(w, t)'
  PROVE  CallsCounted'
<1>0. /\ InTable(t) /\ rows[t].job = ent[w].job /\ w \in Worker
      /\ \A v \in Worker : OnRow(v) /\ ent[v].task = t => v = w
  BY DEF CallsInductive, RowsApart, OnRow, Worker
<1>1. ent[w].job \in JobData /\ ent[w].job.hook # 0
  <2>1. ent[w].job \in JobData /\ Type(ent[w].job) = "trigger_hook"
    BY <1>0, JobsTyped, SetAssumption DEF Serves
  <2> QED BY <2>1 DEF Type
<1>2. PICK c \in Change, d \in Nat, h \in HookId : ent[w].job = Job(c, d, h)
  BY <1>1, NumberAssumption DEF JobData, Job, HookId
<1>3. d \in 1 .. Details[c]
  BY <1>1, <1>2 DEF JobData, Job
<1>4. <<c, d>> \in Events /\ Event(w) = <<c, d>> /\ HookOf(w) = h
  BY <1>2, <1>3 DEF Events, Event, HookOf, Job
<1>5. calls \in [Events \X HookId -> Nat] /\ faults \in Nat
  BY DEF BoundsKept, CallsInductive, CallsCounted
<1>6. /\ calls' \in [Events \X HookId -> Nat]
      /\ calls'[<<<<c, d>>, h>>] = calls[<<<<c, d>>, h>>] + 1
      /\ \A k \in Events \X HookId : k # <<<<c, d>>, h>> => calls'[k] = calls[k]
  BY <1>4, <1>5
<1>7. calls[<<<<c, d>>, h>>] <= faults
  <2>1. \A v \in Triggerer : ~Calling(v, t)
    BY <1>0 DEF Calling, OnRow, Worker
  <2>2. MayCall(c, d, h)
    BY <1>0, <1>2, <2>1 DEF MayCall
  <2> QED BY <1>3, <2>2 DEF CallsInductive, CallsCounted
<1>8. ~MayCall(c, d, h)'
  <2>1. ~MayCreate(c, d, h)
    BY <1>0, <1>2, <1>3 DEF CallsInductive, CreatedOnce
  <2>2. ~MayCreate(c, d, h)'
    BY <2>1 DEF CreateShrinks
  <2>3. ASSUME NEW r \in RowId, InTable(r)', rows'[r].job = Job(c, d, h)
        PROVE  \E v \in Triggerer : Calling(v, r)'
    <3>1. InTable(r) /\ rows[r].job = Job(c, d, h)
      BY <2>3 DEF RowsShrink
    <3>2. r = t
      BY <1>0, <1>2, <3>1 DEF CallsInductive, RowsApart
    <3> QED BY <2>3, <3>2
  <2> QED BY <2>2, <2>3 DEF MayCall
<1>9. ASSUME NEW b \in Change, NEW e \in 1 .. Details[b], NEW g \in HookId
      PROVE  /\ calls'[<<<<b, e>>, g>>] <= 1 + faults'
             /\ MayCall(b, e, g)' => calls'[<<<<b, e>>, g>>] <= faults'
  <2>1. CASE b = c /\ e = d /\ g = h
    BY <1>3, <1>4, <1>5, <1>6, <1>7, <1>8, <2>1
  <2>2. CASE ~(b = c /\ e = d /\ g = h)
    <3>1. <<<<b, e>>, g>> \in Events \X HookId /\ e \in Nat
      BY SetAssumption DEF Events
    <3>2. calls'[<<<<b, e>>, g>>] = calls[<<<<b, e>>, g>>]
      BY <1>6, <2>2, <3>1
    <3>3. MayCall(b, e, g)' => MayCall(b, e, g)
      <4>1. MayCreate(b, e, g)' => MayCreate(b, e, g)
        BY <3>1 DEF CreateShrinks
      <4>2. ASSUME NEW r \in RowId, InTable(r)', rows'[r].job = Job(b, e, g),
                   \A v \in Triggerer : ~Calling(v, r)'
            PROVE  MayCall(b, e, g)
        BY <4>2 DEF RowsShrink, CallersStay, MayCall
      <4> QED BY <4>1, <4>2 DEF MayCall
    <3> QED BY <3>2, <3>3 DEF CallsInductive, CallsCounted
  <2> QED BY <2>1, <2>2
<1> QED BY <1>5, <1>6, <1>9 DEF CallsCounted

LEMMA CallCalls ==
  ASSUME PipelineInductive, PipelineInductive', CallsInductive, BoundsKept, NEW w \in Triggerer, Call(w)
  PROVE  CallsInductive'
<1>1. /\ at[w] = "call" /\ Goto(w, "save")
      /\ UNCHANGED <<rows, hist, ent, cursor, todo, sent, faults>>
      /\ calls' = [calls EXCEPT ![<<Event(w), HookOf(w)>>] = @ + 1]
  BY DEF Call, tables, publisher, creator
<1>2. /\ RowsShrink /\ WorkersShrink /\ LookupsShrink /\ CallersStay
      /\ LookupsAdvance' /\ SentGrows
  BY <1>1, GoOn
<1>3. CreateShrinks
  BY <1>2, MayCreateShrinks
<1>4. RowsApart' /\ CreatedOnce'
  BY <1>2, <1>3, ApartKept, OnceKept DEF LookupsShrink
<1>5. CallsCounted'
  <2>1. PICK t \in RowId : t = ent[w].task
    BY <1>1, JobsTyped DEF Worker
  <2>2. Calling(w, t)'
    BY <1>1, <2>1 DEF Calling, Goto, PipelineInductive, EntitiesOwn, Worker
  <2> QED BY <1>1, <1>2, <1>3, <2>1, <2>2, CallCounts
<1> QED BY <1>2, <1>4, <1>5 DEF CallsInductive

LEMMA CallRefusedCalls ==
  ASSUME PipelineInductive, PipelineInductive', CallsInductive, BoundsKept, NEW w \in Triggerer,
         CallRefused(w), ~strayed'
  PROVE  CallsInductive'
<1>1. /\ at[w] = "call" /\ Finish(w, "fail") /\ Leave(w) /\ w \in Worker
      /\ UNCHANGED <<sent, faults>>
      /\ calls' = [calls EXCEPT ![<<Event(w), HookOf(w)>>] = @ + 1]
  BY DEF CallRefused, publisher, Worker
<1>2. /\ RowsShrink /\ WorkersShrink /\ LookupsShrink /\ CallersStay
      /\ LookupsAdvance' /\ SentGrows
  BY <1>1, EndShrinks DEF SentGrows, PipelineInductive, PublishersSaved
<1>3. CreateShrinks
  BY <1>2, MayCreateShrinks
<1>4. RowsApart' /\ CreatedOnce'
  BY <1>2, <1>3, ApartKept, OnceKept DEF LookupsShrink
<1>5. CallsCounted'
  <2>1. PICK t \in RowId : t = ent[w].task
    BY <1>1, JobsTyped
  <2>2. rows'[t] = NoTask
    BY <1>1, <2>1, FinishShrinks DEF OnRow
  <2>3. ~InTable(t)'
    BY <2>2 DEF InTable, NoTask
  <2> QED BY <1>1, <1>2, <1>3, <2>1, <2>3, CallCounts
<1> QED BY <1>2, <1>4, <1>5 DEF CallsInductive

\* Row n is new, and there is none of its bizId.
RowAdded(n, job) ==
  /\ n \in RowId /\ ~InTable(n) /\ hist[n] = "absent" /\ hist' = hist
  /\ rows'[n] = TaskRow(n, job, "waiting")
  /\ \A r \in RowId : r # n => rows'[r] = rows[r]
  /\ \A r \in RowId : InTable(r) => BizId(rows[r].job) # BizId(job)

LEMMA SaveNewAdds ==
  ASSUME PipelineInductive, NEW job, NEW task, SaveNew(job, task), hist' = hist
  PROVE  rows' = rows \/ \E n \in RowId : RowAdded(n, job)
<1>1. CASE SameBizId(job) = {}
  <2>1. PICK n \in RowId : n = nextRow
    BY <1>1 DEF SaveNew
  <2>2. rows' = [rows EXCEPT ![n] = TaskRow(n, job, "waiting")]
        /\ rows \in [RowId -> {NoTask} \cup RowData]
    BY <1>1, <2>1 DEF SaveNew, PipelineInductive, RowsOwn
  <2>3. ~InTable(n) /\ hist[n] = "absent"
    BY <2>1 DEF PipelineInductive, RowsOwn
  <2>4. \A r \in RowId : InTable(r) => BizId(rows[r].job) # BizId(job)
    BY <1>1 DEF SameBizId, InTable
  <2> QED BY <2>2, <2>3, <2>4 DEF RowAdded
<1>2. CASE SameBizId(job) # {}
  BY <1>2 DEF SaveNew
<1> QED BY <1>1, <1>2

LEMMA AddedApart ==
  ASSUME CallsInductive, NEW n, NEW job, RowAdded(n, job), UNCHANGED <<at, ent>>
  PROVE  /\ RowsApart'
         /\ \A r \in RowId : InTable(r)' => r = n \/ InTable(r)
         /\ rows'[n].job = job
<1>1. rows'[n].job = job /\ rows'[n].state = "waiting"
  BY DEF RowAdded, TaskRow
<1>2. \A r \in RowId : InTable(r)' => r = n \/ InTable(r)
  BY DEF RowAdded, InTable
<1>3. ASSUME NEW r \in RowId, InTable(r)'
      PROVE  /\ hist'[r] = "absent"
             /\ \A s \in RowId : InTable(s)' /\ BizId(rows'[s].job) = BizId(rows'[r].job)
                  => s = r
  BY <1>1, <1>2, <1>3 DEF RowAdded, CallsInductive, RowsApart
<1>4. ASSUME NEW v \in Worker, OnRow(v)'
      PROVE  /\ ent'[v].task \in RowId /\ rows'[ent'[v].task].state # "absent"
             /\ ent'[v].id = ent'[v].task
             /\ rows'[ent'[v].task].state = "processing"
             /\ rows'[ent'[v].task].job = ent'[v].job
             /\ \A u \in Worker : OnRow(u)' /\ ent'[u].task = ent'[v].task => u = v
  <2>1. OnRow(v) /\ \A u \in Worker : OnRow(u)' => OnRow(u)
    BY <1>4 DEF OnRow
  <2>2. InTable(ent[v].task) /\ ent[v].task # n
    BY <2>1 DEF CallsInductive, RowsApart, RowAdded
  <2>3. rows'[ent[v].task] = rows[ent[v].task] /\ ent[v].task \in RowId
    BY <2>2 DEF RowAdded, InTable
  <2> QED BY <2>1, <2>2, <2>3 DEF CallsInductive, RowsApart, InTable
<1> QED BY <1>1, <1>2, <1>3, <1>4 DEF RowsApart, InTable

\* It is not the row of a task that was finished.
LEMMA AddedElsewhere ==
  ASSUME PipelineInductive, CallsInductive, NEW n, NEW job, RowAdded(n, job),
         UNCHANGED <<at, ent>>
  PROVE  \A w \in Creator : Paging(w) => ~InTable(ent[w].task)'
<1> SUFFICES ASSUME NEW w \in Creator, Paging(w) PROVE ~InTable(ent[w].task)'
  OBVIOUS
<1>1. PICK t : t = ent[w].task
  OBVIOUS
<1>2. ~InTable(t) /\ hist[t] # "absent"
  <2>1. Saved(t, Serves(w)) /\ ~InTable(t)
    BY <1>1 DEF Paging, Worker, PipelineInductive, EntitiesOwn, CallsInductive,
                LookupsAdvance
  <2> QED BY <2>1 DEF Saved
<1>3. ~InTable(t)'
  BY <1>2 DEF RowAdded, InTable
<1> QED BY <1>1, <1>3 DEF InTable

LEMMA SaveCreateHookCalls ==
  ASSUME PipelineInductive, PipelineInductive', CallsInductive, BoundsKept, NEW c \in Change,
         SaveCreateHook(c)
  PROVE  CallsInductive'
<1>0. /\ sent[c] < Details[c] /\ sent' = [sent EXCEPT ![c] = @ + 1]
      /\ UNCHANGED <<hist, at, ent, cursor, todo, calls, faults>>
  BY DEF SaveCreateHook, creator
<1>1. sent \in [Change -> Nat] /\ Details[c] \in Nat
      /\ \A b \in Change : sent[b] <= Details[b]
  BY SetAssumption DEF PipelineInductive, PublishersSaved
<1>2. SentGrows
  BY <1>0, <1>1 DEF SentGrows
<1> DEFINE n0  == sent[c] + 1
           job == Job(c, n0, 0)
<1>3. PICK task : SaveNew(job, task)
  BY DEF SaveCreateHook
<1>4. CASE rows' = rows
  <2>1. /\ RowsShrink /\ WorkersShrink /\ LookupsShrink /\ CallersStay
        /\ LookupsAdvance'
    BY <1>0, <1>4, TablesStay
  <2> QED BY <1>0, <1>2, <2>1, CallsShrink
<1>5. CASE \E n \in RowId : RowAdded(n, job)
  <2>1. PICK n \in RowId : RowAdded(n, job)
    BY <1>5
  <2>2. /\ RowsApart' /\ rows'[n].job = job
        /\ \A r \in RowId : InTable(r)' => r = n \/ InTable(r)
        /\ \A r \in RowId : r # n => rows'[r] = rows[r]
    BY <1>0, <2>1, AddedApart DEF RowAdded
  <2>3. LookupsAdvance'
    BY <1>0, <2>1, AddedElsewhere DEF LookupsAdvance, Paging, Ahead, CallsInductive
  <2>4. \A w \in Creator : Paging(w)' <=> Paging(w)
    BY <1>0 DEF Paging
  <2>5. CreateShrinks
    <3> SUFFICES ASSUME NEW b \in Change, NEW d \in Nat, NEW h \in HookId,
                        MayCreate(b, d, h)'
                 PROVE  MayCreate(b, d, h)
      BY DEF CreateShrinks
    <3>1. CASE d > sent'[b]
      BY <1>0, <1>1, <3>1 DEF MayCreate
    <3>2. ASSUME NEW r \in RowId, InTable(r)', rows'[r].job = Job(b, d, 0)
          PROVE  MayCreate(b, d, h)
      <4>1. CASE r = n
        <5>1. b = c /\ d = n0
          BY <2>2, <3>2, <4>1 DEF Job
        <5> QED BY <1>1, <5>1 DEF MayCreate
      <4>2. CASE r # n
        BY <2>2, <3>2, <4>2 DEF MayCreate
      <4> QED BY <4>1, <4>2
    <3>3. ASSUME NEW w \in Creator, Paging(w)', ent'[w].job = Job(b, d, 0), ToCome(w, h)'
          PROVE  MayCreate(b, d, h)
      BY <1>0, <3>3 DEF Paging, ToCome, Ahead, MayCreate
    <3> QED BY <3>1, <3>2, <3>3 DEF MayCreate
  <2>6. CreatedOnce'
    <3>1. ASSUME NEW r \in RowId, InTable(r)'
          PROVE  rows'[r].job.detail \in 1 .. sent'[rows'[r].job.change]
      <4>1. CASE r = n
        BY <1>0, <1>1, <2>2, <4>1 DEF Job
      <4>2. CASE r # n
        <5>1. rows[r].job \in JobData /\ rows'[r] = rows[r]
              /\ rows[r].job.detail \in 1 .. sent[rows[r].job.change]
          BY <2>2, <3>1, <4>2, JobsTyped DEF CallsInductive, CreatedOnce
        <5> QED BY <1>0, <1>1, <1>2, <5>1 DEF JobData, SentGrows
      <4> QED BY <4>1, <4>2
    <3>2. ASSUME NEW b \in Change, NEW d \in 1 .. Details[b], NEW h \in HookId,
                 NEW r \in RowId, InTable(r)', rows'[r].job = Job(b, d, h)
          PROVE  ~MayCreate(b, d, h)'
      <4>1. r # n
        BY <2>2, <3>2, NumberAssumption DEF Job, HookId
      <4>2. InTable(r) /\ rows[r].job = Job(b, d, h) /\ d \in Nat
        BY <2>2, <3>2, <4>1, SetAssumption
      <4>3. ~MayCreate(b, d, h)
        BY <4>2 DEF CallsInductive, CreatedOnce
      <4> QED BY <2>5, <4>2, <4>3 DEF CreateShrinks
    <3>3. ASSUME NEW w \in Creator, Paging(w)'
          PROVE  /\ ent'[w].job.detail \in 1 .. sent'[ent'[w].job.change]
                 /\ \A r \in RowId : InTable(r)' => rows'[r].job # ent'[w].job
                 /\ \A v \in Creator : Paging(v)' /\ ent'[v].job = ent'[w].job => v = w
      <4>1. Paging(w) /\ ent' = ent /\ ent[w].job \in JobData
            /\ ent[w].job.detail \in 1 .. sent[ent[w].job.change]
        BY <1>0, <2>4, <3>3, JobsTyped DEF CallsInductive, CreatedOnce, Paging, Worker
      <4>2. ent[w].job # job
        BY <1>1, <4>1 DEF Job
      <4>3. \A r \in RowId : InTable(r)' => rows'[r].job # ent[w].job
        BY <2>2, <4>1, <4>2 DEF CallsInductive, CreatedOnce
      <4>4. ent[w].job.detail \in 1 .. sent'[ent[w].job.change]
        BY <1>0, <1>1, <4>1 DEF JobData
      <4> QED BY <2>4, <4>1, <4>3, <4>4 DEF CallsInductive, CreatedOnce
    <3> QED BY <1>2, <3>1, <3>2, <3>3 DEF SentGrows, CreatedOnce
  <2>7. CallsCounted'
    <3>1. ASSUME NEW b \in Change, NEW e \in 1 .. Details[b], NEW g \in HookId,
                 MayCall(b, e, g)'
          PROVE  MayCall(b, e, g)
      <4>1. MayCreate(b, e, g)' => MayCreate(b, e, g)
        BY <2>5, SetAssumption DEF CreateShrinks
      <4>2. ASSUME NEW r \in RowId, InTable(r)', rows'[r].job = Job(b, e, g),
                   \A v \in Triggerer : ~Calling(v, r)'
            PROVE  MayCall(b, e, g)
        <5>1. r # n
          BY <2>2, <4>2, NumberAssumption DEF Job, HookId
        <5> QED BY <1>0, <2>2, <4>2, <5>1 DEF Calling, MayCall
      <4> QED BY <3>1, <4>1, <4>2 DEF MayCall
    <3> QED BY <1>0, <3>1 DEF CallsInductive, CallsCounted
  <2> QED BY <2>2, <2>3, <2>6, <2>7 DEF CallsInductive
<1> QED BY <1>0, <1>3, <1>4, <1>5, SaveNewAdds

\* The hook leaves the page as its task is made: this detail brings about no
\* other for it.
LEMMA SaveTriggerHookCalls ==
  ASSUME PipelineInductive, PipelineInductive', CallsInductive, BoundsKept, NEW w \in Creator,
         NEW h \in HookId, SaveTriggerHook(w, h)
  PROVE  CallsInductive'
<1>0. /\ Paging(w) /\ w \in Worker /\ h \in todo[w]
      /\ todo' = [todo EXCEPT ![w] = @ \ {h}]
      /\ UNCHANGED <<hist, at, ent, cursor, sent, calls, faults>>
  BY DEF SaveTriggerHook, Paging, Worker, publisher
<1>1. PICK c \in Change, d \in Nat : ent[w].job = Job(c, d, 0)
  <2>1. ent[w].job \in JobData /\ Type(ent[w].job) = "create_hook"
    BY <1>0, JobsTyped DEF Paging, Serves
  <2>2. ent[w].job.hook = 0
    BY <2>1 DEF Type
  <2> QED BY <2>1, <2>2 DEF JobData, Job
<1>2. d \in 1 .. sent[c] /\ d \in 1 .. Details[c] /\ d <= sent[c]
  <2>1. d \in 1 .. sent[c] /\ sent[c] <= Details[c]
    BY <1>0, <1>1 DEF CallsInductive, CreatedOnce, Job, PipelineInductive, PublishersSaved
  <2> QED BY <2>1, SetAssumption DEF PipelineInductive, PublishersSaved
<1> DEFINE job == Job(c, d, h)
<1>3. PICK task : SaveNew(job, task)
  BY <1>1 DEF SaveTriggerHook, Job
<1>4. /\ todo'[w] = todo[w] \ {h}
      /\ \A v \in Creator : v # w => todo'[v] = todo[v]
      /\ \A v \in Creator : todo'[v] \subseteq todo[v]
  BY <1>0 DEF PipelineInductive, PagesSaved
<1>5. LookupsShrink
  BY <1>0, <1>4 DEF LookupsShrink, Paging, ToCome, Ahead
<1>6. LookupsAdvance'
  <2>1. ASSUME NEW v \in Creator
        PROVE  /\ ~Paging(v)' => todo'[v] = {}
               /\ Paging(v)' => ~InTable(ent[v].task)'
               /\ at'[v] = "log" => cursor'[v].since = 0 /\ todo'[v] = {}
               /\ \A g \in todo'[v] : ~Ahead(v, g)'
    <3>1. CASE rows' = rows
      BY <1>0, <1>4, <3>1 DEF Paging, Ahead, InTable, CallsInductive, LookupsAdvance
    <3>2. CASE \E n \in RowId : RowAdded(n, job)
      BY <1>0, <1>4, <3>2, AddedElsewhere DEF Paging, Ahead, CallsInductive, LookupsAdvance
    <3> QED BY <1>0, <1>3, <3>1, <3>2, SaveNewAdds
  <2> QED BY <1>0, <2>1 DEF LookupsAdvance, CallsInductive
<1>7. SentGrows
  BY <1>0 DEF SentGrows, PipelineInductive, PublishersSaved
<1>8. CASE rows' = rows
  <2>1. RowsShrink /\ CallersStay
    BY <1>0, <1>8 DEF RowsShrink, CallersStay, InTable, Calling
  <2>2. WorkersShrink
    BY <1>0, <1>8 DEF WorkersShrink, OnRow, CallsInductive, RowsApart
  <2> QED BY <1>0, <1>5, <1>6, <1>7, <2>1, <2>2, CallsShrink
<1>9. CASE \E n \in RowId : RowAdded(n, job)
  <2>1. PICK n \in RowId : RowAdded(n, job)
    BY <1>9
  <2>2. /\ RowsApart' /\ rows'[n].job = job
        /\ \A r \in RowId : InTable(r)' => r = n \/ InTable(r)
        /\ \A r \in RowId : r # n => rows'[r] = rows[r]
    BY <1>0, <2>1, AddedApart DEF RowAdded
  <2>3. h # 0 /\ h \in Nat
    BY NumberAssumption DEF HookId
  <2>4. CreateShrinks
    <3> SUFFICES ASSUME NEW b \in Change, NEW e \in Nat, NEW g \in HookId,
                        MayCreate(b, e, g)'
                 PROVE  MayCreate(b, e, g)
      BY DEF CreateShrinks
    <3>1. CASE e > sent'[b]
      BY <1>0, <3>1 DEF MayCreate
    <3>2. ASSUME NEW r \in RowId, InTable(r)', rows'[r].job = Job(b, e, 0)
          PROVE  MayCreate(b, e, g)
      <4>1. r # n
        BY <2>2, <2>3, <3>2 DEF Job
      <4> QED BY <2>2, <3>2, <4>1 DEF MayCreate
    <3>3. ASSUME NEW v \in Creator, Paging(v)', ent'[v].job = Job(b, e, 0), ToCome(v, g)'
          PROVE  MayCreate(b, e, g)
      BY <1>5, <3>3 DEF LookupsShrink, MayCreate
    <3> QED BY <3>1, <3>2, <3>3 DEF MayCreate
  <2>5. ~MayCreate(c, d, h)'
    <3>1. ~(d > sent'[c])
      BY <1>0, <1>2 DEF PipelineInductive, PublishersSaved
    <3>2. ASSUME NEW r \in RowId, InTable(r)', rows'[r].job = Job(c, d, 0)
          PROVE  FALSE
      <4>1. r # n
        BY <2>2, <2>3, <3>2 DEF Job
      <4>2. InTable(r) /\ rows[r].job = ent[w].job
        BY <1>1, <2>2, <3>2, <4>1
      <4> QED BY <1>0, <4>2 DEF CallsInductive, CreatedOnce
    <3>3. ASSUME NEW v \in Creator, Paging(v)', ent'[v].job = Job(c, d, 0), ToCome(v, h)'
          PROVE  FALSE
      <4>1. Paging(v) /\ ent[v].job = ent[w].job
        BY <1>0, <1>1, <3>3 DEF Paging
      <4>2. v = w
        BY <1>0, <4>1 DEF CallsInductive, CreatedOnce
      <4>3. ~Ahead(w, h)
        BY <1>0 DEF CallsInductive, LookupsAdvance
      <4>4. ToCome(w, h)'
        BY <3>3, <4>2
      <4> QED BY <1>0, <1>4, <4>3, <4>4 DEF ToCome, Ahead
    <3> QED BY <3>1, <3>2, <3>3 DEF MayCreate
  <2>6. CreatedOnce'
    <3>1. ASSUME NEW r \in RowId, InTable(r)'
          PROVE  rows'[r].job.detail \in 1 .. sent'[rows'[r].job.change]
      <4>1. CASE r = n
        BY <1>0, <1>2, <2>2, <4>1 DEF Job
      <4>2. CASE r # n
        BY <1>0, <2>2, <3>1, <4>2 DEF CallsInductive, CreatedOnce
      <4> QED BY <4>1, <4>2
    <3>2. ASSUME NEW b \in Change, NEW e \in 1 .. Details[b], NEW g \in HookId,
                 NEW r \in RowId, InTable(r)', rows'[r].job = Job(b, e, g)
          PROVE  ~MayCreate(b, e, g)'
      <4>1. CASE r = n
        <5>1. b = c /\ e = d /\ g = h
          BY <2>2, <3>2, <4>1 DEF Job
        <5> QED BY <2>5, <5>1
      <4>2. CASE r # n
        <5>1. InTable(r) /\ rows[r].job = Job(b, e, g) /\ e \in Nat
          BY <2>2, <3>2, <4>2, SetAssumption
        <5>2. ~MayCreate(b, e, g)
          BY <5>1 DEF CallsInductive, CreatedOnce
        <5> QED BY <2>4, <5>1, <5>2 DEF CreateShrinks
      <4> QED BY <4>1, <4>2
    <3>3. ASSUME NEW v \in Creator, Paging(v)'
          PROVE  /\ ent'[v].job.detail \in 1 .. sent'[ent'[v].job.change]
                 /\ \A r \in RowId : InTable(r)' => rows'[r].job # ent'[v].job
                 /\ \A u \in Creator : Paging(u)' /\ ent'[u].job = ent'[v].job => u = v
      <4>1. Paging(v) /\ ent' = ent /\ \A u \in Creator : Paging(u)' => Paging(u)
        BY <1>0, <3>3 DEF Paging
      <4>2. ent[v].job.hook = 0
        <5>1. Type(ent[v].job) = "create_hook"
          BY <4>1, JobsTyped DEF Paging, Worker, Serves
        <5> QED BY <5>1 DEF Type
      <4>3. \A r \in RowId : InTable(r)' => rows'[r].job # ent[v].job
        BY <2>2, <2>3, <4>1, <4>2 DEF Job, CallsInductive, CreatedOnce
      <4> QED BY <1>0, <4>1, <4>3 DEF CallsInductive, CreatedOnce
    <3> QED BY <1>7, <3>1, <3>2, <3>3 DEF SentGrows, CreatedOnce
  <2>7. CallsCounted'
    <3>1. ASSUME NEW b \in Change, NEW e \in 1 .. Details[b], NEW g \in HookId,
                 MayCall(b, e, g)'
          PROVE  MayCall(b, e, g)
      <4>1. MayCreate(b, e, g)' => MayCreate(b, e, g)
        BY <2>4, SetAssumption DEF CreateShrinks
      <4>2. ASSUME NEW r \in RowId, InTable(r)', rows'[r].job = Job(b, e, g),
                   \A v \in Triggerer : ~Calling(v, r)'
            PROVE  MayCall(b, e, g)
        <5>1. CASE r = n
          <6>1. b = c /\ e = d /\ g = h
            BY <2>2, <4>2, <5>1 DEF Job
          <6>2. ToCome(w, h)
            BY <1>0 DEF ToCome
          <6> QED BY <1>0, <1>1, <6>1, <6>2 DEF MayCreate, MayCall
        <5>2. CASE r # n
          BY <1>0, <2>2, <4>2, <5>2 DEF Calling, MayCall
        <5> QED BY <5>1, <5>2
      <4> QED BY <3>1, <4>1, <4>2 DEF MayCall
    <3> QED BY <1>0, <3>1 DEF CallsInductive, CallsCounted
  <2> QED BY <1>6, <2>2, <2>6, <2>7 DEF CallsInductive
<1> QED BY <1>0, <1>3, <1>8, <1>9, SaveNewAdds

LEMMA CallsInit ==
  ASSUME Init
  PROVE  CallsInductive
<1>1. /\ rows = [r \in RowId |-> NoTask] /\ at = [w \in Worker |-> "idle"]
      /\ cursor = [w \in Creator |-> NoCursor] /\ todo = [w \in Creator |-> {}]
      /\ sent = [c \in Change |-> 0]
      /\ calls = [k \in Events \X HookId |-> 0] /\ faults = 0
  BY DEF Init
<1>2. /\ \A r \in RowId : ~InTable(r)
      /\ \A w \in Worker : ~OnRow(w)
      /\ \A w \in Creator : ~Paging(w)
  BY <1>1 DEF InTable, NoTask, OnRow, Paging, Worker
<1>3. RowsApart
  BY <1>2 DEF RowsApart
<1>4. LookupsAdvance
  BY <1>1, <1>2 DEF LookupsAdvance, NoCursor, Worker
<1>5. CreatedOnce
  BY <1>1, <1>2, SetAssumption DEF CreatedOnce
<1>6. CallsCounted
  <2>1. faults \in Nat
    BY <1>1
  <2>2. \A c \in Change : \A d \in 1 .. Details[c] : \A h \in HookId :
          calls[<<<<c, d>>, h>>] = 0
    BY <1>1 DEF Events
  <2> QED BY <1>1, <2>1, <2>2 DEF CallsCounted
<1> QED BY <1>3, <1>4, <1>5, <1>6 DEF CallsInductive

LEMMA CallsStep ==
  ASSUME PipelineInductive, CallsInductive, BoundsKept, [Next]_vars,
         ~strayed', ~disordered'
  PROVE  CallsInductive'
<1>0. PipelineInductive'
  BY PipelineStep
<1>1. ASSUME NEW c \in Change, Record(c) \/ HandlerStep(c) \/ HandlerCrash(c)
      PROVE  CallsInductive'
  <2>1. CASE Record(c) \/ PushCreateHook(c)
    BY <1>0, <2>1, StayCalls DEF Record, PushCreateHook, tables, creator
  <2> QED BY <1>0, <1>1, <2>1, SaveCreateHookCalls, HandlerCrashCalls DEF HandlerStep
<1>2. ASSUME NEW w \in Creator, CreatorStep(w) \/ CreateFails(w)
      PROVE  CallsInductive'
  <2>1. ASSUME NEW task \in RowId, PushTriggerHook(w, task)
        PROVE  CallsInductive'
    BY <1>0, <2>1, StayCalls DEF PushTriggerHook, tables, publisher
  <2> QED BY <1>0, <1>2, <2>1, TakeCalls, StartCreateCalls, TurnCalls, EndCalls,
             SaveTriggerHookCalls DEF CreatorStep, Worker
<1>3. ASSUME NEW w \in Triggerer, TriggererStep(w) \/ TriggerFails(w)
      PROVE  CallsInductive'
  BY <1>0, <1>3, TakeCalls, GoOnCalls, CallCalls, CallRefusedCalls, EndCalls
     DEF TriggererStep, Worker
<1>4. ASSUME NEW o \in Owner, OwnerStep(o)
      PROVE  CallsInductive'
  BY <1>0, <1>4, StayCalls DEF OwnerStep, CountHooks, InsertHook, ReadHook, UpdateHook,
     DeleteHook, tables, publisher, creator
<1>5. CASE UNCHANGED vars
  BY <1>0, <1>5, StayCalls DEF vars, tables, publisher, creator
<1> QED BY <1>0, <1>1, <1>2, <1>3, <1>4, <1>5, TimeoutRetryCalls, WorkerCrashCalls
        DEF Next, FaultStep

\* HookTriggerService.ts:54-70 posts to the endpoint of a hook once for each
\* detail of a change, whoever pages, takes up and retries; every crash, or call
\* that throws, costs one call more at most: as long as pages come in the order of
\* ids and no entity has met the row of another task.
THEOREM HooksCalledOnce ==
  Spec => []CalledOnce
<1> DEFINE Inv == strayed \/ disordered \/ CallsInductive
<1>1. Init => Inv
  BY CallsInit
<1>2. PipelineHolds /\ BoundsKept /\ Inv /\ [Next]_vars => Inv'
  BY CallsStep, StrayedStays, DisorderStays DEF PipelineHolds
<1>3. Inv => CalledOnce
  <2> SUFFICES ASSUME CallsInductive, NEW k \in Events \X HookId
               PROVE  calls[k] <= 1 + faults
    BY DEF CalledOnce
  <2>1. PICK c \in Change : \E d \in 1 .. Details[c] : k[1] = <<c, d>>
    BY DEF Events
  <2>2. PICK d \in 1 .. Details[c] : k[1] = <<c, d>>
    BY <2>1
  <2>3. PICK h \in HookId : k = <<<<c, d>>, h>>
    BY <2>2
  <2> QED BY <2>3 DEF CallsInductive, CallsCounted
<1> HIDE DEF Inv
<1>4. Spec => []BoundsKept
  BY TypesInvariant, PTL
<1> QED BY <1>1, <1>2, <1>3, <1>4, PipelineInvariant, PTL DEF Spec
=============================================================================
