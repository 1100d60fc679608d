---------------------------- MODULE ManifestCache ----------------------------
(***************************************************************************)
(* How one document of one package gets to npm clients: through the two    *)
(* redis keys of CacheService (the document's etag and its bytes), which   *)
(* ShowPackageController fills and the events of PackageManagerService     *)
(* clean (CacheCleaner, BugVersionFixHandler), and in proxy mode through   *)
(* the copy of ProxyCacheService in the object store and its row.          *)
(*                                                                         *)
(* Documents are told apart by their revision alone.  In the other modes   *)
(* ("sync") rev is the revision of what _listPackageFullOrAbbreviated-     *)
(* Manifests returns; in proxy mode it is upstream's.  The full and the    *)
(* abbreviated document have keys, rows and tasks of their own, alike.     *)
(* Requests of other registries' sync workers neither read nor fill the    *)
(* keys; and version manifests, which never change, are left out.          *)
(***************************************************************************)
EXTENDS Naturals, FiniteSets

CONSTANTS
  Process,    \* what runs at the same time: requests, event handlers, executors
  MaxRev,     \* bound: revisions
  MaxFaults   \* bound: deaths of processes and failing requests

ASSUME CacheAssumption == MaxRev \in Nat \ {0} /\ MaxFaults \in Nat

VARIABLES
  mode,       \* "sync" or "proxy" (config.cnpmcore.syncMode), fixed
  rev,        \* the current revision
  blocked,    \* the package has a PackageVersionBlock
  listed,     \* the bug-versions in force list the package
  etag, bytes,   \* the redis keys: a revision, or 0
  blob, row,  \* the proxy cache: its file (a revision, or 0) and its row
  task,       \* the update task: "none", "waiting" or "processing"
  events,     \* events that were emitted and not yet handled
  work,       \* what each process is doing
  faults,
  stale,      \* history: see CacheFresh
  crossed,    \* history: see ServedWhole and RefreshReaches
  asked, behind  \* history: see RefreshReaches

redis == <<etag, bytes>>
proxy == <<blob, row, task>>
written == <<rev, blocked, listed>>
notes == <<stale, crossed, asked, behind>>
cacheVars == <<mode, written, redis, proxy, events, work, faults, notes>>

\* What it is, its step, the revision it will put somewhere, the keys it has
\* still to write; and of a request the etag it has read.
Idle == [op |-> "idle", step |-> "", rev |-> 0, todo |-> {}, seen |-> 0]
Keys == {"etag", "bytes"}
\* What readers should get: nothing (an error) of a package that is blocked.
Current == IF blocked THEN 0 ELSE rev

CacheInit ==
  /\ mode \in {"sync", "proxy"}
  /\ rev = 1 /\ blocked = FALSE /\ listed = FALSE
  /\ etag = 0 /\ bytes = 0 /\ blob = 0 /\ row = FALSE /\ task = "none"
  /\ events = 0 /\ faults = 0
  /\ work = [p \in Process |-> Idle]
  /\ stale = FALSE /\ crossed = FALSE /\ asked = 0 /\ behind = FALSE

Begin(p, op, step) == work[p] = Idle /\ work' = [work EXCEPT ![p] = [Idle EXCEPT !.op = op, !.step = step]]
At(p, op, step) == work[p].op = op /\ work[p].step = step
Goto(p, step) == work' = [work EXCEPT ![p].step = step]
Listing(p) == work' = [work EXCEPT ![p] = [Idle EXCEPT !.op = "show", !.step = "list"]]
Done(p) == work' = [work EXCEPT ![p] = Idle]

\* Processes that still will put revision r, or an older one, somewhere.
Holding(r) == {p \in Process : work[p].rev \in 1..r}
\* Another process has something else to put somewhere.
Mixed(p, r) == \E q \in Process \ {p} : work[q].rev \notin {0, r}
Cleaning == {p \in Process : At(p, "clean", "delete")}
\* The keys are behind the documents, or may be: something has still to clean
\* them, or nothing ever will.
Syncing == {p \in Process : At(p, "sync", "write")}
Unclean == stale \/ events # 0 \/ Cleaning # {} \/ Syncing # {}

-----------------------------------------------------------------------------
(* The documents change *)

NewRev == rev < MaxRev /\ rev' = rev + 1
NothingElse == UNCHANGED <<mode, redis, proxy, work, faults, crossed, asked, behind>>

\* Mutant: the event before the documents.
WriteAfterEvent ==
  /\ mode = "sync"
  /\ \/ /\ events < 1 /\ events' = events + 1 /\ UNCHANGED rev
     \/ NewRev /\ UNCHANGED events
  /\ UNCHANGED <<blocked, listed, stale>> /\ NothingElse

\* A publication, an unpublication, a tag, deprecations, maintainers: after the
\* documents the event.
Write ==
  /\ mode = "sync" /\ NewRev
  /\ events' = events + 1
  /\ UNCHANGED <<blocked, listed, stale>> /\ NothingElse

\* What a sync finds changed in versions that stay, versions it removes, and
\* the readme of the latest version change the documents without any event: it
\* cleans the keys itself, at its end.
WriteSilently(p) ==
  /\ mode = "sync" /\ NewRev
  /\ work[p] = Idle \/ At(p, "sync", "write")
  /\ work' = [work EXCEPT ![p] = [Idle EXCEPT !.op = "sync", !.step = "write"]]
  /\ UNCHANGED <<mode, blocked, listed, redis, proxy, events, faults, notes>>

\* blockPackage and unblockPackage.
Block ==
  /\ mode = "sync" /\ NewRev
  /\ blocked' = ~blocked
  /\ events' = events + 1
  /\ UNCHANGED <<listed, stale>> /\ NothingElse

\* A new version of the package bug-versions becomes latest.  Its event cleans
\* what the new list names, not what only the old one did.
BugVersions ==
  /\ mode = "sync" /\ NewRev
  /\ listed' \in BOOLEAN /\ (listed \/ listed')
  /\ events' = IF listed' THEN events + 1 ELSE events
  /\ stale' = (stale \/ ~listed')
  /\ UNCHANGED blocked /\ NothingElse

\* The process that emitted an event dies with it, or before it.
LoseEvent ==
  /\ events > 0 /\ faults < MaxFaults
  /\ events' = events - 1 /\ faults' = faults + 1
  /\ stale' = TRUE
  /\ UNCHANGED <<mode, written, redis, proxy, work, crossed, asked, behind>>

\* Proxy mode: upstream changes, of which nothing is told here.
Upstream ==
  /\ mode = "proxy" /\ NewRev
  /\ UNCHANGED <<blocked, listed, events, stale>> /\ NothingElse

\* Proxy mode: the sync that a download of a tarball asks for publishes a
\* version here; its event cleans the keys.
Synced ==
  /\ mode = "proxy" /\ events = 0 /\ events' = 1
  /\ UNCHANGED <<written, stale>> /\ NothingElse

-----------------------------------------------------------------------------
(* CacheCleaner: removeCache deletes the keys, each by itself *)

DeleteKey(p, key, next) ==
  /\ key \in work[p].todo
  /\ etag' = IF key = "etag" THEN 0 ELSE etag
  /\ bytes' = IF key = "bytes" THEN 0 ELSE bytes
  /\ LET rest == work[p].todo \ {key}
     IN work' = [work EXCEPT ![p] = IF rest # {} THEN [@ EXCEPT !.todo = rest]
                                    ELSE IF next = "" THEN Idle
                                    ELSE [@ EXCEPT !.todo = {}, !.step = next]]
  /\ UNCHANGED <<mode, written, proxy, events, faults, notes>>

\* A fill that is older than the change which is being cleaned up after may come
\* after this.
StartCleaning(p) ==
  /\ work' = [work EXCEPT ![p] = [Idle EXCEPT !.op = "clean", !.step = "delete", !.todo = Keys]]
  /\ stale' = (\E q \in Process : work[q].rev \notin {0, Current})
  /\ crossed' = (crossed \/ \E q \in Process : work[q].rev # 0)
  /\ UNCHANGED <<mode, written, redis, proxy, faults, asked, behind>>

HandleEvent(p) ==
  /\ events > 0 /\ work[p] = Idle
  /\ events' = events - 1
  /\ StartCleaning(p)

\* Mutant: the sync leaves the keys alone.
EndWithoutCleaning(p) ==
  /\ At(p, "sync", "write")
  /\ Done(p)
  /\ UNCHANGED <<mode, written, redis, proxy, events, faults, notes>>

\* "clean cache": the end of every sync that is complete, whether it has changed
\* anything silently or not.
EndSync(p) ==
  /\ work[p] = Idle \/ At(p, "sync", "write")
  /\ UNCHANGED events
  /\ StartCleaning(p)

\* Mutant: the etag alone.
DeleteEtag(p) ==
  \E key \in Keys : IF key = "bytes" /\ At(p, "clean", "delete")
                    THEN Done(p) /\ UNCHANGED <<mode, written, redis, proxy, events, faults, notes>>
                    ELSE At(p, "clean", "delete") /\ DeleteKey(p, key, "")

Delete(p) == At(p, "clean", "delete") /\ \E key \in Keys : DeleteKey(p, key, "")

-----------------------------------------------------------------------------
(* GET /:fullname *)

\* The etag is read.  If it is the client's the answer is 304, and nothing changes.
Show(p) ==
  /\ work[p] = Idle
  /\ work' = [work EXCEPT ![p] = [Idle EXCEPT !.op = "show", !.seen = etag,
                                             !.step = IF etag = 0 THEN "list" ELSE "bytes"]]
  /\ UNCHANGED <<mode, written, redis, proxy, events, faults, notes>>

\* The bytes are answered with the etag read before.
GetBytes(p) ==
  /\ At(p, "show", "bytes")
  /\ IF bytes = 0 THEN Listing(p) ELSE Done(p)
  /\ UNCHANGED <<mode, written, redis, proxy, events, faults, notes>>

\* "get cache error, ignore"
RedisFails(p) ==
  /\ At(p, "show", "bytes") /\ faults < MaxFaults /\ faults' = faults + 1
  /\ Goto(p, "list")
  /\ UNCHANGED <<mode, written, redis, proxy, events, notes>>

\* Not in the cache: listed, or fetched from upstream; answered, and filled in
\* in the background.
List(p) ==
  /\ At(p, "show", "list") /\ Current # 0
  /\ work' = [work EXCEPT ![p].step = "fill", ![p].rev = rev, ![p].todo = Keys]
  /\ crossed' = (crossed \/ Unclean \/ Mixed(p, rev))
  /\ UNCHANGED <<mode, written, redis, proxy, events, faults, stale, asked, behind>>

\* An error, because the package is blocked.
Refuse(p) ==
  /\ At(p, "show", "list") /\ Current = 0
  /\ Done(p)
  /\ UNCHANGED <<mode, written, redis, proxy, events, faults, notes>>

\* savePackageEtagAndManifests sets the keys, each by itself.
SetKey(p, key, next) ==
  /\ key \in work[p].todo
  /\ etag' = IF key = "etag" THEN work[p].rev ELSE etag
  /\ bytes' = IF key = "bytes" THEN work[p].rev ELSE bytes
  /\ LET rest == work[p].todo \ {key}
     IN work' = [work EXCEPT ![p] = IF rest # {} THEN [@ EXCEPT !.todo = rest]
                                    ELSE IF next = "" THEN Idle
                                    ELSE [@ EXCEPT !.todo = {}, !.step = next]]
  /\ UNCHANGED <<mode, written, proxy, events, faults, notes>>

Fill(p) ==
  /\ work[p].op \in {"show", "tag", "update"} /\ work[p].step = "fill"
  /\ \E key \in Keys : SetKey(p, key, IF work[p].op = "update" THEN "finish" ELSE "")

\* setex: a key lasts a day.
Expire ==
  /\ \/ etag # 0 /\ etag' = 0 /\ UNCHANGED bytes
     \/ bytes # 0 /\ bytes' = 0 /\ UNCHANGED etag
  /\ UNCHANGED <<mode, written, proxy, events, work, faults, notes>>

-----------------------------------------------------------------------------
(* ProxyCacheService *)

\* GET /:fullname/:tag of what is not in the database: getPackageManifest.
ShowTag(p) ==
  /\ mode = "proxy" /\ Begin(p, "tag", IF row THEN "read" ELSE "fetch")
  /\ UNCHANGED <<mode, written, redis, proxy, events, faults, notes>>

\* The file of the row goes to the redis keys.
ReadFile(p) ==
  /\ At(p, "tag", "read") /\ blob # 0
  /\ work' = [work EXCEPT ![p].step = "fill", ![p].rev = blob, ![p].todo = Keys]
  /\ crossed' = (crossed \/ Mixed(p, blob))
  /\ UNCHANGED <<mode, written, redis, proxy, events, faults, stale, asked, behind>>

\* "not found proxy cache, try again later": the file, which may have been stored
\* meanwhile, is removed, then the row.
ForgetRow(p) ==
  /\ At(p, "tag", "read") /\ blob = 0
  /\ Goto(p, "file")
  /\ UNCHANGED <<mode, written, redis, proxy, events, faults, notes>>

\* getRewrittenManifest, of a reader or of an update task.
Fetch(p) ==
  /\ At(p, "tag", "fetch") \/ At(p, "update", "fetch")
  /\ work' = [work EXCEPT ![p].step = "store", ![p].rev = rev]
  /\ UNCHANGED <<mode, written, redis, proxy, events, faults, notes>>

\* storeRewrittenManifest.  Whoever holds an older revision may still put it
\* over this one.
Store(p) ==
  /\ work[p].op \in {"tag", "update"} /\ work[p].step = "store"
  /\ blob' = work[p].rev
  /\ behind' = (behind \/ Holding(work[p].rev - 1) # {})
  /\ Goto(p, "save")
  /\ UNCHANGED <<mode, written, redis, row, task, events, faults, stale, crossed, asked>>

\* saveProxyCache: the row is dated, or inserted.
SaveRow(p) ==
  /\ work[p].op \in {"tag", "update"} /\ work[p].step = "save"
  /\ row' = TRUE
  /\ IF work[p].op = "tag" THEN Done(p) ELSE Goto(p, "check")
  /\ UNCHANGED <<mode, written, redis, blob, task, events, faults, notes>>

\* createTask: a task that waits or is being executed is the one.
CreateTask ==
  /\ task' = IF task = "none" THEN "waiting" ELSE task
  \* What is being fetched already may not be what is asked for.
  /\ asked' = IF task = "processing" THEN 0 ELSE rev
  /\ behind' = FALSE

\* PATCH /-/proxy-cache/:fullname: removeCache, then the task.
Refresh(p) ==
  /\ mode = "proxy" /\ row /\ work[p] = Idle
  /\ work' = [work EXCEPT ![p] = [Idle EXCEPT !.op = "refresh", !.step = "delete", !.todo = Keys]]
  /\ UNCHANGED <<mode, written, redis, proxy, events, faults, notes>>

RefreshDelete(p) == At(p, "refresh", "delete") /\ \E key \in Keys : DeleteKey(p, key, "task")

RefreshTask(p) ==
  /\ At(p, "refresh", "task")
  /\ CreateTask
  /\ Done(p)
  /\ UNCHANGED <<mode, written, redis, blob, row, events, faults, stale, crossed>>

\* CheckProxyCacheUpdateWorker: a task for every row.
CheckUpdate ==
  /\ mode = "proxy" /\ row
  /\ CreateTask
  /\ UNCHANGED <<mode, written, redis, blob, row, events, work, faults, stale, crossed>>

\* executeTask finds the row.
StartUpdate(p) ==
  /\ task = "waiting" /\ task' = "processing"
  /\ Begin(p, "update", IF row THEN "fetch" ELSE "fail")
  /\ UNCHANGED <<mode, written, redis, blob, row, events, faults, notes>>

\* The row is gone, or upstream does not answer: the task fails.
FailUpdate(p) ==
  /\ \/ At(p, "update", "fail") /\ UNCHANGED faults
     \/ At(p, "update", "fetch") /\ faults < MaxFaults /\ faults' = faults + 1
  /\ task' = "none" /\ asked' = 0
  /\ Done(p)
  /\ UNCHANGED <<mode, written, redis, blob, row, events, stale, crossed, behind>>

\* Mutant: the redis keys are left to expire.
CheckNothing(p) ==
  /\ At(p, "update", "check")
  /\ Goto(p, "finish")
  /\ UNCHANGED <<mode, written, redis, proxy, events, faults, notes>>

\* The redis keys are brought up to date if they are there.
CheckEtag(p) ==
  /\ At(p, "update", "check")
  /\ work' = [work EXCEPT ![p].step = IF etag # 0 THEN "fill" ELSE "finish",
                          ![p].todo = IF etag # 0 THEN Keys ELSE {}]
  /\ crossed' = (crossed \/ Mixed(p, work[p].rev))
  /\ UNCHANGED <<mode, written, redis, proxy, events, faults, stale, asked, behind>>

FinishUpdate(p) ==
  /\ At(p, "update", "finish")
  /\ task' = "none"
  /\ Done(p)
  /\ UNCHANGED <<mode, written, redis, blob, row, events, faults, notes>>

\* DELETE /-/proxy-cache/:fullname: removeCache, the file, the row.
Remove(p) ==
  /\ mode = "proxy" /\ row /\ work[p] = Idle
  /\ work' = [work EXCEPT ![p] = [Idle EXCEPT !.op = "remove", !.step = "delete", !.todo = Keys]]
  /\ UNCHANGED <<mode, written, redis, proxy, events, faults, notes>>

RemoveDelete(p) == At(p, "remove", "delete") /\ \E key \in Keys : DeleteKey(p, key, "file")

\* Somebody who has stored the file saves the row after this.
RemoveFile(p) ==
  /\ At(p, "remove", "file") \/ At(p, "tag", "file")
  /\ blob' = 0
  /\ behind' = (behind \/ \E q \in Process : work[q].step = "save")
  /\ Goto(p, "row")
  /\ UNCHANGED <<mode, written, redis, row, task, events, faults, stale, crossed, asked>>

RemoveRow(p) ==
  /\ At(p, "remove", "row") \/ At(p, "tag", "row")
  /\ row' = FALSE
  /\ Done(p)
  /\ UNCHANGED <<mode, written, redis, blob, task, events, faults, notes>>

\* A process dies anywhere; its task waits again after a timeout.
Die(p) ==
  /\ work[p] # Idle /\ faults < MaxFaults
  /\ faults' = faults + 1
  /\ Done(p)
  /\ stale' = (stale \/ work[p].op \in {"clean", "sync"})
  /\ crossed' = (crossed \/ work[p].op \in {"clean", "show", "tag", "update"})
  /\ behind' = (behind \/ work[p].op \in {"remove", "show", "tag"})
  /\ task' = IF work[p].op = "update" THEN "waiting" ELSE task
  /\ UNCHANGED <<mode, written, redis, blob, row, events, asked>>

-----------------------------------------------------------------------------
Serve(p) ==
  \/ Show(p) \/ GetBytes(p) \/ RedisFails(p) \/ List(p) \/ Refuse(p) \/ Fill(p)
Proxy(p) ==
  \/ ShowTag(p) \/ ReadFile(p) \/ ForgetRow(p) \/ RemoveRow(p) \/ Fetch(p) \/ Store(p) \/ SaveRow(p)
  \/ Refresh(p) \/ RefreshDelete(p) \/ RefreshTask(p) \/ Remove(p) \/ RemoveDelete(p) \/ RemoveFile(p)
  \/ StartUpdate(p) \/ FailUpdate(p) \/ CheckEtag(p) \/ FinishUpdate(p)

CacheNext ==
  \/ Write \/ Block \/ BugVersions \/ LoseEvent \/ Upstream \/ Synced
  \/ Expire \/ CheckUpdate
  \/ \E p \in Process : \/ WriteSilently(p) \/ EndSync(p) \/ HandleEvent(p) \/ Delete(p)
                        \/ Serve(p) \/ Proxy(p) \/ Die(p)

CacheSpec == CacheInit /\ [][CacheNext]_cacheVars

-----------------------------------------------------------------------------
(* Properties *)

\* Once the events of the changes have been handled and the syncs are over, the
\* cache holds what is current or nothing, for a blocked package nothing; unless
\* an event was lost, a sync or a cleaning broke off, bug-versions no longer
\* lists the package, or a fill was under way from before the change, and then
\* only until the next event or the end of the next sync.
CacheFresh ==
  mode = "sync" /\ ~Unclean =>
    etag \in {0, Current} /\ bytes \in {0, Current}

\* A client is never served an older document under a newer etag, with which it
\* would be told 304 as long as the newer one stands; unless a document was
\* listed before the cleaning for its last change was over, or filled in after
\* the next had begun, or one of these broke off.
ServedWhole ==
  mode = "sync" /\ ~crossed /\ bytes # 0 =>
    \A p \in Process : At(p, "show", "bytes") => work[p].seen <= bytes

\* When the task of a refresh is done, nobody is served what is older than the
\* refresh, from redis or from the file, and the row has its file; unless
\* somebody still held an older copy when the task stored the new one, a removal
\* of the row (asked for, or by a reader who found no file) is between the file
\* and the row, or took the file before the row was saved, fills got in each other's way or broke off, or the task failed
\* or had begun before.
RefreshReaches ==
  asked # 0 /\ task = "none" /\ ~behind /\ (\A p \in Process : work[p].step # "row") =>
    /\ etag # 0 => /\ etag >= asked
                   /\ crossed \/ bytes = 0 \/ bytes >= asked \/ \E p \in Process : work[p].step = "fill"
    /\ row => blob >= asked

-----------------------------------------------------------------------------
(* Inductive invariants behind the three properties *)

Fits(op, step) ==
  \/ op = "idle" /\ step = ""
  \/ op = "clean" /\ step = "delete"
  \/ op = "show" /\ step \in {"list", "bytes", "fill"}
  \/ op = "sync" /\ step = "write"
  \/ op = "tag" /\ step \in {"read", "file", "row", "fetch", "store", "save", "fill"}
  \/ op = "update" /\ step \in {"fetch", "fail", "store", "save", "check", "fill", "finish"}
  \/ op = "refresh" /\ step \in {"delete", "task"}
  \/ op = "remove" /\ step \in {"delete", "file", "row"}
Ops == {"idle", "clean", "sync", "show", "tag", "update", "refresh", "remove"}
Steps == {"", "delete", "list", "bytes", "fill", "read", "fetch", "fail", "store",
          "save", "check", "finish", "task", "file", "row", "write"}
Work == [op : Ops, step : Steps, rev : Nat, todo : SUBSET Keys, seen : Nat]
Holds(step) == step \in {"fill", "store", "save", "check", "finish"}

\* A process has the revision it will put somewhere, and it is one there was;
\* without proxy mode there is nothing but readers and cleaners.
Carried ==
  /\ rev \in Nat \ {0} /\ events \in Nat /\ asked \in 0..rev
  /\ etag \in 0..rev /\ bytes \in 0..rev /\ blob \in 0..rev
  /\ work \in [Process -> Work]
  /\ \A p \in Process :
       /\ Fits(work[p].op, work[p].step)
       /\ work[p].rev <= rev /\ work[p].seen <= rev
       /\ work[p].rev # 0 <=> Holds(work[p].step)
  /\ mode = "sync" =>
       task = "none" /\ \A p \in Process : work[p].op \in {"idle", "clean", "sync", "show"}

\* Behind CacheFresh: an old key has a cleaner who will come to it, once no sync
\* is still writing.
Sweeps(key) == \E p \in Cleaning : key \in work[p].todo
Swept ==
  mode = "sync" /\ ~stale /\ events = 0 /\ Syncing = {} =>
    /\ \A p \in Process : work[p].rev \in {0, Current}
    /\ etag \in {0, Current} \/ Sweeps("etag")
    /\ bytes \in {0, Current} \/ Sweeps("bytes")

\* Behind ServedWhole: there is one revision to fill in at a time, and no reader
\* has seen the etag of a newer one.
Reading(p) == At(p, "show", "bytes")
FilledAlike ==
  mode = "sync" /\ ~crossed =>
    /\ \A q \in Process : work[q].rev # 0 =>
         /\ etag \in {0, work[q].rev} /\ bytes \in {0, work[q].rev}
         /\ \A p \in Process : work[p].rev \in {0, work[q].rev}
         /\ \A p \in Process : Reading(p) => work[p].seen <= work[q].rev
    /\ bytes # 0 =>
         etag <= bytes /\ \A p \in Process : Reading(p) => work[p].seen <= bytes

\* Behind RefreshReaches: the task has fetched nothing older than the refresh;
\* once it has stored the file, nobody else has anything older; once it has been
\* through the keys, nor have they.
Updating(p) == work[p].op = "update"
OneUpdate ==
  \A p \in Process : Updating(p) =>
    task = "processing" /\ \A q \in Process : Updating(q) => q = p

FillsAlike ==
  ~crossed => \A p \in Process : work[p].step = "fill" =>
    /\ \A q \in Process : work[q].step = "fill" => work[q].rev = work[p].rev
    /\ "bytes" \in work[p].todo \/ bytes \in {0, work[p].rev}

Stored  == task = "none" \/ \E p \in Process :
             Updating(p) /\ work[p].step \in {"save", "check", "fill", "finish"}
Through == task = "none" \/ \E p \in Process : Updating(p) /\ work[p].step = "finish"
New(r)  == r = 0 \/ r >= asked
WillFill(key) == \E p \in Process : work[p].step = "fill" /\ key \in work[p].todo

Reaches ==
  asked # 0 /\ ~behind =>
    /\ \A p \in Process : Updating(p) => New(work[p].rev)
    /\ Stored =>
         /\ \A p \in Process : New(work[p].rev)
         /\ New(blob)
         /\ blob = 0 => \A p \in Process : work[p].step # "save"
         /\ row => blob # 0 \/ \E p \in Process : work[p].step = "row"
    /\ \A p \in Process : Updating(p) /\ work[p].step = "fill" =>
         /\ New(etag) \/ "etag" \in work[p].todo
         /\ New(bytes) \/ "bytes" \in work[p].todo
    /\ Through =>
         /\ New(etag)
         /\ etag = 0 \/ crossed \/ New(bytes) \/ WillFill("bytes")
=============================================================================
