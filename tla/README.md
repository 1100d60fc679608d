# Formal models of the private npm registry

TLA+ modules that model the registry in `src/` (cnpmcore), the TLC
configurations that check them on small instances, and proofs, checked by
TLAPS, of what holds for every instance.

- `PROJECT.json` lists the components, the runs, the hazards each property is
  aimed at, the theorems, and, for every definition that models
  code, the source lines it stands for.
- Check a run: `tlc -config TaskQueue_core.cfg MCTaskQueue`.
- Check the proofs: `tlapm TaskQueueProofs.tla`, and so for every other module
  whose name ends in `Proofs`.

## 1. Inventory

The program is an Egg.js/tegg server, run as several processes on several
hosts. All state that matters is shared: a SQL database (leoric models under
`app/repository/model`), redis (queues, locks, cached manifests) and an object
store (tarballs, manifests, logs). Processes interact through them only, so
the atomic step of a model is one database statement, redis command or storage
call, but where its module says otherwise; every `await` lets the other processes
in.

| Component | State | Operations | What is hard | What makes it correct |
|---|---|---|---|---|
| Task queue: `TaskService`, `TaskRepository`, `RedisQueueAdapter`, workers and `TaskTimeoutHandler` under `port/schedule` | `tasks`, `history_tasks`, one sorted set per task type, the entity each process holds | create (with merging), pop and claim, log, finish, retry, sweep of timed-out tasks | claims race; the sweep writes back old copies; finish is two writes; save and push are two calls | a task has one owner; is never lost; ends; its verdict stays; requests are merged, not lost |
| Hooks: `CreateHookTriggerService`, `HookTriggerService`, `HookManageService`, `event/ChangesStream` | `hooks`, `changes`, tasks of types `create_hook` and `trigger_hook` | a change becomes a task, that becomes one task per hook, that becomes an HTTP call | a task is finished and then used on; paging over a table that changes; the hook is saved back after the call | every hook of a change is called; tasks and ids are lost only where a task meets the row of another; a deleted hook stays deleted |
| Lock: `CacheAdapter.usingLock` | one redis key per lock: the time it was taken | lock, unlock, run under the lock | expiry while the holder works; two processes that both find it expired | one holder at a time while holders keep within the time |
| Upstream changes: `ChangesStreamService` | the `changes_stream` task's `since`, counters | prepare, execute, suspend, resume | executors that lost their stream go on and save their position; each kind of upstream numbers changes in its own way | nothing behind `since` was passed over |
| Packages: `PackageManagerService`, `PackageRepository`, `DistRepository` | packages, versions, tags, dists, manifest blobs | publish, unpublish, tag, deprecate, block, maintainers | blobs are read, changed and written as a whole; blobs are written before and deleted before the rows | every version has its tarball; manifests agree with rows; tags point to versions |
| Synchronisation: `PackageSyncerService` | local packages against upstream manifests | the `sync_package` executor | endless retries; removal of what upstream removed; concurrency with publish | local equals upstream where it may; private packages are never touched |
| Manifest cache: `CacheService`, `event/CacheCleaner` | two redis keys per document | fill, remove | a fill that started before the change ends after the removal | a cache does not stay stale |
| Proxy cache: `ProxyCacheService` | `proxy_cache` rows, blobs | fetch, refresh, remove | row and blob are two writes | a row has its blob |
| Binary mirror: `BinarySyncerService` | `binaries` rows, blobs | the `sync_binary` executor | partial directories; rows before/after blobs | a listed file can be downloaded |
| Unpacked files: `PackageVersionFileService` | `package_version_files` rows, blobs | unpack for readers under a lock, for events and administrators without | unpackings that overlap or break off; a version published again over its own paths | all files of a version once it is unpacked; rows lead to the right files |
| Download counters: `PackageVersionDownloadRepository` | in-memory counters, one row per package, version and month | plus, save | counters lost in a crash; read-modify-write of rows | counts are added once |
| Version resolution: `PackageVersionService`, `SqlRange`, `PaddingSemVer` | none | resolve a range with SQL | padding and comparison as strings | the same version as semver resolves |
| Bug versions: `BugVersionService` | none | rewrite manifests | fixed versions that are themselves fixed | rewriting ends; tags follow |
| Registries, scopes: `RegistryManagerService`, `ScopeManagerService` | `registries`, `scopes`, a cached self registry | create, update, remove, lookup | scopes and registries are written apart; a package's registry is read long before it is written | each package is followed in one registry and keeps it |
| Users, tokens, roles: `UserService`, `TokenService`, `UserRoleManager` | `users`, `tokens` | login, create, check | creation races; a stale last-used time | a token of a removed user grants nothing |
| Search, statistics, HTTP controllers, utilities | none of their own that decides anything | | | |

## 2. Modules

| Module | Models | Extends / instances |
|---|---|---|
| `TaskTable` | the two task tables, the entity, the calls of `TaskRepository`, the queue's `push` | |
| `TaskQueue` | `TaskService` with requests, workers and timeout handlers | `TaskTable` |
| `TaskLifecycle` | what a caller who polls a task may see: the abstract specification `TaskQueue` implements | instanced by `TaskQueue` |
| `MCTaskQueue` | instances for TLC | `TaskQueue` |
| `TaskQueueProofs` | theorems and proofs | `TaskQueue` |
| `HookPipeline` | changes, hook tasks, delivery, and the owner of the hooks | |
| `MCHookPipeline` | instances for TLC | `HookPipeline` |
| `HookPipelineProofs` | theorems and proofs | `HookPipeline` |
| `UsingLock` | the lease on a redis key that publications, unpacking and sweeps run under | |
| `PackageVersionFile` | the unpacking of a version's tarball into files and rows, under the lock or without it | `UsingLock` |
| `MCPackageVersionFile` | instances for TLC | `PackageVersionFile` |
| `PackageVersionFileProofs` | theorems and proofs, those of `UsingLock` too | `PackageVersionFile` |
| `PackageManager` | every call that changes one package: rows, files, the two documents | |
| `MCPackageManager` | instances for TLC | `PackageManager` |
| `PackageManagerProofs` | theorems and proofs | `PackageManager` |
| `PackageSyncer` | tasks that bring a package in line with its upstream, by calls of `PackageManager` | `PackageManager` |
| `MCPackageSyncer` | instances for TLC | `PackageSyncer` |
| `ChangesStream` | streams of upstream changes, registries and scopes, and what gives a package its registry | |
| `MCChangesStream` | instances for TLC | `ChangesStream` |
| `ChangesStreamProofs` | theorems and proofs | `ChangesStream` |
| `ManifestCache` | how a document gets to clients: redis keys, events, and the proxy cache with its tasks | |
| `MCManifestCache` | instances for TLC | `ManifestCache` |
| `ManifestCacheProofs` | theorems and proofs | `ManifestCache` |
| `BinarySyncer` | one mirror of binaries, for thirteen adapters | |
| `MCBinarySyncer` | instances for TLC | `BinarySyncer` |
| `BinarySyncerProofs` | theorems and proofs | `BinarySyncer` |
| `VersionResolution` | ranges as database conditions against semver; the fixing of old rows | |
| `MCVersionResolution` | instances for TLC | `VersionResolution` |
| `VersionResolutionProofs` | theorems and proofs | `VersionResolution` |

### TaskQueue

Processes are clients (a request in `createTask`), worker slots (the loops in
`port/schedule/*Worker.ts`) and handlers (processes in
`retryExecuteTimeoutTasks`). `pc[p]` says at which call p is, `cur[p]` which task
it has in hand, and `ent[p]` is its in-memory `Task` entity. A row keeps the
columns that decide control: `state`, `attempts`, and of `data` whether
`specificVersions` is set (`full`) and to what (`versions`).

| Action | Code |
|---|---|
| `CreateNew`, `CreateExisting`, `CreateSwallowed` | `createTask`: lookup by target, and its three outcomes |
| `MergeRead`, `MergeUpdate` | `updateSpecificVersionsOfWaitingTask`: second read, write of the data column |
| `BoostQueued`, `BoostSkipped` | the high-water check before the push of an existing task |
| `Insert`, `Adopt` | `saveTask` of a new entity: insert, duplicate-key branch |
| `PushTask` | the push that ends `createTask` and `retryTask` |
| `PopTask`, `FetchTask`, `ClaimTask` | `findExecuteTask`: pop, `findTask`, `start` and `idempotentSaveTask` |
| `AppendTaskLog`, `Finish`, `Retry` | what an executor does to its own task |
| `SaveRetry` | `retryTask`: save |
| `SaveCopy` | what both saves do to the row: all of the copy, its `attempts` included |
| `FindFinished`, `SaveHistory`, `RemoveTask` | `saveTaskToHistory`: read, history row, removal |
| `SweepProcessing`, `SweepWaiting`, `SweepEnd`, `TimeoutFinish`, `TimeoutRetry` | `retryExecuteTimeoutTasks` with its two lists |
| `TimePasses`, `CallFails`, `HandlerCrash` | a row gets older than its timeout, a call throws, a process dies |

A save (read of a row, then write of it, with nothing decided in between) is
one step. A push (`INCR`, `ZADD`) is one step too. What the executors do besides
their task is left out: an executor may log, finish or retry at any time.
`limit(1000)` of the sweep is left out: instances have fewer tasks.

`raced` is a history variable: the tasks that a sweep treated from an outdated
copy, or while somebody else held them, or that were claimed while a sweep held
them. The code makes no promise for those (section 4); `OneHolder` and `VerdictFinal` speak of all the others.
`starts` counts how often workers claimed a task; it stops for the tasks in
`setBack`, whose `attempts` a save of an older copy lowered.

### Properties of TaskQueue

- `IdsResolve`: every queued or held id is in one of the two tables.
- `OneHolder`: two processes never both hold a copy of a task that they will
  write back.
- `StartsLimited`: workers start a task at most 3 times plus the retries its
  executor asked for. It is about the starts and not about the column `attempts`,
  which an older copy may put back: the tasks to which that happened are excepted.
- `NoneStranded`: without faults a task never needs the timeouts.
- `DuplicatesBounded`: only requests that overlap create duplicates of a task that
  waits. It says nothing of a task that executes (section 4).
- `VerdictFinal`: what history says stays.
- `ImplementsLifecycle`: the life of a task as seen from outside, with all
  races and crashes: once final never waiting or processing again, never
  forgotten.
- `EveryTaskFinishes`: with finitely many faults every saved task ends.

### HookPipeline

Processes are event handlers (one per change), slots of the two hook workers,
and requests of the user who owns the hooks. `at[w]` is the place of worker w in
its executor, `ent[w]` its `Task` entity, `cursor`, `todo` and `unpushed` the page
it goes through, `copy` the hook it has read.

Unlike in `TaskQueue`, rows of `tasks` have numbers here, as in SQL, and a task
is known by the number it was inserted as. `saveTask` and `saveTaskToHistory` look a
row up by the number in the entity, and the insert into `history_tasks` gives the
entity the number of the history row. `CreateHookTriggerService` finishes its task
first and goes on saving it, so what those saves reach depends on the numbers.
`HistoryStart` is where the auto-increment of `history_tasks` stands when that of
`tasks` is 1. It is 1 in all runs, as in a new database, and any number in the proofs.
`Strays` says that the row of the entity's number is that of another task, and
`strayed` remembers that one was saved or removed so; `Refused` is the save that
`uk_biz_id` refuses.

| Action | Code |
|---|---|
| `Record` | `ChangesStreamEvent.addChange` |
| `SaveCreateHook`, `PushCreateHook` | `createTask` for one detail: save (or duplicate-key branch), push |
| `Take` | `findExecuteTask` |
| `StartCreate` | `CreateHookTriggerService.executeTask` up to the first `finishTask` |
| `PushHooks`, `NextPage` | log, list a page; `Pages` are the answers of the query, `Turn` where one leads |
| `SaveTriggerHook`, `PushTriggerHook` | `createTriggerTasks`: hooks of a page in any order, save and push apart |
| `FinishCreate`, `CreateFails` | end of the `try` block, the `catch` block |
| `FindHook`, `HookGone`, `Call`, `CallRefused`, `SaveHook`, `FinishTrigger`, `TriggerFails` | `HookTriggerService.executeTask` |
| `CountHooks`, `InsertHook` | `createHook` |
| `ReadHook`, `UpdateHook`, `DeleteHook` | `updateHook`, `deleteHook` |
| `WorkerCrash`, `HandlerCrash`, `TimeoutRetry` | a process dies; the sweep |

Abstractions. The claim and `finishTask` are one step each: their races are the
subject of `TaskQueue`. A sweep retries only tasks nobody has in hand any more; its
races with a slow worker are in `TaskQueue` too. Attempts are left out, so at most
two faults happen (`MaxFaults`): the third failing attempt would end the task. The
query of a page has no `ORDER BY` and two indexes fit it, so a page is any hooks
above the cursor, as many as fit, and the next cursor any of them;
`disordered` remembers a page that was not the next hooks by id. A second hook of the
owner on one name is refused (`uk_type_name_owner_id`); `Others` are hooks of other
users, who do nothing. Maintainers of a package do
not change during a run. No call removes a package or a user, so the branches
for missing ones are left out. `deleteHook` reads the hook only to refuse; its
removal by `hookId` is the step.

### Properties of HookPipeline

- `IdsFound`: every queued task id, and every `latestTaskId`, is in one of the
  two tables. A run shows it violated; `IdsResolve` says it as long as nothing
  `strayed`.
- `CalledOnce`: a hook is called once per event, and again only after a fault, unless
  something `strayed` or a page was `disordered`.
- `DeletedStaysDeleted`: no copy of a hook brings it back.
- `HooksNearLimit`: `hooksLimit` is exceeded by fewer hooks than requests overlap;
  proved, and checked by no run.
- `EveryHookCalled`: a hook that exists when the change is recorded is called,
  however hooks come and go while the pages are read, unless something failed,
  `strayed` or was `disordered`.
- `EveryTriggerEnds`: a crash during delivery does not lose the delivery, unless
  something `strayed`.
- `PipelineHolds`: the invariant of the proofs, as long as nothing `strayed`.

### UsingLock

`key` is the value of the redis key, the time at which its lease ends; `ttl` is when
redis deletes it. Every redis command is an action, and `Tick` lets time pass
between any two. Its processes are those of `PackageVersionFile` below, whose run
checks both.

| Action | Code |
|---|---|
| `Get`, `Refuse`, `DeleteExpired`, `SetNx`, `Expire` | `lock` |
| `Finish`, `Release` | `usingLock` after `func`, with `unlock` |
| `Tick` | the clock, and redis deleting the key |
| `Fail` | a process dies or a command throws |

The timestamp that `lock` stores is the end of the lease, and yet it compares it as if
it were the beginning, so a key counts as timed out one lease after its end;
redis has deleted it by then, unless `EXPIRE` was never reached. The lock is not
safe without conditions, and `trouble` names them: no call of `lock` or
`unlock` takes longer than `Delay`, at most half a lease; none breaks off between
`SETNX` and `EXPIRE`; no `DEL` of `unlock` comes after the end of its lease.
Without the last one, a holder that works up to the end of its lease deletes the
key of the next, and a third process gets in. Running over the lease is allowed:
`Running` speaks of leases that are not over.

- `LeasesExclusive`: two leases never run at the same time.
- `LockExpires`: nobody is locked out for longer than a lease and a delay.

### PackageVersionFile

`work[p]` is what process p is doing with which publication of the version, and at
which file; `rows[n]` the files of publication n that have a row, `file[x]` whose
content is at path x of the object store. The variables of `UsingLock` are the lock
of readers.

| Action | Code |
|---|---|
| `Read`, `TakeLock`, `Unlock` | `#ensurePackageVersionFilesSync` with `usingLock` |
| `SyncFiles` | the event of a published version, `PUT /:fullname/:versionSpec/files`; a reader beside the lock of another id |
| `Extract`, `NotExtracted` | `syncPackageVersionFiles` up to the first file |
| `KeepFile`, `SaveFile`, `InsertRow` | `#savePackageVersionFile`: its look-up, upload and insert |
| `Throw`, `Die` | a call throws, a process dies |
| `Republish`, `Passes` | the version is removed and published again; time |

The code has a lock for each `packageVersionId`; the model has one key for whatever
ids are read under it. A reader in the code is never kept waiting by the lock of an
older id, and what it does then to files and rows is what `SyncFiles`, which takes
no lock, does in the model. `LeasesExclusive` is claimed for the holders of one key.

- `UnpackedWhole`: a version somebody has unpacked to the end has all its files.
- `FilesServed`: a row leads to the file of its own version, unless an older
  publication of the same version number was still being unpacked over it.

### PackageManager

`pkg`, `rows`, `tags`, `people` are the package's rows; `file` its tarballs and
version manifests in the object store; `full` and `abbr` the two documents the
registry serves. `at[p]` is the call process p is in: the steps it has still to
run, its arguments, its copies of entities and documents. A step is one write with
the reads in front of it.

| Actions | Code |
|---|---|
| `Publish`; `AcquireLock`, `SavePackage`, `UploadTar`, `UploadManifests`, `CreateVersion`, `SaveTags`, `ReleaseLock` | `publish` under its lock, and the controller in front of it |
| `RemoveVersion`, `RemoveByPkgUri`; `CheckNames`, `ListVersions`, `DestroyFiles`, `RemoveRow`, `MoveLatest`, `BlankFull`, `BlankAbbr` | `removePackageVersion`, `unpublishPackage` |
| `SaveTag`, `RemoveTag`; `DeleteTag` | `savePackageTag`, `removePackageTag` |
| `Deprecate`; `DeprecateFull`, `DeprecateAbbr` | `savePackageVersionManifest` |
| `SetMaintainers`; `ReplacePeople` | `replacePackageMaintainersAndDist` |
| `Block`; `SaveBlock`, `RefreshBlock` | `blockPackage`, `unblockPackage` |
| `Refresh`, `RefreshTags`, `SetDistTags`, `RefreshPeople`, `WriteFull`, `WriteAbbr` | the functions that refresh the documents |
| `List` | a read that makes a document that is not there yet |
| `Abort`, `LockLapses` | a call throws or its process dies; the lease ends |

- `TarballsKept`: no other publication of a version and no refused one replaces its
  tarball, as long as leases last and removals do not overlap.
- `NothingDangles`: documents and tags name only what is served, whichever calls
  overlap and wherever they break off, with the same exception.
- `DocumentsAgree`: with calls one after the other documents and rows agree.

### PackageSyncer

`sync[p]` holds the variables of `executeTask`, `up` the upstream manifest. The
phases are those of the function: `Fetch`, `SyncDelete`, `ReadFull` and `ReadAbbr`,
versions (`CompareVersion`, `ForceVersion`, `SyncVersion`, `LoseVersion`,
`VersionsDone`), `SyncMeta`, `SyncRemoval`, `SyncRefresh`, `SyncTag`, `SyncUntag`,
`SyncLatest`, `SyncRefreshTags`, `SyncPeople`, `SyncUnpeople`, `Finish`. Where it
calls a function of `PackageManagerService` the steps of that function follow, as
actions of `PackageManager`, and other executors may run between them. `SyncAbort`
is a task that dies or meets an error nobody catches. Kinds of task: all versions,
history forced, one version asked for, and that in strict mode.

- `SyncConverges`: an undisturbed task for all versions leaves rows, tags,
  maintainers and both documents as upstream has them.
- `SyncRecovers`: a complete task that runs alone repairs what earlier ones left
  when they broke off anywhere or overlapped.
- `ListedServed`: no document lists what cannot be served.

### ChangesStream

A stream is a task (`row`) whose `since` is the last change read; `ex[e]` is an
executor's copy of it and where it is, or where it is in a sync. `log` holds the
changes of each upstream, of one of three kinds: npm; cnpmcore, whose changes are
numbered before they are visible; cnpmjs.org, whose changes have times and pages a
size. A page is a set of places in the log. `exists`, `scopes` and `home` are the registries, the scopes and the registry
of each package.

| Actions | Code |
|---|---|
| `EnsureGlobal`, `Take`, `Timeout` | the worker, the queue, the sweep |
| `PrepareDefault`, `Prepare`, `Fetch`, `Pass`, `Consider`, `Create`, `CreateFails`, `SaveChange`, `EndRound`, `Throws` | `executeTask`, `prepareRegistry`, `executeSync`, `needSync`, `suspendSync` |
| `CreateRegistry`, `RemoveRegistry`, `RemoveScopes`, `CreateScope`, `InsertScope`, `RemoveScope`, `StartStream` | the registry and scope managers |
| `AskSync`, `StartSync`, `Adopt`, `Publish`, `NothingNew`, `StartPublish` | what writes a package's registry |
| `BreakOff`, `Die` | a request or an execution ends half way |

- `NothingSkipped`: what lies behind `since` has been dealt with.
- `ExactlyOne`: each package is followed in exactly one registry.
- `HomeStays`: a package that has a registry keeps it.

### ManifestCache

The redis keys `etag` and `bytes`, the events not yet handled, and in proxy mode the
copy in the object store, its row and its update task. Documents are told apart by
their revision; `work[p]` is a request, event handler or update under way and the
revision it holds.

| Actions | Code |
|---|---|
| `Write`, `Block`, `BugVersions`, `LoseEvent` | what changes documents, with its event |
| `WriteSilently`, `EndSync` | what a sync changes without events, and the cleaning at its end |
| `HandleEvent`, `Delete` | `CacheCleanerEvent`, `BugVersionFixHandler`, `removeCache` |
| `Show`, `GetBytes`, `RedisFails`, `List`, `Refuse`, `Fill`, `Expire` | `ShowPackageController.show`, `savePackageEtagAndManifests` |
| `ShowTag`, `ReadFile`, `ForgetRow`, `Fetch`, `Store`, `SaveRow` | `ProxyCacheService.getPackageManifest` and what it calls |
| `Refresh` ... `RefreshTask`, `CheckUpdate`, `StartUpdate`, `FailUpdate`, `CheckEtag`, `FinishUpdate` | refreshes and `executeTask` |
| `Remove`, `RemoveDelete`, `RemoveFile`, `RemoveRow` | `removeProxyCache`, and what a reader does who finds a row without its file |

- `CacheFresh`: once events are handled and syncs are over the keys hold what is current, or nothing.
- `ServedWhole`: no older document is served under a newer etag.
- `RefreshReaches`: when the task of a refresh is done, nobody is served what is
  older, and the row has its file.

Each of the three names the cases for which the code makes no promise (`stale`,
`crossed`, `behind`); section 4 lists them.

### BinarySyncer

A site of versions with a file and a directory each, `up`, against the mirror's rows
and files, `row` and `blob`. `work` is the execution of `syncDir`, three levels deep.
An adapter enters by five traits: whether it reads the site once or directory by
directory, what a bad status leads to, which directories may get another date in each
listing, what is the last item when dates are sorted as strings (as `diff` does), and what
it keeps from one execution to the next. For Node, Nwjs, Api, Bucket and Playwright any
version, or a file, may be the last; for Chrome a file is; for the others the newest
version is.

- `DirsWhole`: a directory saved with its upstream date is whole.
- `NewestWhole`: where dates sort like time, the next undisturbed execution completes
  the newest version, even if it was being published when it was read before.
  `NewestComplete` says so of all adapters, as the comment of `diff` does; for the others
  it does not hold (section 4).
- `FinishedOnce`: a timestamp is not finished before all its versions are.

### VersionResolution

`Condition` is the WHERE clause of `SqlRange`, over padded numbers (`PaddingVersion`)
compared as strings; `InRange` is what semver says. `GetVersion` is the answer of
`PackageVersionService`. Beside it `fix` walks the rows page by page
(`FixNoPaddingVersionService`) while rows are inserted, saved and removed.

- `RangeAnswered`: the answer is in the range and the highest there is, among the
  rows that are padded; for all ranges the first, for the usual ones the second
  too (`Usual` says which).
- `FixReaches`: a request that came to its end leaves no row without padding.

## 3. Runs

| Run | Instance | Shows |
|---|---|---|
| `core` | 1 task, 2 workers, 1 handler, 1 fault, 1 retry, 2 attempts | `TypeOK`, `IdsResolve`, `OneHolder`, `StartsLimited`, `VerdictFinal`, the refinement, and the inductive invariant of the proofs |
| `merge` | 3 requests for one package, 2 clients, 2 workers | `NoneStranded`, `DuplicatesBounded` |
| `live` | 2 requests with one `bizId`, 1 worker, 1 handler, 1 fault | `EveryTaskFinishes` under fairness; `IdsResolve` through the duplicate-key branch |
| `hooks` | 1 change with 2 details, 2 hooks in pages of 1 behind the first of 2 lookups, 1 owner, 1 update, 1 + 1 workers, 1 fault | `TypeOK`, `IdsResolve`, `CalledOnce`, `DeletedStaysDeleted`, the inductive invariant; `EveryTriggerEnds` and `EveryHookCalled` under fairness |
| `hook_numbers` | 2 changes, 1 hook, 1 + 1 workers, no fault | `IdsFound`, violated |
| `files` | 2 processes, 2 files, 2 publications, leases of 2, delay 1, clock to 5, 1 fault | `UnpackedWhole`, `FilesServed`; `LeasesExclusive`, `LockExpires` and the invariant of the lock |
| `packages` | 2 processes, 2 versions, 2 tags, 3 calls of which the first runs alone, 1 fault | `TarballsKept`, `NothingDangles`, `DocumentsAgree` |
| `sync` | 2 executors, 2 versions, 2 tags, 3 tasks, 2 events out of the ordinary | `ListedServed`, `SyncConverges`, `SyncRecovers` |
| `changes` | 2 executors, 2 registries, a scoped package and one without scope, 3 events, 1 fault among them | `NothingSkipped`, `ExactlyOne`, `HomeStays` |
| `serving` | 2 processes, 2 revisions, 1 fault, sync mode and proxy mode | `CacheFresh`, `ServedWhole`, `RefreshReaches` |
| `binary` | 2 versions, 13 adapters, 3 changes of the site, 4 changes and faults together | `DirsWhole`, `NewestWhole`, `FinishedOnce` |
| `resolution` | 6 versions around 1.10.0, 2 old rows, 3 rows ever, pages of 2 | `RangeAnswered`, `FixReaches` |

Bounds of `TaskQueue`. One task is enough for ownership, attempts and verdicts: no action on one
task reads another, except through the queue, whose order matters only to
`merge`. Two workers and a handler are enough for any two of them
to disagree about a row; the theorems cover any number. `MaxAttempts` is 2
instead of 3 so that giving up comes early. `MaxRetries` bounds what the code
does not: an executor may call `retryTask` for ever, and then a task never ends.
Deadlock is not checked in any run: an instance stops when its tasks are used up.

Fairness (`live`). Workers and the handler are interval schedules, so a process
that can take a step takes one (weak fairness per process). Time passes, so that
rows do get old. Requests, retries, log lines and faults are not fair.

Bounds of `HookPipeline`. Pages of one hook make the cursor move at every hook, and
two that exist at once, one of another user and one of the owner, give a second page;
the second lookup is empty. Two
details of one change are enough for events to absorb each other, and for the entity of
one to meet the row of another task. `MaxRow` leaves room for the tasks of both details
and one per hook; when the details do not share those, the last are not made.
Requests of one user that overlap, more workers and more faults are left to the
theorems, and so is `HooksNearLimit`, which takes more hooks. Both tables number from 1 in each run;
`hook_numbers` needs two changes, so that neither task is taken for the other.

Fairness (`hooks`). Handlers of events run to their end; workers
are called every second, the sweep every minute (weak fairness per change, worker
and row). Changes, requests of the owner and faults are not fair. Both liveness properties say
that some day nothing is left to do (`[]<>`), which for the finitely many changes of an
instance is the same as a promise for each task and each hook, and cheaper to check.

Bounds of `UsingLock` (`files`). A clock that runs to 5 lets a lease of 2 end, the
next one begin and a key without time to live grow old enough to be taken over. Two
processes show every race between a holder and a newcomer; that a late unlock lets
a third one in is beyond the run, and covered by the theorems, which are about any
number of processes.

Bounds of the other modules.
- `files`: two files give a first and a last; two publications an old and a new
  one. Faults are one each, anywhere: the next would find a state one fault, or
  none, leaves behind too.
- `packages`: a first call alone makes the states a package can be in, the other two
  overlap in every way; three processes would add races of three documents, of
  which each pair is here. Two versions make removal of the last and of a former one
  differ; a second tag is one that is not `latest`.
- `sync`: `MaxFaults` counts what is out of the ordinary, an overlap twice, so two of
  them allow one overlap, or any two of: a death, a lost version, an upstream
  change, a forced or partial task. The third task is there to repair what the first
  two left.
- `changes`: pages of one change and `Back` 1 make every page boundary happen with
  three changes. The two assignments of kinds have all three
  kinds, npm as the default upstream and as another one.
- `serving`: two revisions are an old and a new document.
- `binary`: dates are clock times, so three changes give a file replaced while its
  version is walked, and after. A second version makes the first not the newest.
- `resolution`: 1.9.0, prereleases of 1.10.0, 1.10.0 and 2.0.0 tell numbers from
  strings and prereleases from releases; one invalid version. All single comparators,
  pairs of bounds with anything between, and unions with exact versions are asked for.
  Pages of 2 with 3 rows give a full page and one that is not.

Fairness is assumed for `TaskQueue` and `HookPipeline` alone. The other modules state
what holds whenever something has come to its end; that tasks do end is
`EveryTaskFinishes`. Symmetry is used for processes of one kind only, in runs
without liveness; no property or action orders them.

## 4. Known behaviours

What the models showed of the code on the way, and what the properties except
because of it. Each is how the code is, not necessarily a fault.

Tasks.
- The sweep saves a copy it read earlier (`TaskService.ts:194`), and thereby puts
  `attempts` back: a second worker may win an attempt that another one is executing,
  although only one is meant to (`findExecuteTask.test.ts:92`). `OneHolder`
  and `VerdictFinal` except the tasks in `raced`.
- A worker whose task timed out and went to another one saves its older copy when it
  logs (`TaskService.ts:224`), and puts `attempts` back as well. The limit of 3
  goes by that column, so the task is retried once more, as often as this happens.
  `StartsLimited` excepts the tasks in `setBack`.
- A request for a package whose task is being executed finds that task and creates
  none (`TaskService.ts:75`), whatever changed since it was read, although the
  comment above (`TaskService.ts:34`) says that one must be created then. `DuplicatesBounded` is
  about waiting tasks and does not see it.
- Two merges of versions into one waiting task read and write the data column
  (`TaskRepository.ts:83-96`): the versions of one may be lost.
- A push of a queued id moves it to the back (`QueueAdapter.ts:30`): a task that is asked for
  again and again may starve.

Hooks.
- Row numbers of `history_tasks` and `tasks` are drawn separately. The entity that
  `CreateHookTriggerService.ts:46` finishes and goes on using has the number of its
  history row (`ModelConvertor.ts:50`); when a live task has that number, its row is
  overwritten and its id is in no table any more (`hook_numbers`), or the save is
  refused by `uk_biz_id` and the executor fails. `strayed` marks the first, and
  the properties that depend on it except it.
- Pages of hooks are listed without `ORDER BY` (`HookRepository.ts:68-72`) and the
  cursor is the last of them: where the database uses `uk_type_name_owner_id`, or has
  no order, hooks beyond a page are skipped or called for twice (`disordered`).
- That history row is written first and in state `processing`, and stays so: what
  happens to the task later is saved to a number that is not in `tasks`.
- What an owner changes of a hook while it is being called is lost when the whole
  hook is saved after the call (`HookTriggerService.ts:62`).

Packages and synchronisation.
- A publication that broke off may leave a row that no document lists, until a
  version of the package is published, removed or synced; its version cannot be
  published again.
- A tag or removal that breaks off between the two documents leaves the abbreviated
  one behind. `SyncRecovers` says which parts the next task repairs.
- A removal that dies between the rows of a version's dists and the version's own
  row (`PackageRepository.ts:542-552`) leaves a row whose files have no path, and
  what reads them for a refresh fails. `RemoveRow` deletes both in one step.
- A forced task that breaks off leaves a version listed without row and files; the
  next task sees it listed and does not look for it.
- A forced task that removes the only version there is blanks the documents, and then
  lists the maintainers it had before.
- A row created by a task that broke off, and deprecated or removed upstream before
  the next, is put right by the task after that.
- A package row without any version makes a task throw at the maintainers.
- A tag moved while the document is patched is written over by the older one.
- Two removals of one version that overlap, with a publication of it between them:
  the later removal deletes the files of the new publication by their path
  (`PackageManagerService.ts:713`), though not its row, and what is listed then cannot be served.

Streams.
- A change is given up when its task cannot be created; a cnpmcore change that
  becomes visible after a later one, and changes of cnpmjs.org that share their time
  at the end of a page, are never read.
- A cnpmcore upstream with fewer than 10 changes yields a negative initial `since`,
  which it refuses: the stream reads nothing until there are more.
- An executor that meets an error saves its copy of the task, however old
  (`ChangesStreamService.ts:140`): the position goes back, and changes are read
  twice, which `NothingSkipped` does not mind; or back to none, and the stream starts
  from the latest change again. What lies before that is not counted as skipped.
- The packages of a removed registry are not synced any more, nor are those of a
  registry without a stream that has lost its scopes. A followed registry
  that has lost all its scopes is taken for the general one. `ExactlyOne` excepts both.

Caches.
- What a sync changes without publishing (deprecations, removals, readmes) emits no
  event. The sync cleans the keys as its last step (`PackageSyncerService.ts:1322`);
  one that breaks off before leaves old documents cached until its retry ends, another
  event comes, or a day has passed. A package that is taken off the bug-version list
  is not cleaned at all.
- A fill from before a change may end after the cleaning for it.
- A refresh that comes while the task is being executed gets that task.
- In proxy mode a document is refreshed for whom a tag was asked once; one that
  was only shown stays until its key expires.

Files and mirrors.
- An unpacking that breaks off leaves some rows, and readers take them for all.
- `GithubBinary.initFetch` sets the releases to an empty list (`GithubBinary.ts:21`),
  which `initReleases` (`GithubBinary.ts:28`) takes for loaded: a sync lists nothing.
  `ElectronBinary` extends it. The tests call `fetch` without `initFetch`.
- A bad status below the root reads like an empty directory where pages are parsed
  (`AbstractBinary.ts:65`), and the directory above is saved all the same.
- A file that answers 404 is passed over for good once its directory is saved.
- The version that is looked through again, because it may still be being published,
  is the last by date as a string (`BinarySyncerService.ts:398`). Of Node's dates
  `31-Oct-2023` comes after `05-Nov-2024`, and files of the root count too; Bucket's are the
  hour of the listing, so that within it all are alike; Chrome's three files are always last.
  There the newest version may stay incomplete, whatever undisturbed executions follow, although
  it is for that case that the version is looked through again (`BinarySyncerService.ts:352-354`).
  `NewestWhole` excepts those adapters; TLC refutes `NewestComplete` for them in a few steps.
- `ChromeForTestingBinary` takes a timestamp for finished when a later execution
  could not read the site; `PuppeteerBinary`'s marker passes over revisions that
  failed.

Versions.
- `>1.10.0-1` never finds 1.10.0, and `>=1.10.0-1 <=2.0.0` never finds 1.10.0-2: the
  condition compares padded numbers without the prerelease.
- A tag whose name is a range comes before what the range means.

Runs that expect a violation, because the source says of the code what it does not do:

- Run `hook_numbers` (`IdsFound`), at `app/core/service/CreateHookTriggerService.ts:46`: An id that is popped and not found is dropped, because 任务已删除或任务已执行 (src/app/core/service/TaskService.ts:126, the task is deleted or was executed). The executor of create_hook finishes its task first and goes on saving the entity, which by then has the number of the history row (src/app/repository/ModelConvertor.ts:50); the tables number their rows apart, from 1 (sql/ddl_mysql.sql:51,317). The run saves it over the row of a task that waits: its id is queued, and the task was neither deleted nor executed.

## 5. Proofs

`TaskQueueProofs` proves, for any tasks, clients, workers, handlers and bounds,
from `ProcAssumption` (a process has one role), `TaskAssumption` (new tasks
wait) and `BoundAssumption`:

- `TypeCorrect`, `IdsAlwaysResolve`, `MutualExclusion`: `Spec => []TypeOK`,
  `[]IdsResolve`, `[]OneHolder`;
- `VerdictsAreFinal`: `Spec => VerdictFinal`;
- `Implementation`: `Spec => ImplementsLifecycle`.

They follow from `InductiveInvariant`. `OneHolder` alone is not inductive: that
a claim succeeds must imply that nobody holds the task. `Inductive` adds
`EntOK` (what task and entity a process has at each call), `IdsFresh` (ids that
are not inserted yet are known to their creator only, and a row is removed only
after its history row was written) and `AttemptsOK`: as long as a task was not
raced, its holder has the row's attempts, and who is about to claim it expects
at most one more than the row has, and at most the holder's. So whoever claims
with success finds attempts that no holder can have. Each of `TypeStep`,
`EntStep`, `IdsStep` and `OwnStep` shows that one part survives every action; run
`core` checks `Inductive` with TLC. The refinement is `LifecycleStep`: each step
changes the status of at most one task, by a move of `TaskLifecycle`.

Three more each have an invariant of their own on top of `Inductive`:

- `StartsBounded`: `Spec => []StartsLimited`. `StartsOK` bounds the column `attempts`
  of every copy of a row, in the table, in a process's hands and on a handler's
  list, and leaves those that wait a start; `StartsCounted` says that the column
  counts at least the starts, as long as no save has lowered it.
- `NothingStranded`: `Spec => []NoneStranded`. `Carried`: without faults a task that is
  processing is held, and one that waits is queued or carried by a process that is
  at a call that will push, start, finish or retry it.
- `FewDuplicates`: `Spec => []DuplicatesBounded`, for finitely many clients.
  `RoomLeft`: the tasks of a target, with the requests that have looked it up
  and are about to insert, are no more than the clients.

Of `TaskQueue` only model-checked: `EveryTaskFinishes` (liveness is out of reach of
the prover).
`HookPipelineProofs` proves, for any changes, details, hooks, workers, requests
and bounds, from `SetAssumption` and `NumberAssumption`, wherever the two tables
start to number their rows:

- `PipelineInvariant`: `Spec => []PipelineHolds`;
- `HookIdsResolve`: `Spec => []IdsResolve`;
- `DeletedHooksStayDeleted`: `Spec => []DeletedStaysDeleted`.

`PipelineHolds` is `PipelineInductive` as long as nothing `strayed`; where a step does
not stray, an entity meets its own row or none (`OwnRow`). `IdsResolve` is not
inductive: `RowsOwn` says that a live row has the
number of its task, and `Saved`
that a task anybody knows is in a table and of the type it is executed as. The
rest says that of every place an id can be: entities, queues, handlers, pages, hooks,
copies of hooks and updates under way. `HooksInserted` says that only the next hook
number comes into existence, which is all `DeletedStaysDeleted` needs, for
`saveHook` writes only where a row is; it is inductive on its own (`InsertedStep`),
whatever strays. Each action has a lemma; `Keeps` (a step
keeps `RowsOwn` and everything `Saved`) is shown once per table operation, and
`PipelineStep` puts them together.

Three more have invariants of their own:

- `HooksCalledOnce`: `Spec => []CalledOnce`, which excepts what `strayed`, for a
  task whose row was overwritten may be run twice, and pages that were `disordered`.
  `CallsInductive` follows a
  call back to its change: `RowsApart` (the tasks of one change, detail and hook share
  no row), `LookupsAdvance` (who pages through the hooks has created no task for those
  to come), `CreatedOnce` (a hook has one task for an event) and `CallsCounted` (what
  was called, and what a process is about to call, against the starts that crashes and
  failing calls allow).
- `LimitHolds`: `Spec => []HooksNearLimit`, for finitely many owners and a table that
  begins within the limit. `LimitNear` counts the owners who have counted and are about
  to insert (`Inserting`) with the hooks that are there.
- `PipelineTypes`: `Spec => []TypeOK`, whatever strays. Rows may then be those of other
  tasks, so that who pops an id must be shown to find a row of its type: `TypesApart`
  says that of all who have a task (`Has`: rows, entities, queues, pages, handlers) none
  takes it for one of the other type, and that nobody has the number of a task to
  come. `BoundsKept` adds the bounds of numbers (`TypesInvariant`).

Of `HookPipeline` only model-checked: the liveness properties.

`PackageVersionFileProofs` proves first of the lock, for any processes and clock, from
`LeaseAssumption` (`Delay` is at most half of `Seconds`):

- `LockInvariant`: `Spec => []LockInductive`;
- `LeasesAreExclusive`: `Spec => []LeasesExclusive`;
- `LocksExpire`: `Spec => []LockExpires`.

`KeyOfLease` says that the key is that of the only lease that is not over and will
stay until it is; `CallsPrompt` and `KeyEnds` bound how old what a call has read
can be. So `NothingExpired`: as long as nothing went wrong `lock` never takes a key
over, and the race between two processes that do cannot begin.

It proves of the files, for any processes, files and publications, from
`LeaseAssumption` and `FilesAssumption` (files are numbered, and there is one):

- `LockWhileUnpacking`: `FilesSpec => []LockInductive`, for every step of an
  unpacking is a step of `UsingLock` or leaves the lock alone (`LockKept`);
- `UnpackedIsWhole`, `FilesAreServed`: `FilesSpec => []UnpackedWhole` and
  `[]FilesServed`.

The latter two need `FilesInductive`: who has come to a file has passed only files
that have a row (`WorkOrdered`), so that who finds no next file has passed all; the
file of the next row is in place and of the right publication; and nothing is there
of a publication to come (`NothingAhead`), so that the next one begins without
rows. Several processes that unpack one version cannot disturb this, because rows
are only ever added.

`VersionResolutionProofs` proves, for any versions, ranges, number of rows, page size,
width of the padding and largest number that fits it, from `VersionAssumption` and
`RangeAssumption` (semver makes no alternative without a comparator):

- `FixLeavesNone`: `ResolutionSpec => []FixReaches`;
- `RangesAreAnswered`: `ResolutionSpec => []RangeAnswered`.

`FixedBehind` says that what lies between the first id and the next page is padded,
except for the rows of the page that are still to be. A page is an initial segment
of the rows from its first id on (`PageIsInitial`), so that its end may be taken for
the beginning of the next; rows that come are padded, and have the highest id.

`RangeAnswered` needs no inductive invariant, for it holds whatever the rows are; it needs that
the database orders versions by their padding as semver does by their numbers. That is
shown by induction over digits: `Without` takes them off one at a time, `DigitsLess` finds
where two numbers differ first, `PadOrder` puts three together. Then a condition without
prereleases selects exactly what is in the range (`ReleaseCondition`), one of a usual range all
that is and maybe more, from which semver chooses (`UsualCondition`), and the first by the
padding is the highest (`FirstFound`). The induction is over sets of numbers (`Induct`, from
the least element of a set), for the library's theorem has an operator as parameter.

`ManifestCacheProofs` proves, for any processes, revisions and faults, from nothing
but the assumption on its bounds:

- `StaleGoes`: `CacheSpec => []CacheFresh`;
- `EtagsMatch`: `CacheSpec => []ServedWhole`;
- `RefreshDone`: `CacheSpec => []RefreshReaches`.

All follow from one inductive invariant with a part for each. `Carried` says what a
process has in hand at each step. `Swept` is behind `CacheFresh`: a key that is not
current has a cleaner who will come to it, once no sync is still writing. `FilledAlike` is behind `ServedWhole`:
whoever is about to fill agrees with what is filled already, and no reader has seen
the etag of a newer document. `OneUpdate`, `FillsAlike` and `Reaches` are behind
`RefreshReaches`: the task of a refresh fetches nothing older than the refresh, once
it has stored the file nobody else has anything older, and once it has been through
the keys they have not either.

`ChangesStreamProofs` proves, for any registries, scopes, packages, executors and
bounds, from `StreamAssumption`:

- `HomesStay`: `StreamSpec => HomeStays`;
- `OneRegistry`: `StreamSpec => []ExactlyOne`;
- `NoneSkipped`: `StreamSpec => []NothingSkipped`.

The first two need what the tables say of each other while requests that remove
registries and scopes are half way: `RowsKnown`, `Shapes`, `StreamsKnown`, `SeenFits`,
`OwnersFollowed` (a registry that packages have, or are about to get, is followed or
gone) and `ScopesFollowed` (a scope has its registry, or somebody is about to remove
it). `ExactlyOne` follows without induction. `NothingSkipped` is about positions:
`PositionsSettled` says of the row of a stream and of every copy of it, however old,
that no change behind it counts as skipped, and of what is left of a page
(`PageWhole`) that no change is missing before one that is in it. So it does not
matter which executor saves last. `LogsSorted` is what is assumed of an upstream.

`PackageManagerProofs` proves, for any processes, users, versions, tags, calls and
faults, from `PackageAssumption` (versions are finitely many numbers):

- `CallsKnown`: `Spec => [](RunsKnown /\ Kinds)`;
- `TarballsAreKept`: `Spec => []TarballsKept`;
- `ListedIsServed`: `Spec => []ListedServed`;
- `TagsDoNotDangle`: `Spec => []NothingDangles`;
- `DocumentsDoAgree`: `Spec => []DocumentsAgree`, also from `ObjectAssumption` (a document
  and what it lists are objects, not null).

The documents are written back from copies of any age, so the invariant `Kept` is
about the copies as well: every document, in the store or in the hands of a call,
is `Sound`, that is, lists only versions with the row they were listed for, or whose
removal has begun, and tags only versions that have a row or are being removed. That
stays true of a copy however long a call keeps it, for rows only come, or go when their
removal has begun (`Advance`). What a row promises is `FilesFit`: the files of a
version with a row are of its own publication. It holds because who uploads
has the lock and has seen that there is no row (`Uploads`), so that publications touch
files without a row only; and because who removes has the rows that it goes through
(`Removes`) to itself. `RunsKnown` lists where a call can be. With two removals at
once, or a lock that lapses under its holder, `FilesFit` fails, which is why the
properties except these (section 4). Each action has a lemma; `StepKeeps` shows what
a step of one call leaves of the others, and `PlainStep`, `RetagStep`, `RemovalStep`,
`StoreStep`, `DeprecationStep` and `BeginStep` what steps of one kind have in common.

`DocumentsAgree` is about calls one after the other, and its invariant `Orderly` follows
each call to its end. It says that one call at most is past its lock (`OneAtATime`), that
the package is `Settled` when none is, and, of each of the steps a call can be before,
what holds there (`InOrder`, with one definition for each step: `AtRefresh`, `AtFull`, ...).
The idea is that documents may be stale, but by known versions: `Written(but)` says that
both are there and list what rows and files say except for the versions in `but`, and
`Says` the same of a document that a call has in hand. From the row that is created or
removed to the refresh these are the versions the refresh is for (`Due`), so that the
refresh, which patches those and no others (`PatchedSays`), or builds the document anew
(`DocOfSays`), leaves a document without any; `Tagged` and `Owned` say when tags and
maintainers are right again. What follows the documents is one of four endings (`Ends`), for a call that
saves tags or deprecates goes through the documents more than once. The invariant
needs `RunsKnown` and `Kinds`, but not `Kept`. TLC checked it on two instances, one of two
processes and one of four calls one after the other, before it was proved.

`BinarySyncerProofs` proves, for any processes, versions and changes of the site, and for
each of the thirteen adapters, from `BinaryAssumption` and `AdapterAssumption` (the
adapters are those of `Traits`):

- `MirrorIsKept`: `BinarySpec => []MirrorHolds`;
- `DirectoriesAreWhole`: `BinarySpec => []DirsWhole`;
- `NewestIsWhole`: `BinarySpec => []NewestWhole`;
- `TimestampsAreFinished`: `BinarySpec => []FinishedOnce`.

What a directory of the mirror promises is broken while an execution is in it, so the
invariant says what the execution still has in hand. `ListHolds`: if the list of a version
is what upstream has now (`ListedNow`), every file in it is in the mirror, or still to do,
or has made the version `bad`, in which case it is not saved (`DirectToDo`, `SubToDo`).
What makes a list be that of now is the date it was listed with: `OnceListed` says that
whatever is known of a version is what upstream had at some time, and that two changes
have not one date; `TreeHolds` says the same of a tree that was read at once. `FreshHolds`
follows an execution that has listed the site as it is to every version it must look
through, the newest among them where dates sort like time; that there is a newest is
`NewestIsLatest`, from the least element of the ages. `RunningHolds`
and `TimestampHolds` say which executions have, the latter across executions, for the
adapter that keeps a timestamp. `SiteMoves` is about the changes of the site, `Away` about
steps before and after the directories, and `WithinKeeps` about those in them; each action
has a lemma.

Only model-checked are the properties of `PackageSyncer` (`ListedServed` is
proved of the calls of `PackageManager`, not of the tasks that make them), and liveness.

## 6. Not modelled

- Task logs (`appendLogToNFS`); `findTaskLog`, `findTasks` and other reads without
  effect; several task types at once (types share no queue and no lock); the
  1000-row limit of a sweep.
- Of packages: readmes, the events that store manifests as rows too, the 72 hours after
  which nothing may be unpublished, several packages at once (they share nothing).
- Of synchronisation: tasks for dependencies, the upstream's own sync, download
  counts.
- Of registries: changes of URL and type, tokens; that the default one is removed by
  hand. A new registry has an id nobody had. The executors of `ChangesStream` are of
  one host; `GLOBAL_WORKER` is created once.
- Of caches: version manifests, requests of other registries' workers, the pair of
  documents (each is on its own).
- Of unpacked files: the white list, the readme, subdirectories.
- Of mirrors: how pages are parsed; executions of one mirror that overlap; ignored
  files; `GithubBinary` and `ElectronBinary`.
- Of versions: exact versions and tags; the advice of bug-versions after the look-up;
  what their rewriting makes of a manifest, a pure function.
- Users, tokens and roles; download counters; search index; statistics; storage
  wrappers; utilities: see `PROJECT.json` for the reason in each case.

## 7. Plan

In this order; each module with its MC module, runs and mutants.

1. `TaskQueue`: done, with its proofs.
2. `HookPipeline`: done, with its proofs.
3. `UsingLock` and `PackageVersionFile`: done, with their proofs.
4. `PackageManager` and `PackageSyncer`: done; `TarballsKept`, `ListedServed`,
   `NothingDangles` and `DocumentsAgree` proved. Left: the events that store manifests as rows.
5. `ChangesStream`: done, with its proofs.
6. `ManifestCache`: done, with its proofs.
7. `BinarySyncer`: done, with its proofs. Left: overlapping executions of one mirror after a timeout,
   and the two adapters that list nothing, once they do.
8. `VersionResolution`: done, with its proofs.
9. Not begun: `DownloadCounter`, `Users`, the rewriting of manifests by bug-versions.
