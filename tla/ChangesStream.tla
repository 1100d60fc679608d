---------------------------- MODULE ChangesStream ----------------------------
(***************************************************************************)
(* ChangesStreamService reads what changed in the registries upstream and  *)
(* asks for a sync of every package concerned; RegistryManagerService and  *)
(* ScopeManagerService say which registry a package is followed in; a sync *)
(* or a publication gives the package its registry for good.               *)
(*                                                                         *)
(* There is one stream, a task, for each registry: GLOBAL_WORKER for the   *)
(* default one and one an administrator starts for each other.  Its `since'*)
(* is the last change read.  An executor holds a copy of the task and      *)
(* saves it whole; when the task is timed out or suspended meanwhile       *)
(* another one takes it over, and both go on.  Queue and claim are those   *)
(* of TaskQueue and are one step here.  The executors are of one host.     *)
(***************************************************************************)
EXTENDS Integers, Sequences, FiniteSets, SequencesExt

CONSTANTS
  Executor,   \* executions of ChangesStreamWorker and SyncPackageWorker
  Registry,   \* upstream registries
  Default,    \* the default one of them
  Self,       \* the registry of packages published here
  Package,
  Scope,
  ScopeOf,    \* package -> its scope, None without one
  Kinds,      \* functions from registries to "npm", "cnpmcore" or "cnpmjsorg"
  None,
  Back,       \* how many changes before the last a stream starts: 10 in the source
  Limit,      \* changes in one page: 1000
  MaxLimit,   \* the largest page cnpmjsorg is asked for: 10000
  MaxEvents,  \* bound: upstream changes, requests, publications and faults
  MaxFaults   \* bound: executions that die, take too long or meet an error

ASSUME StreamAssumption ==
  /\ Default \in Registry /\ Self \notin Registry /\ None \notin Registry \cup Int
  /\ ScopeOf \in [Package -> Scope \cup {None}] /\ None \notin Scope
  /\ Kinds \subseteq [Registry -> {"npm", "cnpmcore", "cnpmjsorg"}]
  /\ Back \in Nat /\ Limit \in Nat \ {0} /\ MaxLimit \in Nat

VARIABLES
  kind,      \* registry -> its type
  log,       \* registry -> its changes: package, seq, and whether others can see it
  exists,    \* the registry rows
  scopes,    \* scope -> registry of its row, None without one
  home,      \* package -> registryId of its row: Absent without a row, None without an id
  row,       \* registry -> its stream: the task row
  queue,     \* streams that wait to be executed
  ex,        \* executor -> what it is doing: see Idle
  syncs,     \* package -> registry its waiting sync task names, Absent without one
  admin,     \* requests that have checked and not yet written
  used,      \* bounds: events and faults so far
  past       \* history: see StreamInit

rowsVars == <<exists, scopes, home>>
taskVars == <<row, queue, syncs>>
streamVars == <<kind, log, rowsVars, taskVars, ex, admin, used, past>>

Absent == "absent"
NoStream == [started |-> FALSE, processing |-> FALSE, registry |-> None, since |-> None]

\* An executor at rest: the step; its stream, the registry and the since its
\* copy of the task has, the since of this round, the last change, whether a
\* task was asked for, and the changes still to read; for a sync, its package
\* and the home it has read.
Idle == [step |-> "idle", t |-> None, registry |-> None, copy |-> None, since |-> None,
         last |-> None, asked |-> FALSE, page |-> {}, pkg |-> None, seen |-> Absent]

\* Nothing yet; or the registries are there, each but the default one with
\* scopes, all or none of these with a stream, and scoped packages from before
\* they had registries.
Fresh ==
  /\ exists = {} /\ scopes = [s \in Scope |-> None]
  /\ home = [k \in Package |-> Absent]
  /\ row = [r \in Registry |-> NoStream] /\ queue = {}
Configured ==
  /\ exists = Registry /\ scopes \in [Scope -> Registry \ {Default}]
  /\ \A r \in Registry \ {Default} : \E s \in Scope : scopes[s] = r
  /\ home = [k \in Package |-> IF ScopeOf[k] = None THEN Absent ELSE None]
  /\ \E streams \in {Registry, {Default}} :
       /\ row = [r \in Registry |-> IF r \in streams THEN [NoStream EXCEPT !.started = TRUE, !.registry = r]
                                    ELSE NoStream]
       /\ queue = streams

StreamInit ==
  /\ kind \in Kinds
  /\ log = [r \in Registry |-> <<>>]
  /\ Fresh \/ Configured
  /\ ex = [e \in Executor |-> Idle]
  /\ syncs = [k \in Package |-> Absent]
  /\ admin = {} /\ used = [events |-> 0, faults |-> 0]
     \* handled: changes considered to the end; failed: those whose task could
     \* not be created; late: those seen after a later one; first: the latest
     \* change a stream started from.  stripped: scopes were taken from a
     \* registry that is followed or that packages have; orphaned: a registry was
     \* removed while it was given a scope, or only by half; crossed: packages
     \* that two were writing; removed: the registries whose id is spent.
  /\ past = [handled |-> [r \in Registry |-> {}], failed |-> [r \in Registry |-> {}],
             late |-> [r \in Registry |-> {}], first |-> [r \in Registry |-> None],
             stripped |-> FALSE, orphaned |-> FALSE, crossed |-> {}, removed |-> {}]

MayHappen == used.events < MaxEvents
MayFail == MayHappen /\ used.faults < MaxFaults
Spend(fault) == used' = [events |-> used.events + 1, faults |-> used.faults + fault]

-----------------------------------------------------------------------------
(* Upstream *)

LastSeq(r) == IF log[r] = <<>> THEN 0 ELSE Last(log[r]).seq
\* npm numbers its changes; cnpmjs.org gives them times, which may be equal;
\* cnpmcore numbers them when it inserts them and shows them when it commits.
Change(r, k) ==
  /\ MayHappen /\ Spend(0)
  /\ \E step \in IF kind[r] = "cnpmjsorg" /\ log[r] # <<>> THEN {0, 1} ELSE {1} :
       log' = [log EXCEPT ![r] = Append(@, [pkg |-> k, seq |-> LastSeq(r) + step,
                                            shown |-> kind[r] # "cnpmcore"])]
  /\ UNCHANGED <<kind, rowsVars, taskVars, ex, admin, past>>

Show(r, i) ==
  /\ i \in DOMAIN log[r] /\ ~log[r][i].shown
  /\ log' = [log EXCEPT ![r][i].shown = TRUE]
  /\ past' = IF \E j \in DOMAIN log[r] : j > i /\ log[r][j].shown
             THEN [past EXCEPT !.late[r] = @ \cup {i}] ELSE past
  /\ UNCHANGED <<kind, rowsVars, taskVars, ex, admin, used>>

\* Changes are told by their place in the log.
SeqAt(r, i) == log[r][i].seq
Shown(r, since) == {i \in DOMAIN log[r] : log[r][i].shown /\ SeqAt(r, i) >= since}
After(r, changes, since) == {i \in changes : SeqAt(r, i) # since}
First(changes, n) == {i \in changes : Cardinality({j \in changes : j < i}) < n}

\* A full page of cnpmjs.org whose changes all have one time is asked for
\* again, larger; at some size the adapter gives up.
Enough(r, changes, n) ==
  Cardinality(changes) < n \/ \E i, j \in First(changes, n) : SeqAt(r, i) # SeqAt(r, j)
PageSizes(r, changes) ==
  {n \in Limit..MaxLimit : n % Limit = 0 /\ Enough(r, changes, n)}

Refused(r, since) ==
  kind[r] = "cnpmjsorg" /\ PageSizes(r, Shown(r, since)) = {}

Least(numbers) == CHOOSE n \in numbers : \A l \in numbers : n <= l

\* What fetchChanges yields.  A cnpmcore refuses a negative since, and that
\* error reads like a page without changes.
Page(r, since) ==
  LET shown == Shown(r, since)
  IN CASE kind[r] = "npm" -> After(r, shown, since)
       [] kind[r] = "cnpmcore" -> IF since < 0 THEN {} ELSE After(r, First(shown, Limit), since)
       [] kind[r] = "cnpmjsorg" -> After(r, First(shown, Least(PageSizes(r, shown))), since)

\* A registry without changes has no update_seq; cnpmjs.org starts from now.
HasInitialSince(r) == kind[r] = "cnpmjsorg" \/ LastSeq(r) # 0
InitialSince(r) == IF kind[r] = "cnpmjsorg" THEN LastSeq(r) ELSE LastSeq(r) - Back

-----------------------------------------------------------------------------
(* Registries and scopes *)

ScopesOf(r) == {s \in Scope : scopes[s] = r}

\* A new registry has a new id.
CreateRegistry(r) ==
  /\ MayHappen /\ r \notin exists \cup past.removed /\ r # Default /\ Spend(0)
  /\ exists' = exists \cup {r}
  /\ UNCHANGED <<kind, log, scopes, home, taskVars, ex, admin, past>>

\* The controller looks for the registry, then the scope is inserted, once.
CreateScope(s, r) ==
  /\ MayHappen /\ r \in exists /\ Spend(0)
  /\ admin' = admin \cup {[op |-> "scope", s |-> s, r |-> r]}
  /\ UNCHANGED <<kind, log, rowsVars, taskVars, ex, past>>

InsertScope(a) ==
  /\ a \in admin /\ a.op = "scope"
  /\ scopes' = IF scopes[a.s] = None THEN [scopes EXCEPT ![a.s] = a.r] ELSE scopes
  /\ past' = [past EXCEPT !.orphaned = @ \/ a.r \notin exists]
  /\ admin' = admin \ {a}
  /\ UNCHANGED <<kind, log, exists, home, taskVars, ex, used>>

\* The registry is followed, or is that of a package, now or soon.
Used(r) ==
  row[r].started \/ (\E k \in Package : home[k] = r) \/ \E e \in Executor : ex[e].registry = r

RemoveScope(s) ==
  /\ MayHappen /\ scopes[s] # None /\ Spend(0)
  /\ scopes' = [scopes EXCEPT ![s] = None]
  /\ past' = [past EXCEPT !.stripped = @ \/ Used(scopes[s])]
  /\ UNCHANGED <<kind, log, exists, home, taskVars, ex, admin>>

\* Mutant: the registry alone.
RemoveRegistryOnly(r) ==
  /\ MayHappen /\ r \in exists /\ r # Default /\ Spend(0)
  /\ exists' = exists \ {r} /\ past' = [past EXCEPT !.removed = @ \cup {r}]
  /\ UNCHANGED <<kind, log, scopes, home, taskVars, ex, admin>>

\* The registry's row goes first, then its scopes.  The default one stays: in
\* its place another one, of its name and a new id, would be created.
RemoveRegistry(r) ==
  /\ MayHappen /\ r \in exists /\ r # Default /\ Spend(0)
  /\ exists' = exists \ {r} /\ past' = [past EXCEPT !.removed = @ \cup {r}]
  /\ admin' = admin \cup {[op |-> "remove", s |-> None, r |-> r]}
  /\ UNCHANGED <<kind, log, scopes, home, taskVars, ex>>

RemoveScopes(a) ==
  /\ a \in admin /\ a.op = "remove"
  /\ scopes' = [s \in Scope |-> IF scopes[s] = a.r THEN None ELSE scopes[s]]
  /\ admin' = admin \ {a}
  /\ UNCHANGED <<kind, log, exists, home, taskVars, ex, used, past>>

BreakOff(a) ==
  /\ a \in admin /\ MayFail /\ Spend(1)
  /\ admin' = admin \ {a}
  /\ past' = [past EXCEPT !.orphaned = @ \/ a.op = "remove"]
  /\ UNCHANGED <<kind, log, rowsVars, taskVars, ex>>

\* createSyncChangesStream: only a registry with scopes; a stream there is
\* already is kept as it is.
StartStream(r) ==
  /\ MayHappen /\ r \in exists /\ ScopesOf(r) # {} /\ r # Default /\ Spend(0)
  /\ ~row[r].started
  /\ row' = [row EXCEPT ![r] = [NoStream EXCEPT !.started = TRUE, !.registry = r]]
  /\ queue' = queue \cup {r}
  /\ UNCHANGED <<kind, log, rowsVars, syncs, ex, admin, past>>

-----------------------------------------------------------------------------
(* Executing a stream *)

Step(e, label) == ex[e].step = label
Goto(e, label) == ex' = [ex EXCEPT ![e].step = label]

\* GLOBAL_WORKER is created by the first worker that finds it missing.
EnsureGlobal ==
  /\ ~row[Default].started
  /\ row' = [row EXCEPT ![Default] = [NoStream EXCEPT !.started = TRUE]]
  /\ queue' = queue \cup {Default}
  /\ UNCHANGED <<kind, log, rowsVars, syncs, ex, admin, used, past>>

Take(e, t) ==
  /\ Step(e, "idle") /\ t \in queue /\ row[Default].started
  /\ queue' = queue \ {t}
  /\ row' = [row EXCEPT ![t].processing = TRUE]
  /\ ex' = [ex EXCEPT ![e] = [Idle EXCEPT !.step = "prepare", !.t = t,
                                !.registry = row[t].registry,
                                !.copy = row[t].since, !.since = row[t].since]]
  /\ UNCHANGED <<kind, log, rowsVars, syncs, admin, used, past>>

\* The copy is saved whole.
Saved(e, since) ==
  [row EXCEPT ![ex[e].t] = [started |-> TRUE, processing |-> TRUE,
                            registry |-> ex[e].registry, since |-> since]]
Save(e, since) == row' = Saved(e, since)

\* prepareRegistry: GLOBAL_WORKER gets the default registry, created if missing.
PrepareDefault(e) ==
  /\ Step(e, "prepare") /\ ex[e].registry = None
  /\ exists' = exists \cup {Default}
  /\ ex' = [ex EXCEPT ![e].registry = Default]
  /\ row' = [row EXCEPT ![ex[e].t].registry = Default, ![ex[e].t].processing = TRUE,
                        ![ex[e].t].since = ex[e].since]
  /\ UNCHANGED <<kind, log, scopes, home, queue, syncs, admin, used, past>>

\* getInitialSince, unless the task has one.
Prepare(e) ==
  LET s == ex[e]
      since == IF s.since = None THEN InitialSince(s.registry) ELSE s.since
  IN /\ Step(e, "prepare") /\ s.registry \in exists
     /\ s.since = None => HasInitialSince(s.registry)
     /\ ex' = [ex EXCEPT ![e].step = "fetch", ![e].since = since]
     /\ past' = IF s.since = None /\ (past.first[s.t] = None \/ past.first[s.t] < since)
                THEN [past EXCEPT !.first[s.t] = since] ELSE past
     /\ UNCHANGED <<kind, log, rowsVars, taskVars, admin, used>>

Fetch(e) ==
  LET s == ex[e]
  IN /\ Step(e, "fetch") /\ s.registry \in exists /\ ~Refused(s.registry, s.since)
     /\ ex' = [ex EXCEPT ![e].step = "change", ![e].page = Page(s.registry, s.since),
                         ![e].last = s.since, ![e].asked = FALSE]
     /\ UNCHANGED <<kind, log, rowsVars, taskVars, admin, used, past>>

NeedSync(r, k) ==
  IF home[k] \in {Absent, None}
  THEN LET s == ScopeOf[k]
       IN IF s # None /\ scopes[s] # None THEN scopes[s] = r ELSE ScopesOf(r) = {}
  ELSE home[k] = r

\* The change the stream is at.
At(e) == Least(ex[e].page)
Current(e) == log[ex[e].registry][At(e)]

\* The change has been dealt with as `how' says.
Note(e, how) == [past EXCEPT ![how][ex[e].t] = @ \cup {At(e)}]

\* On to the next one; updateSyncData, unless that is skipped.
NextChange(e, label, updated) ==
  ex' = [ex EXCEPT ![e].step = label, ![e].last = Current(e).seq, ![e].page = @ \ {At(e)},
                   ![e].copy = IF updated THEN Current(e).seq ELSE @]

\* No sync is needed: the position is saved all the same.
Pass(e) ==
  /\ Step(e, "change") /\ ex[e].page # {}
  /\ ~NeedSync(ex[e].registry, Current(e).pkg)
  /\ NextChange(e, "change", TRUE) /\ past' = Note(e, "handled")
  /\ Save(e, Current(e).seq)
  /\ UNCHANGED <<kind, log, rowsVars, queue, syncs, admin, used>>

Need(e) ==
  /\ Step(e, "change") /\ ex[e].page # {}
  /\ NeedSync(ex[e].registry, Current(e).pkg)
  /\ ex' = [ex EXCEPT ![e].step = "create", ![e].asked = TRUE]

\* Mutant: the position is saved before the task is created.
SaveFirst(e) ==
  /\ Need(e) /\ Save(e, Current(e).seq)
  /\ UNCHANGED <<kind, log, rowsVars, queue, syncs, admin, used, past>>

Consider(e) ==
  /\ Need(e)
  /\ UNCHANGED <<kind, log, rowsVars, taskVars, admin, used, past>>

\* A waiting task of the package is found again and keeps its registry.  A
\* package that has got another registry meanwhile is passed over.
Create(e) ==
  LET s == ex[e]
      k == Current(e).pkg
      match == home[k] \in {Absent, None, s.registry}
  IN /\ Step(e, "create")
     /\ syncs' = IF match /\ syncs[k] = Absent THEN [syncs EXCEPT ![k] = s.registry] ELSE syncs
     /\ NextChange(e, IF match THEN "save" ELSE "change", match)
     /\ past' = Note(e, "handled")
     /\ UNCHANGED <<kind, log, rowsVars, row, queue, admin, used>>

\* "only log error, make sure changes still reading"
CreateFails(e) ==
  /\ Step(e, "create") /\ MayFail /\ Spend(1)
  /\ NextChange(e, "change", FALSE)
  /\ past' = Note(e, "failed")
  /\ UNCHANGED <<kind, log, rowsVars, taskVars, admin>>

SaveChange(e) ==
  /\ Step(e, "save")
  /\ Save(e, ex[e].last)
  /\ Goto(e, "change")
  /\ UNCHANGED <<kind, log, rowsVars, queue, syncs, admin, used, past>>

\* A round in which no task was asked for saves its position at the end; in
\* others that was done change by change.
EndRound(e) ==
  /\ Step(e, "change") /\ ex[e].page = {}
  /\ IF ex[e].asked THEN UNCHANGED row ELSE Save(e, ex[e].last)
  /\ ex' = [ex EXCEPT ![e].step = "fetch", ![e].since = ex[e].last, ![e].last = None, ![e].asked = FALSE,
                      ![e].copy = IF ex[e].asked THEN @ ELSE ex[e].last]
  /\ UNCHANGED <<kind, log, rowsVars, queue, syncs, admin, used, past>>

\* suspendSync: every stream this host has under way waits again.
Suspended(rows) == [t \in Registry |-> [rows[t] EXCEPT !.processing = FALSE]]
Suspends(rows) ==
  /\ row' = Suspended(rows)
  /\ queue' = queue \cup {t \in Registry : rows[t].processing}

\* An error: the copy is saved, however old, then all streams are suspended,
\* also those of other executors, which go on.
Throws(e) ==
  LET s == ex[e]
  IN /\ \/ Step(e, "prepare") /\ s.registry # None
           /\ (s.registry \notin exists \/ (s.since = None /\ ~HasInitialSince(s.registry)))
           /\ UNCHANGED used
        \/ Step(e, "fetch") /\ (s.registry \notin exists \/ Refused(s.registry, s.since)) /\ UNCHANGED used
        \/ s.step \in {"prepare", "fetch", "change", "save"} /\ MayFail /\ Spend(1)
     /\ Suspends(Saved(e, s.copy))
     /\ ex' = [ex EXCEPT ![e] = Idle]
     /\ UNCHANGED <<kind, log, rowsVars, syncs, admin, past>>

\* retryExecuteTimeoutTasks: an executor that died, or has not saved for long.
Timeout(t) ==
  /\ row[t].processing
  /\ IF \E e \in Executor : ex[e].t = t THEN MayFail /\ Spend(1) ELSE UNCHANGED used
  /\ row' = [row EXCEPT ![t].processing = FALSE] /\ queue' = queue \cup {t}
  /\ UNCHANGED <<kind, log, rowsVars, syncs, ex, admin, past>>

Die(e) ==
  /\ ~Step(e, "idle") /\ MayFail /\ Spend(1)
  /\ ex' = [ex EXCEPT ![e] = Idle]
  /\ UNCHANGED <<kind, log, rowsVars, taskVars, admin, past>>

-----------------------------------------------------------------------------
(* What gives a package its registry *)

\* A request, or a dependency of another package: without a registry.
AskSync(k) ==
  /\ MayHappen /\ syncs[k] = Absent /\ Spend(0)
  /\ syncs' = [syncs EXCEPT ![k] = None]
  /\ UNCHANGED <<kind, log, rowsVars, row, queue, ex, admin, past>>

\* initSpecRegistry: the registry of the package, of the task, of the scope.
SpecRegistry(k) ==
  LET named == IF home[k] \notin {Absent, None} THEN home[k] ELSE IF syncs[k] # None THEN syncs[k]
               ELSE IF ScopeOf[k] # None THEN scopes[ScopeOf[k]] ELSE None
  IN IF named \in exists \cup {Self} THEN named ELSE Default

SyncBegins(e, k, r) ==
  /\ Step(e, "idle") /\ syncs[k] # Absent
  /\ syncs' = [syncs EXCEPT ![k] = Absent]
  /\ exists' = IF r = Default THEN exists \cup {Default} ELSE exists
  /\ UNCHANGED <<kind, log, scopes, home, row, queue, admin, used, past>>
SyncFrom(k, r) ==
  [Idle EXCEPT !.step = IF home[k] = None THEN "adopt" ELSE "publish",
     !.registry = r, !.pkg = k, !.seen = home[k]]

\* Mutant: only packages of the self registry are left alone.
StartSyncAnyway(e, k) ==
  LET r == SpecRegistry(k)
  IN SyncBegins(e, k, r) /\ ex' = IF r = Self THEN ex ELSE [ex EXCEPT ![e] = SyncFrom(k, r)]

\* A sync task begins; packages of the self registry, or of one that is gone,
\* are left alone.
StartSync(e, k) ==
  LET r == SpecRegistry(k)
  IN /\ SyncBegins(e, k, r)
     /\ ex' = IF r = Self \/ home[k] \notin {Absent, None, r} THEN ex
              ELSE [ex EXCEPT ![e] = SyncFrom(k, r)]

\* The package's row is written with this registry; crossed when another one
\* was written since it was read.
Settle(e, r) ==
  LET k == ex[e].pkg
  IN /\ home' = [home EXCEPT ![k] = r]
     /\ past' = [past EXCEPT !.crossed = IF home[k] = ex[e].seen THEN @ ELSE @ \cup {k}]

\* A row without a registry gets it before anything is synced.
Adopt(e) ==
  /\ Step(e, "adopt") /\ Settle(e, ex[e].registry)
  /\ ex' = [ex EXCEPT ![e].step = "publish", ![e].seen = ex[e].registry]
  /\ UNCHANGED <<kind, log, exists, scopes, taskVars, admin, used>>

\* publish() writes the registry of every version it publishes.
Publish(e) ==
  /\ Step(e, "publish") /\ Settle(e, ex[e].registry)
  /\ ex' = [ex EXCEPT ![e] = Idle]
  /\ UNCHANGED <<kind, log, exists, scopes, taskVars, admin, used>>

NothingNew(e) ==
  /\ Step(e, "publish")
  /\ ex' = [ex EXCEPT ![e] = Idle]
  /\ UNCHANGED <<kind, log, rowsVars, taskVars, admin, used, past>>

\* A user publishes: a new package, one of the self registry, or one of a
\* scope that is allowed here, which then moves to the self registry.
StartPublish(e, k) ==
  /\ MayHappen /\ Spend(0) /\ Step(e, "idle")
  /\ home[k] \in {Absent, Self} \/ ScopeOf[k] # None
  /\ ex' = [ex EXCEPT ![e] = [Idle EXCEPT !.step = "publish", !.registry = Self, !.pkg = k, !.seen = home[k]]]
  /\ UNCHANGED <<kind, log, rowsVars, taskVars, admin, past>>

-----------------------------------------------------------------------------
Stream(e) ==
  \/ PrepareDefault(e) \/ Prepare(e) \/ Fetch(e) \/ Pass(e) \/ Consider(e) \/ Create(e)
  \/ SaveChange(e) \/ EndRound(e) \/ Throws(e)
Sync(e) == Adopt(e) \/ Publish(e) \/ NothingNew(e)
Admin ==
  \/ \E r \in Registry : CreateRegistry(r) \/ RemoveRegistry(r) \/ StartStream(r)
  \/ \E s \in Scope : RemoveScope(s) \/ \E r \in Registry : CreateScope(s, r)
  \/ \E a \in admin : InsertScope(a) \/ RemoveScopes(a) \/ BreakOff(a)

StreamNext ==
  \/ \E r \in Registry : \/ \E k \in Package : Change(r, k)
                         \/ \E i \in 1..MaxEvents : Show(r, i)
                         \/ Timeout(r)
  \/ Admin \/ EnsureGlobal
  \/ \E e \in Executor : \/ Stream(e) \/ CreateFails(e) \/ Die(e) \/ Sync(e)
                         \/ \E r \in Registry : Take(e, r)
                         \/ \E k \in Package : StartSync(e, k) \/ StartPublish(e, k)
  \/ \E k \in Package : AskSync(k)

StreamSpec == StreamInit /\ [][StreamNext]_streamVars

-----------------------------------------------------------------------------
(* Properties *)

\* What lies behind a stream's position has been considered: a sync was asked
\* for, or not needed.  Left behind are changes whose task could not be
\* created, those a cnpmcore upstream shows after a later one, and those of
\* cnpmjs.org that share their time with another.
NothingSkipped ==
  \A r \in Registry : row[r].since # None =>
    \A i \in DOMAIN log[r] :
      LET c == log[r][i]
          twins == {j \in DOMAIN log[r] : j # i /\ log[r][j].seq = c.seq}
      IN c.shown /\ past.first[r] < c.seq /\ c.seq <= row[r].since =>
           i \in past.handled[r] \cup past.failed[r] \cup past.late[r] \/ twins # {}

\* A package that has a registry keeps it, unless it is published here or two
\* were writing it: "registryId, once set, should not change".
HomeStays ==
  [][\A k \in Package : home[k] \notin {Absent, None} =>
       home'[k] \in {home[k], Self} \/ k \in past'.crossed]_streamVars

\* Every package that is not of the self registry is followed in exactly one
\* registry, the general one or that of its scope, unless the default one
\* has scopes, one that is used has lost them, or a removal went half way.
Followed(r) == r = Default \/ row[r].started \/ ScopesOf(r) # {}
ExactlyOne ==
  /\ Default \in exists /\ ScopesOf(Default) = {}
  /\ ~past.stripped /\ ~past.orphaned /\ admin = {}
  => \A k \in Package :
       home[k] \in {Absent, None} \cup exists =>
         Cardinality({r \in exists : Followed(r) /\ NeedSync(r, k)}) = 1

-----------------------------------------------------------------------------
(* Inductive invariants, for the proofs *)

\* What the rows hold.  A registry that was removed does not come back, a
\* removal under way has removed its registry, and a stream that waits, is
\* executed or has asked for a sync was started, for its own registry.
RowsKnown ==
  /\ exists \subseteq Registry /\ past.removed \subseteq Registry \ {Default}
  /\ exists \cap past.removed = {}
  /\ scopes \in [Scope -> Registry \cup {None}]
  /\ home \in [Package -> Registry \cup {Self, None, Absent}]
  /\ syncs \in [Package -> Registry \cup {None, Absent}]
  /\ \A k \in Package : syncs[k] \notin {None, Absent} => row[syncs[k]].started
  /\ \A a \in admin : \/ a.op = "scope" /\ a.s \in Scope /\ a.r \in Registry
                      \/ a.op = "remove" /\ a.r \in past.removed
  /\ \A r \in Registry :
       /\ row[r].started \in BOOLEAN
       /\ row[r].registry \in {r, None}
       /\ row[r].started /\ row[r].registry = None => r = Default
       /\ row[r].processing \/ r \in queue => row[r].started

\* The fields of the records; what they hold is above where it matters.
Shapes ==
  /\ DOMAIN row = Registry /\ DOMAIN ex = Executor /\ queue \subseteq Registry
  /\ \A r \in Registry : DOMAIN row[r] = DOMAIN NoStream
  /\ \A e \in Executor : DOMAIN ex[e] = DOMAIN Idle
  /\ {"removed", "stripped", "orphaned", "crossed", "handled", "failed", "late", "first"} \subseteq DOMAIN past
  /\ past.stripped \in BOOLEAN /\ past.orphaned \in BOOLEAN

\* An executor of a stream has one that was started and, once it is prepared,
\* the registry of this stream.
Executing(e) == ex[e].step \in {"prepare", "fetch", "change", "create", "save"}
StreamsKnown ==
  \A e \in Executor :
    /\ Executing(e) \/ ex[e].step \in {"idle", "adopt", "publish"}
    /\ Executing(e) =>
         /\ ex[e].t \in Registry /\ row[ex[e].t].started
         /\ ex[e].registry \in {ex[e].t, None}
         /\ ex[e].registry = None => ex[e].step = "prepare" /\ ex[e].t = Default

\* A sync has read that the package has no registry or its own.
SeenFits ==
  \A e \in Executor :
    /\ ex[e].step \in {"adopt", "publish"} => ex[e].pkg \in Package /\ ex[e].registry \in Registry \cup {Self}
    /\ ex[e].step = "adopt" => ex[e].seen = None
    /\ ex[e].step = "publish" => ex[e].registry = Self \/ ex[e].seen \in {Absent, None, ex[e].registry}

\* Registries that packages have, or are about to get, are followed, or gone.
Owned(r) == r = Self \/ Followed(r) \/ r \in past.removed \/ past.stripped
OwnersFollowed ==
  /\ \A k \in Package : home[k] \notin {Absent, None} => Owned(home[k])
  /\ \A e \in Executor : ex[e].step \in {"adopt", "publish"} => Owned(ex[e].registry)

\* A scope is one of a registry that is there or whose scopes are being
\* removed, and a stream goes with scopes.
ScopesFollowed ==
  /\ \A s \in Scope : scopes[s] # None =>
       \/ scopes[s] \in exists \/ past.orphaned
       \/ \E a \in admin : a.op = "remove" /\ a.r = scopes[s]
  /\ \A r \in Registry \ {Default} : row[r].started =>
       ScopesOf(r) # {} \/ r \in past.removed \/ past.stripped

\* Logs are sorted, and the history knows their changes.
LogsSorted ==
  /\ kind \in [Registry -> {"npm", "cnpmcore", "cnpmjsorg"}]
  /\ log \in [Registry -> Seq([pkg : Package, seq : Int, shown : BOOLEAN])]
  /\ \A r \in Registry : \A i, j \in DOMAIN log[r] : i <= j => SeqAt(r, i) <= SeqAt(r, j)
  /\ past.first \in [Registry -> Int \cup {None}]
  /\ \A how \in {"handled", "failed", "late"} : past[how] \in [Registry -> SUBSET Nat]

\* A change that no longer counts as skipped when its stream is past it, and
\* a hidden one that will not when it is shown.
Settled(r, i) ==
  \/ \E j \in DOMAIN log[r] : j # i /\ SeqAt(r, j) = SeqAt(r, i)
  \/ log[r][i].shown /\ i \in past.handled[r] \cup past.failed[r] \cup past.late[r]
  \/ ~log[r][i].shown /\ \E j \in DOMAIN log[r] : i < j /\ log[r][j].shown

\* Where the stream may be: what lies behind is settled.
Position(r, since) ==
  /\ since \in Int /\ since <= LastSeq(r) /\ past.first[r] \in Int
  /\ \A i \in DOMAIN log[r] : past.first[r] < SeqAt(r, i) /\ SeqAt(r, i) <= since => Settled(r, i)

\* What is left of a page: no change is missing before one that is in it.
PageWhole(r, page, last) ==
  /\ page \subseteq DOMAIN log[r]
  /\ \A h \in page :
       /\ log[r][h].shown /\ last <= SeqAt(r, h)
       /\ \A i \in DOMAIN log[r] \ page : last < SeqAt(r, i) /\ SeqAt(r, i) <= SeqAt(r, h) => Settled(r, i)

\* An executor's position, and what it has left of its page.
Reads(e) ==
  LET s == ex[e]
  IN /\ Executing(e) /\ s.copy # None => Position(s.t, s.copy)
     /\ s.step \in {"prepare", "fetch"} =>
          IF s.since = None THEN s.step = "prepare" ELSE Position(s.t, s.since)
     /\ s.step \in {"change", "create", "save"} =>
          Position(s.t, s.last) /\ PageWhole(s.t, s.page, s.last)
     /\ s.step = "create" => s.page # {}

\* Of the rows and of every executor's copy, however old.
PositionsSettled ==
  /\ \A r \in Registry : row[r].since # None => Position(r, row[r].since)
  /\ \A e \in Executor : Reads(e)
=============================================================================
