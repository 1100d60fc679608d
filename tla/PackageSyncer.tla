---------------------------- MODULE PackageSyncer ----------------------------
(***************************************************************************)
(* PackageSyncerService.executeTask for one package that comes from an     *)
(* upstream registry: fetch the upstream manifest, compare it with the     *)
(* documents served here, publish, patch and remove versions, then tags,   *)
(* then maintainers.  It calls PackageManager step by step, without any    *)
(* lock: two tasks for one package do run at the same time (a task is      *)
(* merged into a waiting one, not into one under way), and an executor may *)
(* die anywhere.                                                           *)
(*                                                                         *)
(* at[p].run ends in "next" while p executes a task: the steps in front of *)
(* it belong to the function it has called.                                *)
(***************************************************************************)
EXTENDS PackageManager

CONSTANTS
  Tasks,         \* the kinds of task: which versions are asked for, whether history is forced,
                 \* and whether the executor's config is strictSyncSpecivicVersion
  DeleteModes    \* configs syncDeleteMode considered: "ignore", "block", "delete"
             \* MaxFaults, the bound of PackageManager, counts here what is out of the ordinary:
             \* faults, changes upstream, tasks that are not for all versions, twice those that overlap

ASSUME SyncAssumption ==
  /\ DeleteModes \subseteq {"ignore", "block", "delete"}
  /\ \A k \in Tasks : k.force \in BOOLEAN /\ k.strict \in BOOLEAN /\ k.only \subseteq Version

VARIABLES
  up,       \* the upstream registry: versions (deprecated or not), those there ever were, tags,
            \* maintainers, whether it was removed
  sync      \* each executor's variables: see Idling

syncVars == <<vars, up, sync>>

\* What the task is about, the package entity and the documents it has read,
\* what is left to do, what it has done, and (history) whether it is alone,
\* has lost a version, and began with row and files for each version listed.
Idling == [phase |-> "none", up |-> None, force |-> FALSE, only |-> {}, strict |-> FALSE, ent |-> None,
           f |-> None, a |-> None, left |-> {}, upd |-> {}, rem |-> {}, diff |-> {},
           retag |-> FALSE, lost |-> FALSE, alone |-> FALSE, sound |-> FALSE]

\* Versions and tags of a document, or of none.
VersionsOf(doc) == IF HasVersions(doc) THEN {v \in Version : doc.versions[v] # None} ELSE {}
TagsOf(doc) == IF doc = None THEN {} ELSE {t \in Tag : doc.tags[t] # None}
UpVersions(u) == {v \in Version : u.versions[v] # None}

\* At first upstream has what is here, or anything when nothing is.
UpInit ==
  \E n \in Version :
    /\ Existing \in {{}, {v \in Version : v <= n}}
    /\ up = [gone |-> FALSE, versions |-> [v \in Version |-> IF v <= n THEN FALSE ELSE None],
             ever |-> {v \in Version : v <= n},
             tags |-> [t \in Tag |-> IF t = "latest" THEN n ELSE None],
             people |-> IF people = {} THEN User ELSE people]

SyncInit ==
  /\ Init /\ UpInit
  /\ sync = [p \in Proc |-> Idling]

At(p, phase) == Step(p, "next") /\ sync[p].phase = phase
Set(p, s) == sync' = [sync EXCEPT ![p] = s]
Same == UNCHANGED <<store, lock, pubs, calls, faults, past, up>>

\* p calls a function of PackageManagerService with these arguments; what the
\* task's own package entity is from the end of the versions on is at[p].ent.
Call(p, l, steps) == at' = [at EXCEPT ![p] = [l EXCEPT !.run = steps \o <<"next">>]]

Stay == UNCHANGED at

\* findPackage, unless there is an entity already.
Found(ent) == IF ent = None /\ pkg.exists THEN Entity ELSE ent

-----------------------------------------------------------------------------
(* Upstream.  A version never comes back.  A change matters only to those   *)
(* who fetch after it, so it waits until somebody is about to.              *)

Change(u) ==
  /\ faults < MaxFaults /\ ~up.gone /\ \E p \in Proc : At(p, "fetch")
  /\ faults' = faults + 1 /\ up' = u
  /\ UNCHANGED <<store, lock, at, pubs, calls, past, sync>>

UpPublish(v, t) ==
  /\ v \notin up.ever
  /\ Change([up EXCEPT !.versions[v] = FALSE, !.ever = @ \cup {v}, !.tags[t] = v])

UpRemove(v) ==
  /\ v \in UpVersions(up) /\ \A t \in Tag : up.tags[t] # v
  /\ Change([up EXCEPT !.versions[v] = None])

UpDeprecate(v) ==
  v \in UpVersions(up) /\ Change([up EXCEPT !.versions[v] = ~@])

UpTag(t, v) ==
  /\ v \in UpVersions(up) \cup {None} /\ (v = None => t # "latest") /\ up.tags[t] # v
  /\ Change([up EXCEPT !.tags[t] = v])

UpPeople(us) == us # {} /\ us # up.people /\ Change([up EXCEPT !.people = us])

UpGone == Change([up EXCEPT !.gone = TRUE])

-----------------------------------------------------------------------------
(* The beginning of a task *)

\* The package entity is read; from now on no other executor works alone.
StartTask(p, kind) ==
  /\ ~Running(p) /\ calls < MaxCalls
  /\ calls' = calls + 1
  /\ at' = [at EXCEPT ![p].run = <<"next">>]
  /\ LET others == {q \in Proc : Running(q)}
         odd == 2 * Cardinality(others) + IF kind.force \/ kind.only # {} THEN 1 ELSE 0
         me == [Idling EXCEPT !.phase = "fetch", !.force = kind.force, !.only = kind.only, !.strict = kind.strict,
                  !.ent = Found(None), !.alone = others = {}]
     IN /\ faults' = faults + odd /\ faults' <= MaxFaults
        /\ sync' = [q \in Proc |-> IF q = p THEN me ELSE [sync[q] EXCEPT !.alone = FALSE]]
  /\ Enter(p)
  /\ UNCHANGED <<store, lock, pubs, up>>

EndTask(p) ==
  /\ Set(p, Idling)
  /\ at' = [at EXCEPT ![p] = Nothing]
  /\ Same

\* No answer (retried later), not found, or nobody to publish as: failed.
FetchFails(p) == At(p, "fetch") /\ EndTask(p)

\* Which versions a task is about: those asked for and, unless strict, latest.
Wanted(p, u) ==
  IF sync[p].only = {} THEN UpVersions(u)
  ELSE UpVersions(u) \cap (sync[p].only \cup IF sync[p].strict THEN {} ELSE {u.tags["latest"]})

Fetch(p) ==
  /\ At(p, "fetch") /\ ~up.gone /\ Wanted(p, up) # {}
  /\ Set(p, [sync[p] EXCEPT !.phase = "readFull", !.up = up, !.left = Wanted(p, up)])
  /\ Stay /\ Same

\* syncDeletePkg: the package was removed upstream.
SyncDelete(p) ==
  /\ At(p, "fetch") /\ up.gone
  /\ \E mode \in DeleteModes :
     IF sync[p].ent = None \/ mode = "ignore" THEN EndTask(p)
     ELSE /\ Set(p, [sync[p] EXCEPT !.phase = "deleted"])
          /\ Call(p, [at[p] EXCEPT !.flag = TRUE, !.ent = sync[p].ent],
                  IF mode = "block" THEN <<"block", "docBlock">> ELSE <<"list", "blankFull", "blankAbbr">>)
          /\ Same

\* The documents as they are served; one that has no dist yet is made.
ReadFull(p) ==
  /\ At(p, "readFull")
  /\ LET make == pkg.exists /\ ~pkg.full /\ Existing # {}
         doc == IF pkg.full THEN full ELSE IF make THEN DocOf("man") ELSE None
     IN /\ Set(p, [sync[p] EXCEPT !.phase = "readAbbr", !.f = doc,
                  !.sound = \A v \in VersionsOf(doc) \cap UpVersions(sync[p].up) : Served(v)])
        /\ IF make THEN Call(p, [at[p] EXCEPT !.f = doc, !.ent = Entity], <<"full">>) ELSE Stay
  /\ Same

ReadAbbr(p) ==
  /\ At(p, "readAbbr")
  /\ LET make == pkg.exists /\ ~pkg.abbr /\ Existing # {}
         doc == IF pkg.abbr THEN abbr ELSE IF make THEN DocOf("abb") ELSE None
     IN /\ Set(p, [sync[p] EXCEPT !.phase = "versions", !.a = doc])
        /\ IF make THEN Call(p, [at[p] EXCEPT !.a = doc, !.ent = Entity], <<"abbr">>) ELSE Stay
  /\ Same

-----------------------------------------------------------------------------
\* In strict mode the latest tag is mended: there is none here or an older one.
NeedsLatest(s) ==
  s.only # {} /\ s.strict /\ ("latest" \notin TagsOf(s.f) \/ s.f.tags["latest"] < Max(s.only \cap UpVersions(s.up)))

\* The executor goes on to the next phase that has something to do.
Settle(s) ==
  LET Go(t, done, phase, left) == IF t.phase = done /\ t.left = {} THEN [t EXCEPT !.phase = phase, !.left = left] ELSE t
      removals == IF s.diff = {} THEN Go(s, "metas", "removals", VersionsOf(s.f) \ UpVersions(s.up)) ELSE s
      refresh == Go(removals, "removals", "refresh", {})
      taggings == IF s.upd \cup s.rem = {} THEN Go(refresh, "refresh", "tags", TagsOf(s.up)) ELSE refresh
      untags == Go(taggings, "tags", "untags", TagsOf(s.f) \ TagsOf(s.up))
      latest == Go(untags, "untags", "latest", {})
      refreshTags == IF NeedsLatest(s) THEN latest ELSE Go(latest, "latest", "refreshTags", {})
  IN IF s.retag THEN refreshTags ELSE Go(refreshTags, "refreshTags", "people", {})

-----------------------------------------------------------------------------
(* Versions, one after the other *)

Turn(p) == Min(sync[p].left)
Done(p) == [sync[p] EXCEPT !.left = @ \ {Turn(p)}]

\* The version is listed in the full document: note what differs from upstream.
CompareVersion(p) ==
  /\ At(p, "versions") /\ sync[p].left # {}
  /\ LET s == sync[p]
         v == Turn(p)
         missing == s.ent # None /\ v \notin VersionsOf(s.a)
         differs == s.f.versions[v].deprecated # s.up.versions[v]
                    \/ (v \in VersionsOf(s.a) /\ s.a.versions[v].deprecated # s.up.versions[v])
     IN /\ v \in VersionsOf(s.f)
        /\ ~(s.force /\ s.ent # None /\ rows[v] # None)
        /\ Set(p, [Done(p) EXCEPT !.upd = @ \cup IF missing THEN {v} ELSE {},
                                  !.diff = @ \cup IF differs THEN {v} ELSE {}])
  /\ Stay /\ Same

\* forceSyncHistory: a listed version is removed, to be published again.
ForceVersion(p) ==
  /\ At(p, "versions") /\ sync[p].left # {} /\ sync[p].force /\ sync[p].ent # None
  /\ LET s == sync[p]
         v == Turn(p)
     IN /\ v \in VersionsOf(s.f) /\ rows[v] # None
        /\ Set(p, [s EXCEPT !.f.versions[v] = None,
                            !.upd = IF v \in VersionsOf(s.a) THEN @ ELSE @ \cup {v},
                            !.a = IF HasVersions(s.a) THEN [s.a EXCEPT !.versions[v] = None] ELSE s.a])
        /\ Call(p, [at[p] EXCEPT !.v = v, !.todo = {<<v, rows[v]>>}, !.ent = s.ent],
                <<"names", "files", "deleteRow", "latest">>)
  /\ Same

\* Mutant: a version that exists already is not put into the documents.
SyncVersionOnce(p) ==
  /\ At(p, "versions") /\ sync[p].left # {}
  /\ LET s == sync[p]
         v == Turn(p)
     IN /\ v \notin VersionsOf(s.f)
        /\ Set(p, [Done(p) EXCEPT !.upd = IF rows[v] = None THEN @ \cup {v} ELSE @, !.ent = Found(s.ent)])
        /\ \E u \in s.up.people :
             Call(p, [at[p] EXCEPT !.v = v, !.by = u, !.flag = s.up.versions[v]],
                  <<"save", "tar", "manifests", "row">>)
  /\ Same

\* The version is not listed: download and publish it.  That it exists already
\* is no error, it is put into the documents all the same.
SyncVersion(p) ==
  /\ At(p, "versions") /\ sync[p].left # {}
  /\ LET s == sync[p]
         v == Turn(p)
     IN /\ v \notin VersionsOf(s.f)
        /\ Set(p, [Done(p) EXCEPT !.upd = @ \cup {v}, !.ent = Found(s.ent)])
        /\ \E u \in s.up.people :
             Call(p, [at[p] EXCEPT !.v = v, !.by = u, !.flag = s.up.versions[v]],
                  <<"save", "tar", "manifests", "row">>)
  /\ Same

\* No tarball, a failed download, or an error while publishing: the next one.
LoseVersion(p) ==
  /\ \/ At(p, "versions") /\ sync[p].left # {} /\ Turn(p) \notin VersionsOf(sync[p].f)
        /\ Set(p, [Done(p) EXCEPT !.lost = TRUE]) /\ Stay
     \/ sync[p].phase = "versions" /\ Running(p) /\ Head(at[p].run) \in {"tar", "manifests", "row"}
        /\ Set(p, [sync[p] EXCEPT !.upd = @ \ {at[p].v}, !.lost = TRUE]) /\ Return(p)
  /\ faults < MaxFaults /\ faults' = faults + 1
  /\ past' = [past EXCEPT !.disturbed = TRUE]
  /\ UNCHANGED <<store, lock, pubs, calls, up>>

\* The package is looked for again; without one the task has failed.
VersionsDone(p) ==
  /\ At(p, "versions") /\ sync[p].left = {}
  /\ IF Found(sync[p].ent) = None THEN EndTask(p)
     ELSE /\ Set(p, Settle([sync[p] EXCEPT !.phase = "metas", !.ent = None]))
          /\ at' = [at EXCEPT ![p].ent = Found(sync[p].ent)]
          /\ Same

\* savePackageVersionManifest for the next version whose metadata differs.
SyncMeta(p) ==
  /\ At(p, "metas")
  /\ LET v == Min(sync[p].diff)
         s == [sync[p] EXCEPT !.diff = @ \ {v}]
     IN IF rows[v] = None THEN Set(p, Settle(s)) /\ Stay
        ELSE /\ Set(p, Settle([s EXCEPT !.upd = @ \cup {v}]))
             /\ Call(p, [at[p] EXCEPT !.todo = {v}, !.flag = s.up.versions[v]], <<"depMan", "depAbb">>)
  /\ Same

\* The next version listed here that upstream does not have any more.
SyncRemoval(p) ==
  /\ At(p, "removals")
  /\ LET v == Turn(p)
     IN /\ Set(p, Settle([Done(p) EXCEPT !.rem = @ \cup {v}]))
        /\ IF rows[v] = None THEN Stay
           ELSE Call(p, [at[p] EXCEPT !.v = v, !.todo = {<<v, rows[v]>>}],
                     <<"names", "files", "deleteRow", "latest">>)
  /\ Same

\* Mutant: removed versions are not taken out of the documents.
SyncRefreshUpdated(p) ==
  /\ At(p, "refresh")
  /\ LET s == sync[p]
     IN /\ Set(p, [s EXCEPT !.phase = "tags", !.left = TagsOf(s.up)])
        /\ Call(p, [at[p] EXCEPT !.upd = s.upd], <<"refresh">>)
  /\ Same

SyncRefresh(p) ==
  /\ At(p, "refresh")
  /\ LET s == sync[p]
     IN /\ Set(p, [s EXCEPT !.phase = "tags", !.left = TagsOf(s.up)])
        /\ Call(p, [at[p] EXCEPT !.upd = s.upd, !.rem = s.rem], <<"refresh">>)
  /\ Same

-----------------------------------------------------------------------------
(* Tags and maintainers *)

\* savePackageTag for the next upstream tag, unless its version is neither
\* listed nor published by this task.  A tag that is right but not in the
\* document asks for a refresh, a tag that changes takes that back.
SyncTag(p) ==
  /\ At(p, "tags")
  /\ \E t \in sync[p].left :
       LET s == [sync[p] EXCEPT !.left = @ \ {t}]
           v == s.up.tags[t]
           has == IF s.f = None THEN None ELSE s.f.tags[t]
       IN IF v \notin VersionsOf(s.f) \cup s.upd THEN Set(p, Settle(s)) /\ Stay
          ELSE IF tags[t] = v THEN Set(p, Settle([s EXCEPT !.retag = @ \/ has # v])) /\ Stay
          ELSE /\ Set(p, Settle([s EXCEPT !.retag = FALSE]))
               /\ Call(p, [at[p] EXCEPT !.v = v, !.todo = {t}], <<"tags">>)
  /\ Same

\* removePackageTag for a tag of the document that upstream does not have.
SyncUntag(p) ==
  /\ At(p, "untags")
  /\ \E t \in sync[p].left :
       /\ Set(p, Settle([sync[p] EXCEPT !.left = @ \ {t}, !.retag = @ /\ tags[t] = None]))
       /\ Call(p, [at[p] EXCEPT !.todo = {t}], <<"untag">>)
  /\ Same

\* "should add latest tag": the highest version asked for, published or not.
SyncLatest(p) ==
  /\ At(p, "latest")
  /\ LET s == sync[p]
     IN /\ Set(p, Settle([s EXCEPT !.phase = "refreshTags"]))
        /\ Call(p, [at[p] EXCEPT !.v = Max(s.only \cap UpVersions(s.up)), !.todo = {"latest"}], <<"tags">>)
  /\ Same

SyncRefreshTags(p) ==
  /\ At(p, "refreshTags")
  /\ Set(p, [sync[p] EXCEPT !.phase = "people"])
  /\ Call(p, at[p], <<"root">>)
  /\ Same

\* savePackageMaintainers
SyncPeople(p) ==
  /\ At(p, "people")
  /\ people' = people \cup sync[p].up.people
  /\ Set(p, [sync[p] EXCEPT !.phase = "unpeople"])
  /\ Stay
  /\ UNCHANGED <<pkg, rows, tags, file, full, abbr, lock, pubs, calls, faults, past, up>>

\* removePackageMaintainer for those of the document who are not upstream;
\* then the document, if it differs.
SyncUnpeople(p) ==
  /\ At(p, "unpeople")
  /\ LET had == IF sync[p].f = None THEN {} ELSE sync[p].f.people
     IN /\ people' = people \ (had \ sync[p].up.people)
        /\ Set(p, [sync[p] EXCEPT !.phase = "finish"])
        /\ IF had # sync[p].up.people THEN Call(p, at[p], <<"docPeople">>) ELSE Stay
  /\ UNCHANGED <<pkg, rows, tags, file, full, abbr, lock, pubs, calls, faults, past, up>>

\* removeCache, finishTask
Finish(p) == (At(p, "finish") \/ At(p, "deleted")) /\ EndTask(p)

-----------------------------------------------------------------------------
\* An error no step catches, or the executor dies: the task is retried later.
SyncAbort(p) ==
  /\ Running(p) /\ faults < MaxFaults
  /\ faults' = faults + 1
  /\ at' = [at EXCEPT ![p] = Nothing]
  /\ Set(p, Idling)
  /\ past' = [past EXCEPT !.disturbed = TRUE]
  /\ UNCHANGED <<store, lock, pubs, calls, up>>

Upstream ==
  \/ \E v \in Version, t \in Tag : UpPublish(v, t)
  \/ \E v \in Version : UpRemove(v) \/ UpDeprecate(v)
  \/ \E v \in Version \cup {None}, t \in Tag : UpTag(t, v)
  \/ \E us \in SUBSET User : UpPeople(us)
  \/ UpGone

Execute(p) ==
  \/ \E kind \in Tasks : StartTask(p, kind)
  \/ FetchFails(p) \/ Fetch(p) \/ SyncDelete(p) \/ ReadFull(p) \/ ReadAbbr(p)
  \/ CompareVersion(p) \/ ForceVersion(p) \/ SyncVersion(p) \/ LoseVersion(p) \/ VersionsDone(p)
  \/ SyncMeta(p) \/ SyncRemoval(p) \/ SyncRefresh(p)
  \/ SyncTag(p) \/ SyncUntag(p) \/ SyncLatest(p) \/ SyncRefreshTags(p)
  \/ SyncPeople(p) \/ SyncUnpeople(p) \/ Finish(p)

SyncNext ==
  \/ Upstream
  \/ \E p \in Proc : Execute(p) \/ SyncAbort(p) \/ (Write(p) /\ UNCHANGED <<up, sync>>)

SyncSpec == SyncInit /\ [][SyncNext]_syncVars

-----------------------------------------------------------------------------
(* Properties *)

\* The document lists v and says what upstream says of it.
Right(doc, u, v) == v \in VersionsOf(doc) /\ doc.versions[v].deprecated = u.versions[v]
Mirrors(doc, u) == VersionsOf(doc) = UpVersions(u) /\ \A v \in UpVersions(u) : Right(doc, u, v)

\* A complete task for all versions, when nothing has ever overlapped, broken
\* off or been lost, leaves the package as it was upstream when fetched:
\* rows, tags, maintainers and both documents.
SyncConverges ==
  [][\A p \in Proc :
       LET u == sync[p].up
       IN At(p, "finish") /\ Finish(p) /\ ~past.disturbed /\ sync[p].only = {} =>
            /\ Existing = UpVersions(u) /\ tags = u.tags /\ people = u.people
            /\ Mirrors(full, u) /\ Mirrors(abbr, u)
            /\ full.tags = u.tags /\ abbr.tags = u.tags /\ full.people = u.people
     ]_syncVars

\* A complete task that ran alone repairs what earlier tasks left when they
\* broke off anywhere or overlapped, but for a version that is listed without
\* its row or files (a forced task left it so; nobody looks for them): every upstream version has its row and
\* files and is in both documents; of the versions that were listed, those
\* removed upstream are gone from the full document and the metadata of the
\* others is right; the upstream tags are in the rows and the full document.
SyncRecovers ==
  [][\A p \in Proc :
       LET s == sync[p]
           u == s.up
       IN At(p, "finish") /\ Finish(p) /\ s.alone /\ s.sound /\ s.only = {} /\ ~s.lost =>
            /\ \A v \in UpVersions(u) : Served(v)
            /\ UpVersions(u) \subseteq VersionsOf(full) \cap VersionsOf(abbr)
            /\ VersionsOf(s.f) \cap VersionsOf(full) \subseteq UpVersions(u)
            /\ \A v \in UpVersions(u) \cap VersionsOf(s.f) : Right(full, u, v) /\ Right(abbr, u, v)
            /\ \A t \in TagsOf(u) : tags[t] = u.tags[t] /\ full.tags[t] = u.tags[t]
            /\ u.people \subseteq people /\ (s.force \/ u.people \subseteq full.people)
     ]_syncVars
=============================================================================
