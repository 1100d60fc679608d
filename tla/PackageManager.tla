---------------------------- MODULE PackageManager ----------------------------
(***************************************************************************)
(* PackageManagerService on one package: its rows (package, versions,      *)
(* tags, maintainers, block), its files (a tarball and two manifests for   *)
(* each version) and the two JSON documents the registry serves, the full  *)
(* and the abbreviated manifests.  A document is read, changed and written *)
(* back as a whole; publications take a lock, nothing else does.           *)
(*                                                                         *)
(* A call is a list of steps still to run, `at[p].run'; a step that calls  *)
(* another function puts its steps in front.  A step is one write with the *)
(* reads before it, or the reads of one document pair.  What a publication *)
(* uploads is told apart by its number; sizes, digests, times, readme and  *)
(* the other fields of a manifest are left out.                            *)
(***************************************************************************)
EXTENDS Integers, Sequences, FiniteSets, FiniteSetsExt, TLC

CONSTANTS
  Proc,       \* requests under way: handlers on any host
  User,       \* those who publish
  Admins,     \* those of them who may change every package
  Version,    \* versions, numbers ordered like semver
  Latest,     \* those of them that may be the latest of a package synced at first
  Tag,        \* dist-tags, "latest" among them
  None,
  Calls,      \* the operations of this instance
  MaxCalls,   \* bound: calls
  Alone,      \* bound: so many of the first calls are over when the next begins
  MaxFaults   \* bound: calls that break off and locks that lapse

ASSUME PackageAssumption ==
  /\ Version \subseteq Nat /\ Latest \subseteq Version /\ "latest" \in Tag
  /\ IsFiniteSet(Version)
  /\ None \notin Version \cup Nat \cup Proc \cup [pub : Nat, deprecated : BOOLEAN]
  /\ MaxCalls \in Nat /\ Alone \in Nat /\ MaxFaults \in Nat

\* What a manifest says of a version, what a document lists, and a document;
\* an object is not None, the null of the code.
Metas == [pub : Nat, deprecated : BOOLEAN]
Listings == [Version -> Metas \cup {None}]
Documents == [versions : Listings \cup {None}, tags : [Tag -> Version \cup {None}],
              block : BOOLEAN, people : SUBSET User]

ASSUME ObjectAssumption == None \notin Listings \cup Documents

VARIABLES
  pkg,     \* the package row: exists, isPrivate, whether it has a dist for each document, blocked
  rows,    \* version -> number of the publication whose row it is
  tags,    \* tag rows
  people,  \* maintainer rows
  file,    \* version -> its tarball and manifests in the object store
  full,    \* full_manifests.json
  abbr,    \* abbreviated_manifests.json
  lock,    \* who holds `<name>:publish'
  at,      \* each process' call: see Nothing
  pubs,    \* publications so far
  calls,   \* calls so far
  faults,  \* faults so far
  past     \* history: see Init

store == <<pkg, rows, tags, people, file, full, abbr>>
vars == <<store, lock, at, pubs, calls, faults, past>>

NoFiles == [tar |-> None, man |-> None, abb |-> None]
Existing == {v \in Version : rows[v] # None}

\* What a manifest says of a version: whose publication, and whether deprecated.
Meta(n) == [pub |-> n, deprecated |-> FALSE]

\* No call: the steps to run, the version and publication it is about, its
\* user, what is left to do, versions to update and remove in the documents,
\* the dists of its package entity, and its copies of the documents.
Nothing == [run |-> <<>>, v |-> None, pub |-> None, by |-> None, todo |-> {},
            upd |-> {}, rem |-> {}, flag |-> FALSE,
            ent |-> [full |-> FALSE, abbr |-> FALSE], f |-> None, a |-> None]

-----------------------------------------------------------------------------
Document(versions, tagged, of) ==
  [versions |-> versions, tags |-> tagged, block |-> FALSE, people |-> of]

Fresh ==
  /\ pkg = [exists |-> FALSE, private |-> TRUE, full |-> FALSE, abbr |-> FALSE, blocked |-> FALSE]
  /\ rows = [v \in Version |-> None]
  /\ tags = [t \in Tag |-> None]
  /\ people = {}
  /\ file = [v \in Version |-> NoFiles]
  /\ full = None /\ abbr = None
  /\ pubs = 0

\* A public package as the syncer leaves it: some versions, the last is latest.
Synced ==
  \E n \in Latest, u \in User :
    LET has(v) == v <= n
        latest == [t \in Tag |-> IF t = "latest" THEN n ELSE None]
        metas == [v \in Version |-> IF has(v) THEN Meta(v) ELSE None]
    IN /\ pkg = [exists |-> TRUE, private |-> FALSE, full |-> TRUE, abbr |-> TRUE, blocked |-> FALSE]
       /\ rows = [v \in Version |-> IF has(v) THEN v ELSE None]
       /\ tags = latest /\ people = {u}
       /\ file = [v \in Version |-> IF has(v) THEN [tar |-> v, man |-> Meta(v), abb |-> Meta(v)] ELSE NoFiles]
       /\ full = Document(metas, latest, {u})
       /\ abbr = Document(metas, latest, {})
       /\ pubs = n

Init ==
  /\ Fresh \/ Synced
  /\ lock = None
  /\ at = [p \in Proc |-> Nothing]
  /\ calls = 0 /\ faults = 0
     \* disturbed: calls overlapped or broke off; raced: a lock lapsed under
     \* its holder or removals overlapped; removed: versions with their
     \* publications that some call has begun to remove.
  /\ past = [disturbed |-> FALSE, raced |-> FALSE, removed |-> {}]

Running(p) == at[p].run # <<>>
Waiting(p) == Running(p) /\ Head(at[p].run) = "lock"
Step(p, label) == Running(p) /\ Head(at[p].run) = label
Removing(p) == \E i \in DOMAIN at[p].run : at[p].run[i] \in {"names", "list", "files", "deleteRow"}

\* The call goes on with `run'; when nothing of it is left it is forgotten.
Then(p, l, run) ==
  at' = [at EXCEPT ![p] = IF run = <<>> THEN Nothing
                          ELSE IF Head(run) = "next" THEN [Nothing EXCEPT !.run = run, !.ent = l.ent]
                          ELSE [l EXCEPT !.run = run]]

Rest(p) == Tail(at[p].run)
Continue(p, l) == Then(p, l, Rest(p))

\* What is left of a call from the first of these steps on.
From(run, steps) ==
  LET marks == {i \in DOMAIN run : run[i] \in steps}
  IN IF marks = {} THEN <<>> ELSE SubSeq(run, Min(marks), Len(run))

\* The function returns (or refuses, what every caller catches) to the one
\* that called it; an error ends the call, but for the lock.
Caller(run) == From(run, {"unlock", "next"})
Return(p) == Then(p, at[p], Caller(at[p].run))
Throw(p) == Then(p, at[p], From(at[p].run, {"unlock"}))

\* A call begins to write.
Enter(p) ==
  LET others == {q \in Proc \ {p} : Running(q) /\ ~Waiting(q)}
  IN past' = [past EXCEPT !.disturbed = @ \/ others # {},
                          !.raced = @ \/ (Removing(p)' /\ \E q \in others : Removing(q))]

Begin(p, op, l) ==
  /\ op \in Calls /\ ~Running(p) /\ calls < MaxCalls
  /\ calls <= Alone => \A q \in Proc : ~Running(q)
  /\ calls' = calls + 1
  /\ at' = [at EXCEPT ![p] = l]
  /\ IF Head(l.run) = "lock" THEN UNCHANGED past ELSE Enter(p)
  /\ UNCHANGED <<store, lock, pubs, faults>>

\* The package entity a call has read.
Entity == [full |-> pkg.full, abbr |-> pkg.abbr]

-----------------------------------------------------------------------------
(* The documents *)

\* Mutant: whatever has files is listed.
DocOfFiles(which) ==
  Document([v \in Version |-> file[v][which]], tags, IF which = "man" THEN people ELSE {})

\* A document as the database and the files have it (null without versions).
DocOf(which) ==
  Document([v \in Version |-> IF rows[v] # None THEN file[v][which] ELSE None],
           tags, IF which = "man" THEN people ELSE {})

\* What unpublishing the package leaves: no versions, empty dist-tags.
UnpublishedInfo == Document(None, [t \in Tag |-> None], {})

HasVersions(doc) == doc # None /\ doc.versions # None

\* The versions in `upd' anew from their files, those in `rem' taken out.
Patched(doc, which, upd, rem) ==
  [doc EXCEPT !.versions = [v \in Version |->
     IF v \in rem THEN None
     ELSE IF v \in upd /\ rows[v] # None /\ file[v].man # None /\ file[v][which] # None
          THEN file[v][which] ELSE @[v]]]

\* refreshPackageChangeVersionsToDists: patch both documents, or list the
\* rows anew when there is none yet or the package is unpublished.
Refresh(p) ==
  /\ Step(p, "refresh")
  /\ LET l == at[p]
         anew == ~l.ent.full \/ ~l.ent.abbr \/ ~HasVersions(full) \/ ~HasVersions(abbr)
     IN IF anew /\ Existing = {} THEN Continue(p, l)
        ELSE IF anew
        THEN Then(p, [l EXCEPT !.f = DocOf("man"), !.a = DocOf("abb")], <<"full", "abbr">> \o Rest(p))
        ELSE Then(p, [l EXCEPT !.f = Patched(full, "man", l.upd, l.rem),
                               !.a = Patched(abbr, "abb", l.upd, l.rem)],
                  <<"distTags", "full", "abbr">> \o Rest(p))
  /\ UNCHANGED <<store, lock, pubs, calls, faults, past>>

\* _refreshPackageManifestRootAttributeOnlyToDists, 'dist-tags': the tags are
\* read only when both documents are there.
RefreshTags(p) ==
  /\ Step(p, "root")
  /\ LET l == at[p]
     IN IF ~l.ent.full \/ (full # None /\ ~l.ent.abbr) THEN Throw(p)
        ELSE IF full = None THEN Continue(p, l)
        ELSE Then(p, [l EXCEPT !.f = full, !.a = abbr],
                  (IF abbr = None THEN <<"full">> ELSE <<"distTags", "full", "abbr">>) \o Rest(p))
  /\ UNCHANGED <<store, lock, pubs, calls, faults, past>>

\* The same, 'maintainers': only in the full document.
RefreshPeople(p) ==
  /\ Step(p, "docPeople")
  /\ IF ~at[p].ent.full THEN Throw(p)
     ELSE IF full = None THEN Continue(p, at[p])
     ELSE Then(p, [at[p] EXCEPT !.f = [full EXCEPT !.people = people]], <<"full">> \o Rest(p))
  /\ UNCHANGED <<store, lock, pubs, calls, faults, past>>

SetDistTags(p) ==
  /\ Step(p, "distTags")
  /\ Continue(p, [at[p] EXCEPT !.f.tags = tags, !.a.tags = tags])
  /\ UNCHANGED <<store, lock, pubs, calls, faults, past>>

\* _updatePackageManifestsToDists: the document, its dist row, the package row.
\* savePackage saves the whole of the entity, which knows of the other dist what
\* it knew when it was read.
WriteFull(p) ==
  /\ Step(p, "full")
  /\ full' = at[p].f
  /\ pkg' = [pkg EXCEPT !.full = TRUE, !.abbr = at[p].ent.abbr]
  /\ Continue(p, [at[p] EXCEPT !.f = None, !.ent.full = TRUE])
  /\ UNCHANGED <<rows, tags, people, file, abbr, lock, pubs, calls, faults, past>>

WriteAbbr(p) ==
  /\ Step(p, "abbr")
  /\ abbr' = at[p].a
  /\ pkg' = [pkg EXCEPT !.abbr = TRUE, !.full = at[p].ent.full]
  /\ Continue(p, [at[p] EXCEPT !.a = None, !.ent.abbr = TRUE])
  /\ UNCHANGED <<rows, tags, people, file, full, lock, pubs, calls, faults, past>>

\* A read of a document the package has no dist for yet makes it.
List(p, which) ==
  /\ pkg.exists /\ ~pkg[which] /\ Existing # {}
  /\ Begin(p, "list", [Nothing EXCEPT !.run = <<which>>, !.ent = Entity,
       !.f = IF which = "full" THEN DocOf("man") ELSE None,
       !.a = IF which = "abbr" THEN DocOf("abb") ELSE None])

-----------------------------------------------------------------------------
(* Publishing *)

\* An admin, a maintainer, or anyone allowed to when there is no package.
MayPublish(u) == u \in Admins \/ ~pkg.exists \/ u \in people

\* Mutant: the row is created before the files are uploaded.
PublishRowFirst(p, u, v, ts) ==
  Begin(p, "publish", [Nothing EXCEPT
    !.run = <<"lock", "save", "row", "tar", "manifests", "refresh", "tags", "unlock">>,
    !.v = v, !.by = u,
    !.todo = IF tags["latest"] = None THEN ts \cup {"latest"} ELSE ts])

\* The controller: `latest' is added to the tags of a package that has none.
Publish(p, u, v, ts) ==
  Begin(p, "publish", [Nothing EXCEPT
    !.run = <<"lock", "save", "tar", "manifests", "row", "refresh", "tags", "unlock">>,
    !.v = v, !.by = u,
    !.todo = IF tags["latest"] = None THEN ts \cup {"latest"} ELSE ts])

\* Mutant: the lock is taken whoever holds it.
TakeLock(p) ==
  /\ Waiting(p)
  /\ lock' = p /\ Continue(p, at[p]) /\ Enter(p)
  /\ UNCHANGED <<store, pubs, calls, faults>>

\* ConflictError when somebody else is publishing.
AcquireLock(p) ==
  /\ Waiting(p)
  /\ IF lock = None THEN lock' = p /\ Continue(p, at[p]) /\ Enter(p)
     ELSE Then(p, Nothing, <<>>) /\ UNCHANGED <<lock, past>>
  /\ UNCHANGED <<store, pubs, calls, faults>>

ReleaseLock(p) ==
  /\ Step(p, "unlock")
  /\ lock' = IF lock = p THEN None ELSE lock
  /\ Continue(p, at[p])
  /\ UNCHANGED <<store, pubs, calls, faults, past>>

\* The package and the maintainer are saved before the version is looked for.
SavePackage(p) ==
  /\ Step(p, "save")
  /\ LET l == at[p]
     IN /\ pkg' = [pkg EXCEPT !.exists = TRUE]
        /\ people' = people \cup {l.by}
        /\ IF rows[l.v] # None THEN Return(p) /\ UNCHANGED pubs
           ELSE /\ pubs' = pubs + 1
                /\ Continue(p, [l EXCEPT !.pub = pubs + 1, !.ent = Entity, !.upd = {l.v}])
  /\ UNCHANGED <<rows, tags, file, full, abbr, lock, calls, faults, past>>

\* The path of a file is that of its version: whatever is there is replaced.
UploadTar(p) ==
  /\ Step(p, "tar")
  /\ file' = [file EXCEPT ![at[p].v].tar = at[p].pub]
  /\ Continue(p, at[p])
  /\ UNCHANGED <<pkg, rows, tags, people, full, abbr, lock, pubs, calls, faults, past>>

UploadManifests(p) ==
  /\ Step(p, "manifests")
  /\ LET meta == [pub |-> at[p].pub, deprecated |-> at[p].flag]
     IN file' = [file EXCEPT ![at[p].v] = [@ EXCEPT !.man = meta, !.abb = meta]]
  /\ Continue(p, at[p])
  /\ UNCHANGED <<pkg, rows, tags, people, full, abbr, lock, pubs, calls, faults, past>>

\* One transaction with its dists; a duplicate key is a ForbiddenError.
CreateVersion(p) ==
  /\ Step(p, "row")
  /\ LET l == at[p]
     IN IF rows[l.v] # None THEN Return(p) /\ UNCHANGED rows
        ELSE rows' = [rows EXCEPT ![l.v] = l.pub] /\ Continue(p, l)
  /\ UNCHANGED <<pkg, tags, people, file, full, abbr, lock, pubs, calls, faults, past>>

\* savePackageTag for each tag left; a tag that is right already changes nothing.
SaveTags(p) ==
  /\ Step(p, "tags")
  /\ LET l == at[p]
     IN IF l.todo = {} THEN Continue(p, l) /\ UNCHANGED tags
        ELSE \E t \in l.todo :
          LET m == [l EXCEPT !.todo = @ \ {t}]
          IN IF tags[t] = l.v THEN Then(p, m, m.run) /\ UNCHANGED tags
             ELSE tags' = [tags EXCEPT ![t] = l.v] /\ Then(p, m, <<"root">> \o m.run)
  /\ UNCHANGED <<pkg, rows, people, file, full, abbr, lock, pubs, calls, faults, past>>

-----------------------------------------------------------------------------
(* Unpublishing *)

\* Mutant: the removed version is not taken out of the documents.
RemoveVersionRow(p, v) ==
  /\ rows[v] # None
  /\ Begin(p, "remove", [Nothing EXCEPT !.run = <<"names", "files", "deleteRow", "latest", "refresh">>,
       !.v = v, !.todo = {<<v, rows[v]>>}, !.ent = Entity])

\* The entity of the version is read here, its files and row are removed by it.
RemoveVersion(p, v) ==
  /\ rows[v] # None
  /\ Begin(p, "remove", [Nothing EXCEPT !.run = <<"names", "files", "deleteRow", "latest", "refresh">>,
       !.v = v, !.todo = {<<v, rows[v]>>}, !.rem = {v}, !.ent = Entity])

\* removeByPkgUri: the latest version first, all of them when there is none.
RemoveByPkgUri(p) ==
  IF tags["latest"] \in Existing THEN RemoveVersion(p, tags["latest"])
  ELSE /\ pkg.exists
       /\ Begin(p, "remove", [Nothing EXCEPT !.run = <<"list", "blankFull", "blankAbbr">>, !.ent = Entity])

\* Only one version: unpublish the package.
CheckNames(p) ==
  /\ Step(p, "names")
  /\ IF Existing = {at[p].v}
     THEN Then(p, at[p], <<"list", "blankFull", "blankAbbr">> \o Caller(Rest(p)))
     ELSE Continue(p, at[p])
  /\ UNCHANGED <<store, lock, pubs, calls, faults, past>>

\* unpublishPackage: nothing is left to do when there are no versions.
ListVersions(p) ==
  /\ Step(p, "list")
  /\ IF Existing = {} THEN Return(p)
     ELSE Then(p, [at[p] EXCEPT !.todo = {<<v, rows[v]>> : v \in Existing}], <<"files", "deleteRow">> \o Rest(p))
  /\ UNCHANGED <<store, lock, pubs, calls, faults, past>>

\* The next version to remove, by its number in place of the order of ids.
Target(p) == CHOOSE x \in at[p].todo : \A y \in at[p].todo : x[1] >= y[1]

DestroyFiles(p) ==
  /\ Step(p, "files")
  /\ file' = [file EXCEPT ![Target(p)[1]] = NoFiles]
  /\ past' = [past EXCEPT !.removed = @ \cup {Target(p)}]
  /\ Continue(p, at[p])
  /\ UNCHANGED <<pkg, rows, tags, people, full, abbr, lock, pubs, calls, faults>>

\* The row is deleted by its own id, not by its version.  The dists it names are
\* deleted in the same step, although by a statement of their own just before: a
\* row whose files are gone stands for one that has lost its dists as well.
RemoveRow(p) ==
  /\ Step(p, "deleteRow")
  /\ LET l == at[p]
         x == Target(p)
         left == l.todo \ {x}
     IN /\ rows' = IF rows[x[1]] = x[2] THEN [rows EXCEPT ![x[1]] = None] ELSE rows
        /\ Then(p, [l EXCEPT !.todo = left], (IF left = {} THEN <<>> ELSE <<"files", "deleteRow">>) \o Rest(p))
  /\ UNCHANGED <<pkg, tags, people, file, full, abbr, lock, pubs, calls, faults, past>>

\* "make sure latest tag exists"; without any version left the call is over.
MoveLatest(p) ==
  /\ Step(p, "latest")
  /\ LET l == at[p]
     IN IF Existing = {} THEN Return(p) /\ UNCHANGED tags
        ELSE IF tags["latest"] = l.v /\ Max(Existing) # l.v
        THEN tags' = [tags EXCEPT !["latest"] = Max(Existing)] /\ Then(p, l, <<"root">> \o Rest(p))
        ELSE UNCHANGED tags /\ Continue(p, l)
  /\ UNCHANGED <<pkg, rows, people, file, full, abbr, lock, pubs, calls, faults, past>>

\* _mergeManifestDist with replaceData: the document alone, not its dist row.
BlankFull(p) ==
  /\ Step(p, "blankFull")
  /\ IF at[p].ent.full THEN full' = UnpublishedInfo /\ Continue(p, at[p])
     ELSE UNCHANGED full /\ Throw(p)
  /\ UNCHANGED <<pkg, rows, tags, people, file, abbr, lock, pubs, calls, faults, past>>

BlankAbbr(p) ==
  /\ Step(p, "blankAbbr")
  /\ IF at[p].ent.abbr THEN abbr' = UnpublishedInfo /\ Continue(p, at[p])
     ELSE UNCHANGED abbr /\ Throw(p)
  /\ UNCHANGED <<pkg, rows, tags, people, file, full, lock, pubs, calls, faults, past>>

-----------------------------------------------------------------------------
(* Tags, deprecation, maintainers and blocks *)

SaveTag(p, t, v) ==
  /\ rows[v] # None
  /\ Begin(p, "tag", [Nothing EXCEPT !.run = <<"tags">>, !.v = v, !.todo = {t}, !.ent = Entity])

RemoveTag(p, t) ==
  /\ pkg.exists /\ t # "latest"
  /\ Begin(p, "tag", [Nothing EXCEPT !.run = <<"untag">>, !.todo = {t}, !.ent = Entity])

\* A tag without a row is left in the documents.
DeleteTag(p) ==
  /\ Step(p, "untag")
  /\ \E t \in at[p].todo :
       IF tags[t] = None THEN Continue(p, [at[p] EXCEPT !.todo = @ \ {t}]) /\ UNCHANGED tags
       ELSE /\ tags' = [tags EXCEPT ![t] = None]
            /\ Then(p, [at[p] EXCEPT !.todo = @ \ {t}], <<"root">> \o Rest(p))
  /\ UNCHANGED <<pkg, rows, people, file, full, abbr, lock, pubs, calls, faults, past>>

\* A request without attachments that says which versions are deprecated.
Deprecate(p, vs, flag) ==
  /\ pkg.exists
  /\ Begin(p, "deprecate", [Nothing EXCEPT !.run = <<"depMan", "depAbb", "refresh">>,
       !.todo = vs, !.flag = flag, !.ent = Entity])

\* The next version's manifest; one without a row is passed over.  Merging
\* into a file that is gone throws.
DeprecateFull(p) ==
  /\ Step(p, "depMan")
  /\ LET l == at[p]
         v == Min(l.todo)
     IN IF l.todo = {} THEN Then(p, l, Tail(Rest(p))) /\ UNCHANGED file
        ELSE IF rows[v] = None THEN Then(p, [l EXCEPT !.todo = @ \ {v}], l.run) /\ UNCHANGED file
        ELSE IF file[v].man = None THEN Throw(p) /\ UNCHANGED file
        ELSE file' = [file EXCEPT ![v].man.deprecated = l.flag] /\ Continue(p, l)
  /\ UNCHANGED <<pkg, rows, tags, people, full, abbr, lock, pubs, calls, faults, past>>

DeprecateAbbr(p) ==
  /\ Step(p, "depAbb")
  /\ LET l == at[p]
         v == Min(l.todo)
     IN IF file[v].abb = None THEN Throw(p) /\ UNCHANGED file
        ELSE /\ file' = [file EXCEPT ![v].abb.deprecated = l.flag]
             /\ Then(p, [l EXCEPT !.todo = @ \ {v}, !.upd = @ \cup {v}], <<"depMan">> \o l.run)
  /\ UNCHANGED <<pkg, rows, tags, people, full, abbr, lock, pubs, calls, faults, past>>

SetMaintainers(p, us) ==
  /\ pkg.exists
  /\ Begin(p, "owner", [Nothing EXCEPT !.run = <<"people", "docPeople">>, !.todo = us, !.ent = Entity])

\* replacePackageMaintainers, one transaction.
ReplacePeople(p) ==
  /\ Step(p, "people")
  /\ people' = at[p].todo
  /\ Continue(p, [at[p] EXCEPT !.todo = {}])
  /\ UNCHANGED <<pkg, rows, tags, file, full, abbr, lock, pubs, calls, faults, past>>

\* Only for packages that are not private.
Block(p, flag) ==
  /\ pkg.exists /\ ~pkg.private
  /\ Begin(p, "block", [Nothing EXCEPT !.run = <<"block", "docBlock">>, !.flag = flag, !.ent = Entity])

SaveBlock(p) ==
  /\ Step(p, "block")
  /\ pkg' = [pkg EXCEPT !.blocked = at[p].flag]
  /\ Continue(p, at[p])
  /\ UNCHANGED <<rows, tags, people, file, full, abbr, lock, pubs, calls, faults, past>>

RefreshBlock(p) ==
  /\ Step(p, "docBlock")
  /\ LET l == at[p]
         Marked(doc) == IF doc = None THEN None ELSE [doc EXCEPT !.block = l.flag]
     IN IF ~l.ent.full \/ ~l.ent.abbr THEN Continue(p, l)
        ELSE Then(p, [l EXCEPT !.f = Marked(full), !.a = Marked(abbr)],
                  (IF full = None THEN <<>> ELSE <<"full">>)
                  \o (IF abbr = None THEN <<>> ELSE <<"abbr">>) \o Rest(p))
  /\ UNCHANGED <<store, lock, pubs, calls, faults, past>>

-----------------------------------------------------------------------------
(* Faults *)

\* A call fails at an await or its process dies; a dead one leaves its lock.
Abort(p) ==
  /\ Running(p) /\ faults < MaxFaults
  /\ faults' = faults + 1
  /\ at' = [at EXCEPT ![p] = Nothing]
  /\ lock' \in IF lock = p THEN {p, None} ELSE {lock}
  /\ past' = IF Waiting(p) THEN past ELSE [past EXCEPT !.disturbed = TRUE]
  /\ UNCHANGED <<store, pubs, calls>>

\* The lease of 60 seconds ends: of a holder that died, or that is too slow.
LockLapses ==
  /\ lock # None
  /\ lock' = None
  /\ IF Running(lock)
     THEN faults < MaxFaults /\ faults' = faults + 1 /\ past' = [past EXCEPT !.raced = TRUE]
     ELSE UNCHANGED <<faults, past>>
  /\ UNCHANGED <<store, at, pubs, calls>>

-----------------------------------------------------------------------------
Request(p) ==
  \/ \E u \in User, v \in Version, ts \in SUBSET Tag \ {{}} : MayPublish(u) /\ Publish(p, u, v, ts)
  \/ \E v \in Version : RemoveVersion(p, v)
  \/ RemoveByPkgUri(p)
  \/ \E v \in Version, t \in Tag : SaveTag(p, t, v)
  \/ \E t \in Tag : RemoveTag(p, t)
  \/ \E vs \in SUBSET Version \ {{}}, flag \in BOOLEAN : Deprecate(p, vs, flag)
  \/ \E us \in SUBSET User \ {{}} : SetMaintainers(p, us)
  \/ \E flag \in BOOLEAN : Block(p, flag)
  \/ \E which \in {"full", "abbr"} : List(p, which)

Write(p) ==
  \/ Refresh(p) \/ RefreshTags(p) \/ RefreshPeople(p) \/ SetDistTags(p)
  \/ WriteFull(p) \/ WriteAbbr(p)
  \/ AcquireLock(p) \/ ReleaseLock(p)
  \/ SavePackage(p) \/ UploadTar(p) \/ UploadManifests(p) \/ CreateVersion(p) \/ SaveTags(p)
  \/ CheckNames(p) \/ ListVersions(p) \/ DestroyFiles(p) \/ RemoveRow(p) \/ MoveLatest(p)
  \/ BlankFull(p) \/ BlankAbbr(p)
  \/ DeleteTag(p) \/ DeprecateFull(p) \/ DeprecateAbbr(p) \/ ReplacePeople(p)
  \/ SaveBlock(p) \/ RefreshBlock(p)

Next ==
  \/ \E p \in Proc : Request(p) \/ Write(p) \/ Abort(p)
  \/ LockLapses

Spec == Init /\ [][Next]_vars

-----------------------------------------------------------------------------
(* Properties *)

Idle == \A p \in Proc : ~Running(p)

\* The version has its row, its tarball and its manifests.
Served(v) == v \in Existing /\ None \notin {file[v].tar, file[v].man, file[v].abb}

\* The tarball of a version is the one its row was created for: no other
\* publication of the version (the path is the same, and the file is uploaded
\* before the row is looked at) and no removal takes it away, unless the lock
\* of a publication lapsed or two removals overlapped.
TarballsKept ==
  ~past.raced =>
    \A v \in Existing : <<v, rows[v]>> \notin past.removed => file[v].tar = rows[v]

\* The registry never names a version it cannot serve: whatever a document
\* lists or tags, and whatever a tag row says, is served, unless somebody began
\* to remove it, whichever calls overlap and wherever they break off; but two
\* removals of a version that overlap take away what is published between
\* them, as does a publication whose lock lapsed.
ListedServed ==
  ~past.raced => \A v \in Version, doc \in {full, abbr} :
    HasVersions(doc) /\ doc.versions[v] # None /\ <<v, doc.versions[v].pub>> \notin past.removed => Served(v)

NothingDangles ==
  /\ ListedServed
  /\ ~past.raced => \A t \in Tag, tagged \in {tags} \cup {doc.tags : doc \in {full, abbr} \ {None}} :
       tagged[t] \in Version \ {x[1] : x \in past.removed} => Served(tagged[t])

\* With calls one after the other the documents say what the rows and files
\* say, after publishing, unpublishing, tagging, deprecating, changing owners
\* and blocking, and after requests that are refused half way.
DocumentsAgree ==
  Idle /\ ~past.disturbed /\ pkg.exists =>
    IF Existing = {} THEN ~HasVersions(full) /\ ~HasVersions(abbr)
    ELSE /\ full # None => /\ full.versions = DocOf("man").versions /\ full.tags = tags
                           /\ full.people \subseteq people
         /\ abbr # None => abbr.versions = DocOf("abb").versions /\ abbr.tags = tags
         /\ (full = None) = (abbr = None)

-----------------------------------------------------------------------------
(* The inductive invariant of the proofs *)

\* What a call has left to do: while it publishes, removes or deprecates, it is
\* at one of these places; everything else comes in any order.
Publications ==
  {<<"lock", "save", "tar", "manifests", "row", "refresh", "tags", "unlock">>,
   <<"save", "tar", "manifests", "row", "refresh", "tags", "unlock">>,
   <<"tar", "manifests", "row", "refresh", "tags", "unlock">>,
   <<"manifests", "row", "refresh", "tags", "unlock">>,
   <<"row", "refresh", "tags", "unlock">>}
Removals ==
  {<<"names", "files", "deleteRow", "latest", "refresh">>, <<"list", "blankFull", "blankAbbr">>,
   <<"files", "deleteRow", "latest", "refresh">>, <<"files", "deleteRow", "blankFull", "blankAbbr">>,
   <<"deleteRow", "latest", "refresh">>, <<"deleteRow", "blankFull", "blankAbbr">>}
Deprecations == {<<"depMan", "depAbb", "refresh">>, <<"depAbb", "refresh">>}
Plain == {"full", "abbr", "refresh", "root", "docPeople", "tags", "unlock", "latest",
          "blankFull", "blankAbbr", "untag", "people", "block", "docBlock"}

Retagging(p) == at[p].run \in Seq(Plain \cup {"distTags"}) /\ Step(p, "distTags") /\ Rest(p) \in Seq(Plain)
RunKnown(p) ==
  at[p].run \in Publications \cup Removals \cup Deprecations \cup Seq(Plain) \/ Retagging(p)
RunsKnown == DOMAIN at = Proc /\ \A p \in Proc : RunKnown(p)

Publishing(p) == at[p].run \in Publications
Writing(p) == Publishing(p) /\ ~Waiting(p)

StoreKinds ==
  /\ pubs \in Nat
  /\ rows \in [Version -> Nat \cup {None}]
  /\ file \in [Version -> [tar : Nat \cup {None}, man : Metas \cup {None}, abb : Metas \cup {None}]]
  /\ DOMAIN tags = Tag
  /\ DOMAIN past = {"disturbed", "raced", "removed"} /\ past.raced \in BOOLEAN
CallKind(p) ==
  /\ DOMAIN at[p] = DOMAIN Nothing
  /\ at[p].v \in Version \cup {None} /\ at[p].flag \in BOOLEAN
  /\ Publishing(p) => at[p].v \in Version
  /\ Writing(p) /\ ~Step(p, "save") => at[p].pub \in Nat
Kinds == StoreKinds /\ \A p \in Proc : CallKind(p)

\* A version that has a row, or that somebody began to remove.
Known(v) == rows[v] # None \/ v \in {x[1] : x \in past.removed}
Named(v) == v \in Version => Known(v)

\* A document, here or in a call's hands, however old: it tags known versions,
\* and what it lists has the row it was listed for or is being removed.
Sound(doc) ==
  /\ {"versions", "tags"} \subseteq DOMAIN doc
  /\ \A t \in Tag : Named(doc.tags[t])
  /\ doc.versions # None =>
       \A v \in Version : doc.versions[v] # None =>
         \/ v \in Existing /\ rows[v] = doc.versions[v].pub
         \/ <<v, doc.versions[v].pub>> \in past.removed
SoundOrNone(doc) == doc # None => Sound(doc)

\* A publication that has the lock finds no row of its version, and the files
\* it has uploaded are there.
Uploads(p) ==
  LET v == at[p].v
  IN /\ Writing(p) => lock = p
     /\ Writing(p) /\ ~Step(p, "save") => rows[v] = None
     /\ Step(p, "manifests") \/ Step(p, "row") => file[v].tar = at[p].pub
     /\ Step(p, "row") => \A which \in {"man", "abb"} :
                            file[v][which] # None /\ file[v][which].pub = at[p].pub

\* A removal goes through rows that are there.
Removes(p) ==
  Removing(p) /\ ~Step(p, "list") =>
    /\ at[p].todo # {}
    /\ \A x \in at[p].todo : \E v \in Existing : x = <<v, rows[v]>>
    /\ Step(p, "deleteRow") => Target(p) \in past.removed

Carries(p) ==
  /\ SoundOrNone(at[p].f) /\ SoundOrNone(at[p].a)
  /\ Retagging(p) => Sound(at[p].f) /\ Sound(at[p].a)
  /\ ~Publishing(p) => Named(at[p].v)

\* The files of a row are of the publication that it was created for.
FilesFit(v) ==
  rows[v] # None =>
    /\ \A which \in {"man", "abb"} : file[v][which] # None => file[v][which].pub = rows[v]
    /\ <<v, rows[v]>> \notin past.removed =>
         file[v].tar = rows[v] /\ file[v].man # None /\ file[v].abb # None

Kept ==
  ~past.raced =>
    /\ \A v \in Version : FilesFit(v)
    /\ \A t \in Tag : Named(tags[t])
    /\ SoundOrNone(full) /\ SoundOrNone(abbr)
    /\ \A p \in Proc : Uploads(p) /\ Removes(p) /\ Carries(p)
    /\ \A p, q \in Proc : Removing(p) /\ Removing(q) => p = q

=============================================================================
