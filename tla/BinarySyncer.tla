---------------------------- MODULE BinarySyncer ----------------------------
(***************************************************************************)
(* One mirror of /-/binary/: BinarySyncerService walks what an adapter     *)
(* lists of the upstream site, downloads the files that are new or have    *)
(* another date, and saves a directory after everything in it; while       *)
(* upstream goes on publishing, listings and downloads fail and processes  *)
(* die.                                                                    *)
(*                                                                         *)
(* The site is a set of versions, each with a file f and a directory s     *)
(* that has a file g.  Dates are the times of a clock, 0 where there is    *)
(* nothing.  A task of a mirror is executed by one process at a time; its  *)
(* way through the queue is TaskQueue's.                                   *)
(***************************************************************************)
EXTENDS Integers, FiniteSets

CONSTANTS
  Process,    \* the server processes, each with its own adapter object
  Adapter,    \* the adapters to look at: names of Traits
  MaxVersion, \* bound: versions upstream publishes
  MaxClock,   \* bound: changes of the site
  MaxEvents   \* bound: changes, failing requests and deaths together

ASSUME BinaryAssumption == {MaxVersion, MaxClock, MaxEvents} \subseteq Nat

VARIABLES
  adapter,    \* the traits of the mirror's adapter, fixed
  clock,
  up,         \* the upstream site: of every version the dates of the four
  row, blob,  \* the mirror: the dates saved in the database, the files' revisions
  created,    \* the version whose directory was inserted last, or 0; kept for a
              \* marker only, which alone reads it
  task, from, \* the task, and the lastData it was created with
  last, seen, \* ChromeForTestingBinary.lastTimestamp and #timestamp of each process
  work,       \* where the execution is
  faults,
  gap, gapS,  \* history: see DirsWhole
  skipped,    \* history: files whose download was not found
  claimed,    \* history: see FinishedOnce
  clean       \* history: "running" or "done" when nothing failed or changed

site == <<clock, up>>
mirror == <<row, blob, created>>
memory == <<last, seen>>
notes == <<gap, gapS, skipped, claimed>>
binaryVars == <<adapter, site, mirror, task, from, memory, work, faults, notes, clean>>

Version == 1..MaxVersion
Nowhere == [v \in Version |-> 0]
Empty == [date |-> 0, f |-> 0, s |-> 0, g |-> 0]

-----------------------------------------------------------------------------
(***************************************************************************)
(* The adapters, told apart by when they read the site ("each" directory   *)
(* when it is walked, or all at "once" at the root), what a bad status     *)
(* below the root leads to (an "empty" listing, or an exception), which    *)
(* directories may have another date in every listing, what is the last of *)
(* the versions when their dates are sorted as strings, as the code does   *)
(* (the newest where dates are in the order of "time"; any, or a file,     *)
(* where they are "words"; one of the "files" beside the versions), and    *)
(* what they keep from one execution to the next.                          *)
(***************************************************************************)
Lists(reads, fails, redates, sorts, keeps) ==
  [reads |-> reads, fails |-> fails, redates |-> redates, sorts |-> sorts, keeps |-> keeps]

\* A page for every directory, with dates like 31-Oct-2023; requestXml makes ''
\* of a bad status.
Node == Lists("each", "empty", "", "words", "")
\* nwjs has such dates in its root only; of the others the answer is undefined.
Nwjs == Lists("each", "empty", "", "words", "")
\* Another mirror of this kind, with its dates; what is not an array is undefined.
Api == Lists("each", "empty", "", "words", "")
\* The root from an API, which is as old as the walk; pages for the versions.
Edgedriver == Lists("each", "empty", "", "time", "")
\* Directories of the root are dated by the hour of the listing, all alike, and
\* files beside them by their time; directories below are not dated.
Bucket == Lists("each", "empty", "version", "words", "")
\* Commits are dated by their release, the platforms below by the request.
Prisma == Lists("each", "empty", "sub", "time", "")
\* The whole tree is made anew from the npm package at every directory; without
\* its versions there is no list for one below the root.
Imagemin == Lists("each", "throw", "", "time", "")
Sqlcipher == Lists("each", "throw", "", "time", "")
NodePreGyp == Lists("each", "throw", "", "time", "")
\* The whole tree is made once.
Cypress == Lists("once", "throw", "", "time", "")
\* ... with revisions, which are numbers, for dates.
Playwright == Lists("once", "throw", "", "words", "")
\* ... from the last revision on that the task was created with.
Puppeteer == Lists("once", "throw", "", "time", "marker")
\* ... with revisions for dates, and only if its timestamp is not the last that
\* was finished: the date of three files in the root.
ChromeForTesting == Lists("once", "throw", "", "files", "timestamp")

Traits ==
  [node |-> Node, nwjs |-> Nwjs, api |-> Api, edgedriver |-> Edgedriver, bucket |-> Bucket,
   prisma |-> Prisma, imagemin |-> Imagemin, sqlcipher |-> Sqlcipher, nodepregyp |-> NodePreGyp,
   cypress |-> Cypress, playwright |-> Playwright, puppeteer |-> Puppeteer,
   chrome |-> ChromeForTesting]

ASSUME AdapterAssumption == Adapter \subseteq DOMAIN Traits

-----------------------------------------------------------------------------
EmptySite == [v \in Version |-> Empty]
\* The directory it is in, what it has listed (of the root and, in v, of v and
\* of its s), what of that is still to do, and where a download failed: in the
\* directory s (hasDownloadError of its syncDir), in the versions.
NoWork == [level |-> "idle", p |-> "", tree |-> EmptySite, dates |-> Nowhere, todo |-> {},
           latest |-> 0, v |-> 0, list |-> Empty, items |-> {}, file |-> "",
           failed |-> FALSE, bad |-> {}]

BinaryInit ==
  /\ adapter \in {Traits[n] : n \in Adapter}
  /\ clock = 0 /\ up = EmptySite
  /\ row = EmptySite /\ blob = EmptySite
  /\ created = 0 /\ task = "none" /\ from = 0
  /\ last = [p \in Process |-> 0] /\ seen = [p \in Process |-> 0]
  /\ work = NoWork
  /\ faults = 0
  /\ gap = {} /\ gapS = {} /\ skipped = {} /\ claimed = {} /\ clean = "no"

Eventful == clock + faults < MaxEvents
Fault == Eventful /\ faults' = faults + 1 /\ clean' = "no"
NoFault == UNCHANGED <<faults, clean>>
Walking == work.level # "idle"

-----------------------------------------------------------------------------
(* The upstream site *)

Tick == Eventful /\ clock < MaxClock /\ clock' = clock + 1
UpstreamOnly == clean' = "no" /\ UNCHANGED <<adapter, mirror, task, from, memory, work, faults, skipped, claimed>>

\* A version appears, with some of its files.
AddVersion ==
  /\ Tick
  /\ \E v \in Version, files \in SUBSET {"f", "g"} :
       /\ up[v] = Empty /\ \A w \in 1..(v - 1) : up[w] # Empty
       /\ up' = [up EXCEPT ![v] = [date |-> clock + 1,
                                   f |-> IF "f" \in files THEN clock + 1 ELSE 0,
                                   s |-> IF "g" \in files THEN clock + 1 ELSE 0,
                                   g |-> IF "g" \in files THEN clock + 1 ELSE 0]]
  /\ UNCHANGED <<gap, gapS>> /\ UpstreamOnly

\* A file is added or replaced; it may show in the date of the version.
PutFile(v, x, redate) ==
  /\ up[v] # Empty /\ Tick
  /\ up' = [up EXCEPT ![v] = [date |-> IF redate THEN clock + 1 ELSE @.date,
                              f |-> IF x = "f" THEN clock + 1 ELSE @.f,
                              s |-> IF x = "g" /\ @.s = 0 THEN clock + 1 ELSE @.s,
                              g |-> IF x = "g" THEN clock + 1 ELSE @.g]]
  \* A directory that was, or may have been, looked through keeps its date.
  /\ LET seenAlready == Walking \/ row[v].date = up[v].date
         inside == x = "f" \/ up[v].s = 0
     IN /\ gap' = IF redate THEN gap \ {v} ELSE IF inside /\ seenAlready THEN gap \cup {v} ELSE gap
        /\ gapS' = IF ~inside /\ (Walking \/ row[v].s # 0) THEN gapS \cup {v} ELSE gapS
  /\ UpstreamOnly

Publish == AddVersion \/ \E v \in Version, x \in {"f", "g"}, redate \in BOOLEAN : PutFile(v, x, redate)

-----------------------------------------------------------------------------
(* Tasks *)

\* CreateSyncBinaryTask, or an administrator, who may give the lastData.  There
\* is one task of a mirror (its bizId).
CreateTask ==
  /\ task = "none" /\ task' = "waiting"
  /\ IF adapter.keeps = "marker" THEN from' \in {created} \cup (IF created = 0 THEN Version ELSE {})
     ELSE UNCHANGED from
  /\ clean' = "no"
  /\ UNCHANGED <<adapter, site, mirror, memory, work, notes, faults>>

\* getBinaryAdapter; what the adapter took in before is forgotten.
Start(p) ==
  /\ task = "waiting" /\ ~Walking
  /\ task' = "processing"
  /\ work' = [NoWork EXCEPT !.level = "start", !.p = p]
  /\ clean' = "running"
  /\ UNCHANGED <<adapter, site, mirror, from, memory, notes, faults>>

\* An exception fails the task.
Fail ==
  /\ Walking /\ Fault
  /\ task' = "none" /\ work' = NoWork
  /\ UNCHANGED <<adapter, site, mirror, from, memory, notes>>

\* The process dies, or initFetch throws: the task waits again after a timeout.
Die ==
  /\ Walking /\ Fault
  /\ task' = "waiting" /\ work' = NoWork
  /\ last' = [last EXCEPT ![work.p] = 0] /\ seen' = [seen EXCEPT ![work.p] = 0]
  /\ claimed' = claimed \ {work.p}
  /\ UNCHANGED <<adapter, site, mirror, from, gap, gapS, skipped>>

-----------------------------------------------------------------------------
(* syncDir of the root *)

\* What the adapter lists of the versions: nothing of a mirror it keeps a marker
\* for and has none, and nothing new of a timestamp it has finished.
RootListing(p) ==
  [v \in Version |->
     IF \/ adapter.keeps = "marker" /\ (from = 0 \/ v <= from)
        \/ adapter.keeps = "timestamp" /\ last[p] = clock
     THEN 0 ELSE up[v].date]

\* The version published or redated last, 0 of none.
Newest(dates) == IF dates = Nowhere THEN 0
                 ELSE CHOOSE v \in Version : \A w \in Version : dates[w] <= dates[v]

\* The last item when they are sorted by date: a version, or 0 for a file.
LastByDate(dates) ==
  CASE adapter.sorts = "time" -> {Newest(dates)}
    [] adapter.sorts = "words" -> {v \in Version : dates[v] # 0} \cup {0}
    [] adapter.sorts = "files" -> {0}

\* diff: what is new or has another date.  Which versions have another hour
\* than when they were saved is not told from their dates here.
Diffs(dates) ==
  LET listed == {v \in Version : dates[v] # 0}
      new == {v \in listed : row[v].date = 0}
  IN IF adapter.redates = "version" THEN {new \cup redated : redated \in SUBSET listed}
     ELSE {{v \in listed : row[v].date # dates[v]}}

EnterRoot(dates, todo, latest) ==
  /\ work' = [work EXCEPT !.level = "root", !.dates = dates, !.todo = todo, !.latest = latest,
                          !.tree = IF adapter.reads = "once" THEN up ELSE @]
  /\ seen' = IF adapter.keeps = "timestamp" THEN [seen EXCEPT ![work.p] = clock] ELSE seen
  /\ claimed' = IF last[work.p] = clock THEN claimed ELSE claimed \ {work.p}
  /\ UNCHANGED <<adapter, site, mirror, task, from, last, gap, gapS, skipped>> /\ NoFault

\* Mutant: without looking through the last version again.
ListRootOnce ==
  /\ work.level = "start"
  /\ LET dates == RootListing(work.p) IN \E todo \in Diffs(dates) : EnterRoot(dates, todo, 0)

\* The last version by date is looked through again (latest); if that is new or
\* has another date, or is a file, so may be the last directory in every one.
ListRoot ==
  /\ work.level = "start"
  /\ LET dates == RootListing(work.p)
     IN \E todo \in Diffs(dates), newest \in LastByDate(dates) :
          LET latest == IF newest \in todo THEN 0 ELSE newest
          IN EnterRoot(dates, todo \cup ({latest} \ {0}), latest)

\* A bad status: nothing to do, which is no error.
ListRootFails ==
  /\ work.level = "start" /\ Fault
  /\ work' = [work EXCEPT !.level = "root"]
  /\ claimed' = IF seen[work.p] # last[work.p] THEN claimed \cup {work.p} ELSE claimed
  /\ UNCHANGED <<adapter, site, mirror, task, from, memory, gap, gapS, skipped>>

\* Mutant: finishFetch is not told what failed.
FinishAnyway ==
  /\ work.level = "root" /\ work.todo = {}
  /\ task' = "none" /\ work' = NoWork
  /\ last' = IF seen[work.p] # 0 THEN [last EXCEPT ![work.p] = seen[work.p]] ELSE last
  /\ clean' = IF clean = "running" THEN "done" ELSE clean
  /\ UNCHANGED <<adapter, site, mirror, from, seen, notes, faults>>

\* The task succeeds, whatever failed to download; finishFetch is told of it.
Finish ==
  /\ work.level = "root" /\ work.todo = {}
  /\ task' = "none" /\ work' = NoWork
  /\ last' = IF work.bad = {} /\ seen[work.p] # 0 THEN [last EXCEPT ![work.p] = seen[work.p]] ELSE last
  /\ clean' = IF clean = "running" THEN "done" ELSE clean
  /\ UNCHANGED <<adapter, site, mirror, from, seen, notes, faults>>

-----------------------------------------------------------------------------
(* syncDir of a version *)

\* In a directory, and not about to save the row of a file.
In(level) == work.level = level /\ work.file = ""
Site == IF adapter.reads = "once" THEN work.tree ELSE up

\* Its directory s is looked through again where it is the last by date.
Descend(v) ==
  /\ work.level = "root" /\ v \in work.todo
  /\ LET list == [Site[v] EXCEPT !.date = work.dates[v]]
     IN \E again \in {FALSE, work.latest \in {0, v}} : work' = [work EXCEPT !.level = "version", !.v = v, !.list = list, !.todo = @ \ {v},
                   !.items = {x \in {"f", "s"} :
                                /\ list[x] # 0
                                /\ \/ row[v][x] # list[x]
                                   \/ x = "s" /\ (again \/ adapter.redates = "sub")}]
  /\ UNCHANGED <<adapter, site, mirror, task, from, memory, notes>> /\ NoFault

\* Nothing in it: neither an error nor saved.
DescendFails(v) ==
  /\ work.level = "root" /\ v \in work.todo /\ adapter.fails = "empty" /\ adapter.reads = "each"
  /\ Fault
  /\ work' = [work EXCEPT !.todo = @ \ {v}]
  /\ UNCHANGED <<adapter, site, mirror, task, from, memory, notes>>

Back == [work EXCEPT !.level = "root", !.v = 0, !.list = Empty]

\* The directory is saved after what is in it.
SaveVersion ==
  /\ row' = [row EXCEPT ![work.v].date = work.list.date]
  /\ created' = IF adapter.keeps = "marker" /\ row[work.v].date = 0 THEN work.v ELSE created
  /\ work' = Back

\* Mutant: a download that fails is not told to the directories above.
LeaveAnyway ==
  /\ In("version") /\ work.items = {}
  /\ IF work.list.f = 0 /\ work.list.s = 0 THEN work' = Back /\ UNCHANGED <<row, created>>
     ELSE SaveVersion
  /\ UNCHANGED <<adapter, site, blob, task, from, memory, notes>> /\ NoFault

\* Nor is it saved if a file in it failed, or if there is nothing in it.
Leave ==
  /\ In("version") /\ work.items = {}
  /\ IF work.v \in work.bad \/ (work.list.f = 0 /\ work.list.s = 0)
     THEN work' = Back /\ UNCHANGED <<row, created>>
     ELSE SaveVersion
  /\ UNCHANGED <<adapter, site, blob, task, from, memory, notes>> /\ NoFault

-----------------------------------------------------------------------------
(* Files, of a version or of its directory s *)

Files == {x \in work.items : In(IF x = "f" THEN "version" ELSE "sub")}

\* downloadToTempfile and uploadFile.
Download(x) ==
  /\ x \in Files
  /\ blob' = [blob EXCEPT ![work.v][x] = up[work.v][x]]
  /\ work' = [work EXCEPT !.file = x, !.items = @ \ {x}]
  /\ UNCHANGED <<adapter, site, row, created, task, from, memory, notes>> /\ NoFault

\* saveBinary.
SaveFile ==
  /\ work.file # ""
  /\ row' = [row EXCEPT ![work.v][work.file] = work.list[work.file]]
  /\ skipped' = skipped \ {<<work.v, work.file>>}
  /\ work' = [work EXCEPT !.file = ""]
  /\ UNCHANGED <<adapter, site, blob, created, task, from, memory, gap, gapS, claimed>> /\ NoFault

\* 404, or a status to ignore: the file is passed over for good.
NotFound(x) ==
  /\ x \in Files /\ Fault
  /\ skipped' = skipped \cup {<<work.v, x>>}
  /\ work' = [work EXCEPT !.items = @ \ {x}]
  /\ UNCHANGED <<adapter, site, mirror, task, from, memory, gap, gapS, claimed>>

\* Three times in vain.
DownloadFails(x) ==
  /\ x \in Files /\ Fault
  /\ work' = [work EXCEPT !.items = @ \ {x}, !.failed = work.level = "sub", !.bad = @ \cup {work.v}]
  /\ UNCHANGED <<adapter, site, mirror, task, from, memory, notes>>

-----------------------------------------------------------------------------
(* syncDir of the directory s of a version *)

DescendSub ==
  /\ In("version") /\ "s" \in work.items
  /\ LET g == Site[work.v].g
     IN work' = [work EXCEPT !.level = "sub", !.failed = FALSE, !.list.g = g,
                   !.items = (@ \ {"s"}) \cup (IF row[work.v].g # g THEN {"g"} ELSE {})]
  /\ UNCHANGED <<adapter, site, mirror, task, from, memory, notes>> /\ NoFault

\* Nothing in it: it is not saved, but the version is.
DescendSubFails ==
  /\ In("version") /\ "s" \in work.items /\ adapter.fails = "empty" /\ adapter.reads = "each"
  /\ Fault
  /\ work' = [work EXCEPT !.items = @ \ {"s"}]
  /\ gap' = gap \cup {work.v} /\ gapS' = gapS \cup {work.v}
  /\ UNCHANGED <<adapter, site, mirror, task, from, memory, skipped, claimed>>

\* It is saved unless a file in it failed.
LeaveSub ==
  /\ In("sub") /\ "g" \notin work.items
  /\ row' = IF work.failed THEN row ELSE [row EXCEPT ![work.v].s = work.list.s]
  /\ work' = [work EXCEPT !.level = "version"]
  /\ UNCHANGED <<adapter, site, blob, created, task, from, memory, notes>> /\ NoFault

-----------------------------------------------------------------------------
Walk ==
  \/ ListRoot \/ ListRootFails \/ Finish \/ Fail \/ Die
  \/ \E v \in Version : Descend(v) \/ DescendFails(v)
  \/ Leave \/ DescendSub \/ DescendSubFails \/ LeaveSub \/ SaveFile
  \/ \E x \in {"f", "g"} : Download(x) \/ NotFound(x) \/ DownloadFails(x)

BinaryNext == Publish \/ CreateTask \/ (\E p \in Process : Start(p)) \/ Walk

BinarySpec == BinaryInit /\ [][BinaryNext]_binaryVars

-----------------------------------------------------------------------------
(* Properties *)

\* The mirror has what upstream has, but for a file that was not found.
Stored(v, x) == row[v][x] = up[v][x] \/ <<v, x>> \in skipped
\* All that is directly in the version.
Direct(v) == Stored(v, "f") /\ row[v].s = up[v].s

\* A row of a file leads to the file, at least as new as the row says.  And a
\* directory that has the date it has upstream is whole, so that it need not be
\* looked through again; unless its contents changed without its date after it
\* was, or its directory below was answered with an error as if it were empty.
DirsWhole ==
  \A v \in Version :
    /\ \A x \in {"f", "g"} : row[v][x] <= blob[v][x]
    /\ row[v].date # 0 /\ row[v].date = up[v].date /\ v \notin gap => Direct(v)
    /\ row[v].s # 0 /\ row[v].s = up[v].s /\ v \notin gapS => Stored(v, "g")

\* When a task has met no failure and the site did not change meanwhile, the
\* mirror has all that is directly in the newest version, even if the task
\* before read that while it was being published; unless a marker is past it.
NewestComplete ==
  LET v == Newest([w \in Version |-> up[w].date])
  IN clean = "done" /\ v # 0 /\ (adapter.keeps = "marker" => from # 0 /\ v > from) => Direct(v)

\* ... where dates that are sorted as strings come in the order of time.
NewestWhole == adapter.sorts = "time" => NewestComplete

\* Of a timestamp that was finished, so that it is not listed again, every
\* version with anything in it was looked through: the directory has the date of
\* the site.  But an execution that could not read the site finishes what the
\* one before it failed at (claimed).
LookedThrough(v) == row[v].date = up[v].date \/ (up[v].f = 0 /\ up[v].s = 0)
FinishedOnce ==
  adapter.keeps = "timestamp" =>
    \A p \in Process \ claimed : last[p] = clock => \A v \in Version : LookedThrough(v)

-----------------------------------------------------------------------------
(* The inductive invariant of the proofs *)

Dates == [date : Nat, f : Nat, s : Nat, g : Nat]
Walks ==
  [level : {"idle", "start", "root", "version", "sub"}, p : Process \cup {""},
   tree : [Version -> Dates], dates : [Version -> Nat], todo : SUBSET Version, latest : Nat,
   v : Version \cup {0}, list : Dates, items : SUBSET {"f", "s", "g"}, file : {"", "f", "g"},
   failed : BOOLEAN, bad : SUBSET Version]
BinaryTypes ==
  /\ adapter \in {Traits[n] : n \in Adapter}
  /\ clock \in Nat /\ from \in Nat /\ created \in Nat
  /\ up \in [Version -> Dates] /\ row \in [Version -> Dates] /\ blob \in [Version -> Dates]
  /\ last \in [Process -> Nat] /\ seen \in [Process -> Nat]
  /\ work \in Walks

Under == work.level \in {"version", "sub"}
Entered == Under \/ work.level = "root"

\* Where the execution is, and what it may have to do there.
Placed ==
  /\ Walking => work.p \in Process
  /\ ~Entered => work.todo = {} /\ work.bad = {} /\ work.dates = Nowhere /\ work.tree = EmptySite
  /\ Under => work.v \in Version \ work.todo
  /\ work.file # "" => (work.level = "version" /\ work.file = "f") \/ (work.level = "sub" /\ work.file = "g")
  /\ work.level = "version" => work.items \subseteq {"f", "s"} /\ ("s" \in work.items => work.list.s # 0)
  /\ work.level = "sub" => work.items \subseteq {"f", "g"} /\ work.list.s # 0
                           /\ (work.failed => work.v \in work.bad)

\* What is known of a version, here or in the hands of the execution, is what
\* upstream had at some time; its directory s comes once and keeps its date.
Older(known, v) ==
  known.date <= up[v].date /\ known.f <= up[v].f /\ known.g <= up[v].g /\ known.s \in {0, up[v].s}
OnceListed ==
  /\ \A v \in Version :
       /\ up[v].date <= clock /\ up[v].f <= clock /\ up[v].s <= clock /\ up[v].g <= clock
       /\ \A w \in Version : up[v].date = up[w].date /\ v # w => up[v].date = 0
       /\ Older(row[v], v) /\ Older(work.tree[v], v) /\ work.dates[v] <= up[v].date
       /\ row[v].f <= blob[v].f /\ row[v].g <= blob[v].g
       /\ v \in work.todo => work.dates[v] # 0 /\ row[v].date <= work.dates[v]
  /\ Under => /\ Older(work.list, work.v) /\ work.list.date = work.dates[work.v] /\ work.list.date # 0
              /\ row[work.v].date <= work.list.date
              /\ work.file # "" => work.list[work.file] <= blob[work.v][work.file]
  /\ \A p \in Process : last[p] <= clock /\ seen[p] <= clock

\* What was listed of a version whose date has not changed since.
TreeHolds ==
  adapter.reads = "once" => \A v \in Version :
    /\ work.dates[v] # 0 /\ work.dates[v] = up[v].date /\ v \notin gap =>
         work.tree[v].f = up[v].f /\ work.tree[v].s = up[v].s
    /\ work.tree[v].s # 0 /\ v \notin gapS => work.tree[v].g = up[v].g
    /\ Under /\ work.v = v => work.list.s = work.tree[v].s

\* The execution has listed the site as it is.
Fresh == Entered /\ (clean = "running" \/ (adapter.keeps = "timestamp" /\ seen[work.p] = clock))

\* What of the version, or of its directory, is not in the mirror is still to do.
DirectToDo ==
  /\ work.list.f = up[work.v].f /\ work.list.s = up[work.v].s
  /\ work.v \in work.bad \/ "f" \in work.items \/ work.file = "f" \/ Stored(work.v, "f")
  /\ work.v \in work.bad \/ "s" \in work.items \/ work.level = "sub" \/ row[work.v].s = up[work.v].s
SubToDo ==
  /\ work.list.g = up[work.v].g
  /\ work.failed \/ "g" \in work.items \/ work.file = "g" \/ Stored(work.v, "g")

\* ... where it has been listed as it is.
ListedNow == Under /\ (Fresh \/ (work.list.date = up[work.v].date /\ work.v \notin gap))
ListHolds ==
  /\ ListedNow => DirectToDo
  /\ work.level = "sub" /\ work.v \notin gapS => SubToDo

Latest == Newest([v \in Version |-> up[v].date])

\* What an execution that came by leaves of a version.
Mirrored(v) == LookedThrough(v) /\ (adapter.sorts = "time" /\ v = Latest => Direct(v))

\* An execution that has listed the site as it is comes to all that needs it.
FreshHolds ==
  Fresh =>
    /\ \A v \in Version : work.dates[v] \in {0, up[v].date}
    /\ adapter.reads = "once" => \A v \in work.todo : work.tree[v] = up[v]
    /\ adapter.redates # "version" => \A v \in Version : work.dates[v] # 0 =>
         \/ v \in work.todo \/ (Under /\ work.v = v) \/ work.bad # {} \/ Mirrored(v)

\* ... and one that met no failure has listed it, but for what it left out.
RunningHolds ==
  /\ clean = "running" => Walking /\ work.bad = {}
  /\ clean = "done" => ~Walking
  /\ clean = "running" /\ Entered /\ adapter.keeps # "timestamp" =>
       \A v \in Version : work.dates[v] = IF adapter.keeps = "marker" /\ (from = 0 \/ v <= from)
                                          THEN 0 ELSE up[v].date
  /\ clean = "running" /\ Entered /\ adapter.keeps = "timestamp" => seen[work.p] = clock

\* A timestamp that is finished stands for what was listed.
TimestampHolds ==
  adapter.keeps = "timestamp" =>
    /\ Entered /\ seen[work.p] = clock =>
         work.p \in claimed \/ last[work.p] = clock \/ \A v \in Version : work.dates[v] = up[v].date
    /\ \A p \in Process : last[p] = clock /\ clock # 0 =>
         /\ p \notin claimed => \A v \in Version : LookedThrough(v)
         /\ Entered => seen[work.p] = clock \/ (work.level = "root" /\ work.todo = {})

MirrorHolds ==
  BinaryTypes /\ Placed /\ OnceListed /\ TreeHolds /\ ListHolds /\ FreshHolds /\ RunningHolds /\ TimestampHolds
=============================================================================
