-------------------------- MODULE BinarySyncerProofs --------------------------
(***************************************************************************)
(* Theorems about BinarySyncer: what the mirror holds is what the site     *)
(* has, of every directory that need not be looked through again, and of   *)
(* the newest version after an execution that nothing disturbed.           *)
(***************************************************************************)
EXTENDS BinarySyncer, WellFoundedInduction, TLAPS

USE BinaryAssumption DEF Version

\* The adapter that keeps a timestamp makes its tree once, and throws; one whose dates come in
\* the order of time keeps them.
LEMMA KeepsTimestamp ==
  ASSUME BinaryTypes
  PROVE  /\ adapter.reads \in {"each", "once"} /\ adapter.sorts \in {"time", "words", "files"}
         /\ adapter.keeps = "timestamp" =>
              adapter.reads = "once" /\ adapter.fails = "throw" /\ adapter.redates = "" /\ adapter.sorts = "files"
         /\ adapter.sorts = "time" => adapter.redates # "version"
<1>1. PICK n \in Adapter : adapter = Traits[n]
  BY DEF BinaryTypes
<1>2. n \in DOMAIN Traits
  BY AdapterAssumption
<1>3. adapter \in {Node, Nwjs, Api, Edgedriver, Bucket, Prisma, Imagemin, Sqlcipher, NodePreGyp,
                  Cypress, Playwright, Puppeteer, ChromeForTesting}
  BY <1>1, <1>2 DEF Traits
<1> DEFINE A == [reads : {"each", "once"}, fails : {"empty", "throw"}, redates : {"", "version", "sub"},
                 sorts : {"words"}, keeps : {"", "marker"}]
           B == [reads : {"each", "once"}, fails : {"empty", "throw"}, redates : {"", "sub"},
                 sorts : {"time"}, keeps : {"", "marker"}]
<1>4. \A a \in {"each", "once"}, b \in {"empty", "throw"}, c \in {"", "sub"}, d \in {"", "marker"} :
        Lists(a, b, c, "time", d) \in B
  BY DEF Lists
<1>5. \A a \in {"each", "once"}, b \in {"empty", "throw"}, c \in {"", "version", "sub"}, d \in {"", "marker"} :
        Lists(a, b, c, "words", d) \in A
  BY DEF Lists
<1>6. {Edgedriver, Prisma, Imagemin, Sqlcipher, NodePreGyp, Cypress, Puppeteer} \subseteq B
  <2> HIDE DEF A, B
  <2> QED
    BY <1>4 DEF Edgedriver, Prisma, Imagemin, Sqlcipher, NodePreGyp, Cypress, Puppeteer
<1>7. {Node, Nwjs, Api, Bucket, Playwright} \subseteq A
  <2> HIDE DEF A, B
  <2> QED
    BY <1>5 DEF Node, Nwjs, Api, Bucket, Playwright
<1>8. CASE adapter \in A
  BY <1>8
<1>9. CASE adapter \in B
  BY <1>9
<1>10. CASE adapter = ChromeForTesting
  BY <1>10 DEF Lists, ChromeForTesting
<1> HIDE DEF A, B
<1> QED
  BY <1>3, <1>6, <1>7, <1>8, <1>9, <1>10

\* The entry of nothing, of the root and below, has dates.
LEMMA EmptyIsDated ==
  /\ Empty \in Dates /\ EmptySite \in [Version -> Dates] /\ Nowhere \in [Version -> Nat]
  /\ NoWork \in Walks
  BY DEF Empty, Dates, EmptySite, Nowhere, NoWork, Walks

LEMMA RootListingType ==
  ASSUME BinaryTypes, NEW p \in Process
  PROVE  /\ RootListing(p) \in [Version -> Nat]
         /\ \A v \in Version : RootListing(p)[v] \in {0, up[v].date}
  BY DEF RootListing, BinaryTypes, Dates

\* Of numbers there is a least.
LEMMA LeastExists ==
  ASSUME NEW S \in SUBSET Nat, S # {}
  PROVE  \E i \in S : \A j \in S : i <= j
<1>1. PICK i \in S : \A j \in S : ~(<<j, i>> \in OpToRel(<, Nat))
  BY WFMin, NatLessThanWellFounded, Zenon
<1>2. \A j \in S : i <= j
  <2> TAKE j \in S
  <2>1. ~(<<j, i>> \in OpToRel(<, Nat)) /\ i \in Nat /\ j \in Nat
    BY <1>1
  <2> QED BY <2>1 DEF OpToRel
<1> QED BY <1>2

\* The newest of dates that are not after a time is one with the last date.
LEMMA NewestIsLast ==
  ASSUME NEW dates \in [Version -> Nat], NEW n \in Nat, \A v \in Version : dates[v] <= n
  PROVE  \/ dates = Nowhere /\ Newest(dates) = 0
         \/ /\ Newest(dates) \in Version /\ dates[Newest(dates)] # 0
            /\ \A w \in Version : dates[w] <= dates[Newest(dates)]
<1>1. CASE dates = Nowhere
  BY <1>1 DEF Newest
<1>2. CASE dates # Nowhere
  <2> DEFINE Ages == {n - dates[v] : v \in Version}
  <2>1. PICK u \in Version : dates[u] # 0
    <3>1. CASE \A u \in Version : dates[u] = 0
      <4>1. dates = Nowhere
        BY <3>1 DEF Nowhere
      <4> QED BY <4>1, <1>2
    <3> QED BY <3>1
  <2>2. Ages \in SUBSET Nat /\ Ages # {}
    BY <2>1
  <2>3. PICK i \in Ages : \A j \in Ages : i <= j
    BY <2>2, LeastExists
  <2>4. PICK v \in Version : i = n - dates[v]
    BY <2>3
  <2>5. \A w \in Version : dates[w] <= dates[v]
    <3> TAKE w \in Version
    <3>1. n - dates[w] \in Ages
      OBVIOUS
    <3>2. n - dates[v] <= n - dates[w]
      BY <2>3, <2>4, <3>1
    <3> QED BY <3>2
  <2>6. Newest(dates) \in Version /\ \A w \in Version : dates[w] <= dates[Newest(dates)]
    BY <2>5, <1>2 DEF Newest
  <2> QED BY <2>1, <2>6
<1> QED BY <1>1, <1>2

\* What is listed of the site, where the newest version is listed, has it for the newest.
LEMMA NewestIsLatest ==
  ASSUME BinaryTypes, OnceListed, NEW dates \in [Version -> Nat],
         \A v \in Version : dates[v] \in {0, up[v].date}
  PROVE  /\ Latest \in Version \cup {0} /\ Newest(dates) \in Version \cup {0}
         /\ Newest(dates) # 0 => dates[Newest(dates)] # 0
         /\ Latest = 0 => \A v \in Version : up[v].date = 0
         /\ Latest # 0 => up[Latest].date # 0 /\ (dates[Latest] # 0 => Newest(dates) = Latest)
<1> DEFINE dated == [v \in Version |-> up[v].date]
<1>1. dated \in [Version -> Nat] /\ \A v \in Version : dated[v] <= clock /\ dates[v] <= clock
  <2>1. \A v \in Version : up[v].date \in Nat /\ clock \in Nat
    BY DEF BinaryTypes, Dates
  <2>2. \A v \in Version : up[v].date <= clock
    BY DEF OnceListed
  <2>3. dated \in [Version -> Nat] /\ \A v \in Version : dated[v] <= clock
    BY <2>1, <2>2
  <2>4. \A v \in Version : dates[v] <= clock
    BY <2>1, <2>2
  <2> QED BY <2>3, <2>4
<1>2. clock \in Nat
  BY DEF BinaryTypes
<1>3. \/ dated = Nowhere /\ Latest = 0
      \/ /\ Latest \in Version /\ dated[Latest] # 0 /\ \A w \in Version : dated[w] <= dated[Latest]
  BY <1>1, <1>2, NewestIsLast DEF Latest
<1>4. \/ dates = Nowhere /\ Newest(dates) = 0
      \/ /\ Newest(dates) \in Version /\ dates[Newest(dates)] # 0
         /\ \A w \in Version : dates[w] <= dates[Newest(dates)]
  BY <1>1, <1>2, NewestIsLast
<1>5. 0 \notin Version
  OBVIOUS
<1>6. Latest = 0 => \A v \in Version : up[v].date = 0
  <2>1. Latest = 0 => dated = Nowhere
    BY <1>3, <1>5
  <2> QED BY <2>1 DEF Nowhere
<1>7. ASSUME Latest # 0, dates[Latest] # 0
      PROVE  Newest(dates) = Latest
  <2>1. Latest \in Version /\ Newest(dates) \in Version
    BY <1>3, <1>4, <1>7 DEF Nowhere
  <2>2. dates[Latest] = up[Latest].date /\ dates[Newest(dates)] = up[Newest(dates)].date
    BY <2>1, <1>4, <1>7 DEF Nowhere
  <2>3. up[Newest(dates)].date <= up[Latest].date
    BY <1>3, <2>1, <1>5
  <2>4. up[Latest].date <= up[Newest(dates)].date
    BY <1>4, <2>1, <2>2, <1>7 DEF Nowhere
  <2>5. up[Latest].date = up[Newest(dates)].date
    BY <2>1, <2>3, <2>4, <1>1
  <2> QED
    BY <2>1, <2>2, <2>5, <1>7 DEF OnceListed
<1>8. Latest # 0 => up[Latest].date # 0
  BY <1>3
<1> QED BY <1>3, <1>4, <1>5, <1>6, <1>7, <1>8

-----------------------------------------------------------------------------
(* What the actions make of the site and of the mirror *)

\* A row, or a file, of the version walked through is assigned.
LEMMA RowAssigned ==
  ASSUME BinaryTypes, NEW v \in Version, NEW x \in {"f", "s", "g", "date"}, NEW d \in Nat,
         row' = [row EXCEPT ![v][x] = d]
  PROVE  /\ row' \in [Version -> Dates] /\ row'[v][x] = d
         /\ \A y \in {"f", "s", "g", "date"} \ {x} : row'[v][y] = row[v][y]
         /\ \A w \in Version \ {v} : row'[w] = row[w]
<1>1. row \in [Version -> Dates]
  BY DEF BinaryTypes
<1> QED BY <1>1 DEF Dates

LEMMA UnderVersion ==
  ASSUME BinaryTypes, Placed
  PROVE  /\ work.list \in Dates /\ work.v \in Version \cup {0}
         /\ Under => work.v \in Version
         /\ work.file # "" => Under /\ work.file \in {"f", "g"}
  BY DEF BinaryTypes, Walks, Placed, Under

LEMMA SaveFileEffect ==
  ASSUME BinaryTypes, Placed, SaveFile
  PROVE  /\ work.v \in Version /\ work.file \in {"f", "g"}
         /\ row' \in [Version -> Dates] /\ row'[work.v][work.file] = work.list[work.file]
         /\ \A y \in {"f", "s", "g", "date"} \ {work.file} : row'[work.v][y] = row[work.v][y]
         /\ \A w \in Version \ {work.v} : row'[w] = row[w]
<1>1. work.v \in Version /\ work.file \in {"f", "g"}
  BY UnderVersion DEF SaveFile
<1>2. work.list[work.file] \in Nat
  BY <1>1, UnderVersion DEF Dates
<1>3. row' = [row EXCEPT ![work.v][work.file] = work.list[work.file]]
  BY DEF SaveFile
<1>4. row \in [Version -> Dates]
  BY DEF BinaryTypes
<1> QED BY <1>1, <1>2, <1>3, <1>4 DEF Dates

LEMMA LeaveSubEffect ==
  ASSUME BinaryTypes, Placed, LeaveSub
  PROVE  /\ work.v \in Version /\ row' \in [Version -> Dates]
         /\ row'[work.v].s = IF work.failed THEN row[work.v].s ELSE work.list.s
         /\ row'[work.v].f = row[work.v].f /\ row'[work.v].g = row[work.v].g
         /\ row'[work.v].date = row[work.v].date
         /\ \A w \in Version \ {work.v} : row'[w] = row[w]
<1>1. work.v \in Version
  BY UnderVersion DEF LeaveSub, In, Under
<1>2. CASE work.failed
  BY <1>1, <1>2 DEF LeaveSub, BinaryTypes
<1>3. CASE ~work.failed
  <2>1. work.list.s \in Nat
    BY UnderVersion DEF Dates
  <2>2. row' = [row EXCEPT ![work.v].s = work.list.s]
    BY <1>3 DEF LeaveSub
  <2>3. /\ row' \in [Version -> Dates] /\ row'[work.v]["s"] = work.list.s
        /\ \A y \in {"f", "s", "g", "date"} \ {"s"} : row'[work.v][y] = row[work.v][y]
        /\ \A w \in Version \ {work.v} : row'[w] = row[w]
    BY <1>1, <2>1, <2>2, RowAssigned
  <2> QED BY <1>1, <1>3, <2>3
<1> QED BY <1>2, <1>3

LEMMA LeaveEffect ==
  ASSUME BinaryTypes, Placed, Leave
  PROVE  /\ work.v \in Version /\ row' \in [Version -> Dates]
         /\ row'[work.v].date = IF work.v \in work.bad \/ (work.list.f = 0 /\ work.list.s = 0)
                                THEN row[work.v].date ELSE work.list.date
         /\ row'[work.v].f = row[work.v].f /\ row'[work.v].g = row[work.v].g
         /\ row'[work.v].s = row[work.v].s
         /\ \A w \in Version \ {work.v} : row'[w] = row[w]
         /\ work' = Back /\ work' \in Walks /\ created' \in Nat
<1>0. Back \in Walks
  <2>1. work \in Walks /\ Empty \in Dates
    BY EmptyIsDated DEF BinaryTypes
  <2> QED BY <2>1 DEF Back, Walks
<1>1. work.v \in Version
  BY UnderVersion DEF Leave, In, Under
<1>2. CASE work.v \in work.bad \/ (work.list.f = 0 /\ work.list.s = 0)
  BY <1>0, <1>1, <1>2 DEF Leave, BinaryTypes
<1>3. CASE ~(work.v \in work.bad \/ (work.list.f = 0 /\ work.list.s = 0))
  <2>1. work.list.date \in Nat
    BY UnderVersion DEF Dates
  <2>2. row' = [row EXCEPT ![work.v].date = work.list.date] /\ work' = Back /\ created' \in {work.v, created}
    BY <1>3 DEF Leave, SaveVersion
  <2>3. /\ row' \in [Version -> Dates] /\ row'[work.v]["date"] = work.list.date
        /\ \A y \in {"f", "s", "g", "date"} \ {"date"} : row'[work.v][y] = row[work.v][y]
        /\ \A w \in Version \ {work.v} : row'[w] = row[w]
    BY <1>1, <2>1, <2>2, RowAssigned
  <2>4. created' \in Nat
    BY <1>1, <2>2 DEF BinaryTypes
  <2> QED BY <1>0, <1>1, <1>3, <2>2, <2>3, <2>4
<1> QED BY <1>2, <1>3

LEMMA DownloadEffect ==
  ASSUME BinaryTypes, Placed, NEW x \in {"f", "g"}, Download(x)
  PROVE  /\ work.v \in Version /\ Under /\ work.file = ""
         /\ blob' \in [Version -> Dates] /\ blob'[work.v][x] = up[work.v][x]
         /\ \A y \in {"f", "g"} \ {x} : blob'[work.v][y] = blob[work.v][y]
         /\ \A w \in Version \ {work.v} : blob'[w] = blob[w]
<1>1. work.v \in Version /\ Under /\ work.file = ""
  BY UnderVersion DEF Download, Files, In, Under
<1>2. blob \in [Version -> Dates] /\ up[work.v][x] \in Nat
  BY <1>1 DEF BinaryTypes, Dates
<1>3. blob' = [blob EXCEPT ![work.v][x] = up[work.v][x]]
  BY DEF Download
<1> QED BY <1>1, <1>2, <1>3 DEF Dates

LEMMA PutFileEffect ==
  ASSUME BinaryTypes, NEW v \in Version, NEW x \in {"f", "g"}, NEW redate \in BOOLEAN,
         PutFile(v, x, redate)
  PROVE  /\ up' \in [Version -> Dates] /\ clock' = clock + 1
         /\ up'[v].f = IF x = "f" THEN clock + 1 ELSE up[v].f
         /\ up'[v].g = IF x = "g" THEN clock + 1 ELSE up[v].g
         /\ up'[v].s = IF x = "g" /\ up[v].s = 0 THEN clock + 1 ELSE up[v].s
         /\ up'[v].date = IF redate THEN clock + 1 ELSE up[v].date
         /\ \A w \in Version \ {v} : up'[w] = up[w]
<1>1. up[v] \in Dates /\ up \in [Version -> Dates] /\ clock \in Nat
  BY DEF BinaryTypes
<1> QED BY <1>1 DEF PutFile, Tick, Dates

\* What is listed of a version, and what of it is to do.
Listed(v) == [Site[v] EXCEPT !.date = work.dates[v]]
LEMMA DescendEffect ==
  ASSUME BinaryTypes, NEW v \in Version, Descend(v)
  PROVE  /\ Listed(v) \in Dates /\ Listed(v).date = work.dates[v]
         /\ Listed(v).f = Site[v].f /\ Listed(v).s = Site[v].s /\ Listed(v).g = Site[v].g
         /\ work' \in Walks
         /\ \E items \in SUBSET {"f", "s"} :
              /\ work' = [work EXCEPT !.level = "version", !.v = v, !.list = Listed(v), !.todo = @ \ {v},
                                      !.items = items]
              /\ \A x \in items : Listed(v)[x] # 0
              /\ \A x \in {"f", "s"} : Listed(v)[x] # 0 /\ row[v][x] # Listed(v)[x] => x \in items
<1>1. Site[v] \in Dates /\ work.dates[v] \in Nat
  BY DEF BinaryTypes, Walks, Site
<1>2. /\ Listed(v) \in Dates /\ Listed(v).date = work.dates[v]
      /\ Listed(v).f = Site[v].f /\ Listed(v).s = Site[v].s /\ Listed(v).g = Site[v].g
  BY <1>1 DEF Listed, Dates
<1>0. PICK again \in BOOLEAN :
        work' = [work EXCEPT !.level = "version", !.v = v, !.list = Listed(v), !.todo = @ \ {v},
                   !.items = {x \in {"f", "s"} :
                                /\ Listed(v)[x] # 0
                                /\ \/ row[v][x] # Listed(v)[x]
                                   \/ x = "s" /\ (again \/ adapter.redates = "sub")}]
  BY DEF Descend, Listed
<1> DEFINE items == {x \in {"f", "s"} : /\ Listed(v)[x] # 0
                                        /\ \/ row[v][x] # Listed(v)[x]
                                           \/ x = "s" /\ (again \/ adapter.redates = "sub")}
<1>3. work' = [work EXCEPT !.level = "version", !.v = v, !.list = Listed(v), !.todo = @ \ {v},
                           !.items = items]
  BY <1>0
<1>4. items \in SUBSET {"f", "s"} /\ \A x \in items : Listed(v)[x] # 0
  OBVIOUS
<1>5. \A x \in {"f", "s"} : Listed(v)[x] # 0 /\ row[v][x] # Listed(v)[x] => x \in items
  OBVIOUS
<1> HIDE DEF items
<1>6. work' \in Walks
  <2>1. work \in Walks
    BY DEF BinaryTypes
  <2>2. work.todo \ {v} \in SUBSET Version /\ items \in SUBSET {"f", "s", "g"}
    BY <1>4, <2>1 DEF Walks
  <2> HIDE DEF Version
  <2> QED BY <1>2, <1>3, <2>1, <2>2 DEF Walks
<1> QED BY <1>2, <1>3, <1>4, <1>5, <1>6

-----------------------------------------------------------------------------
(* Types *)

\* What is listed of the root, what of it is to do, and what may be the last by date.
ListRootEffect(p, todo, latest) ==
  /\ EnterRoot(RootListing(p), todo, latest)
  /\ \A v \in todo : RootListing(p)[v] # 0
  /\ adapter.redates # "version" =>
       \A v \in Version : RootListing(p)[v] # 0 /\ row[v].date # RootListing(p)[v] => v \in todo
  /\ adapter.sorts = "time" => Newest(RootListing(p)) \in todo \cup {0}
LEMMA ListRootLists ==
  ASSUME BinaryTypes, Placed, OnceListed, ListRoot
  PROVE  \E todo \in SUBSET Version, latest \in Version \cup {0} : ListRootEffect(work.p, todo, latest)
<1> DEFINE dates == RootListing(work.p)
<1>1. work.p \in Process
  BY DEF ListRoot, Placed, Walking
<1>2. dates \in [Version -> Nat] /\ \A v \in Version : dates[v] \in {0, up[v].date}
  BY <1>1, RootListingType
<1>3. /\ Newest(dates) \in Version \cup {0}
      /\ Newest(dates) # 0 => dates[Newest(dates)] # 0
  BY <1>2, NewestIsLatest
<1>4. PICK diff \in Diffs(dates), newest \in LastByDate(dates) :
        LET latest == IF newest \in diff THEN 0 ELSE newest
        IN EnterRoot(dates, diff \cup ({latest} \ {0}), latest)
  BY DEF ListRoot
<1>5. /\ newest \in Version \cup {0} /\ (newest # 0 => dates[newest] # 0)
      /\ adapter.sorts = "time" => newest = Newest(dates)
  <2>1. adapter.sorts \in {"time", "words", "files"}
    BY KeepsTimestamp
  <2> QED BY <2>1, <1>3, <1>4 DEF LastByDate
<1>6. /\ diff \in SUBSET Version /\ \A v \in diff : dates[v] # 0
      /\ adapter.redates # "version" =>
           \A v \in Version : dates[v] # 0 /\ row[v].date # dates[v] => v \in diff
  BY <1>4 DEF Diffs
<1> DEFINE latest == IF newest \in diff THEN 0 ELSE newest
           todo == diff \cup ({latest} \ {0})
<1>7. todo \in SUBSET Version /\ latest \in Version \cup {0} /\ \A v \in todo : dates[v] # 0
  BY <1>5, <1>6
<1>8. adapter.sorts = "time" => Newest(dates) \in todo \cup {0}
  BY <1>5
<1>9. EnterRoot(dates, todo, latest)
  BY <1>4
<1>10. diff \subseteq todo
  OBVIOUS
<1> HIDE DEF dates, todo, latest
<1>11. ListRootEffect(work.p, todo, latest)
  BY <1>6, <1>7, <1>8, <1>9, <1>10 DEF ListRootEffect, dates
<1> QED BY <1>7, <1>11

LEMMA TypesInit == BinaryInit => BinaryTypes
  BY EmptyIsDated DEF BinaryInit, BinaryTypes

LEMMA TypesPublish ==
  ASSUME BinaryTypes, Publish
  PROVE  BinaryTypes'
<1> USE DEF UpstreamOnly, Tick, memory, mirror
<1>1. CASE AddVersion
  BY <1>1 DEF AddVersion, BinaryTypes, Dates
<1>2. ASSUME NEW v \in Version, NEW x \in {"f", "g"}, NEW redate \in BOOLEAN, PutFile(v, x, redate)
      PROVE  BinaryTypes'
  <2>1. up' \in [Version -> Dates]
    BY <1>2, PutFileEffect
  <2> QED
    BY <1>2, <2>1 DEF PutFile, BinaryTypes
<1> QED
  BY <1>1, <1>2 DEF Publish

LEMMA TypesStep ==
  ASSUME BinaryTypes, Placed, OnceListed, [BinaryNext]_binaryVars
  PROVE  BinaryTypes'
<1> USE DEF BinaryTypes, site, memory, mirror, notes, Fault, NoFault
<1>1. CASE Publish
  BY <1>1, TypesPublish
<1>2. CASE CreateTask
  BY <1>2 DEF CreateTask
<1>3. ASSUME NEW p \in Process, Start(p) PROVE BinaryTypes'
  BY <1>3, EmptyIsDated DEF Start, Walks
<1>4. CASE ListRoot
  <2>1. PICK todo \in SUBSET Version, latest \in Version \cup {0} :
          ListRootEffect(work.p, todo, latest)
    BY <1>4, ListRootLists
  <2>2. work.p \in Process
    BY <1>4 DEF ListRoot, Placed, Walking
  <2>3. RootListing(work.p) \in [Version -> Nat]
    BY <2>2, RootListingType
  <2>4. latest \in Nat
    OBVIOUS
  <2> HIDE DEF Version
  <2> QED
    BY <2>1, <2>2, <2>3, <2>4 DEF ListRootEffect, EnterRoot, Walks
<1>5. CASE ListRootFails
  BY <1>5 DEF ListRootFails, Walks
<1>6. CASE Finish
  BY <1>6, EmptyIsDated DEF Finish, Placed, Walking
<1>7. CASE Fail
  BY <1>7, EmptyIsDated DEF Fail
<1>8. CASE Die
  BY <1>8, EmptyIsDated DEF Die
<1>9. ASSUME NEW v \in Version, Descend(v) PROVE BinaryTypes'
  BY <1>9, DescendEffect DEF Descend
<1>10. ASSUME NEW v \in Version, DescendFails(v) PROVE BinaryTypes'
  BY <1>10 DEF DescendFails, Walks
<1>11. CASE Leave
  BY <1>11, LeaveEffect DEF Leave
<1>12. CASE DescendSub
  BY <1>12 DEF DescendSub, Walks, Dates, Site, In, Placed, Under
<1>13. CASE DescendSubFails
  BY <1>13 DEF DescendSubFails, Walks
<1>14. CASE LeaveSub
  <2>1. row' \in [Version -> Dates]
    BY <1>14, LeaveSubEffect
  <2> QED
    BY <1>14, <2>1 DEF LeaveSub, Walks
<1>15. CASE SaveFile
  <2>1. row' \in [Version -> Dates]
    BY <1>15, SaveFileEffect
  <2> QED
    BY <1>15, <2>1 DEF SaveFile, Walks
<1>16. ASSUME NEW x \in {"f", "g"}, Download(x) PROVE BinaryTypes'
  <2>1. blob' \in [Version -> Dates]
    BY <1>16, DownloadEffect
  <2> QED
    BY <1>16, <2>1 DEF Download, Walks
<1>17. ASSUME NEW x \in {"f", "g"}, NotFound(x) PROVE BinaryTypes'
  BY <1>17 DEF NotFound, Walks
<1>18. ASSUME NEW x \in {"f", "g"}, DownloadFails(x) PROVE BinaryTypes'
  BY <1>18 DEF DownloadFails, Walks, Files, In, Placed, Under
<1>19. CASE UNCHANGED binaryVars
  BY <1>19 DEF binaryVars
<1> QED
  BY <1>1, <1>2, <1>3, <1>4, <1>5, <1>6, <1>7, <1>8, <1>9, <1>10, <1>11, <1>12, <1>13, <1>14, <1>15,
     <1>16, <1>17, <1>18, <1>19 DEF BinaryNext, Walk

-----------------------------------------------------------------------------
(* The inductive invariant *)

\* All that holds of the mirror and the execution together.
Mirror == MirrorHolds /\ DirsWhole /\ NewestWhole

LEMMA MirrorParts ==
  Mirror <=> /\ BinaryTypes /\ Placed /\ OnceListed /\ TreeHolds /\ ListHolds /\ FreshHolds
             /\ RunningHolds /\ TimestampHolds /\ DirsWhole /\ NewestWhole
  BY DEF Mirror, MirrorHolds

\* What is unchanged of a version where neither the site nor the mirror changes.
LEMMA DirectSame ==
  ASSUME UNCHANGED <<up, row, skipped>>
  PROVE  /\ Latest' = Latest /\ (Direct(Latest)' <=> Direct(Latest))
         /\ \A v \in Version, x \in {"f", "g"} : Stored(v, x)' <=> Stored(v, x)
         /\ \A v \in Version : (Direct(v)' <=> Direct(v)) /\ (LookedThrough(v)' <=> LookedThrough(v))
  BY DEF Latest, Stored, Direct, LookedThrough

LEMMA MirrorInit ==
  ASSUME BinaryInit
  PROVE  Mirror
<1> USE DEF BinaryInit
<1>1. BinaryTypes
  BY TypesInit
<1>2. Placed
  BY DEF Placed, NoWork, Walking, Entered, Under
<1>3. OnceListed
  <2>1. /\ work.tree = EmptySite /\ work.dates = Nowhere /\ work.todo = {} /\ work.level = "idle"
        /\ up = EmptySite /\ row = EmptySite /\ blob = EmptySite /\ clock = 0
    BY DEF NoWork
  <2>2. \A v \in Version : EmptySite[v].date = 0 /\ EmptySite[v].f = 0 /\ EmptySite[v].s = 0 /\ EmptySite[v].g = 0
    BY DEF EmptySite, Empty
  <2>3. \A v \in Version : Nowhere[v] = 0
    BY DEF Nowhere
  <2>4. ~Under /\ \A p \in Process : last[p] = 0 /\ seen[p] = 0
    BY <2>1 DEF Under
  <2>5. \A v \in Version : Older(EmptySite[v], v)
    BY <2>1, <2>2 DEF Older
  <2>6. ASSUME NEW v \in Version
        PROVE  /\ up[v].date <= clock /\ up[v].f <= clock /\ up[v].s <= clock /\ up[v].g <= clock
               /\ \A w \in Version : up[v].date = up[w].date /\ v # w => up[v].date = 0
               /\ Older(row[v], v) /\ Older(work.tree[v], v) /\ work.dates[v] <= up[v].date
               /\ row[v].f <= blob[v].f /\ row[v].g <= blob[v].g
    <3>1. up[v].date = 0 /\ up[v].f = 0 /\ up[v].s = 0 /\ up[v].g = 0 /\ work.dates[v] = 0
      BY <2>1, <2>2, <2>3
    <3>2. row[v].f = 0 /\ blob[v].f = 0 /\ row[v].g = 0 /\ blob[v].g = 0
      BY <2>1, <2>2
    <3>3. Older(row[v], v) /\ Older(work.tree[v], v)
      BY <2>1, <2>5
    <3> QED BY <2>1, <3>1, <3>2, <3>3
  <2>7. \A p \in Process : last[p] <= clock /\ seen[p] <= clock
    BY <2>1, <2>4
  <2> HIDE DEF BinaryInit
  <2> QED
    BY <2>1, <2>4, <2>6, <2>7 DEF OnceListed
<1>4. TreeHolds /\ ListHolds /\ FreshHolds
  BY DEF TreeHolds, ListHolds, ListedNow, FreshHolds, Fresh, NoWork, EmptySite, Empty, Nowhere, Entered, Under
<1>5. RunningHolds /\ TimestampHolds /\ NewestWhole
  BY DEF RunningHolds, TimestampHolds, NewestWhole, NewestComplete, NoWork, Entered, Under
<1>6. DirsWhole
  BY DEF DirsWhole, EmptySite, Empty
<1> QED BY <1>1, <1>2, <1>3, <1>4, <1>5, <1>6, MirrorParts

LEMMA MirrorStutters ==
  ASSUME Mirror, UNCHANGED binaryVars
  PROVE  Mirror'
<1> USE DEF binaryVars, site, mirror, memory, notes
<1>1. UNCHANGED <<adapter, clock, up, row, blob, created, task, from, last, seen, work, faults, gap, gapS,
                  skipped, claimed, clean>>
  OBVIOUS
<1>2. Placed' /\ BinaryTypes'
  BY <1>1, MirrorParts DEF BinaryTypes, Placed, Walking, Entered, Under
<1>5. OnceListed'
  BY <1>1, MirrorParts DEF OnceListed, Older, Under
<1>3. TreeHolds' /\ ListHolds' /\ FreshHolds'
  BY <1>1, MirrorParts DEF TreeHolds, ListHolds, ListedNow, DirectToDo, SubToDo, FreshHolds, Fresh, Entered, Under,
     Stored, Latest, Direct, LookedThrough, Mirrored
<1>4. RunningHolds' /\ TimestampHolds' /\ DirsWhole' /\ NewestWhole'
  BY <1>1, MirrorParts DEF RunningHolds, TimestampHolds, DirsWhole, NewestWhole, NewestComplete, Walking, Entered,
     Under, Stored, Latest, Direct, LookedThrough
<1> QED BY <1>2, <1>3, <1>4, <1>5 DEF Mirror, MirrorHolds

\* No timestamp is of a time to come.
LEMMA MemoryBounded ==
  ASSUME BinaryTypes, OnceListed
  PROVE  clock \in Nat /\ \A p \in Process : /\ last[p] \in Nat /\ last[p] <= clock
                                            /\ seen[p] \in Nat /\ seen[p] <= clock
<1>1. clock \in Nat /\ \A p \in Process : last[p] \in Nat /\ seen[p] \in Nat
  BY DEF BinaryTypes
<1>2. \A p \in Process : last[p] <= clock /\ seen[p] <= clock
  BY DEF OnceListed
<1> QED BY <1>1, <1>2

\* Upstream changes a version: what the mirror knows of it is only older now, and where its date
\* stays what the mirror has or lists, the gaps tell.
LEMMA SiteMoves ==
  ASSUME Mirror, BinaryTypes', NEW v \in Version,
         UNCHANGED <<adapter, row, blob, work, last, seen, skipped>>,
         clock' = clock + 1, clean' = "no",
         \A w \in Version \ {v} : up'[w] = up[w] /\ (w \in gap' <=> w \in gap) /\ (w \in gapS' <=> w \in gapS),
         up'[v].date \in {up[v].date, clock + 1},
         up'[v].f \in {up[v].f, clock + 1} /\ up[v].f <= up'[v].f,
         up'[v].g \in {up[v].g, clock + 1} /\ up[v].g <= up'[v].g,
         up'[v].s = up[v].s \/ (up[v].s = 0 /\ up'[v].s \in {0, clock + 1}),
         (Walking \/ row[v].date = up[v].date) /\ up[v].date # 0 /\ up'[v].date = up[v].date /\ v \notin gap' =>
           up'[v].f = up[v].f /\ up'[v].s = up[v].s /\ v \notin gap,
         (Walking \/ row[v].s # 0) /\ up[v].s # 0 /\ v \notin gapS' => up'[v].g = up[v].g /\ v \notin gapS
  PROVE  Mirror'
<1>1. BinaryTypes /\ Placed /\ OnceListed /\ TreeHolds /\ ListHolds /\ RunningHolds /\ DirsWhole
  BY MirrorParts
<1>2. Placed'
  BY <1>1 DEF Placed, Walking, Entered, Under
<1>3. clock \in Nat /\ \A w \in Version : up[w] \in Dates /\ up'[w] \in Dates /\ row[w] \in Dates
  BY <1>1 DEF BinaryTypes
<1>4. \A w \in Version : /\ up[w].date <= up'[w].date /\ up[w].f <= up'[w].f /\ up[w].g <= up'[w].g
                         /\ up'[w].s = up[w].s \/ up[w].s = 0
                         /\ up'[w].date <= clock + 1 /\ up'[w].s <= clock + 1
                         /\ up'[w].f <= clock + 1 /\ up'[w].g <= clock + 1
                         /\ up[w].date <= clock
                         /\ up'[w].date = up[w].date \/ (w = v /\ up'[w].date = clock + 1)
  <2> TAKE w \in Version
  <2>1. up[w].date <= clock /\ up[w].f <= clock /\ up[w].s <= clock /\ up[w].g <= clock
    BY <1>1 DEF OnceListed
  <2> QED BY <1>3, <2>1 DEF Dates
<1>5. \A w \in Version, k \in Dates : Older(k, w) => Older(k, w)'
  BY <1>3, <1>4 DEF Older, Dates
<1>6. OnceListed'
  <2>1. ASSUME NEW w \in Version
        PROVE  (/\ up[w].date <= clock /\ up[w].f <= clock /\ up[w].s <= clock /\ up[w].g <= clock
                /\ \A u \in Version : up[w].date = up[u].date /\ w # u => up[w].date = 0
                /\ Older(row[w], w) /\ Older(work.tree[w], w) /\ work.dates[w] <= up[w].date
                /\ row[w].f <= blob[w].f /\ row[w].g <= blob[w].g
                /\ w \in work.todo => work.dates[w] # 0 /\ row[w].date <= work.dates[w])'
    <3>1. up'[w].date <= clock' /\ up'[w].f <= clock' /\ up'[w].s <= clock' /\ up'[w].g <= clock'
      BY <1>4
    <3>2. \A u \in Version : up'[w].date = up'[u].date /\ w # u => up'[w].date = 0
      <4> SUFFICES ASSUME NEW u \in Version, up'[w].date = up'[u].date, w # u
                   PROVE  up'[w].date = 0
        OBVIOUS
      <4>1. up'[w].date = up[w].date /\ up'[u].date = up[u].date
        BY <1>3, <1>4 DEF Dates
      <4> QED BY <4>1, <1>1 DEF OnceListed
    <3>3. Older(row[w], w)' /\ Older(work.tree[w], w)'
      <4>1. Older(row[w], w) /\ Older(work.tree[w], w)
        BY <1>1 DEF OnceListed
      <4>2. row[w] \in Dates /\ work.tree[w] \in Dates
        BY <1>1 DEF BinaryTypes, Walks
      <4>3. Older(row[w], w)' /\ Older(work.tree[w], w)'
        BY <4>1, <4>2, <1>5 DEF Older
      <4> QED BY <4>3
    <3>4. work.dates[w] \in Nat /\ work.dates[w] <= up[w].date
      BY <1>1 DEF OnceListed, BinaryTypes, Walks
    <3>5. work.dates[w] <= up'[w].date
      BY <1>3, <1>4, <3>4 DEF Dates
    <3>6. /\ row[w].f <= blob[w].f /\ row[w].g <= blob[w].g
          /\ w \in work.todo => work.dates[w] # 0 /\ row[w].date <= work.dates[w]
      BY <1>1 DEF OnceListed
    <3> QED BY <3>1, <3>2, <3>3, <3>5, <3>6
  <2>2. Under => /\ Older(work.list, work.v)' /\ work.list.date = work.dates[work.v] /\ work.list.date # 0
                 /\ row[work.v].date <= work.list.date
                 /\ work.file # "" => work.list[work.file] <= blob[work.v][work.file]
    <3> SUFFICES ASSUME Under
                 PROVE  /\ Older(work.list, work.v)' /\ work.list.date = work.dates[work.v] /\ work.list.date # 0
                        /\ row[work.v].date <= work.list.date
                        /\ work.file # "" => work.list[work.file] <= blob[work.v][work.file]
      OBVIOUS
    <3>1. work.v \in Version /\ work.list \in Dates /\ Older(work.list, work.v)
      BY <1>1, UnderVersion DEF OnceListed
    <3>2. Older(work.list, work.v)'
      BY <3>1, <1>5 DEF Older
    <3> QED BY <3>2, <1>1 DEF OnceListed
  <2>3. \A p \in Process : last[p] <= clock + 1 /\ seen[p] <= clock + 1
    BY <1>1, <1>3, MemoryBounded
  <2>4. Under' <=> Under
    BY DEF Under
  <2> QED BY <2>1, <2>2, <2>3, <2>4 DEF OnceListed
<1> DEFINE old == up[v]
<1>7. /\ old \in Dates /\ up'[v] \in Dates /\ row[v] \in Dates /\ old.date <= clock
      /\ Older(row[v], v) /\ Older(work.tree[v], v) /\ work.dates[v] <= old.date /\ work.dates[v] \in Nat
  BY <1>1, <1>3, <1>4 DEF OnceListed, BinaryTypes, Walks
<1>8. TreeHolds'
  <2> SUFFICES ASSUME adapter.reads = "once", NEW w \in Version
               PROVE  (/\ work.dates[w] # 0 /\ work.dates[w] = up[w].date /\ w \notin gap =>
                            work.tree[w].f = up[w].f /\ work.tree[w].s = up[w].s
                       /\ work.tree[w].s # 0 /\ w \notin gapS => work.tree[w].g = up[w].g
                       /\ Under /\ work.v = w => work.list.s = work.tree[w].s)'
    BY DEF TreeHolds
  <2>0. Under /\ work.v = w => work.list.s = work.tree[w].s
    BY <1>1 DEF TreeHolds
  <2>1. CASE w # v
    BY <2>1, <2>0, <1>1 DEF TreeHolds, Under
  <2>2. CASE w = v
    <3>1. ASSUME work.dates[v] # 0, work.dates[v] = up'[v].date, v \notin gap'
          PROVE  work.tree[v].f = up'[v].f /\ work.tree[v].s = up'[v].s
      <4>1. Walking
        BY <3>1, <1>1 DEF Placed, Nowhere, Entered, Under, Walking
      <4>2. up'[v].date = old.date /\ old.date # 0
        BY <3>1, <1>3, <1>7 DEF Dates
      <4> QED BY <3>1, <4>1, <4>2, <1>1 DEF TreeHolds
    <3>2. ASSUME work.tree[v].s # 0, v \notin gapS'
          PROVE  work.tree[v].g = up'[v].g
      <4>1. Walking
        <5>1. EmptySite[v].s = 0
          BY DEF EmptySite, Empty
        <5> QED BY <3>2, <5>1, <1>1 DEF Placed, Entered, Under, Walking
      <4>2. old.s # 0
        BY <3>2, <1>7 DEF Older
      <4> QED BY <3>2, <4>1, <4>2, <1>1 DEF TreeHolds
    <3> QED BY <2>2, <3>1, <3>2, <2>0 DEF Under
  <2> QED BY <2>1, <2>2
<1>9. ~Fresh'
  <2> SUFFICES ASSUME Entered, adapter.keeps = "timestamp", seen[work.p] = clock + 1
               PROVE  FALSE
    BY DEF Fresh, Entered, Under
  <2>1. work.p \in Process
    BY <1>1 DEF Placed, Entered, Under, Walking
  <2> QED BY <2>1, <1>1, <1>3, MemoryBounded
<1>10. ListHolds'
  <2> SUFFICES ASSUME Under
               PROVE  ListHolds'
    BY DEF ListHolds, ListedNow, Under
  <2>1. /\ work.v \in Version /\ work.list \in Dates /\ Older(work.list, work.v) /\ work.list.date # 0
        /\ work.list.date = work.dates[work.v]
    BY <1>1, UnderVersion DEF OnceListed
  <2>2. Walking
    BY DEF Walking, Under
  <2>3. ASSUME work.list.date = up'[work.v].date, work.v \notin gap'
        PROVE  /\ work.list.date = up[work.v].date /\ work.v \notin gap
               /\ up'[work.v].f = up[work.v].f /\ up'[work.v].s = up[work.v].s
    <3>1. CASE work.v # v
      BY <3>1, <2>1, <2>3
    <3>2. CASE work.v = v
      <4>1. up'[v].date = old.date /\ old.date # 0
        <5>1. work.dates[v] # 0 /\ work.dates[v] = up'[v].date
          BY <2>1, <2>3, <3>2
        <5> QED BY <5>1, <1>3, <1>7 DEF Dates
      <4> QED BY <4>1, <2>2, <2>3, <3>2
    <3> QED BY <3>1, <3>2
  <2>4. ASSUME work.level = "sub", work.v \notin gapS'
        PROVE  work.v \notin gapS /\ up'[work.v].g = up[work.v].g
    <3>1. CASE work.v # v
      BY <3>1, <2>1, <2>4
    <3>2. CASE work.v = v
      <4>1. up[v].s # 0
        BY <2>1, <2>4, <3>2, <1>1 DEF Placed, Older
      <4> QED BY <4>1, <2>2, <2>4, <3>2
    <3> QED BY <3>1, <3>2
  <2> QED BY <1>1, <1>9, <2>3, <2>4 DEF ListHolds, ListedNow, DirectToDo, SubToDo, Stored, Under
<1>11. FreshHolds'
  BY <1>9 DEF FreshHolds
<1>12. RunningHolds' /\ NewestWhole'
  BY DEF RunningHolds, NewestWhole, NewestComplete
<1>13. TimestampHolds'
  <2>1. \A p \in Process : last[p] # clock + 1
    BY <1>1, <1>3, MemoryBounded
  <2>2. ~(adapter.keeps = "timestamp" /\ Entered' /\ seen'[work'.p] = clock')
    BY <1>9 DEF Fresh
  <2> QED BY <2>1, <2>2 DEF TimestampHolds
<1>14. DirsWhole'
  <2> SUFFICES ASSUME NEW w \in Version
               PROVE  (/\ \A x \in {"f", "g"} : row[w][x] <= blob[w][x]
                       /\ row[w].date # 0 /\ row[w].date = up[w].date /\ w \notin gap => Direct(w)
                       /\ row[w].s # 0 /\ row[w].s = up[w].s /\ w \notin gapS => Stored(w, "g"))'
    BY DEF DirsWhole
  <2>1. CASE w # v
    BY <2>1, <1>1 DEF DirsWhole, Direct, Stored
  <2>2. CASE w = v
    <3>1. ASSUME row[v].date # 0, row[v].date = up'[v].date, v \notin gap'
          PROVE  Direct(v)'
      <4>1. up'[v].date = old.date /\ old.date # 0
        BY <3>1, <1>3, <1>7 DEF Dates, Older
      <4> QED BY <3>1, <4>1, <1>1 DEF DirsWhole, Direct, Stored
    <3>2. ASSUME row[v].s # 0, row[v].s = up'[v].s, v \notin gapS'
          PROVE  Stored(v, "g")'
      <4>1. old.s = row[v].s
        BY <3>2, <1>7 DEF Older
      <4> QED BY <3>2, <4>1, <1>1 DEF DirsWhole, Stored
    <3> QED BY <2>2, <3>1, <3>2, <1>1 DEF DirsWhole
  <2> QED BY <2>1, <2>2
<1> QED BY <1>2, <1>6, <1>8, <1>10, <1>11, <1>12, <1>13, <1>14 DEF Mirror, MirrorHolds

LEMMA PublishKeeps ==
  ASSUME Mirror, Publish
  PROVE  Mirror'
<1>0. BinaryTypes /\ Placed /\ OnceListed /\ BinaryTypes'
  BY MirrorParts, TypesPublish
<1>1. ASSUME AddVersion
      PROVE  Mirror'
  <2>1. PICK v \in Version, files \in SUBSET {"f", "g"} :
          /\ up[v] = Empty
          /\ up' = [up EXCEPT ![v] = [date |-> clock + 1,
                                      f |-> IF "f" \in files THEN clock + 1 ELSE 0,
                                      s |-> IF "g" \in files THEN clock + 1 ELSE 0,
                                      g |-> IF "g" \in files THEN clock + 1 ELSE 0]]
    BY <1>1 DEF AddVersion
  <2>2. clock \in Nat /\ up \in [Version -> Dates]
    BY <1>0 DEF BinaryTypes
  <2>3. /\ up'[v].date = clock + 1 /\ up'[v].f \in {0, clock + 1} /\ up'[v].s \in {0, clock + 1}
        /\ up'[v].g \in {0, clock + 1} /\ \A w \in Version \ {v} : up'[w] = up[w]
    BY <2>1, <2>2
  <2>4. up[v].date = 0 /\ up[v].f = 0 /\ up[v].s = 0 /\ up[v].g = 0
    BY <2>1 DEF Empty
  <2>5. /\ UNCHANGED <<adapter, row, blob, work, last, seen, skipped, gap, gapS>>
        /\ clock' = clock + 1 /\ clean' = "no"
    BY <1>1 DEF AddVersion, Tick, UpstreamOnly, memory, mirror
  <2> QED BY <1>0, <2>2, <2>3, <2>4, <2>5, SiteMoves
<1>2. ASSUME NEW v \in Version, NEW x \in {"f", "g"}, NEW redate \in BOOLEAN, PutFile(v, x, redate)
      PROVE  Mirror'
  <2>1. /\ clock' = clock + 1
        /\ up'[v].f = IF x = "f" THEN clock + 1 ELSE up[v].f
        /\ up'[v].g = IF x = "g" THEN clock + 1 ELSE up[v].g
        /\ up'[v].s = IF x = "g" /\ up[v].s = 0 THEN clock + 1 ELSE up[v].s
        /\ up'[v].date = IF redate THEN clock + 1 ELSE up[v].date
        /\ \A w \in Version \ {v} : up'[w] = up[w]
    BY <1>0, <1>2, PutFileEffect
  <2>2. UNCHANGED <<adapter, row, blob, work, last, seen, skipped>> /\ clean' = "no"
    BY <1>2 DEF PutFile, UpstreamOnly, memory, mirror
  <2>3. clock \in Nat /\ up[v] \in Dates /\ up'[v] \in Dates /\ up[v].date <= clock
    BY <1>0 DEF BinaryTypes, OnceListed
  <2>4. up[v].f <= clock + 1 /\ up[v].g <= clock + 1
    <3>1. up[v].f <= clock /\ up[v].g <= clock
      BY <1>0 DEF OnceListed
    <3> QED BY <2>3, <3>1 DEF Dates
  <2> DEFINE seenAlready == Walking \/ row[v].date = up[v].date
             inside == x = "f" \/ up[v].s = 0
  <2>5. /\ gap' = IF redate THEN gap \ {v} ELSE IF inside /\ seenAlready THEN gap \cup {v} ELSE gap
        /\ gapS' = IF ~inside /\ (Walking \/ row[v].s # 0) THEN gapS \cup {v} ELSE gapS
    BY <1>2 DEF PutFile
  <2>6. \A w \in Version \ {v} : (w \in gap' <=> w \in gap) /\ (w \in gapS' <=> w \in gapS)
    BY <2>5
  <2>7. ASSUME seenAlready, up[v].date # 0, up'[v].date = up[v].date, v \notin gap'
        PROVE  up'[v].f = up[v].f /\ up'[v].s = up[v].s /\ v \notin gap
    <3>1. ~redate
      BY <2>1, <2>3, <2>7 DEF Dates
    <3>2. ~inside /\ v \notin gap
      BY <3>1, <2>5, <2>7
    <3> QED BY <3>2, <2>1
  <2>8. ASSUME Walking \/ row[v].s # 0, up[v].s # 0, v \notin gapS'
        PROVE  up'[v].g = up[v].g /\ v \notin gapS
    <3>1. inside /\ v \notin gapS
      BY <2>5, <2>8
    <3> QED BY <3>1, <2>1, <2>8
  <2>9. /\ up'[v].date \in {up[v].date, clock + 1}
        /\ up'[v].f \in {up[v].f, clock + 1} /\ up[v].f <= up'[v].f
        /\ up'[v].g \in {up[v].g, clock + 1} /\ up[v].g <= up'[v].g
        /\ up'[v].s = up[v].s \/ (up[v].s = 0 /\ up'[v].s \in {0, clock + 1})
    BY <2>1, <2>3, <2>4 DEF Dates
  <2>10. \A w \in Version \ {v} : up'[w] = up[w] /\ (w \in gap' <=> w \in gap) /\ (w \in gapS' <=> w \in gapS)
    BY <2>1, <2>6
  <2>11. clock' = clock + 1
    BY <2>1
  <2> QED BY <1>0, <2>2, <2>7, <2>8, <2>9, <2>10, <2>11, SiteMoves
<1> QED BY <1>1, <1>2 DEF Publish

LEMMA NothingIsOlder ==
  ASSUME BinaryTypes, NEW v \in Version
  PROVE  Older(EmptySite[v], v) /\ Nowhere[v] <= up[v].date
<1>1. up[v] \in Dates
  BY DEF BinaryTypes
<1>2. /\ EmptySite[v].date = 0 /\ EmptySite[v].f = 0 /\ EmptySite[v].s = 0 /\ EmptySite[v].g = 0
      /\ Nowhere[v] = 0
  BY DEF EmptySite, Empty, Nowhere
<1> QED BY <1>1, <1>2 DEF Older, Dates

\* The execution is before or after all directories.
LEMMA Away ==
  ASSUME Mirror, BinaryTypes', UNCHANGED <<adapter, clock, up, row, blob, gap, gapS, skipped>>,
         work' = NoWork \/ \E p \in Process : work' = [NoWork EXCEPT !.level = "start", !.p = p],
         \A p \in Process : last'[p] <= clock /\ seen'[p] <= clock
  PROVE  Placed' /\ OnceListed' /\ TreeHolds' /\ ListHolds' /\ FreshHolds' /\ DirsWhole' /\ ~Entered'
         /\ work'.bad = {}
<1>1. BinaryTypes /\ Placed /\ OnceListed /\ DirsWhole
  BY MirrorParts
<1>2. /\ work'.level \in {"idle", "start"} /\ (work'.level = "start" => work'.p \in Process)
      /\ work'.tree = EmptySite /\ work'.dates = Nowhere /\ work'.todo = {} /\ work'.bad = {} /\ work'.file = ""
  <2>1. CASE work' = NoWork
    BY <2>1 DEF NoWork
  <2>2. ASSUME NEW p \in Process, work' = [NoWork EXCEPT !.level = "start", !.p = p]
        PROVE  /\ work'.level = "start" /\ work'.p = p /\ work'.file = ""
               /\ work'.tree = EmptySite /\ work'.dates = Nowhere /\ work'.todo = {} /\ work'.bad = {}
    BY <2>2 DEF NoWork
  <2> QED BY <2>1, <2>2
<1>3. ~Entered' /\ ~Under' /\ (Walking' => work'.level = "start")
  BY <1>2 DEF Entered, Under, Walking
<1>4. Placed'
  BY <1>2, <1>3 DEF Placed
<1>5. \A v \in Version : /\ EmptySite[v].date = 0 /\ EmptySite[v].f = 0 /\ EmptySite[v].s = 0 /\ EmptySite[v].g = 0
                         /\ Nowhere[v] = 0
  BY DEF EmptySite, Empty, Nowhere
<1>6. OnceListed'
  <2>1. ASSUME NEW v \in Version
        PROVE  (/\ up[v].date <= clock /\ up[v].f <= clock /\ up[v].s <= clock /\ up[v].g <= clock
                /\ \A w \in Version : up[v].date = up[w].date /\ v # w => up[v].date = 0
                /\ Older(row[v], v) /\ Older(work.tree[v], v) /\ work.dates[v] <= up[v].date
                /\ row[v].f <= blob[v].f /\ row[v].g <= blob[v].g
                /\ v \in work.todo => work.dates[v] # 0 /\ row[v].date <= work.dates[v])'
    <3>1. Older(row[v], v)'
      BY <1>1 DEF OnceListed, Older
    <3>2. up[v] \in Dates
      BY <1>1 DEF BinaryTypes
    <3>3. Older(work.tree[v], v)' /\ work'.dates[v] <= up'[v].date
      <4>1. Older(EmptySite[v], v) /\ Nowhere[v] <= up[v].date
        BY <1>1, NothingIsOlder
      <4>2. Older(EmptySite[v], v)'
        BY <4>1 DEF Older, EmptySite
      <4> QED BY <4>1, <4>2, <1>2 DEF Older
    <3> QED BY <3>1, <3>3, <1>1, <1>2 DEF OnceListed
  <2> QED BY <2>1, <1>3 DEF OnceListed
<1>7. TreeHolds'
  BY <1>2, <1>3, <1>5 DEF TreeHolds
<1>8. ListHolds' /\ FreshHolds'
  BY <1>3 DEF ListHolds, ListedNow, FreshHolds, Fresh, Under, Entered
<1>9. DirsWhole'
  BY <1>1 DEF DirsWhole, Direct, Stored
<1> QED BY <1>2, <1>3, <1>4, <1>6, <1>7, <1>8, <1>9

LEMMA CreateTaskKeeps ==
  ASSUME Mirror, CreateTask, BinaryTypes'
  PROVE  Mirror'
<1> USE DEF CreateTask, site, mirror, memory, notes
<1>1. /\ UNCHANGED <<adapter, clock, up, row, blob, created, last, seen, work, gap, gapS, skipped, claimed>>
      /\ clean' = "no"
  OBVIOUS
<1> HIDE DEF CreateTask
<1>2. Placed'
  BY <1>1, MirrorParts DEF Placed, Walking, Entered, Under
<1>3. OnceListed'
  BY <1>1, MirrorParts DEF OnceListed, Older, Under
<1>4. Fresh' => Fresh
  BY <1>1 DEF Fresh, Entered, Under
<1>5. TreeHolds' /\ ListHolds'
  BY <1>1, <1>4, MirrorParts DEF TreeHolds, ListHolds, ListedNow, DirectToDo, SubToDo, Under, Stored
<1>6. FreshHolds'
  BY <1>1, <1>4, MirrorParts DEF FreshHolds, Under, Stored, Latest, Direct, LookedThrough, Mirrored
<1>7. RunningHolds' /\ NewestWhole'
  BY <1>1 DEF RunningHolds, NewestWhole, NewestComplete
<1>8. TimestampHolds'
  BY <1>1, MirrorParts DEF TimestampHolds, Entered, Under, LookedThrough
<1>9. DirsWhole'
  BY <1>1, MirrorParts DEF DirsWhole, Stored, Direct
<1> QED BY <1>2, <1>3, <1>5, <1>6, <1>7, <1>8, <1>9 DEF Mirror, MirrorHolds

LEMMA StartKeeps ==
  ASSUME Mirror, NEW p \in Process, Start(p), BinaryTypes'
  PROVE  Mirror'
<1>1. /\ UNCHANGED <<adapter, clock, up, row, blob, last, seen, gap, gapS, skipped, claimed>>
      /\ work' = [NoWork EXCEPT !.level = "start", !.p = p] /\ clean' = "running"
  BY DEF Start, site, mirror, memory, notes
<1>2. \A q \in Process : last'[q] <= clock /\ seen'[q] <= clock
  BY <1>1, MirrorParts, MemoryBounded
<1>3. /\ Placed' /\ OnceListed' /\ TreeHolds' /\ ListHolds' /\ FreshHolds' /\ DirsWhole' /\ ~Entered'
      /\ work'.bad = {}
  BY <1>1, <1>2, Away
<1>4. RunningHolds' /\ NewestWhole'
  BY <1>1, <1>3 DEF RunningHolds, NewestWhole, NewestComplete, Walking, NoWork
<1>5. TimestampHolds'
  BY <1>1, <1>3, MirrorParts, DirectSame DEF TimestampHolds
<1> QED BY <1>3, <1>4, <1>5 DEF Mirror, MirrorHolds

LEMMA FailKeeps ==
  ASSUME Mirror, Fail, BinaryTypes'
  PROVE  Mirror'
<1>1. /\ UNCHANGED <<adapter, clock, up, row, blob, last, seen, gap, gapS, skipped, claimed>>
      /\ work' = NoWork /\ clean' = "no"
  BY DEF Fail, Fault, site, mirror, memory, notes
<1>2. \A q \in Process : last'[q] <= clock /\ seen'[q] <= clock
  BY <1>1, MirrorParts, MemoryBounded
<1>3. Placed' /\ OnceListed' /\ TreeHolds' /\ ListHolds' /\ FreshHolds' /\ DirsWhole' /\ ~Entered'
  BY <1>1, <1>2, Away
<1>4. RunningHolds' /\ NewestWhole'
  BY <1>1 DEF RunningHolds, NewestWhole, NewestComplete
<1>5. TimestampHolds'
  BY <1>1, <1>3, MirrorParts, DirectSame DEF TimestampHolds
<1> QED BY <1>3, <1>4, <1>5 DEF Mirror, MirrorHolds

LEMMA DieKeeps ==
  ASSUME Mirror, Die, BinaryTypes'
  PROVE  Mirror'
<1>1. /\ UNCHANGED <<adapter, clock, up, row, blob, gap, gapS, skipped>>
      /\ work' = NoWork /\ clean' = "no" /\ claimed' = claimed \ {work.p}
      /\ last' = [last EXCEPT ![work.p] = 0] /\ seen' = [seen EXCEPT ![work.p] = 0]
  BY DEF Die, Fault, site, mirror
<1>0. /\ clock \in Nat /\ \A q \in Process : last[q] <= clock /\ seen[q] <= clock
      /\ last \in [Process -> Nat] /\ seen \in [Process -> Nat]
  BY MirrorParts, MemoryBounded DEF BinaryTypes
<1>2. \A q \in Process : /\ last'[q] <= clock /\ seen'[q] <= clock
                         /\ last'[q] = clock /\ clock # 0 => q # work.p /\ last[q] = clock
  BY <1>0, <1>1
<1>3. Placed' /\ OnceListed' /\ TreeHolds' /\ ListHolds' /\ FreshHolds' /\ DirsWhole' /\ ~Entered'
  BY <1>1, <1>2, Away
<1>4. RunningHolds' /\ NewestWhole'
  BY <1>1 DEF RunningHolds, NewestWhole, NewestComplete
<1>5. TimestampHolds'
  BY <1>1, <1>2, <1>3, MirrorParts, DirectSame DEF TimestampHolds
<1> QED BY <1>3, <1>4, <1>5 DEF Mirror, MirrorHolds

\* An execution that has listed the site as it is, and comes to its end.
LEMMA FinishedMirrors ==
  ASSUME Mirror, work.level = "root", work.todo = {}, work.bad = {}, Fresh, adapter.redates # "version",
         NEW v \in Version, work.dates[v] # 0
  PROVE  Mirrored(v)
  BY MirrorParts DEF FreshHolds, Under

LEMMA FinishedNewest ==
  ASSUME Mirror, work.level = "root", work.todo = {}, clean = "running", Latest # 0, adapter.sorts = "time",
         adapter.keeps = "marker" => from # 0 /\ Latest > from
  PROVE  Direct(Latest)
<1>1. BinaryTypes /\ Placed /\ OnceListed /\ FreshHolds /\ RunningHolds
  BY MirrorParts
<1>2. Entered /\ Fresh /\ work.bad = {} /\ work.dates \in [Version -> Nat]
  BY <1>1 DEF Entered, Fresh, RunningHolds, BinaryTypes, Walks
<1>3. \A v \in Version : work.dates[v] \in {0, up[v].date}
  BY <1>1, <1>2 DEF FreshHolds
<1>4. Latest \in Version /\ up[Latest].date # 0
  BY <1>1, <1>2, <1>3, NewestIsLatest
<1>5. adapter.keeps # "timestamp" /\ adapter.redates # "version"
  BY <1>1, KeepsTimestamp
<1>6. work.dates[Latest] = IF adapter.keeps = "marker" /\ (from = 0 \/ Latest <= from)
                           THEN 0 ELSE up[Latest].date
  BY <1>1, <1>2, <1>4, <1>5 DEF RunningHolds
<1>7. ~(adapter.keeps = "marker" /\ (from = 0 \/ Latest <= from))
  BY <1>1, <1>4 DEF BinaryTypes
<1>8. Mirrored(Latest)
  BY <1>2, <1>4, <1>5, <1>6, <1>7, FinishedMirrors
<1> QED BY <1>8 DEF Mirrored

LEMMA FinishedTimestamp ==
  ASSUME Mirror, work.level = "root", work.todo = {}, work.bad = {}, adapter.keeps = "timestamp",
         seen[work.p] = clock, clock # 0, work.p \notin claimed, NEW v \in Version
  PROVE  LookedThrough(v)
<1>1. BinaryTypes /\ Placed /\ OnceListed /\ TimestampHolds
  BY MirrorParts
<1>2. Entered /\ Fresh /\ work.p \in Process
  BY <1>1 DEF Entered, Fresh, Placed, Walking
<1>3. CASE last[work.p] = clock
  BY <1>1, <1>2, <1>3 DEF TimestampHolds
<1>4. CASE last[work.p] # clock
  <2>1. work.dates[v] = up[v].date
    BY <1>1, <1>2, <1>4 DEF TimestampHolds
  <2>2. CASE up[v].date # 0
    BY <1>1, <1>2, <2>1, <2>2, KeepsTimestamp, FinishedMirrors DEF Mirrored
  <2>3. CASE up[v].date = 0
    <3>1. row[v].date \in Nat /\ row[v].date <= up[v].date
      BY <1>1 DEF BinaryTypes, Dates, OnceListed, Older
    <3> QED BY <2>3, <3>1 DEF LookedThrough
  <2> QED BY <2>2, <2>3
<1> QED BY <1>3, <1>4

LEMMA FinishKeeps ==
  ASSUME Mirror, Finish, BinaryTypes'
  PROVE  Mirror'
<1>1. /\ UNCHANGED <<adapter, clock, up, row, blob, gap, gapS, skipped, from, seen, claimed>>
      /\ work' = NoWork /\ work.level = "root" /\ work.todo = {}
      /\ clean' = IF clean = "running" THEN "done" ELSE clean
      /\ last' = IF work.bad = {} /\ seen[work.p] # 0 THEN [last EXCEPT ![work.p] = seen[work.p]] ELSE last
  BY DEF Finish, site, mirror, notes
<1>2. BinaryTypes /\ Placed /\ OnceListed /\ RunningHolds /\ TimestampHolds
  BY MirrorParts
<1>3. Entered /\ Walking /\ work.p \in Process
  BY <1>1, <1>2 DEF Entered, Placed, Walking
<1>4. /\ clock \in Nat /\ last \in [Process -> Nat]
      /\ \A p \in Process : last[p] <= clock /\ seen[p] <= clock
  BY <1>2, MemoryBounded DEF BinaryTypes
<1>5. \A p \in Process : /\ last'[p] <= clock
                         /\ last'[p] = last[p] \/ (p = work.p /\ work.bad = {} /\ last'[p] = seen[p])
  BY <1>1, <1>4
<1>6. Placed' /\ OnceListed' /\ TreeHolds' /\ ListHolds' /\ FreshHolds' /\ DirsWhole' /\ ~Entered'
  <2>1. \A p \in Process : last'[p] <= clock /\ seen'[p] <= clock
    BY <1>1, <1>4, <1>5
  <2>2. UNCHANGED <<adapter, clock, up, row, blob, gap, gapS, skipped>> /\ work' = NoWork
    BY <1>1
  <2> QED BY <2>1, <2>2, Away
<1>7. UNCHANGED <<up, row, skipped>>
  BY <1>1
<1>8. Latest' = Latest /\ (Direct(Latest)' <=> Direct(Latest))
  BY <1>7, DirectSame
<1>9. RunningHolds'
  <2>1. clean' # "running"
    BY <1>1, <1>2, <1>3 DEF RunningHolds
  <2>2. ~Walking'
    BY <1>1 DEF Walking, NoWork
  <2> QED BY <2>1, <2>2 DEF RunningHolds
<1>10. NewestWhole'
  <2> SUFFICES ASSUME clean' = "done", Latest # 0, adapter.sorts = "time",
                      adapter.keeps = "marker" => from # 0 /\ Latest > from
               PROVE  Direct(Latest)'
    BY <1>1, <1>8 DEF NewestWhole, NewestComplete, Latest
  <2>1. clean = "running"
    BY <1>1, <1>2, <1>3 DEF RunningHolds
  <2> QED BY <1>1, <1>8, <2>1, FinishedNewest
<1>11. TimestampHolds'
  <2> SUFFICES ASSUME adapter.keeps = "timestamp", NEW p \in Process, last'[p] = clock, clock # 0,
                      p \notin claimed, NEW v \in Version
               PROVE  LookedThrough(v)
    BY <1>1, <1>6, <1>7, DirectSame DEF TimestampHolds
  <2>1. CASE last'[p] = last[p]
    BY <1>2, <2>1 DEF TimestampHolds
  <2>2. CASE p = work.p /\ work.bad = {} /\ last'[p] = seen[p]
    BY <1>1, <2>2, FinishedTimestamp
  <2> QED BY <1>5, <2>1, <2>2
<1> QED BY <1>6, <1>9, <1>10, <1>11 DEF Mirror, MirrorHolds

LEMMA ListRootKeeps ==
  ASSUME Mirror, ListRoot, BinaryTypes'
  PROVE  Mirror'
<1> DEFINE dates == RootListing(work.p)
<1>0. PICK todo \in SUBSET Version, latest \in Version \cup {0} : ListRootEffect(work.p, todo, latest)
  BY MirrorParts, ListRootLists
<1>1. BinaryTypes /\ Placed /\ OnceListed /\ RunningHolds /\ TimestampHolds /\ DirsWhole /\ TreeHolds
  BY MirrorParts
<1>2. /\ UNCHANGED <<adapter, clock, up, row, blob, gap, gapS, skipped, from, last, clean>>
      /\ work.level = "start"
      /\ work' = [work EXCEPT !.level = "root", !.dates = dates, !.todo = todo, !.latest = latest,
                              !.tree = IF adapter.reads = "once" THEN up ELSE @]
      /\ seen' = IF adapter.keeps = "timestamp" THEN [seen EXCEPT ![work.p] = clock] ELSE seen
      /\ claimed' = IF last[work.p] = clock THEN claimed ELSE claimed \ {work.p}
  BY <1>0 DEF ListRoot, ListRootEffect, EnterRoot, NoFault, site, mirror
<1>3. work.p \in Process /\ ~Entered /\ Walking
  BY <1>1, <1>2 DEF Placed, Walking, Entered, Under
<1>4. work.tree = EmptySite /\ work.bad = {} /\ work.file = ""
  BY <1>1, <1>2, <1>3 DEF Placed
<1>5. dates \in [Version -> Nat] /\ \A v \in Version : dates[v] \in {0, up[v].date}
  BY <1>1, <1>3, RootListingType
<1>6. /\ work'.level = "root" /\ work'.p = work.p /\ work'.dates = dates /\ work'.todo = todo
      /\ work'.tree = IF adapter.reads = "once" THEN up ELSE EmptySite
      /\ work'.bad = {} /\ work'.file = ""
  <2>1. work \in Walks
    BY <1>1 DEF BinaryTypes
  <2> HIDE DEF dates
  <2> QED BY <2>1, <1>2, <1>4 DEF Walks
<1>8. \A v \in todo : v \in Version /\ dates[v] # 0
  BY <1>0 DEF ListRootEffect
<1>9. /\ adapter.redates # "version" => \A v \in Version : dates[v] # 0 /\ row[v].date # dates[v] => v \in todo
      /\ adapter.sorts = "time" => Newest(dates) \in todo \cup {0}
  BY <1>0 DEF ListRootEffect
<1> HIDE DEF dates
<1>10. Entered' /\ ~Under' /\ Walking'
  BY <1>6 DEF Entered, Under, Walking
<1>11. Placed'
  BY <1>3, <1>6, <1>10 DEF Placed
<1>12. /\ clock \in Nat /\ seen'[work.p] \in Nat
       /\ \A p \in Process : last'[p] <= clock /\ seen'[p] <= clock
       /\ adapter.keeps = "timestamp" => seen'[work.p] = clock
  BY <1>1, <1>2, <1>3, MemoryBounded DEF BinaryTypes
<1>13. \A v \in Version : /\ up[v] \in Dates /\ row[v] \in Dates /\ row[v].date <= up[v].date
                          /\ Older(EmptySite[v], v) /\ Older(up[v], v)
  <2> TAKE v \in Version
  <2>1. up[v] \in Dates /\ row[v] \in Dates
    BY <1>1 DEF BinaryTypes
  <2>2. row[v].date <= up[v].date
    BY <1>1 DEF OnceListed, Older
  <2>3. Older(up[v], v)
    BY <2>1 DEF Older, Dates
  <2> QED BY <1>1, <2>1, <2>2, <2>3, NothingIsOlder
<1>14. OnceListed'
  <2>1. ASSUME NEW v \in Version
        PROVE  (/\ up[v].date <= clock /\ up[v].f <= clock /\ up[v].s <= clock /\ up[v].g <= clock
                /\ \A w \in Version : up[v].date = up[w].date /\ v # w => up[v].date = 0
                /\ Older(row[v], v) /\ Older(work.tree[v], v) /\ work.dates[v] <= up[v].date
                /\ row[v].f <= blob[v].f /\ row[v].g <= blob[v].g
                /\ v \in work.todo => work.dates[v] # 0 /\ row[v].date <= work.dates[v])'
    <3>1. Older(row[v], v)'
      BY <1>1, <1>2 DEF OnceListed, Older
    <3>2. Older(work.tree[v], v)'
      BY <1>2, <1>6, <1>13 DEF Older
    <3>3. work'.dates[v] \in {0, up[v].date} /\ up[v].date \in Nat
      BY <1>5, <1>6, <1>13 DEF Dates
    <3>4. work'.dates[v] <= up'[v].date
      BY <1>2, <3>3
    <3>5. v \in work'.todo => work'.dates[v] # 0 /\ row'[v].date <= work'.dates[v]
      BY <1>2, <1>6, <1>8, <1>13, <3>3
    <3> QED BY <3>1, <3>2, <3>4, <3>5, <1>1, <1>2 DEF OnceListed
  <2> QED BY <2>1, <1>2, <1>10, <1>12 DEF OnceListed
<1>15. TreeHolds'
  BY <1>2, <1>6, <1>10 DEF TreeHolds
<1>16. ListHolds'
  BY <1>10 DEF ListHolds, ListedNow, Under
<1>17. Latest' = Latest
  BY <1>2 DEF Latest
<1>18. FreshHolds'
  <2>1. \A v \in Version : work'.dates[v] \in {0, up'[v].date}
    BY <1>2, <1>5, <1>6
  <2>2. adapter'.reads = "once" => \A v \in work'.todo : work'.tree[v] = up'[v]
    BY <1>2, <1>6
  <2>3. ASSUME adapter.redates # "version", NEW v \in Version, dates[v] # 0, v \notin todo
        PROVE  Mirrored(v)
    <3>1. row[v].date = up[v].date
      BY <1>5, <1>9, <2>3
    <3>2. ASSUME adapter.sorts = "time", v = Latest
          PROVE  FALSE
      BY <1>1, <1>5, <1>9, <2>3, <3>2, NewestIsLatest
    <3> QED BY <3>1, <3>2 DEF Mirrored, LookedThrough
  <2>4. \A v \in Version : Mirrored(v)' <=> Mirrored(v)
    BY <1>2, <1>17, DirectSame DEF Mirrored
  <2> QED BY <1>2, <1>6, <2>1, <2>2, <2>3, <2>4 DEF FreshHolds
<1>19. RunningHolds'
  <2>1. clean # "done"
    BY <1>1, <1>3 DEF RunningHolds
  <2>2. adapter.keeps # "timestamp" =>
          \A v \in Version : dates[v] = IF adapter.keeps = "marker" /\ (from = 0 \/ v <= from) THEN 0 ELSE up[v].date
    BY DEF dates, RootListing
  <2> QED BY <2>1, <2>2, <1>2, <1>6, <1>10, <1>12 DEF RunningHolds
<1>20. TimestampHolds'
  <2> SUFFICES ASSUME adapter.keeps = "timestamp" PROVE TimestampHolds'
    BY <1>2 DEF TimestampHolds
  <2>1. last[work.p] = clock \/ \A v \in Version : dates[v] = up[v].date
    BY DEF dates, RootListing
  <2>2. \A v \in Version : LookedThrough(v)' <=> LookedThrough(v)
    BY <1>2, DirectSame
  <2>3. \A p \in Process : last[p] = clock /\ clock # 0 /\ p \notin claimed' => \A v \in Version : LookedThrough(v)
    BY <1>1, <1>2 DEF TimestampHolds
  <2> QED BY <2>1, <2>2, <2>3, <1>2, <1>6, <1>12 DEF TimestampHolds
<1>21. DirsWhole'
  BY <1>1, <1>2 DEF DirsWhole, Stored, Direct
<1>22. NewestWhole'
  BY <1>1, <1>2, <1>3 DEF NewestWhole, NewestComplete, RunningHolds
<1> QED BY <1>11, <1>14, <1>15, <1>16, <1>18, <1>19, <1>20, <1>21, <1>22 DEF Mirror, MirrorHolds

LEMMA ListRootFailsKeeps ==
  ASSUME Mirror, ListRootFails, BinaryTypes'
  PROVE  Mirror'
<1>1. BinaryTypes /\ Placed /\ OnceListed /\ RunningHolds /\ TimestampHolds /\ DirsWhole /\ TreeHolds
  BY MirrorParts
<1>2. /\ UNCHANGED <<adapter, clock, up, row, blob, gap, gapS, skipped, from, last, seen>>
      /\ work.level = "start" /\ clean' = "no"
      /\ work' = [work EXCEPT !.level = "root"]
      /\ claimed' = IF seen[work.p] # last[work.p] THEN claimed \cup {work.p} ELSE claimed
  BY DEF ListRootFails, Fault, site, mirror, memory
<1>3. work.p \in Process /\ ~Entered /\ Walking
  BY <1>1, <1>2 DEF Placed, Walking, Entered, Under
<1>4. /\ work.tree = EmptySite /\ work.bad = {} /\ work.file = "" /\ work.todo = {} /\ work.dates = Nowhere
  BY <1>1, <1>2, <1>3 DEF Placed
<1>5. /\ work'.level = "root" /\ work'.p = work.p /\ work'.dates = Nowhere /\ work'.todo = {}
      /\ work'.tree = EmptySite /\ work'.bad = {} /\ work'.file = ""
  <2>1. work \in Walks
    BY <1>1 DEF BinaryTypes
  <2> QED BY <2>1, <1>2, <1>4 DEF Walks
<1>6. Entered' /\ ~Under' /\ Walking'
  BY <1>5 DEF Entered, Under, Walking
<1>7. Placed'
  BY <1>3, <1>5, <1>6 DEF Placed
<1>8. \A v \in Version : EmptySite[v].s = 0 /\ Nowhere[v] = 0
  BY DEF EmptySite, Empty, Nowhere
<1>9. OnceListed'
  <2>1. ASSUME NEW v \in Version
        PROVE  (/\ up[v].date <= clock /\ up[v].f <= clock /\ up[v].s <= clock /\ up[v].g <= clock
                /\ \A w \in Version : up[v].date = up[w].date /\ v # w => up[v].date = 0
                /\ Older(row[v], v) /\ Older(work.tree[v], v) /\ work.dates[v] <= up[v].date
                /\ row[v].f <= blob[v].f /\ row[v].g <= blob[v].g
                /\ v \in work.todo => work.dates[v] # 0 /\ row[v].date <= work.dates[v])'
    <3>1. Older(row[v], v)'
      BY <1>1, <1>2 DEF OnceListed, Older
    <3>2. Older(EmptySite[v], v) /\ Nowhere[v] <= up[v].date
      BY <1>1, NothingIsOlder
    <3>3. Older(work.tree[v], v)'
      BY <1>2, <1>5, <3>2 DEF Older
    <3>4. work'.dates[v] <= up'[v].date
      BY <1>2, <1>5, <3>2
    <3> QED BY <3>1, <3>3, <3>4, <1>1, <1>2, <1>5 DEF OnceListed
  <2>2. \A p \in Process : last'[p] <= clock /\ seen'[p] <= clock
    BY <1>1, <1>2, MemoryBounded
  <2> QED BY <2>1, <2>2, <1>2, <1>6 DEF OnceListed
<1>10. TreeHolds'
  BY <1>5, <1>6, <1>8 DEF TreeHolds
<1>11. ListHolds'
  BY <1>6 DEF ListHolds, ListedNow, Under
<1>13. FreshHolds'
  BY <1>5, <1>8 DEF FreshHolds
<1>14. RunningHolds' /\ NewestWhole'
  BY <1>2 DEF RunningHolds, NewestWhole, NewestComplete
<1>15. TimestampHolds'
  <2> SUFFICES ASSUME adapter.keeps = "timestamp" PROVE TimestampHolds'
    BY <1>2 DEF TimestampHolds
  <2>1. seen[work.p] = clock => work.p \in claimed' \/ last[work.p] = clock
    BY <1>2
  <2>2. \A p \in Process : last[p] = clock /\ clock # 0 /\ p \notin claimed' => \A v \in Version : LookedThrough(v)
    BY <1>1, <1>2 DEF TimestampHolds
  <2>3. \A v \in Version : LookedThrough(v)' <=> LookedThrough(v)
    BY <1>2, DirectSame
  <2> QED BY <2>1, <2>2, <2>3, <1>2, <1>5 DEF TimestampHolds
<1>16. DirsWhole'
  BY <1>1, <1>2 DEF DirsWhole, Stored, Direct
<1> QED BY <1>7, <1>9, <1>10, <1>11, <1>13, <1>14, <1>15, <1>16 DEF Mirror, MirrorHolds

-----------------------------------------------------------------------------
(* In the directories *)

\* What an execution that has listed the site as it is has reached, and what it leaves so.
Reaches ==
  adapter.redates # "version" => \A v \in Version : work.dates[v] # 0 =>
    v \in work.todo \/ (Under /\ work.v = v) \/ work.bad # {} \/ Mirrored(v)
Preserved ==
  \A v \in Version : (LookedThrough(v) => LookedThrough(v)') /\ (Direct(v) => Direct(v)')

\* What every step below the root keeps, and what is to be shown of the others.
LEMMA InsideKeeps ==
  ASSUME Mirror, BinaryTypes', Under \/ (work.level = "root" /\ work.todo # {}), Entered',
         UNCHANGED <<adapter, clock, up, from, last, seen, claimed>>,
         work'.p = work.p, work'.tree = work.tree, work'.dates = work.dates,
         work'.todo \subseteq work.todo, work.bad \subseteq work'.bad,
         gap \subseteq gap', gapS \subseteq gapS',
         clean' = "no" \/ (clean' = clean /\ work'.bad = work.bad),
         Fresh => Preserved, Fresh' => Reaches',
         \A v \in Version :
           /\ Older(row[v], v)' /\ row'[v].f <= blob'[v].f /\ row'[v].g <= blob'[v].g
           /\ v \in work'.todo => row'[v].date <= work.dates[v],
         Under' => /\ Older(work.list, work.v)' /\ work'.list.date = work.dates[work'.v] /\ work'.list.date # 0
                   /\ row'[work'.v].date <= work'.list.date
                   /\ work'.file # "" => work'.list[work'.file] <= blob'[work'.v][work'.file]
                   /\ adapter.reads = "once" => work'.list.s = work.tree[work'.v].s,
         Placed', ListHolds', DirsWhole'
  PROVE  Mirror'
<1>1. BinaryTypes /\ Placed /\ OnceListed /\ TreeHolds /\ FreshHolds /\ RunningHolds /\ TimestampHolds
  BY MirrorParts
<1>2. Entered /\ Walking /\ Walking'
  BY DEF Entered, Under, Walking
<1>4. Fresh' => Fresh
  BY <1>2 DEF Fresh
<1>6. OnceListed'
  <2>1. ASSUME NEW v \in Version
        PROVE  (/\ up[v].date <= clock /\ up[v].f <= clock /\ up[v].s <= clock /\ up[v].g <= clock
                /\ \A w \in Version : up[v].date = up[w].date /\ v # w => up[v].date = 0
                /\ Older(row[v], v) /\ Older(work.tree[v], v) /\ work.dates[v] <= up[v].date
                /\ row[v].f <= blob[v].f /\ row[v].g <= blob[v].g
                /\ v \in work.todo => work.dates[v] # 0 /\ row[v].date <= work.dates[v])'
    <3>1. Older(work.tree[v], v)'
      BY <1>1 DEF OnceListed, Older
    <3> QED BY <3>1, <1>1 DEF OnceListed
  <2>2. \A p \in Process : last'[p] <= clock /\ seen'[p] <= clock
    BY <1>1, MemoryBounded
  <2> QED BY <2>1, <2>2 DEF OnceListed
<1>7. TreeHolds'
  BY <1>1 DEF TreeHolds
<1>8. FreshHolds'
  <2> SUFFICES ASSUME Fresh' PROVE FreshHolds'
    BY DEF FreshHolds
  <2>1. /\ \A v \in Version : work.dates[v] \in {0, up[v].date}
        /\ adapter.reads = "once" => \A v \in work.todo : work.tree[v] = up[v]
    BY <1>1, <1>4 DEF FreshHolds
  <2> QED BY <2>1 DEF FreshHolds, Reaches
<1>9. RunningHolds'
  BY <1>1, <1>2 DEF RunningHolds
<1>10. NewestWhole'
  BY <1>1, <1>2 DEF NewestWhole, NewestComplete, RunningHolds
<1>11. TimestampHolds'
  <2> SUFFICES ASSUME adapter.keeps = "timestamp" PROVE TimestampHolds'
    BY DEF TimestampHolds
  <2>1. seen[work.p] = clock =>
          work.p \in claimed \/ last[work.p] = clock \/ \A v \in Version : work.dates[v] = up[v].date
    BY <1>1, <1>2 DEF TimestampHolds
  <2>2. ASSUME NEW p \in Process, last[p] = clock, clock # 0
        PROVE  seen[work.p] = clock /\ (p \notin claimed => \A v \in Version : LookedThrough(v)')
    <3>1. seen[work.p] = clock
      BY <1>1, <1>2, <2>2 DEF TimestampHolds, Under
    <3>2. Fresh
      BY <3>1, <1>2 DEF Fresh
    <3>3. p \notin claimed => \A v \in Version : LookedThrough(v)
      BY <1>1, <2>2 DEF TimestampHolds
    <3> QED BY <3>1, <3>2, <3>3 DEF Preserved
  <2> QED BY <2>1, <2>2 DEF TimestampHolds
<1> QED BY <1>6, <1>7, <1>8, <1>9, <1>10, <1>11 DEF Mirror, MirrorHolds

\* What the invariant says of the rows, and of the list in hand.
RowsOnce ==
  \A v \in Version : /\ Older(row[v], v) /\ row[v].f <= blob[v].f /\ row[v].g <= blob[v].g
                     /\ v \in work.todo => row[v].date <= work.dates[v]
ListOnce ==
  Under => /\ Older(work.list, work.v) /\ work.list.date = work.dates[work.v] /\ work.list.date # 0
           /\ row[work.v].date <= work.list.date
           /\ work.file # "" => work.list[work.file] <= blob[work.v][work.file]
           /\ adapter.reads = "once" => work.list.s = work.tree[work.v].s

LEMMA OnceParts ==
  ASSUME Mirror
  PROVE  /\ BinaryTypes /\ Placed /\ OnceListed /\ TreeHolds /\ ListHolds /\ FreshHolds /\ DirsWhole
         /\ RowsOnce /\ ListOnce
         /\ Under => /\ work.v \in Version /\ work.list \in Dates /\ work.v \notin work.todo
                     /\ Walking /\ Entered
<1>1. BinaryTypes /\ Placed /\ OnceListed /\ TreeHolds /\ ListHolds /\ FreshHolds /\ DirsWhole
  BY MirrorParts
<1>2. Under => /\ work.v \in Version /\ work.list \in Dates /\ work.v \notin work.todo
               /\ Walking /\ Entered
  BY <1>1, UnderVersion DEF Placed, Walking, Entered, Under
<1>3. RowsOnce
  BY <1>1 DEF OnceListed, RowsOnce
<1>4. ListOnce
  BY <1>1, <1>2 DEF OnceListed, ListOnce, TreeHolds
<1> QED BY <1>1, <1>2, <1>3, <1>4

LEMMA ReachesKept ==
  ASSUME Mirror, Fresh' => Fresh, UNCHANGED <<adapter, up>>, work'.dates = work.dates, Fresh => Preserved,
         \A v \in work.todo : v \in work'.todo \/ (Under' /\ work'.v = v), work.bad \subseteq work'.bad,
         \A v \in Version : Fresh /\ Under /\ work.v = v =>
           (Under' /\ work'.v = v) \/ work'.bad # {} \/ Mirrored(v)'
  PROVE  Fresh' => Reaches'
<1> SUFFICES ASSUME Fresh', adapter.redates # "version", NEW v \in Version, work.dates[v] # 0
             PROVE  (v \in work.todo \/ (Under /\ work.v = v) \/ work.bad # {} \/ Mirrored(v))'
  BY DEF Reaches
<1>1. v \in work.todo \/ (Under /\ work.v = v) \/ work.bad # {} \/ Mirrored(v)
  BY OnceParts DEF FreshHolds
<1>2. Latest' = Latest
  BY DEF Latest
<1>3. Mirrored(v) => Mirrored(v)'
  BY <1>2 DEF Mirrored, Preserved
<1> QED BY <1>1, <1>3

LEMMA SameRows ==
  ASSUME Mirror, UNCHANGED <<adapter, up, row, blob>>, work'.todo \subseteq work.todo, work'.dates = work.dates,
         skipped \subseteq skipped'
  PROVE  /\ RowsOnce'
         /\ Preserved
         /\ \A v \in Version, x \in {"f", "g"} : Stored(v, x) => Stored(v, x)'
<1>1. RowsOnce
  BY OnceParts
<1>2. RowsOnce'
  BY <1>1 DEF RowsOnce, Older
<1> QED BY <1>2 DEF Direct, Stored, LookedThrough, Preserved

LEMMA SameList ==
  ASSUME Mirror, UNCHANGED <<adapter, up, row, blob>>, Under, work'.dates = work.dates, work'.tree = work.tree,
         work'.list = work.list, work'.v = work.v, work'.file \in {"", work.file}
  PROVE  ListOnce'
<1>1. ListOnce
  BY OnceParts
<1> QED BY <1>1 DEF ListOnce, Older

LEMMA ListKept ==
  ASSUME Mirror, up' = up, Under, work'.v = work.v, work'.list = work.list, work'.level = work.level,
         gap \subseteq gap', gapS \subseteq gapS', Fresh' => Fresh,
         DirectToDo => DirectToDo', work.level = "sub" /\ SubToDo => SubToDo'
  PROVE  ListHolds'
<1>1. (ListedNow => DirectToDo) /\ (work.level = "sub" /\ work.v \notin gapS => SubToDo)
  BY OnceParts DEF ListHolds
<1>2. up'[work'.v] = up[work.v]
  OBVIOUS
<1>3. work'.list.date = up'[work'.v].date /\ work'.v \notin gap' =>
        work.list.date = up[work.v].date /\ work.v \notin gap
  BY <1>2
<1>4. ListedNow' => ListedNow
  BY <1>3 DEF ListedNow
<1> QED BY <1>1, <1>4 DEF ListHolds

LEMMA WithinKeeps ==
  ASSUME Mirror, BinaryTypes', Under \/ (work.level = "root" /\ work.todo # {}), Entered',
         UNCHANGED <<adapter, clock, up, from, last, seen, claimed>>,
         work'.p = work.p, work'.tree = work.tree, work'.dates = work.dates,
         work'.todo \subseteq work.todo, work.bad \subseteq work'.bad,
         gap \subseteq gap', gapS \subseteq gapS',
         clean' = "no" \/ (clean' = clean /\ work'.bad = work.bad),
         Fresh => Preserved, Fresh' => Reaches',
         RowsOnce', ListOnce', Placed', ListHolds', DirsWhole'
  PROVE  Mirror'
<1>1. \A v \in Version :
        /\ Older(row[v], v)' /\ row'[v].f <= blob'[v].f /\ row'[v].g <= blob'[v].g
        /\ v \in work'.todo => row'[v].date <= work.dates[v]
  BY DEF RowsOnce
<1>2. Under' => /\ Older(work.list, work.v)' /\ work'.list.date = work.dates[work'.v] /\ work'.list.date # 0
                /\ row'[work'.v].date <= work'.list.date
                /\ work'.file # "" => work'.list[work'.file] <= blob'[work'.v][work'.file]
                /\ adapter.reads = "once" => work'.list.s = work.tree[work'.v].s
  BY DEF ListOnce
<1> QED BY <1>1, <1>2, InsideKeeps

LEMMA DescendFailsKeeps ==
  ASSUME Mirror, NEW v \in Version, DescendFails(v), BinaryTypes'
  PROVE  Mirror'
<1>1. /\ UNCHANGED <<adapter, clock, up, row, blob, gap, gapS, skipped, from, last, seen, claimed>>
      /\ work.level = "root" /\ v \in work.todo /\ adapter.reads = "each" /\ clean' = "no"
      /\ work' = [work EXCEPT !.todo = @ \ {v}]
  BY DEF DescendFails, Fault, site, mirror, memory, notes
<1>2. BinaryTypes /\ Placed /\ DirsWhole
  BY OnceParts
<1>3. /\ work'.level = "root" /\ work'.p = work.p /\ work'.dates = work.dates /\ work'.tree = work.tree
      /\ work'.todo = work.todo \ {v} /\ work'.bad = work.bad /\ work'.file = work.file
  BY <1>1, <1>2 DEF BinaryTypes, Walks
<1>4. Entered' /\ ~Under' /\ Walking' /\ Walking /\ ~Fresh'
  BY <1>1, <1>2, <1>3, KeepsTimestamp DEF Entered, Under, Walking, Fresh
<1>5. Placed'
  BY <1>1, <1>2, <1>3, <1>4 DEF Placed
<1>6. ListHolds' /\ ListOnce'
  BY <1>3, <1>4 DEF ListHolds, ListedNow, ListOnce, Under
<1>7. DirsWhole'
  BY <1>1, <1>2 DEF DirsWhole, Direct, Stored
<1>8. RowsOnce' /\ Preserved
  BY <1>1, <1>3, SameRows
<1> QED BY <1>1, <1>3, <1>4, <1>5, <1>6, <1>7, <1>8, WithinKeeps

LEMMA NotFoundKeeps ==
  ASSUME Mirror, NEW x \in {"f", "g"}, NotFound(x), BinaryTypes'
  PROVE  Mirror'
<1>1. /\ UNCHANGED <<adapter, clock, up, row, blob, gap, gapS, from, last, seen, claimed>>
      /\ skipped' = skipped \cup {<<work.v, x>>} /\ x \in Files /\ clean' = "no"
      /\ work' = [work EXCEPT !.items = @ \ {x}]
  BY DEF NotFound, Fault, site, mirror, memory
<1>2. BinaryTypes /\ Placed /\ DirsWhole /\ ListHolds /\ FreshHolds
  BY OnceParts
<1>3. /\ work'.level = work.level /\ work'.p = work.p /\ work'.dates = work.dates /\ work'.tree = work.tree
      /\ work'.todo = work.todo /\ work'.bad = work.bad /\ work'.file = work.file /\ work'.v = work.v
      /\ work'.list = work.list /\ work'.items = work.items \ {x} /\ work'.failed = work.failed
  BY <1>1, <1>2 DEF BinaryTypes, Walks
<1>4. /\ Under /\ Under' /\ Entered /\ Entered' /\ work.file = "" /\ (Fresh' => Fresh)
      /\ work.level = IF x = "f" THEN "version" ELSE "sub"
  BY <1>1, <1>3 DEF Entered, Under, Files, In, Fresh
<1>5. Placed'
  BY <1>1, <1>2, <1>3, <1>4 DEF Placed, Walking, Entered, Under
<1>6. /\ RowsOnce' /\ Preserved
      /\ \A w \in Version, y \in {"f", "g"} : Stored(w, y) => Stored(w, y)'
  BY <1>1, <1>3, SameRows
<1>7. ListOnce'
  BY <1>1, <1>3, <1>4, SameList
<1>8. Stored(work.v, x)' /\ work.v \in Version
  <2>1. work.v \in Version
    BY <1>4, OnceParts
  <2>2. <<work'.v, x>> \in skipped'
    BY <1>1, <1>3
  <2> QED BY <2>1, <2>2 DEF Stored
<1>9. ListHolds'
  <2>1. DirectToDo => DirectToDo'
    BY <1>1, <1>3, <1>6, <1>8 DEF DirectToDo
  <2>2. SubToDo => SubToDo'
    BY <1>1, <1>3, <1>6, <1>8 DEF SubToDo
  <2>3. up' = up /\ gap \subseteq gap' /\ gapS \subseteq gapS'
    BY <1>1
  <2> QED BY <2>1, <2>2, <2>3, <1>3, <1>4, ListKept
<1>10. DirsWhole'
  BY <1>1, <1>2, <1>6 DEF DirsWhole, Preserved
<1>11. Fresh' => Reaches'
  BY <1>1, <1>3, <1>4, <1>6, ReachesKept
<1> QED BY <1>1, <1>3, <1>4, <1>5, <1>6, <1>7, <1>9, <1>10, <1>11, WithinKeeps

LEMMA DownloadFailsKeeps ==
  ASSUME Mirror, NEW x \in {"f", "g"}, DownloadFails(x), BinaryTypes'
  PROVE  Mirror'
<1>1. /\ UNCHANGED <<adapter, clock, up, row, blob, gap, gapS, skipped, from, last, seen, claimed>>
      /\ x \in Files /\ clean' = "no"
      /\ work' = [work EXCEPT !.items = @ \ {x}, !.failed = work.level = "sub", !.bad = @ \cup {work.v}]
  BY DEF DownloadFails, Fault, site, mirror, memory, notes
<1>2. BinaryTypes /\ Placed /\ DirsWhole /\ ListHolds /\ FreshHolds
  BY OnceParts
<1>3. /\ work'.level = work.level /\ work'.p = work.p /\ work'.dates = work.dates /\ work'.tree = work.tree
      /\ work'.todo = work.todo /\ work'.bad = work.bad \cup {work.v} /\ work'.file = work.file /\ work'.v = work.v
      /\ work'.list = work.list /\ work'.items = work.items \ {x} /\ (work.level = "sub" => work'.failed)
  BY <1>1, <1>2 DEF BinaryTypes, Walks
<1>4. Under /\ Under' /\ Entered /\ Entered' /\ work.file = "" /\ (Fresh' => Fresh)
  BY <1>1, <1>3 DEF Entered, Under, Files, In, Fresh
<1>5. Placed'
  BY <1>1, <1>2, <1>3, <1>4 DEF Placed, Walking, Entered, Under
<1>6. RowsOnce' /\ Preserved
  BY <1>1, <1>3, SameRows
<1>7. ListOnce'
  BY <1>1, <1>3, <1>4, SameList
<1>8. ListHolds'
  <2>1. DirectToDo => DirectToDo'
    BY <1>1, <1>3 DEF DirectToDo
  <2>2. work.level = "sub" /\ SubToDo => SubToDo'
    BY <1>1, <1>3 DEF SubToDo
  <2>3. up' = up /\ gap \subseteq gap' /\ gapS \subseteq gapS'
    BY <1>1
  <2> QED BY <2>1, <2>2, <2>3, <1>3, <1>4, ListKept
<1>9. DirsWhole'
  BY <1>1, <1>2 DEF DirsWhole, Direct, Stored
<1>10. Fresh' => Reaches'
  BY <1>3 DEF Reaches
<1> QED BY <1>1, <1>3, <1>4, <1>5, <1>6, <1>7, <1>8, <1>9, <1>10, WithinKeeps

LEMMA DescendSubFailsKeeps ==
  ASSUME Mirror, DescendSubFails, BinaryTypes'
  PROVE  Mirror'
<1>1. /\ UNCHANGED <<adapter, clock, up, row, blob, skipped, from, last, seen, claimed>>
      /\ work.level = "version" /\ work.file = "" /\ adapter.reads = "each" /\ clean' = "no"
      /\ gap' = gap \cup {work.v} /\ gapS' = gapS \cup {work.v}
      /\ work' = [work EXCEPT !.items = @ \ {"s"}]
  BY DEF DescendSubFails, In, Fault, site, mirror, memory
<1>2. BinaryTypes /\ Placed /\ DirsWhole /\ ListHolds
  BY OnceParts
<1>3. /\ work'.level = work.level /\ work'.p = work.p /\ work'.dates = work.dates /\ work'.tree = work.tree
      /\ work'.todo = work.todo /\ work'.bad = work.bad /\ work'.file = work.file /\ work'.v = work.v
      /\ work'.list = work.list /\ work'.items = work.items \ {"s"} /\ work'.failed = work.failed
  BY <1>1, <1>2 DEF BinaryTypes, Walks
<1>4. Under /\ Under' /\ Entered /\ Entered' /\ ~Fresh'
  BY <1>1, <1>2, <1>3, KeepsTimestamp DEF Entered, Under, Fresh
<1>5. Placed'
  BY <1>1, <1>2, <1>3, <1>4 DEF Placed, Walking, Entered, Under
<1>6. RowsOnce' /\ Preserved
  BY <1>1, <1>3, SameRows
<1>7. ListOnce'
  BY <1>1, <1>3, <1>4, SameList
<1>8. ListHolds'
  <2>2. work.v \in gap' /\ work.level = "version"
    BY <1>1
  <2>1. work'.v \in gap' /\ work'.level # "sub"
    BY <2>2, <1>3
  <2> QED BY <2>1, <1>4 DEF ListHolds, ListedNow
<1>9. DirsWhole'
  BY <1>1, <1>2 DEF DirsWhole, Direct, Stored
<1> QED BY <1>1, <1>3, <1>4, <1>5, <1>6, <1>7, <1>8, <1>9, WithinKeeps

LEMMA DescendKeeps ==
  ASSUME Mirror, NEW v \in Version, Descend(v), BinaryTypes'
  PROVE  Mirror'
<1>1. /\ UNCHANGED <<adapter, clock, up, row, blob, gap, gapS, skipped, from, last, seen, claimed, clean>>
      /\ work.level = "root" /\ v \in work.todo
  BY DEF Descend, NoFault, site, mirror, memory, notes
<1>2. BinaryTypes /\ Placed /\ OnceListed /\ DirsWhole /\ TreeHolds /\ FreshHolds
  BY OnceParts
<1>3. PICK items \in SUBSET {"f", "s"} :
        /\ work' = [work EXCEPT !.level = "version", !.v = v, !.list = Listed(v), !.todo = @ \ {v},
                                !.items = items]
        /\ \A x \in items : Listed(v)[x] # 0
        /\ \A x \in {"f", "s"} : Listed(v)[x] # 0 /\ row[v][x] # Listed(v)[x] => x \in items
  BY <1>2, DescendEffect
<1>4. /\ work'.level = "version" /\ work'.p = work.p /\ work'.dates = work.dates /\ work'.tree = work.tree
      /\ work'.todo = work.todo \ {v} /\ work'.bad = work.bad /\ work'.file = work.file /\ work'.v = v
      /\ work'.list = Listed(v) /\ work'.items = items
  <2>1. work \in Walks
    BY <1>2 DEF BinaryTypes
  <2> QED BY <2>1, <1>3 DEF Walks
<1>5. /\ Listed(v) \in Dates /\ Listed(v).date = work.dates[v]
      /\ Listed(v).f = Site[v].f /\ Listed(v).s = Site[v].s /\ Listed(v).g = Site[v].g
  BY <1>2, DescendEffect
<1>6. Under' /\ Entered' /\ Walking' /\ Entered /\ ~Under /\ Walking /\ work.file = ""
  BY <1>1, <1>2, <1>4 DEF Under, Entered, Walking, Placed
<1>7. Fresh' => Fresh
  BY <1>1, <1>4, <1>6 DEF Fresh
<1>8. Placed'
  BY <1>2, <1>3, <1>4, <1>6 DEF Placed
<1>9. /\ RowsOnce' /\ Preserved
      /\ \A w \in Version, x \in {"f", "g"} : Stored(w, x) => Stored(w, x)'
  BY <1>1, <1>4, SameRows
<1>10. /\ up[v] \in Dates /\ row[v] \in Dates /\ Older(row[v], v) /\ Older(work.tree[v], v)
       /\ work.dates[v] # 0 /\ work.dates[v] <= up[v].date /\ row[v].date <= work.dates[v]
  BY <1>1, <1>2 DEF OnceListed, BinaryTypes
<1>11. Site[v] = IF adapter.reads = "once" THEN work.tree[v] ELSE up[v]
  BY DEF Site
<1>12. Older(Listed(v), v)
  <2>1. Site[v].f <= up[v].f /\ Site[v].g <= up[v].g /\ Site[v].s \in {0, up[v].s}
    BY <1>10, <1>11 DEF Older, Dates
  <2> QED BY <2>1, <1>5, <1>10 DEF Older
<1>13. ListOnce'
  <2>1. Older(work.list, work.v)'
    BY <1>1, <1>4, <1>12 DEF Older
  <2>2. adapter.reads = "once" => Listed(v).s = work.tree[v].s
    BY <1>5, <1>11
  <2> QED BY <2>1, <2>2, <1>1, <1>4, <1>5, <1>6, <1>10 DEF ListOnce
<1>14. ASSUME ListedNow'
       PROVE  DirectToDo'
  <2>1. Fresh \/ (work.dates[v] = up[v].date /\ v \notin gap)
    BY <1>1, <1>4, <1>5, <1>7, <1>14 DEF ListedNow
  <2>2. Site[v].f = up[v].f /\ Site[v].s = up[v].s
    <3>1. CASE adapter.reads # "once"
      BY <3>1, <1>11
    <3>2. CASE adapter.reads = "once" /\ Fresh
      BY <3>2, <1>1, <1>2, <1>11 DEF FreshHolds
    <3>3. CASE adapter.reads = "once" /\ work.dates[v] = up[v].date /\ v \notin gap
      BY <3>3, <1>2, <1>10, <1>11 DEF TreeHolds
    <3> QED BY <2>1, <3>1, <3>2, <3>3
  <2>3. "f" \in items \/ row[v].f = up[v].f
    <3>1. "f" \in items \/ Listed(v).f = 0 \/ row[v].f = Listed(v).f
      BY <1>3
    <3>2. row[v].f \in Nat /\ row[v].f <= up[v].f
      BY <1>10 DEF Older, Dates
    <3> QED BY <3>1, <3>2, <2>2, <1>5
  <2>4. "s" \in items \/ row[v].s = up[v].s
    <3>1. "s" \in items \/ Listed(v).s = 0 \/ row[v].s = Listed(v).s
      BY <1>3
    <3>2. row[v].s \in {0, up[v].s}
      BY <1>10 DEF Older
    <3> QED BY <3>1, <3>2, <2>2, <1>5
  <2>5. work'.list.f = up'[work'.v].f /\ work'.list.s = up'[work'.v].s
    BY <2>2, <1>1, <1>4, <1>5
  <2>6. "f" \in work'.items \/ Stored(work.v, "f")'
    BY <2>3, <1>1, <1>4 DEF Stored
  <2>7. "s" \in work'.items \/ row'[work'.v].s = up'[work'.v].s
    BY <2>4, <1>1, <1>4
  <2> QED BY <2>5, <2>6, <2>7 DEF DirectToDo
<1>15. ListHolds'
  BY <1>4, <1>14 DEF ListHolds
<1>16. DirsWhole'
  BY <1>1, <1>2 DEF DirsWhole, Direct, Stored
<1>17. Fresh' => Reaches'
  BY <1>1, <1>4, <1>6, <1>7, <1>9, ReachesKept
<1>18. work.todo # {} /\ work'.todo \subseteq work.todo
  BY <1>1, <1>4
<1> QED
  BY <1>1, <1>4, <1>6, <1>8, <1>9, <1>13, <1>15, <1>16, <1>17, <1>18, WithinKeeps

LEMMA DescendSubKeeps ==
  ASSUME Mirror, DescendSub, BinaryTypes'
  PROVE  Mirror'
<1> DEFINE g == Site[work.v].g
           items == (work.items \ {"s"}) \cup (IF row[work.v].g # g THEN {"g"} ELSE {})
<1>1. /\ UNCHANGED <<adapter, clock, up, row, blob, gap, gapS, skipped, from, last, seen, claimed, clean>>
      /\ work.level = "version" /\ work.file = "" /\ "s" \in work.items
  BY DEF DescendSub, In, NoFault, site, mirror, memory, notes
<1>0. work' = [work EXCEPT !.level = "sub", !.failed = FALSE, !.list.g = g, !.items = items]
  BY DEF DescendSub
<1>2. BinaryTypes /\ Placed /\ DirsWhole /\ ListHolds /\ FreshHolds /\ TreeHolds
  BY OnceParts
<1>3. Under /\ Entered /\ Walking /\ work.v \in Version /\ work.list \in Dates /\ work.v \notin work.todo
  BY <1>1, OnceParts DEF Under
<1>4. /\ work'.level = "sub" /\ work'.p = work.p /\ work'.dates = work.dates /\ work'.tree = work.tree
      /\ work'.todo = work.todo /\ work'.bad = work.bad /\ work'.file = "" /\ work'.v = work.v
      /\ work'.list = [work.list EXCEPT !.g = g] /\ work'.items = items /\ work'.failed = FALSE
  <2>1. work \in Walks
    BY <1>2 DEF BinaryTypes
  <2> HIDE DEF g, items
  <2> QED BY <2>1, <1>0, <1>1 DEF Walks
<1>5. /\ work'.list.g = g /\ work'.list.f = work.list.f /\ work'.list.s = work.list.s
      /\ work'.list.date = work.list.date
  <2> HIDE DEF g
  <2> QED BY <1>3, <1>4 DEF Dates
<1>6. Under' /\ Entered' /\ Walking'
  BY <1>4 DEF Under, Entered, Walking
<1>7. Fresh' => Fresh
  BY <1>1, <1>3, <1>4 DEF Fresh
<1>8. work.items \subseteq {"f", "s"} /\ work.list.s # 0
  BY <1>1, <1>2 DEF Placed
<1>9. /\ items \subseteq {"f", "g"} /\ ("f" \in items <=> "f" \in work.items)
      /\ "g" \in items \/ row[work.v].g = g
  BY <1>8
<1> HIDE DEF items
<1>10. Placed'
  BY <1>2, <1>3, <1>4, <1>5, <1>6, <1>8, <1>9 DEF Placed
<1>11. RowsOnce' /\ Preserved
  BY <1>1, <1>4, SameRows
<1>12. ListOnce'
  <2>1. ListOnce
    BY OnceParts
  <2>2. g <= up[work.v].g
    <3>1. Older(work.tree[work.v], work.v) /\ up[work.v] \in Dates
      BY <1>2, <1>3, OnceParts DEF OnceListed, BinaryTypes
    <3> QED BY <3>1 DEF Site, Older, Dates
  <2>3. Older(work.list, work.v)'
    BY <2>1, <2>2, <1>1, <1>3, <1>4, <1>5 DEF ListOnce, Older
  <2> QED BY <2>1, <2>3, <1>1, <1>3, <1>4, <1>5 DEF ListOnce
<1>13. ListHolds'
  <2>1. (ListedNow => DirectToDo)
    BY <1>2 DEF ListHolds
  <2>2. ListedNow' => ListedNow
    <3>1. work'.list.date = up'[work'.v].date /\ work'.v \notin gap' =>
            work.list.date = up[work.v].date /\ work.v \notin gap
      BY <1>1, <1>4, <1>5
    <3> QED BY <3>1, <1>3, <1>7 DEF ListedNow
  <2>3. DirectToDo => DirectToDo'
    <3>1. ASSUME DirectToDo
          PROVE  /\ work'.list.f = up'[work'.v].f /\ work'.list.s = up'[work'.v].s
                 /\ work'.v \in work'.bad \/ "f" \in work'.items \/ Stored(work.v, "f")'
      <4>1. /\ work.list.f = up[work.v].f /\ work.list.s = up[work.v].s
            /\ work.v \in work.bad \/ "f" \in work.items \/ Stored(work.v, "f")
        BY <3>1, <1>1 DEF DirectToDo
      <4>2. Stored(work.v, "f") => Stored(work.v, "f")'
        BY <1>1, <1>4 DEF Stored
      <4> QED BY <4>1, <4>2, <1>1, <1>4, <1>5, <1>9
    <3> QED BY <3>1, <1>4 DEF DirectToDo
  <2>4. ASSUME work.v \notin gapS
        PROVE  SubToDo'
    <3>1. g = up[work.v].g
      BY <2>4, <1>2, <1>3, <1>8, OnceParts DEF Site, TreeHolds, ListOnce
    <3>2. work'.list.g = up'[work'.v].g
      BY <3>1, <1>1, <1>4, <1>5
    <3>3. "g" \in work'.items \/ Stored(work.v, "g")'
      BY <3>1, <1>1, <1>4, <1>9 DEF Stored
    <3> QED BY <3>2, <3>3 DEF SubToDo
  <2>5. work'.v = work.v /\ gapS' = gapS
    BY <1>1, <1>4
  <2> QED BY <2>1, <2>2, <2>3, <2>4, <2>5 DEF ListHolds
<1>14. DirsWhole'
  BY <1>1, <1>2 DEF DirsWhole, Direct, Stored
<1>15. Fresh' => Reaches'
  BY <1>1, <1>3, <1>4, <1>6, <1>7, <1>11, ReachesKept
<1> QED
  BY <1>1, <1>3, <1>4, <1>6, <1>10, <1>11, <1>12, <1>13, <1>14, <1>15, WithinKeeps

LEMMA LeaveKeeps ==
  ASSUME Mirror, Leave, BinaryTypes'
  PROVE  Mirror'
<1>1. /\ UNCHANGED <<adapter, clock, up, blob, gap, gapS, skipped, from, last, seen, claimed, clean>>
      /\ work.level = "version" /\ work.file = "" /\ work.items = {}
  BY DEF Leave, In, NoFault, site, memory, notes
<1>2. BinaryTypes /\ Placed /\ DirsWhole /\ ListHolds /\ RowsOnce /\ ListOnce
  BY OnceParts
<1>3. Under /\ Entered /\ Walking /\ work.v \in Version /\ work.list \in Dates /\ work.v \notin work.todo
  BY <1>1, OnceParts DEF Under
<1> DEFINE v == work.v
           unsaved == v \in work.bad \/ (work.list.f = 0 /\ work.list.s = 0)
<1>4. /\ row'[v].date = IF unsaved THEN row[v].date ELSE work.list.date
      /\ row'[v].f = row[v].f /\ row'[v].g = row[v].g /\ row'[v].s = row[v].s
      /\ \A w \in Version \ {v} : row'[w] = row[w]
      /\ work' = Back
  BY <1>2, LeaveEffect
<1>5. /\ work'.level = "root" /\ work'.p = work.p /\ work'.dates = work.dates /\ work'.tree = work.tree
      /\ work'.todo = work.todo /\ work'.bad = work.bad /\ work'.file = ""
  <2>1. work \in Walks
    BY <1>2 DEF BinaryTypes
  <2> QED BY <2>1, <1>1, <1>4 DEF Walks, Back
<1>6. Entered' /\ ~Under' /\ Walking'
  BY <1>5 DEF Under, Entered, Walking
<1>7. Placed'
  BY <1>2, <1>3, <1>5, <1>6 DEF Placed
<1>8. \A w \in Version : row'[w].f = row[w].f /\ row'[w].g = row[w].g /\ row'[w].s = row[w].s
  BY <1>4
<1>9. /\ \A w \in Version, x \in {"f", "g"} : Stored(w, x)' <=> Stored(w, x)
      /\ \A w \in Version : Direct(w)' <=> Direct(w)
  BY <1>1, <1>8 DEF Stored, Direct
<1>10. RowsOnce'
  <2>1. ASSUME NEW w \in Version
        PROVE  /\ Older(row[w], w)' /\ row'[w].f <= blob'[w].f /\ row'[w].g <= blob'[w].g
               /\ w \in work'.todo => row'[w].date <= work'.dates[w]
    <3>1. /\ Older(row[w], w) /\ row[w].f <= blob[w].f /\ row[w].g <= blob[w].g
          /\ w \in work.todo => row[w].date <= work.dates[w]
      BY <1>2 DEF RowsOnce
    <3>2. row'[w].date <= up[w].date
      <4>1. work.list.date <= up[v].date /\ row[w].date <= up[w].date
        BY <1>2, <1>3, <3>1 DEF ListOnce, Older
      <4> QED BY <4>1, <1>4
    <3>3. w \in work.todo => row'[w].date = row[w].date
      BY <1>3, <1>4
    <3>4. Older(row[w], w)'
      BY <3>1, <3>2, <1>1, <1>8 DEF Older
    <3> QED BY <3>1, <3>3, <3>4, <1>1, <1>5, <1>8
  <2> QED BY <2>1 DEF RowsOnce
<1>11. ListOnce' /\ ListHolds'
  BY <1>5, <1>6 DEF ListOnce, ListHolds, ListedNow
<1>12. ListedNow => v \in work.bad \/ Direct(v)
  BY <1>1, <1>2 DEF ListHolds, DirectToDo, Direct
<1>13. DirsWhole'
  <2> SUFFICES ASSUME NEW w \in Version
               PROVE  (/\ \A x \in {"f", "g"} : row[w][x] <= blob[w][x]
                       /\ row[w].date # 0 /\ row[w].date = up[w].date /\ w \notin gap => Direct(w)
                       /\ row[w].s # 0 /\ row[w].s = up[w].s /\ w \notin gapS => Stored(w, "g"))'
    BY DEF DirsWhole
  <2>1. /\ row[w].f <= blob[w].f /\ row[w].g <= blob[w].g
        /\ row[w].date # 0 /\ row[w].date = up[w].date /\ w \notin gap => Direct(w)
        /\ row[w].s # 0 /\ row[w].s = up[w].s /\ w \notin gapS => Stored(w, "g")
    BY <1>2 DEF DirsWhole
  <2>2. ASSUME row'[w].date # 0, row'[w].date = up[w].date, w \notin gap
        PROVE  Direct(w)
    <3>1. CASE row'[w].date = row[w].date
      BY <2>1, <2>2, <3>1
    <3>2. CASE w = v /\ ~unsaved
      <4>1. work.list.date = up[v].date /\ v \notin gap
        BY <2>2, <3>2, <1>4
      <4>2. ListedNow
        BY <4>1, <1>3 DEF ListedNow
      <4> QED BY <3>2, <4>2, <1>12
    <3> QED BY <3>1, <3>2, <1>4
  <2>3. \A x \in {"f", "g"} : row'[w][x] <= blob'[w][x]
    BY <2>1, <1>1, <1>8
  <2>4. row'[w].date # 0 /\ row'[w].date = up'[w].date /\ w \notin gap' => Direct(w)'
    BY <2>2, <1>1, <1>9
  <2>5. row'[w].s # 0 /\ row'[w].s = up'[w].s /\ w \notin gapS' => Stored(w, "g")'
    BY <2>1, <1>1, <1>8, <1>9
  <2> QED BY <2>3, <2>4, <2>5
<1>15. Fresh' => Fresh
  BY <1>1, <1>3, <1>5 DEF Fresh
<1>14. ASSUME Fresh
       PROVE  work.list.date = up[v].date
  <2>1. work.dates[v] \in {0, up[v].date}
    BY <1>3, <1>14, OnceParts DEF FreshHolds
  <2> QED BY <2>1, <1>2, <1>3 DEF ListOnce
<1>16. Fresh => Preserved
  <2> SUFFICES ASSUME Fresh, NEW w \in Version PROVE LookedThrough(w) => LookedThrough(w)'
    BY <1>9 DEF Preserved
  <2> QED BY <1>1, <1>4, <1>14 DEF LookedThrough
<1>17. ASSUME Fresh, work.bad = {}, NEW w \in Version, w = v
       PROVE  Mirrored(w)'
  <2>1. ListedNow
    BY <1>3, <1>17 DEF ListedNow
  <2>2. Direct(w) /\ work.list.f = up[w].f /\ work.list.s = up[w].s
    BY <2>1, <1>2, <1>12, <1>17 DEF ListHolds, DirectToDo
  <2>3. LookedThrough(w)'
    BY <2>2, <1>1, <1>4, <1>14, <1>17 DEF LookedThrough
  <2>4. Direct(w)'
    BY <2>2, <1>9
  <2> QED BY <2>3, <2>4 DEF Mirrored
<1>20. Fresh' => Reaches'
  BY <1>1, <1>5, <1>15, <1>16, <1>17, ReachesKept
<1>18. /\ work'.todo \subseteq work.todo /\ work.bad \subseteq work'.bad /\ gap \subseteq gap' /\ gapS \subseteq gapS'
       /\ clean' = clean /\ work'.bad = work.bad
  BY <1>1, <1>5
<1>19. UNCHANGED <<adapter, clock, up, from, last, seen, claimed>>
  BY <1>1
<1> QED
  BY <1>3, <1>5, <1>6, <1>7, <1>10, <1>11, <1>13, <1>16, <1>18, <1>19, <1>20, WithinKeeps

LEMMA LeaveSubKeeps ==
  ASSUME Mirror, LeaveSub, BinaryTypes'
  PROVE  Mirror'
<1>1. /\ UNCHANGED <<adapter, clock, up, blob, gap, gapS, skipped, from, last, seen, claimed, clean>>
      /\ work.level = "sub" /\ work.file = "" /\ "g" \notin work.items
  BY DEF LeaveSub, In, NoFault, site, memory, notes
<1>0. work' = [work EXCEPT !.level = "version"]
  BY DEF LeaveSub
<1>2. BinaryTypes /\ Placed /\ DirsWhole /\ ListHolds /\ RowsOnce /\ ListOnce
  BY OnceParts
<1>3. Under /\ Entered /\ Walking /\ work.v \in Version /\ work.list \in Dates /\ work.v \notin work.todo
  BY <1>1, OnceParts DEF Under
<1> DEFINE v == work.v
<1>4. /\ row'[v].s = IF work.failed THEN row[v].s ELSE work.list.s
      /\ row'[v].f = row[v].f /\ row'[v].g = row[v].g /\ row'[v].date = row[v].date
      /\ \A w \in Version \ {v} : row'[w] = row[w]
  BY <1>2, LeaveSubEffect
<1>5. /\ work'.level = "version" /\ work'.p = work.p /\ work'.dates = work.dates /\ work'.tree = work.tree
      /\ work'.todo = work.todo /\ work'.bad = work.bad /\ work'.file = "" /\ work'.v = work.v
      /\ work'.list = work.list /\ work'.items = work.items
  <2>1. work \in Walks
    BY <1>2 DEF BinaryTypes
  <2> QED BY <2>1, <1>0, <1>1 DEF Walks
<1>6. Entered' /\ Under' /\ Walking'
  BY <1>5 DEF Under, Entered, Walking
<1>7. Placed'
  <2>1. work.items \subseteq {"f", "g"} /\ work.p \in Process
    BY <1>1, <1>2, <1>3 DEF Placed
  <2>2. work'.items \subseteq {"f", "s"} /\ "s" \notin work'.items
    BY <2>1, <1>1, <1>5
  <2>3. work'.v \in Version \ work'.todo /\ work'.level # "sub"
    BY <1>3, <1>5
  <2> QED BY <2>1, <2>2, <2>3, <1>5, <1>6 DEF Placed
<1>8. \A w \in Version : /\ row'[w].f = row[w].f /\ row'[w].g = row[w].g /\ row'[w].date = row[w].date
                         /\ w # v => row'[w].s = row[w].s
  BY <1>4
<1>9. /\ \A w \in Version, x \in {"f", "g"} : Stored(w, x)' <=> Stored(w, x)
      /\ \A w \in Version : w # v => (Direct(w)' <=> Direct(w))
  BY <1>1, <1>8 DEF Stored, Direct
<1>10. work.list.s \in {0, up[v].s} /\ work.list.s # 0
  BY <1>1, <1>2, <1>3 DEF ListOnce, Older, Placed
<1>11. row'[v].s = row[v].s \/ row'[v].s = up[v].s
  BY <1>4, <1>10
<1>12. \A w \in Version : Direct(w) => Direct(w)'
  BY <1>1, <1>9, <1>11 DEF Direct
<1>13. RowsOnce'
  <2>1. ASSUME NEW w \in Version
        PROVE  /\ Older(row[w], w)' /\ row'[w].f <= blob'[w].f /\ row'[w].g <= blob'[w].g
               /\ w \in work'.todo => row'[w].date <= work'.dates[w]
    <3>1. /\ Older(row[w], w) /\ row[w].f <= blob[w].f /\ row[w].g <= blob[w].g
          /\ w \in work.todo => row[w].date <= work.dates[w]
      BY <1>2 DEF RowsOnce
    <3>2. row'[w].s \in {0, up[w].s}
      BY <3>1, <1>8, <1>11 DEF Older
    <3>3. Older(row[w], w)'
      BY <3>1, <3>2, <1>1, <1>8 DEF Older
    <3> QED BY <3>1, <3>3, <1>1, <1>5, <1>8
  <2> QED BY <2>1 DEF RowsOnce
<1>14. ListOnce'
  <2>1. row'[work'.v].date = row[work.v].date /\ Older(work.list, work.v)'
    BY <1>1, <1>2, <1>3, <1>5, <1>8 DEF ListOnce, Older
  <2> QED BY <2>1, <1>1, <1>2, <1>3, <1>5 DEF ListOnce
<1>15. Fresh' => Fresh
  BY <1>1, <1>3, <1>5 DEF Fresh
<1>16. ListHolds'
  <2>1. ListedNow' => ListedNow
    <3>1. work'.list.date = up'[work'.v].date /\ work'.v \notin gap' =>
            work.list.date = up[work.v].date /\ work.v \notin gap
      BY <1>1, <1>5
    <3> QED BY <3>1, <1>3, <1>15 DEF ListedNow
  <2>2. ASSUME DirectToDo
        PROVE  DirectToDo'
    <3>1. /\ work.list.f = up[v].f /\ work.list.s = up[v].s
          /\ v \in work.bad \/ "f" \in work.items \/ Stored(v, "f")
      BY <2>2, <1>1 DEF DirectToDo
    <3>2. Stored(v, "f") => Stored(work.v, "f")'
      BY <1>1, <1>5, <1>8, <1>3 DEF Stored
    <3>3. v \in work.bad \/ row'[v].s = up[v].s
      BY <3>1, <1>1, <1>2, <1>4 DEF Placed
    <3> QED BY <3>1, <3>2, <3>3, <1>1, <1>5 DEF DirectToDo
  <2> QED BY <2>1, <2>2, <1>2, <1>5 DEF ListHolds
<1>17. DirsWhole'
  <2> SUFFICES ASSUME NEW w \in Version
               PROVE  (/\ \A x \in {"f", "g"} : row[w][x] <= blob[w][x]
                       /\ row[w].date # 0 /\ row[w].date = up[w].date /\ w \notin gap => Direct(w)
                       /\ row[w].s # 0 /\ row[w].s = up[w].s /\ w \notin gapS => Stored(w, "g"))'
    BY DEF DirsWhole
  <2>1. /\ row[w].f <= blob[w].f /\ row[w].g <= blob[w].g
        /\ row[w].date # 0 /\ row[w].date = up[w].date /\ w \notin gap => Direct(w)
        /\ row[w].s # 0 /\ row[w].s = up[w].s /\ w \notin gapS => Stored(w, "g")
    BY <1>2 DEF DirsWhole
  <2>2. ASSUME row'[w].s # 0, row'[w].s = up[w].s, w \notin gapS
        PROVE  Stored(w, "g")
    <3>1. CASE row'[w].s = row[w].s
      BY <2>1, <2>2, <3>1
    <3>2. CASE w = v /\ ~work.failed
      BY <3>2, <2>2, <1>1, <1>2 DEF ListHolds, SubToDo
    <3> QED BY <3>1, <3>2, <1>4, <1>8
  <2>3. \A x \in {"f", "g"} : row'[w][x] <= blob'[w][x]
    BY <2>1, <1>1, <1>8
  <2>4. row'[w].date # 0 /\ row'[w].date = up'[w].date /\ w \notin gap' => Direct(w)'
    BY <2>1, <1>1, <1>8, <1>12
  <2>5. row'[w].s # 0 /\ row'[w].s = up'[w].s /\ w \notin gapS' => Stored(w, "g")'
    BY <2>2, <1>1, <1>9
  <2> QED BY <2>3, <2>4, <2>5
<1>18. Fresh => Preserved
  BY <1>1, <1>8, <1>12 DEF Preserved, LookedThrough
<1>20. Fresh' => Reaches'
  BY <1>1, <1>3, <1>5, <1>6, <1>15, <1>18, ReachesKept
<1>21. /\ work'.todo \subseteq work.todo /\ work.bad \subseteq work'.bad /\ gap \subseteq gap' /\ gapS \subseteq gapS'
       /\ clean' = clean /\ work'.bad = work.bad
  BY <1>1, <1>5
<1>22. UNCHANGED <<adapter, clock, up, from, last, seen, claimed>>
  BY <1>1
<1> QED
  BY <1>3, <1>5, <1>6, <1>7, <1>13, <1>14, <1>16, <1>17, <1>18, <1>20, <1>21, <1>22, WithinKeeps

LEMMA DownloadKeeps ==
  ASSUME Mirror, NEW x \in {"f", "g"}, Download(x), BinaryTypes'
  PROVE  Mirror'
<1>1. /\ UNCHANGED <<adapter, clock, up, row, gap, gapS, skipped, from, last, seen, claimed, clean>>
      /\ work.file = "" /\ x \in work.items /\ work.level = IF x = "f" THEN "version" ELSE "sub"
  BY DEF Download, Files, In, NoFault, site, memory, notes
<1>0. work' = [work EXCEPT !.file = x, !.items = @ \ {x}]
  BY DEF Download
<1>2. BinaryTypes /\ Placed /\ DirsWhole /\ ListHolds /\ RowsOnce /\ ListOnce
  BY OnceParts
<1>3. Under /\ Entered /\ Walking /\ work.v \in Version /\ work.list \in Dates /\ work.v \notin work.todo
  BY <1>1, OnceParts DEF Under
<1> DEFINE v == work.v
<1>4. /\ blob'[v][x] = up[v][x]
      /\ \A y \in {"f", "g"} \ {x} : blob'[v][y] = blob[v][y]
      /\ \A w \in Version \ {v} : blob'[w] = blob[w]
  BY <1>2, DownloadEffect
<1>5. /\ work'.level = work.level /\ work'.p = work.p /\ work'.dates = work.dates /\ work'.tree = work.tree
      /\ work'.todo = work.todo /\ work'.bad = work.bad /\ work'.file = x /\ work'.v = work.v
      /\ work'.list = work.list /\ work'.items = work.items \ {x} /\ work'.failed = work.failed
  <2>1. work \in Walks
    BY <1>2 DEF BinaryTypes
  <2> QED BY <2>1, <1>0 DEF Walks
<1>6. Entered' /\ Under' /\ Walking'
  BY <1>3, <1>5 DEF Under, Entered, Walking
<1>7. Placed'
  BY <1>1, <1>2, <1>3, <1>5, <1>6 DEF Placed
\* What is downloaded is no older than the row of it, or than its listing.
<1>8. \A w \in Version, y \in {"f", "g"} : row[w][y] <= blob'[w][y]
  <2> SUFFICES ASSUME NEW w \in Version, NEW y \in {"f", "g"}
               PROVE  row[w][y] <= blob'[w][y]
    OBVIOUS
  <2>1. row[w].f <= blob[w].f /\ row[w].g <= blob[w].g /\ row[w].f <= up[w].f /\ row[w].g <= up[w].g
    BY <1>2 DEF RowsOnce, Older
  <2>2. CASE w = v /\ y = x
    BY <2>1, <2>2, <1>4
  <2>3. CASE ~(w = v /\ y = x)
    BY <2>1, <2>3, <1>4
  <2> QED BY <2>2, <2>3
<1>9. work.list[x] <= blob'[v][x]
  <2>1. work.list.f <= up[v].f /\ work.list.g <= up[v].g
    BY <1>2, <1>3 DEF ListOnce, Older
  <2> QED BY <2>1, <1>4
<1>10. RowsOnce'
  <2>1. ASSUME NEW w \in Version
        PROVE  /\ Older(row[w], w)' /\ row'[w].f <= blob'[w].f /\ row'[w].g <= blob'[w].g
               /\ w \in work'.todo => row'[w].date <= work'.dates[w]
    BY <1>1, <1>2, <1>5, <1>8 DEF RowsOnce, Older
  <2> QED BY <2>1 DEF RowsOnce
<1>11. ListOnce'
  <2>1. Older(work.list, work.v)'
    BY <1>1, <1>2, <1>3, <1>5 DEF ListOnce, Older
  <2>2. work'.list[work'.file] <= blob'[work'.v][work'.file]
    BY <1>5, <1>9
  <2> QED BY <2>1, <2>2, <1>1, <1>2, <1>3, <1>5 DEF ListOnce
<1>12. Fresh' => Fresh
  BY <1>1, <1>3, <1>5 DEF Fresh
<1>13. \A w \in Version, y \in {"f", "g"} : Stored(w, y)' <=> Stored(w, y)
  BY <1>1 DEF Stored
<1>14. ListHolds'
  <2>1. DirectToDo => DirectToDo'
    BY <1>1, <1>3, <1>5, <1>13 DEF DirectToDo
  <2>2. SubToDo => SubToDo'
    BY <1>1, <1>3, <1>5, <1>13 DEF SubToDo
  <2>3. up' = up /\ gap \subseteq gap' /\ gapS \subseteq gapS'
    BY <1>1
  <2> QED BY <2>1, <2>2, <2>3, <1>3, <1>5, <1>12, ListKept
<1>15. DirsWhole'
  <2>1. \A w \in Version : Direct(w)' <=> Direct(w)
    BY <1>1 DEF Direct, Stored
  <2> QED BY <2>1, <1>1, <1>2, <1>8, <1>13 DEF DirsWhole
<1>16. Fresh => Preserved
  BY <1>1, <1>13 DEF Preserved, LookedThrough, Direct
<1>17. Fresh' => Reaches'
  BY <1>1, <1>3, <1>5, <1>6, <1>12, <1>16, ReachesKept
<1>18. /\ work'.todo \subseteq work.todo /\ work.bad \subseteq work'.bad /\ gap \subseteq gap' /\ gapS \subseteq gapS'
       /\ clean' = clean /\ work'.bad = work.bad
  BY <1>1, <1>5
<1>19. UNCHANGED <<adapter, clock, up, from, last, seen, claimed>>
  BY <1>1
<1> QED
  BY <1>3, <1>5, <1>6, <1>7, <1>10, <1>11, <1>14, <1>15, <1>16, <1>17, <1>18, <1>19, WithinKeeps

\* The row of a file: it is the listing's, which is the site's wherever it is to be.
LEMMA SaveFileKeeps ==
  ASSUME Mirror, SaveFile, BinaryTypes'
  PROVE  Mirror'
<1>1. /\ UNCHANGED <<adapter, clock, up, blob, gap, gapS, from, last, seen, claimed, clean>>
      /\ skipped' = skipped \ {<<work.v, work.file>>}
  BY DEF SaveFile, NoFault, site, memory
<1>0. work' = [work EXCEPT !.file = ""]
  BY DEF SaveFile
<1>2. BinaryTypes /\ Placed /\ DirsWhole /\ ListHolds /\ RowsOnce /\ ListOnce
  BY OnceParts
<1>3. /\ Under /\ Entered /\ Walking /\ work.v \in Version /\ work.list \in Dates /\ work.v \notin work.todo
      /\ work.file \in {"f", "g"} /\ work.file # ""
      /\ work.level = IF work.file = "f" THEN "version" ELSE "sub"
  <2>1. work.file # ""
    BY DEF SaveFile
  <2>2. Under /\ work.file \in {"f", "g"} /\ work.level = IF work.file = "f" THEN "version" ELSE "sub"
    BY <2>1, <1>2, UnderVersion DEF Placed
  <2> QED BY <2>1, <2>2, OnceParts
<1> DEFINE v == work.v
           x == work.file
<1>4. /\ row'[v][x] = work.list[x]
      /\ \A y \in {"f", "s", "g", "date"} \ {x} : row'[v][y] = row[v][y]
      /\ \A w \in Version \ {v} : row'[w] = row[w]
  BY <1>2, SaveFileEffect
<1>5. /\ work'.level = work.level /\ work'.p = work.p /\ work'.dates = work.dates /\ work'.tree = work.tree
      /\ work'.todo = work.todo /\ work'.bad = work.bad /\ work'.file = "" /\ work'.v = work.v
      /\ work'.list = work.list /\ work'.items = work.items /\ work'.failed = work.failed
  <2>1. work \in Walks
    BY <1>2 DEF BinaryTypes
  <2> QED BY <2>1, <1>0 DEF Walks
<1>6. Entered' /\ Under' /\ Walking'
  BY <1>3, <1>5 DEF Under, Entered, Walking
<1>7. Placed'
  BY <1>2, <1>3, <1>5, <1>6 DEF Placed
<1>8. /\ \A w \in Version : row'[w].date = row[w].date /\ row'[w].s = row[w].s
      /\ \A w \in Version, y \in {"f", "g"} : ~(w = v /\ y = x) => row'[w][y] = row[w][y]
  BY <1>3, <1>4
\* The file in hand is stored, if it was listed as it is; the others are as before.
<1>9. \A w \in Version, y \in {"f", "g"} : ~(w = v /\ y = x) => (Stored(w, y)' <=> Stored(w, y))
  <2> SUFFICES ASSUME NEW w \in Version, NEW y \in {"f", "g"}, ~(w = v /\ y = x)
               PROVE  Stored(w, y)' <=> Stored(w, y)
    OBVIOUS
  <2>1. <<w, y>> \in skipped' <=> <<w, y>> \in skipped
    BY <1>1
  <2> QED BY <2>1, <1>1, <1>8 DEF Stored
<1>10. ListedNow /\ x = "f" => row'[v].f = up'[v].f
  BY <1>1, <1>2, <1>4 DEF ListHolds, DirectToDo
<1>11. x = "g" /\ v \notin gapS => row'[v].g = up'[v].g
  BY <1>1, <1>2, <1>3, <1>4 DEF ListHolds, SubToDo
<1>12. \A w \in Version : Direct(w) /\ (w = v => ListedNow) => Direct(w)'
  <2> SUFFICES ASSUME NEW w \in Version, Direct(w), w = v => ListedNow
               PROVE  Direct(w)'
    OBVIOUS
  <2>1. Stored(w, "f")'
    <3>1. CASE w = v /\ x = "f"
      BY <3>1, <1>10 DEF Stored
    <3>2. CASE ~(w = v /\ x = "f")
      BY <3>2, <1>9 DEF Direct
    <3> QED BY <3>1, <3>2
  <2> QED BY <2>1, <1>1, <1>8 DEF Direct
<1>13. RowsOnce'
  <2>1. ASSUME NEW w \in Version
        PROVE  /\ Older(row[w], w)' /\ row'[w].f <= blob'[w].f /\ row'[w].g <= blob'[w].g
               /\ w \in work'.todo => row'[w].date <= work'.dates[w]
    <3>1. /\ Older(row[w], w) /\ row[w].f <= blob[w].f /\ row[w].g <= blob[w].g
          /\ w \in work.todo => row[w].date <= work.dates[w]
      BY <1>2 DEF RowsOnce
    <3>2. \A y \in {"f", "g"} : row'[w][y] <= up[w][y] /\ row'[w][y] <= blob[w][y]
      <4> SUFFICES ASSUME NEW y \in {"f", "g"}
                   PROVE  row'[w][y] <= up[w][y] /\ row'[w][y] <= blob[w][y]
        OBVIOUS
      <4>1. CASE w = v /\ y = x
        <5>1. work.list[x] <= up[v][x] /\ work.list[x] <= blob[v][x]
          BY <1>2, <1>3 DEF ListOnce, Older
        <5> QED BY <4>1, <5>1, <1>4
      <4>2. CASE ~(w = v /\ y = x)
        BY <4>2, <3>1, <1>8 DEF Older
      <4> QED BY <4>1, <4>2
    <3>3. Older(row[w], w)'
      BY <3>1, <3>2, <1>1, <1>8 DEF Older
    <3> QED BY <3>1, <3>2, <3>3, <1>1, <1>5, <1>8
  <2> QED BY <2>1 DEF RowsOnce
<1>14. ListOnce'
  <2>1. Older(work.list, work.v)'
    BY <1>1, <1>2, <1>3, <1>5 DEF ListOnce, Older
  <2>2. row'[work'.v].date = row[v].date
    BY <1>3, <1>5, <1>8
  <2> QED BY <2>1, <2>2, <1>1, <1>2, <1>3, <1>5 DEF ListOnce
<1>15. Fresh' => Fresh
  BY <1>1, <1>3, <1>5 DEF Fresh
<1>16. ListHolds'
  <2>1. ListedNow' => ListedNow
    <3>1. work'.list.date = up'[work'.v].date /\ work'.v \notin gap' =>
            work.list.date = up[work.v].date /\ work.v \notin gap
      BY <1>1, <1>5
    <3> QED BY <3>1, <1>3, <1>15 DEF ListedNow
  <2>2. ASSUME ListedNow, DirectToDo
        PROVE  DirectToDo'
    <3>1. work'.list.f = up'[work'.v].f /\ work'.list.s = up'[work'.v].s
      BY <2>2, <1>1, <1>5 DEF DirectToDo
    <3>2. v \in work.bad \/ "f" \in work.items \/ Stored(work.v, "f")'
      <4>1. CASE x = "f"
        BY <4>1, <2>2, <1>5, <1>10 DEF Stored
      <4>2. CASE x = "g"
        <5>1. v \in work.bad \/ "f" \in work.items \/ Stored(v, "f")
          BY <4>2, <2>2 DEF DirectToDo
        <5>2. Stored(v, "f") => Stored(work.v, "f")'
          BY <4>2, <1>1, <1>3, <1>5, <1>8 DEF Stored
        <5> QED BY <5>1, <5>2
      <4> QED BY <4>1, <4>2, <1>3
    <3>3. v \in work.bad \/ "s" \in work.items \/ work.level = "sub" \/ row'[v].s = up'[v].s
      BY <2>2, <1>1, <1>3, <1>8 DEF DirectToDo
    <3> QED BY <3>1, <3>2, <3>3, <1>5 DEF DirectToDo
  <2>3. ASSUME work.level = "sub", v \notin gapS, SubToDo
        PROVE  SubToDo'
    <3>1. work'.list.g = up'[work'.v].g
      BY <2>3, <1>1, <1>5 DEF SubToDo
    <3>2. Stored(work.v, "g")'
      BY <2>3, <1>3, <1>5, <1>11 DEF Stored
    <3> QED BY <3>1, <3>2, <1>5 DEF SubToDo
  <2> QED BY <2>1, <2>2, <2>3, <1>1, <1>2, <1>5 DEF ListHolds
<1>17. DirsWhole'
  <2> SUFFICES ASSUME NEW w \in Version
               PROVE  (/\ \A y \in {"f", "g"} : row[w][y] <= blob[w][y]
                       /\ row[w].date # 0 /\ row[w].date = up[w].date /\ w \notin gap => Direct(w)
                       /\ row[w].s # 0 /\ row[w].s = up[w].s /\ w \notin gapS => Stored(w, "g"))'
    BY DEF DirsWhole
  <2>1. /\ row[w].date # 0 /\ row[w].date = up[w].date /\ w \notin gap => Direct(w)
        /\ row[w].s # 0 /\ row[w].s = up[w].s /\ w \notin gapS => Stored(w, "g")
    BY <1>2 DEF DirsWhole
  <2>2. ASSUME row[w].date # 0, row[w].date = up[w].date, w \notin gap
        PROVE  Direct(w)'
    <3>1. ASSUME w = v PROVE ListedNow
      <4>1. work.list.date = up[v].date
        <5>1. row[v].date <= work.list.date /\ work.list.date <= up[v].date
          BY <1>2, <1>3 DEF ListOnce, Older
        <5>2. row[v].date \in Nat /\ work.list.date \in Nat /\ up[v].date \in Nat
          BY <1>2, <1>3 DEF BinaryTypes, Dates
        <5> QED BY <5>1, <5>2, <2>2, <3>1
      <4> QED BY <4>1, <2>2, <3>1, <1>3 DEF ListedNow
    <3> QED BY <3>1, <2>1, <2>2, <1>12
  <2>3. row[w].s # 0 /\ row[w].s = up[w].s /\ w \notin gapS => Stored(w, "g")'
    <3>1. CASE w = v /\ x = "g"
      BY <3>1, <1>11 DEF Stored
    <3>2. CASE ~(w = v /\ x = "g")
      BY <3>2, <2>1, <1>9
    <3> QED BY <3>1, <3>2
  <2>4. \A y \in {"f", "g"} : row'[w][y] <= blob'[w][y]
    BY <1>13 DEF RowsOnce
  <2> QED BY <2>2, <2>3, <2>4, <1>1, <1>8
<1>19. Fresh => Preserved
  <2>1. Fresh => ListedNow
    BY <1>3 DEF ListedNow
  <2> QED BY <2>1, <1>1, <1>8, <1>12 DEF Preserved, LookedThrough
<1>20. Fresh' => Reaches'
  BY <1>1, <1>3, <1>5, <1>6, <1>15, <1>19, ReachesKept
<1>21. /\ work'.todo \subseteq work.todo /\ work.bad \subseteq work'.bad /\ gap \subseteq gap' /\ gapS \subseteq gapS'
       /\ clean' = clean /\ work'.bad = work.bad
  BY <1>1, <1>5
<1>22. UNCHANGED <<adapter, clock, up, from, last, seen, claimed>>
  BY <1>1
<1> QED
  BY <1>3, <1>5, <1>6, <1>7, <1>13, <1>14, <1>16, <1>17, <1>19, <1>20, <1>21, <1>22, WithinKeeps

-----------------------------------------------------------------------------
(* Theorems *)

LEMMA MirrorStep ==
  ASSUME Mirror, [BinaryNext]_binaryVars
  PROVE  Mirror'
<1>0. BinaryTypes'
  BY MirrorParts, TypesStep
<1>1. CASE Publish
  BY <1>1, PublishKeeps
<1>2. CASE CreateTask
  BY <1>0, <1>2, CreateTaskKeeps
<1>3. CASE \E p \in Process : Start(p)
  BY <1>0, <1>3, StartKeeps
<1>4. CASE ListRoot \/ ListRootFails
  BY <1>0, <1>4, ListRootKeeps, ListRootFailsKeeps
<1>5. CASE Finish \/ Fail \/ Die
  BY <1>0, <1>5, FinishKeeps, FailKeeps, DieKeeps
<1>6. CASE \E v \in Version : Descend(v) \/ DescendFails(v)
  BY <1>0, <1>6, DescendKeeps, DescendFailsKeeps
<1>7. CASE Leave \/ DescendSub \/ DescendSubFails \/ LeaveSub
  BY <1>0, <1>7, LeaveKeeps, DescendSubKeeps, DescendSubFailsKeeps, LeaveSubKeeps
<1>8. CASE SaveFile \/ \E x \in {"f", "g"} : Download(x) \/ NotFound(x) \/ DownloadFails(x)
  BY <1>0, <1>8, SaveFileKeeps, DownloadKeeps, NotFoundKeeps, DownloadFailsKeeps
<1>9. CASE UNCHANGED binaryVars
  BY <1>9, MirrorStutters
<1> QED BY <1>1, <1>2, <1>3, <1>4, <1>5, <1>6, <1>7, <1>8, <1>9 DEF BinaryNext, Walk

\* The inductive invariant: wherever an execution is, what it has listed and what it has still to
\* do add up to what the directories of the mirror promise.
THEOREM MirrorIsKept == BinarySpec => []MirrorHolds
<1>1. BinaryInit => Mirror
  BY MirrorInit
<1>2. Mirror /\ [BinaryNext]_binaryVars => Mirror'
  BY MirrorStep
<1>3. Mirror => MirrorHolds
  BY DEF Mirror
<1> QED BY <1>1, <1>2, <1>3, PTL DEF BinarySpec

\* A directory that has its date of upstream has what upstream has in it, so that syncDir may
\* pass it over; and a row of a file leads to a file that is no older.
THEOREM DirectoriesAreWhole == BinarySpec => []DirsWhole
<1>1. BinaryInit => Mirror
  BY MirrorInit
<1>2. Mirror /\ [BinaryNext]_binaryVars => Mirror'
  BY MirrorStep
<1>3. Mirror => DirsWhole
  BY DEF Mirror
<1> QED BY <1>1, <1>2, <1>3, PTL DEF BinarySpec

\* A task that nothing disturbed leaves the newest version whole, though the task before may have
\* read that while it was being published: the last item by date is looked through again, and is
\* the newest wherever dates that are sorted as strings come in the order of time.
THEOREM NewestIsWhole == BinarySpec => []NewestWhole
<1>1. BinaryInit => Mirror
  BY MirrorInit
<1>2. Mirror /\ [BinaryNext]_binaryVars => Mirror'
  BY MirrorStep
<1>3. Mirror => NewestWhole
  BY DEF Mirror
<1> QED BY <1>1, <1>2, <1>3, PTL DEF BinarySpec

\* A timestamp that a process has finished stands for every version of the site: none is left that
\* has not been looked through, though the timestamp is not listed again.
THEOREM TimestampsAreFinished == BinarySpec => []FinishedOnce
<1>1. BinaryInit => Mirror
  BY MirrorInit
<1>2. Mirror /\ [BinaryNext]_binaryVars => Mirror'
  BY MirrorStep
<1>3. Mirror => FinishedOnce
  <2> SUFFICES ASSUME Mirror, adapter.keeps = "timestamp", NEW p \in Process \ claimed, last[p] = clock,
                      NEW v \in Version
               PROVE  LookedThrough(v)
    BY DEF FinishedOnce
  <2>1. BinaryTypes /\ OnceListed /\ TimestampHolds
    BY MirrorParts
  <2>2. CASE clock # 0
    BY <2>1, <2>2 DEF TimestampHolds
  <2>3. CASE clock = 0
    <3>1. up[v] \in Dates /\ up[v].f <= 0 /\ up[v].s <= 0
      BY <2>1, <2>3 DEF BinaryTypes, OnceListed
    <3> QED BY <3>1 DEF LookedThrough, Dates
  <2> QED BY <2>2, <2>3
<1> QED BY <1>1, <1>2, <1>3, PTL DEF BinarySpec

=============================================================================
