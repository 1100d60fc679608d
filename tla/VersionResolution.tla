------------------------- MODULE VersionResolution --------------------------
(***************************************************************************)
(* Which version of a package a range means.  The database is asked for    *)
(* the rows in the range, by a column paddingVersion that holds the        *)
(* numbers of the version padded with zeros; rows from before there was    *)
(* such a column have none until an administrator lets them be fixed, a    *)
(* page at a time, while versions are published and removed.               *)
(***************************************************************************)
EXTENDS Integers, Sequences, FiniteSets

CONSTANTS
  Version, \* the versions that are published: records [nums, pre]
  Bound,   \* the versions that ranges name
  Asked,   \* the ranges that are asked for, sets of sets of comparators
  TagRange, \* one of these, whose text is the name of a tag, too (a@1.1)
  Largest, \* the largest number semver takes (Number.MAX_SAFE_INTEGER)
  Width,   \* digits a number is padded to (16 in the code)
  Page,    \* rows that are fixed at a time (1000)
  MaxOld,  \* bound: rows without padding at first
  MaxId    \* bound: rows that were ever inserted

\* A release comes after its prereleases, of which -0 is the first.
Release == 9
\* A version semver does not take for one, of any numbers.
Invalid == [nums |-> <<0, 0, 0>>, pre |-> -1]

\* A number without its last digits, by how many.
Without(n) ==
  LET left[k \in 0..Width] == IF k = 0 THEN n ELSE left[k - 1] \div 10
  IN left

ASSUME VersionAssumption ==
  /\ {Width, Page, MaxOld, MaxId} \subseteq Nat \ {0}
  /\ Largest \in Nat /\ Without(Largest)[Width] = 0
  /\ (Version \ {Invalid}) \cup Bound \subseteq [nums : [1..3 -> 0..Largest], pre : 0..Release]

VARIABLES
  rows,   \* the package's rows by id: the version, and whether it is padded
  lastId, \* the id inserted last
  tag,    \* the version of the tag TagRange, or none
  fix     \* a request to fix rows

resolutionVars == <<rows, lastId, tag, fix>>

None == [nums |-> <<>>, pre |-> -1]
NoFix == [pc |-> "idle", first |-> 0, id |-> 0, page |-> {}]

-----------------------------------------------------------------------------
(* semver *)

LexLess(s, t) ==
  \E i \in 1..Len(t) :
    /\ \A j \in 1..(i - 1) : j <= Len(s) /\ s[j] = t[j]
    /\ i > Len(s) \/ s[i] < t[i]

Compare(op, s, t) ==
  CASE op = "<" -> LexLess(s, t)
    [] op = "<=" -> ~LexLess(t, s)
    [] op = ">" -> LexLess(t, s)
    [] op = ">=" -> ~LexLess(s, t)
    [] op = "=" -> s = t

Precedence(v) == Append(v.nums, v.pre)

\* A range is a set of alternatives, each a set of comparators.
Any == [op |-> "any", version |-> None]
Comparator == [op : {"<", "<=", ">", ">=", "="}, version : Bound]

\* semver makes a comparator of every alternative, if only the one for any version.
ASSUME RangeAssumption == Asked \subseteq SUBSET ((SUBSET ({Any} \cup Comparator)) \ {{}})

IsPreRelease(v) == v.pre # Release

\* A prerelease satisfies only what names a prerelease of the same numbers.
Satisfies(v, alternative) ==
  /\ v # Invalid
  /\ \A c \in alternative \ {Any} : Compare(c.op, Precedence(v), Precedence(c.version))
  /\ IsPreRelease(v) =>
       \E c \in alternative \ {Any} : IsPreRelease(c.version) /\ c.version.nums = v.nums

InRange(range) == {v \in Version : \E alternative \in range : Satisfies(v, alternative)}

\* maxSatisfying, of the versions that are in the range.
Highest(versions) ==
  IF versions = {} THEN None
  ELSE CHOOSE v \in versions : \A w \in versions : ~LexLess(Precedence(v), Precedence(w))

-----------------------------------------------------------------------------
(* PaddingSemVer *)

\* Mutant: numbers as they are written.
DigitsUnpadded(n) ==
  LET width == CHOOSE k \in 1..Width : Without(n)[k] = 0 /\ (k = 1 \/ Without(n)[k - 1] # 0)
  IN [i \in 1..width |-> Without(n)[width - i] % 10]

\* paddingVersion of one number.
Digits(n) == [i \in 1..Width |-> Without(n)[Width - i] % 10]

PaddingVersion ==
  [v \in Version \cup Bound |-> Digits(v.nums[1]) \o Digits(v.nums[2]) \o Digits(v.nums[3])]

-----------------------------------------------------------------------------
(* SqlRange *)

\* comparatorToSql: the rows that one comparator selects.
Selects(c, v) ==
  IF c = Any THEN ~IsPreRelease(v)
  ELSE /\ IsPreRelease(v) => IsPreRelease(c.version)
       /\ Compare(c.op, PaddingVersion[v], PaddingVersion[c.version])

\* generateWhere.
Condition(range) ==
  {v \in Version : \E alternative \in range : \A c \in alternative : Selects(c, v)}

ContainPreRelease(range) ==
  \E alternative \in range : \E c \in alternative \ {Any} : IsPreRelease(c.version)

\* A range with all that is computed of it once.
SqlRange(range) ==
  [range |-> range, isTag |-> range = TagRange, inRange |-> InRange(range),
   condition |-> Condition(range), containPreRelease |-> ContainPreRelease(range)]

SqlRanges == {SqlRange(range) : range \in Asked}

\* A column without a value is in no condition.
PaddedVersions == {rows[id].version : id \in {i \in DOMAIN rows : rows[i].padded}}
Found(r) == PaddedVersions \cap r.condition

\* The first of the versions by paddingVersion.
FindMaxSatisfyVersion(r) ==
  LET found == Found(r)
  IN IF found = {} THEN {None}
     ELSE {v \in found : \A w \in found : ~LexLess(PaddingVersion[v], PaddingVersion[w])}

\* PackageVersionService.getVersion of a range.
GetVersion(r) ==
  IF r.isTag /\ tag # None THEN {tag}
  ELSE IF r.containPreRelease THEN {Highest(Found(r) \cap r.inRange)}
  ELSE FindMaxSatisfyVersion(r)

-----------------------------------------------------------------------------
\* Old rows, of which none is padded.
ResolutionInit ==
  /\ lastId \in 0..MaxOld
  /\ rows \in {r \in [1..lastId -> [version : Version, padded : {FALSE}]] :
                 \A i, j \in 1..lastId : i # j => r[i].version # r[j].version}
  /\ tag \in {None, CHOOSE v \in Version : v # Invalid}
  /\ fix = NoFix

Ids == DOMAIN rows
Padded(ids) == [i \in Ids |-> IF i \in ids THEN [rows[i] EXCEPT !.padded = TRUE] ELSE rows[i]]

\* The entity and the hook of the model fill in the padding.
PublishVersion(v) ==
  /\ lastId < MaxId /\ \A i \in Ids : rows[i].version # v
  /\ lastId' = lastId + 1
  /\ rows' = [i \in Ids \cup {lastId + 1} |->
                IF i \in Ids THEN rows[i] ELSE [version |-> v, padded |-> TRUE]]
  /\ UNCHANGED <<tag, fix>>

\* Any save of an old row fills it in, too.
SaveRow(id) ==
  /\ rows' = Padded({id})
  /\ UNCHANGED <<lastId, tag, fix>>

RemoveRow(id) ==
  /\ rows' = [i \in Ids \ {id} |-> rows[i]]
  /\ UNCHANGED <<lastId, tag, fix>>

-----------------------------------------------------------------------------
(* FixNoPaddingVersionService *)

FixIs(next) == fix' = next /\ UNCHANGED <<rows, lastId, tag>>

\* An administrator may give the first id.
FixStart(first) ==
  /\ fix.pc \in {"idle", "done"}
  /\ FixIs([pc |-> "find", first |-> first, id |-> first, page |-> {}])

\* Else it is the first row without padding; without one there is nothing to do.
FixFirst ==
  /\ fix.pc \in {"idle", "done"}
  /\ LET missing == {i \in Ids : ~rows[i].padded}
     IN IF missing = {} THEN FixIs([NoFix EXCEPT !.pc = "done"])
        ELSE \E id \in missing :
               /\ \A i \in missing : id <= i
               /\ FixIs([NoFix EXCEPT !.pc = "find", !.id = id])

\* Rows from an id on, in the order of the primary key.
NextPage ==
  LET from == {i \in Ids : i >= fix.id}
  IN {i \in from : Cardinality({j \in from : j < i}) < Page}

\* To be fixed now; the next page begins after the last of them.
Update(page) ==
  \E last \in page :
    /\ \A i \in page : i <= last
    /\ FixIs([fix EXCEPT !.pc = "update", !.page = page, !.id = last + 1])

\* Mutant: a page that is not full is taken for the end.
FindPageUntilShort ==
  /\ fix.pc = "find"
  /\ IF Cardinality(NextPage) < Page THEN FixIs([fix EXCEPT !.pc = "done"])
     ELSE Update(NextPage)

FindPage ==
  /\ fix.pc = "find"
  /\ IF NextPage = {} THEN FixIs([fix EXCEPT !.pc = "done"])
     ELSE Update(NextPage)

\* pMap: the rows of a page in any order; one that is gone is not updated.
FixRow(id) ==
  /\ fix.pc = "update" /\ id \in fix.page
  /\ rows' = Padded({id})
  /\ fix' = [fix EXCEPT !.page = @ \ {id}, !.pc = IF fix.page = {id} THEN "find" ELSE @]
  /\ UNCHANGED <<lastId, tag>>

\* The database fails, or the process dies.
FixFails ==
  /\ fix.pc \in {"find", "update"}
  /\ FixIs(NoFix)

FixStep ==
  \/ \E id \in 1..MaxId : FixStart(id) \/ FixRow(id)
  \/ FixFirst \/ FindPage \/ FixFails

ResolutionNext ==
  \/ \E v \in Version : PublishVersion(v)
  \/ \E id \in Ids : SaveRow(id) \/ RemoveRow(id)
  \/ FixStep

ResolutionSpec == ResolutionInit /\ [][ResolutionNext]_resolutionVars

-----------------------------------------------------------------------------
(* Properties *)

\* The ranges npm makes of ^, ~, x and of releases, and exact prereleases: a
\* strict comparator names a release, or is below the first prerelease of one,
\* and an alternative names prereleases in all its comparators or in none.  Of
\* others the condition leaves out versions that are in the range: of
\* >1.10.0-1 the release 1.10.0, of >=1.10.0-1 <=2.0.0 the version 1.10.0-2.
Below(c) == c.op = "<" /\ c.version.pre = 0
Usual(range) ==
  \A alternative \in range :
    LET pre == {c \in alternative \ {Any} : IsPreRelease(c.version) /\ ~Below(c)}
    IN /\ \A c \in pre : c.op \notin {"<", ">"}
       /\ pre # {} => \A c \in alternative : c # Any /\ IsPreRelease(c.version)

UsualRanges == {r \in SqlRanges : Usual(r.range)}

\* What a range is answered with is in the range and the package has it; and it
\* is the highest version semver would find, among the rows that are padded, if
\* the range is one of the usual.  Only a tag comes first.
RangeAnswered ==
  /\ \A r \in SqlRanges : tag = None \/ ~r.isTag =>
       GetVersion(r) \subseteq {None} \cup (PaddedVersions \cap r.inRange)
  /\ \A r \in UsualRanges : tag = None \/ ~r.isTag =>
       GetVersion(r) = {Highest(PaddedVersions \cap r.inRange)}

\* When rows were fixed to the end, none is without padding, from the first id
\* on; whatever was published and removed meanwhile.
FixReaches ==
  fix.pc = "done" => \A i \in Ids : i >= fix.first => rows[i].padded
=============================================================================
