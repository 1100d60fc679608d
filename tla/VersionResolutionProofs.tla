----------------------- MODULE VersionResolutionProofs ----------------------
(***************************************************************************)
(* A request to fix rows leaves none behind, for any versions, page size   *)
(* and number of rows: FixReaches follows from FixInductive.  What a range *)
(* is answered with depends on the rows of a moment only, and on padded    *)
(* numbers having the order of the numbers: RangeAnswered holds of any     *)
(* state.                                                                  *)
(***************************************************************************)
EXTENDS VersionResolution, WellFoundedInduction, FiniteSetTheorems, SequenceTheorems, TLAPS

FixTypes ==
  /\ lastId \in Nat
  /\ Ids \subseteq 1..lastId
  /\ \A i \in Ids : rows[i] \in [version : Version, padded : BOOLEAN]
  /\ fix \in [pc : {"idle", "find", "update", "done"}, first : Nat, id : Nat, page : SUBSET Nat]

\* What lies between the first row and the next page is fixed, but for the rows
\* of the page that are still to be.
FixedBehind ==
  /\ fix.pc = "find" => fix.page = {}
  /\ fix.pc \in {"find", "update"} =>
       \A i \in Ids : fix.first <= i /\ i < fix.id /\ i \notin fix.page => rows[i].padded

FixInductive == FixTypes /\ FixedBehind /\ FixReaches

LEMMA IdsAreNumbers ==
  ASSUME FixTypes
  PROVE  \A i \in Ids : i \in Nat
  BY DEF FixTypes

-----------------------------------------------------------------------------
(* Pages *)

\* The rows of a page are all the rows from fix.id up to the last of it.
LEMMA PageIsInitial ==
  ASSUME FixTypes, NEW last \in NextPage, NEW i \in Ids, fix.id <= i, i <= last
  PROVE  i \in NextPage
<1> DEFINE from == {k \in Ids : k >= fix.id}
           before(k) == {j \in from : j < k}
<1>1. IsFiniteSet(from)
  <2>1. IsFiniteSet(1..lastId)
    BY FS_Interval DEF FixTypes
  <2> QED BY <2>1, FS_Subset DEF FixTypes
<1>2. last \in from /\ Cardinality(before(last)) < Page
  BY DEF NextPage
<1>3. IsFiniteSet(before(last))
  BY <1>1, FS_Subset
<1>4. before(i) \subseteq before(last)
  <2>1. ASSUME NEW j \in from, j < i PROVE j < last
    BY <1>2, <2>1, IdsAreNumbers
  <2> QED BY <2>1
<1>5. /\ Cardinality(before(i)) <= Cardinality(before(last))
      /\ Cardinality(before(i)) \in Nat /\ Cardinality(before(last)) \in Nat
  BY <1>3, <1>4, FS_Subset, FS_CardinalityType
<1>6. Cardinality(before(i)) < Page
  BY <1>2, <1>5, VersionAssumption
<1>7. i \in from
  OBVIOUS
<1> QED BY <1>6, <1>7 DEF NextPage

\* A set of numbers that is not empty has a least one.
LEMMA FirstExists ==
  ASSUME NEW S \in SUBSET Nat, S # {}
  PROVE  \E i \in S : \A j \in S : i <= j
<1>1. PICK i \in S : \A j \in S : ~(<<j, i>> \in OpToRel(<, Nat))
  BY WFMin, NatLessThanWellFounded, Zenon
<1>2. ASSUME NEW j \in S
      PROVE  i <= j
  <2>1. ~(<<j, i>> \in OpToRel(<, Nat)) /\ i \in Nat /\ j \in Nat
    BY <1>1
  <2> QED BY <2>1 DEF OpToRel
<1> QED BY <1>2

\* An empty page is behind all rows.
LEMMA EmptyPage ==
  ASSUME FixTypes, NextPage = {}
  PROVE  \A i \in Ids : i < fix.id
<1> DEFINE from == {k \in Ids : k >= fix.id}
<1>1. SUFFICES ASSUME from # {} PROVE FALSE
  <2>1. from = {} => \A i \in Ids : ~(i >= fix.id)
    OBVIOUS
  <2>2. fix.id \in Nat
    BY DEF FixTypes
  <2> QED BY <2>1, <2>2, IdsAreNumbers
<1>2. PICK i \in from : \A j \in from : i <= j
  <2>1. from \in SUBSET Nat
    BY IdsAreNumbers
  <2> HIDE DEF from
  <2> QED BY <1>1, <2>1, FirstExists
<1>3. {j \in from : j < i} = {}
  <2>1. ASSUME NEW j \in from PROVE ~(j < i)
    BY <1>2, IdsAreNumbers
  <2> QED BY <2>1
<1>4. Cardinality({j \in from : j < i}) = 0
  BY <1>3, FS_EmptySet
<1>5. i \in NextPage
  BY <1>2, <1>4, VersionAssumption DEF NextPage
<1> QED BY <1>5

-----------------------------------------------------------------------------
(* Steps *)

LEMMA InitFix == ResolutionInit => FixInductive
<1> SUFFICES ASSUME ResolutionInit PROVE FixInductive
  OBVIOUS
<1>1. lastId \in Nat
  BY VersionAssumption DEF ResolutionInit
<1>2. rows \in [1..lastId -> [version : Version, padded : {FALSE}]]
  BY DEF ResolutionInit
<1>3. Ids = 1..lastId /\ \A i \in Ids : rows[i] \in [version : Version, padded : BOOLEAN]
  BY <1>2 DEF Ids
<1> QED BY <1>1, <1>3 DEF ResolutionInit, FixInductive, FixTypes, FixedBehind, FixReaches, NoFix

LEMMA PublishStep ==
  ASSUME FixInductive, NEW v \in Version, PublishVersion(v)
  PROVE  FixInductive'
<1> USE DEF FixInductive, PublishVersion
<1>1. DOMAIN rows' = Ids \cup {lastId + 1} /\ rows'[lastId + 1] = [version |-> v, padded |-> TRUE]
  BY DEF FixTypes, Ids
<1>2. \A i \in Ids : rows'[i] = rows[i]
  OBVIOUS
<1>3. FixTypes'
  BY <1>1, <1>2 DEF FixTypes, Ids
<1> QED BY <1>1, <1>2, <1>3 DEF FixTypes, FixedBehind, FixReaches, Ids

LEMMA PaddedRows ==
  ASSUME FixTypes, NEW ids, rows' = Padded(ids)
  PROVE  /\ Ids' = Ids
         /\ \A i \in Ids : rows'[i] \in [version : Version, padded : BOOLEAN]
         /\ \A i \in Ids : rows'[i].padded = (i \in ids \/ rows[i].padded)
  BY DEF FixTypes, Padded, Ids

LEMMA SaveStep ==
  ASSUME FixInductive, NEW id, SaveRow(id)
  PROVE  FixInductive'
<1>1. FixTypes' 
  BY PaddedRows DEF FixInductive, SaveRow, FixTypes
<1> QED BY <1>1, PaddedRows DEF FixInductive, SaveRow, FixedBehind, FixReaches

LEMMA RemoveStep ==
  ASSUME FixInductive, NEW id, RemoveRow(id)
  PROVE  FixInductive'
  BY DEF FixInductive, FixTypes, FixedBehind, FixReaches, RemoveRow, Ids

LEMMA FixStartStep ==
  ASSUME FixInductive, NEW first \in Nat, FixStart(first)
  PROVE  FixInductive'
  BY DEF FixInductive, FixTypes, FixedBehind, FixReaches, FixStart, FixIs, Ids

\* Nothing before the first row without padding is to be done.
LEMMA FixFirstStep ==
  ASSUME FixInductive, FixFirst
  PROVE  FixInductive'
<1> DEFINE missing == {i \in Ids : ~rows[i].padded}
<1>1. CASE missing = {}
  BY <1>1 DEF FixInductive, FixTypes, FixedBehind, FixReaches, FixFirst, FixIs, NoFix, Ids
<1>2. CASE missing # {}
  <2>1. PICK id \in missing : /\ \A i \in missing : id <= i
                              /\ FixIs([NoFix EXCEPT !.pc = "find", !.id = id])
    BY <1>2 DEF FixFirst
  <2>2. id \in Nat
    BY <2>1, IdsAreNumbers DEF FixInductive
  <2>3. /\ fix' = [pc |-> "find", first |-> 0, id |-> id, page |-> {}]
        /\ Ids' = Ids /\ rows' = rows /\ lastId' = lastId
    BY <2>1 DEF FixIs, NoFix, Ids
  <2>4. FixTypes'
    BY <2>2, <2>3 DEF FixInductive, FixTypes
  <2>5. FixedBehind'
    <3>1. SUFFICES ASSUME NEW i \in Ids, i < id PROVE rows[i].padded
      BY <2>3 DEF FixedBehind
    <3> QED BY <2>1, <2>2, <3>1, IdsAreNumbers DEF FixInductive
  <2> QED BY <2>3, <2>4, <2>5 DEF FixInductive, FixReaches
<1> QED BY <1>1, <1>2

LEMMA FindPageStep ==
  ASSUME FixInductive, FindPage
  PROVE  FixInductive'
<1>1. CASE NextPage = {}
  <2>1. \A i \in Ids : i < fix.id
    BY <1>1, EmptyPage DEF FixInductive
  <2> QED BY <1>1, <2>1 DEF FixInductive, FixTypes, FixedBehind, FixReaches, FindPage, FixIs, Ids
<1>2. CASE NextPage # {}
  <2>1. PICK last \in NextPage :
          /\ \A i \in NextPage : i <= last
          /\ FixIs([fix EXCEPT !.pc = "update", !.page = NextPage, !.id = last + 1])
    BY <1>2 DEF FindPage, Update
  <2>2. NextPage \subseteq Ids /\ Ids \subseteq Nat
    BY DEF NextPage, FixInductive, FixTypes
  <2>3. FixTypes' /\ fix' = [fix EXCEPT !.pc = "update", !.page = NextPage, !.id = last + 1]
    <3>1. /\ fix' = [fix EXCEPT !.pc = "update", !.page = NextPage, !.id = last + 1]
          /\ Ids' = Ids /\ rows' = rows /\ lastId' = lastId
      BY <2>1 DEF FixIs, Ids
    <3>2. NextPage \in SUBSET Nat /\ last + 1 \in Nat
      BY <2>2
    <3> HIDE DEF NextPage
    <3> QED BY <3>1, <3>2 DEF FixInductive, FixTypes
  <2>4. FixedBehind'
    <3>1. SUFFICES ASSUME NEW i \in Ids, fix.first <= i, i < last + 1, i \notin NextPage
                   PROVE  rows[i].padded
      BY <2>1, <2>3 DEF FixedBehind, FixIs, Ids, FixInductive, FixTypes
    <3>2. ~(fix.id <= i)
      BY <2>1, <2>2, <3>1, PageIsInitial DEF FixInductive
    <3> QED BY <2>2, <3>1, <3>2 DEF FixInductive, FixedBehind, FixTypes, FindPage
  <2> QED BY <2>3, <2>4 DEF FixInductive, FixReaches, FixTypes
<1> QED BY <1>1, <1>2

LEMMA FixRowStep ==
  ASSUME FixInductive, NEW id, FixRow(id)
  PROVE  FixInductive'
<1>1. FixTypes'
  BY PaddedRows DEF FixInductive, FixRow, FixTypes
<1>2. FixedBehind' /\ FixReaches'
  BY PaddedRows DEF FixInductive, FixRow, FixTypes, FixedBehind, FixReaches
<1> QED BY <1>1, <1>2 DEF FixInductive

LEMMA FixFailsStep ==
  ASSUME FixInductive, FixFails
  PROVE  FixInductive'
  BY DEF FixInductive, FixTypes, FixedBehind, FixReaches, FixFails, FixIs, NoFix, Ids

LEMMA ResolutionStep == FixInductive /\ [ResolutionNext]_resolutionVars => FixInductive'
<1> SUFFICES ASSUME FixInductive, [ResolutionNext]_resolutionVars PROVE FixInductive'
  OBVIOUS
<1>1. CASE \E v \in Version : PublishVersion(v)
  BY <1>1, PublishStep
<1>2. CASE \E id \in Ids : SaveRow(id) \/ RemoveRow(id)
  BY <1>2, SaveStep, RemoveStep
<1>3. CASE \E id \in 1..MaxId : FixStart(id) \/ FixRow(id)
  BY <1>3, FixStartStep, FixRowStep, VersionAssumption
<1>4. CASE FixFirst \/ FindPage \/ FixFails
  BY <1>4, FixFirstStep, FindPageStep, FixFailsStep
<1>5. CASE UNCHANGED resolutionVars
  BY <1>5 DEF resolutionVars, FixInductive, FixTypes, FixedBehind, FixReaches, Ids
<1> QED BY <1>1, <1>2, <1>3, <1>4, <1>5 DEF ResolutionNext, FixStep

-----------------------------------------------------------------------------
\* Whatever is published and removed while old rows are fixed, page by page, a
\* request that came to its end left none of them without padding
\* (FixNoPaddingVersionService).
THEOREM FixLeavesNone == ResolutionSpec => []FixReaches
<1>1. FixInductive => FixReaches
  BY DEF FixInductive
<1> QED BY InitFix, ResolutionStep, <1>1, PTL DEF ResolutionSpec

-----------------------------------------------------------------------------
(* The digits of a number *)

\* Induction over the natural numbers, for sets.
LEMMA Induct ==
  ASSUME NEW S \in SUBSET Nat, 0 \in S, \A n \in S : n + 1 \in S
  PROVE  S = Nat
<1>1. ASSUME Nat \ S # {} PROVE FALSE
  <2>1. PICK m \in Nat \ S : \A j \in Nat \ S : m <= j
    BY <1>1, FirstExists
  <2>2. m # 0 /\ m - 1 \in Nat /\ m - 1 \notin Nat \ S
    BY <2>1
  <2>3. (m - 1) + 1 \in S
    BY <2>2
  <2> QED BY <2>1, <2>3
<1> QED BY <1>1

\* Taking off digits one at a time can be done as often as wanted.
LEMMA WithoutExists ==
  ASSUME NEW n \in Nat, NEW w \in Nat
  PROVE  \E f : f = [k \in 0..w |-> IF k = 0 THEN n ELSE f[k - 1] \div 10]
<1> DEFINE Does(f, m) == f = [k \in 0..m |-> IF k = 0 THEN n ELSE f[k - 1] \div 10]
           S == {m \in Nat : \E f : Does(f, m)}
<1>1. 0 \in S
  <2>1. Does([k \in 0..0 |-> n], 0)
    OBVIOUS
  <2> QED BY <2>1
<1>2. ASSUME NEW m \in S PROVE m + 1 \in S
  <2>1. PICK f : Does(f, m)
    OBVIOUS
  <2> DEFINE g == [k \in 0..(m + 1) |-> IF k <= m THEN f[k] ELSE f[m] \div 10]
  <2>2. Does(g, m + 1)
    <3>1. ASSUME NEW k \in 0..(m + 1)
          PROVE  g[k] = IF k = 0 THEN n ELSE g[k - 1] \div 10
      <4>1. CASE k = 0
        BY <2>1, <4>1
      <4>2. CASE k # 0 /\ k <= m
        <5>1. k \in 0..m /\ k - 1 \in 0..(m + 1) /\ k - 1 <= m
          BY <4>2
        <5>2. g[k] = f[k] /\ g[k - 1] = f[k - 1]
          BY <5>1
        <5>3. f[k] = f[k - 1] \div 10
          BY <2>1, <4>2, <5>1
        <5> QED BY <4>2, <5>2, <5>3
      <4>3. CASE k = m + 1
        <5>1. k # 0 /\ k - 1 = m /\ ~(k <= m) /\ m \in 0..(m + 1) /\ m <= m
          BY <4>3
        <5> QED BY <5>1
      <4> QED BY <4>1, <4>2, <4>3
    <3> HIDE DEF g
    <3>2. g = [k \in 0..(m + 1) |-> g[k]]
      BY DEF g
    <3> QED BY <3>1, <3>2
  <2> HIDE DEF g
  <2>3. m + 1 \in Nat /\ \E h : Does(h, m + 1)
    BY <2>2
  <2> QED BY <2>3
<1> HIDE DEF S
<1>3. S = Nat
  <2>1. S \in SUBSET Nat
    BY DEF S
  <2> QED BY <1>1, <1>2, <2>1, Induct
<1> QED BY <1>3 DEF S

\* What is left of a number without its last digits.
LEMMA WithoutIs ==
  ASSUME NEW n \in Nat
  PROVE  /\ Without(n)[0] = n
         /\ \A k \in 1..Width : Without(n)[k] = Without(n)[k - 1] \div 10
<1> DEFINE Does(f) == f = [k \in 0..Width |-> IF k = 0 THEN n ELSE f[k - 1] \div 10]
<1>1. Width \in Nat
  BY VersionAssumption
<1>2. \E f : Does(f)
  BY <1>1, WithoutExists
<1>3. Without(n) = CHOOSE f : Does(f)
  BY DEF Without
<1>4. Does(Without(n))
  BY <1>2, <1>3, Zenon
<1> QED BY <1>1, <1>4

LEMMA WithoutTypes ==
  ASSUME NEW n \in Nat, NEW k \in 0..Width
  PROVE  Without(n)[k] \in Nat
<1> DEFINE S == {j \in Nat : j <= Width => Without(n)[j] \in Nat}
<1>1. Width \in Nat
  BY VersionAssumption
<1>2. 0 \in S
  BY WithoutIs
<1>3. ASSUME NEW j \in S PROVE j + 1 \in S
  <2>1. CASE j + 1 <= Width
    <3>1. j + 1 \in 1..Width /\ (j + 1) - 1 = j /\ j <= Width /\ j \in Nat
      BY <1>1, <2>1
    <3>2. Without(n)[j + 1] = Without(n)[j] \div 10 /\ Without(n)[j] \in Nat
      BY <3>1, WithoutIs
    <3> QED BY <3>1, <3>2
  <2>2. CASE ~(j + 1 <= Width)
    BY <2>2
  <2> QED BY <2>1, <2>2
<1> HIDE DEF S
<1>4. S = Nat
  <2>1. S \in SUBSET Nat
    BY DEF S
  <2> QED BY <1>2, <1>3, <2>1, Induct
<1> QED BY <1>1, <1>4 DEF S

\* A larger number has at least as much left.
LEMMA WithoutGrows ==
  ASSUME NEW m \in Nat, NEW n \in Nat, m <= n, NEW k \in 0..Width
  PROVE  Without(m)[k] <= Without(n)[k]
<1> DEFINE S == {j \in Nat : j <= Width => Without(m)[j] <= Without(n)[j]}
<1>1. Width \in Nat
  BY VersionAssumption
<1>2. 0 \in S
  BY WithoutIs
<1>3. ASSUME NEW j \in S PROVE j + 1 \in S
  <2>1. CASE j + 1 <= Width
    <3>1. j + 1 \in 1..Width /\ (j + 1) - 1 = j /\ j <= Width /\ j \in Nat /\ j \in 0..Width
      BY <1>1, <2>1
    <3>2. /\ Without(n)[j + 1] = Without(n)[j] \div 10 /\ Without(n)[j] \in Nat
          /\ Without(m)[j + 1] = Without(m)[j] \div 10 /\ Without(m)[j] \in Nat
          /\ Without(m)[j] <= Without(n)[j]
      BY <3>1, WithoutIs, WithoutTypes
    <3>3. ASSUME NEW a \in Nat, NEW b \in Nat, a <= b PROVE a \div 10 <= b \div 10
      BY <3>3
    <3> QED BY <3>1, <3>2, <3>3
  <2>2. CASE ~(j + 1 <= Width)
    BY <2>2
  <2> QED BY <2>1, <2>2
<1> HIDE DEF S
<1>4. S = Nat
  <2>1. S \in SUBSET Nat
    BY DEF S
  <2> QED BY <1>2, <1>3, <2>1, Induct
<1> QED BY <1>1, <1>4 DEF S

\* A number up to the largest has no more than Width digits.
LEMMA DigitsTypes ==
  ASSUME NEW n \in 0..Largest
  PROVE  Digits(n) \in [1..Width -> Nat] /\ Without(n)[Width] = 0
<1>1. Width \in Nat /\ Largest \in Nat /\ n \in Nat /\ n <= Largest /\ Width \in 0..Width
  BY VersionAssumption
<1>2. ASSUME NEW i \in 1..Width PROVE Without(n)[Width - i] % 10 \in Nat
  <2>1. Width - i \in 0..Width
    BY <1>1
  <2>2. Without(n)[Width - i] \in Nat
    BY <1>1, <2>1, WithoutTypes
  <2> QED BY <2>2
<1>3. Without(n)[Width] = 0
  <2>1. Without(n)[Width] <= Without(Largest)[Width] /\ Without(n)[Width] \in Nat
    BY <1>1, WithoutGrows, WithoutTypes
  <2> QED BY <2>1, VersionAssumption
<1> QED BY <1>2, <1>3 DEF Digits

\* A smaller number has the smaller digit where the two differ first.
LEMMA DigitsLess ==
  ASSUME NEW m \in 0..Largest, NEW n \in 0..Largest, m < n
  PROVE  \E i \in 1..Width : /\ Digits(m)[i] < Digits(n)[i]
                             /\ \A j \in 1..(i - 1) : Digits(m)[j] = Digits(n)[j]
<1> DEFINE S == {i \in 1..Width : Without(m)[Width - i] # Without(n)[Width - i]}
<1>1. Width \in Nat \ {0} /\ Largest \in Nat /\ m \in Nat /\ n \in Nat /\ m <= n
  BY VersionAssumption
<1>2. Width \in S
  <2>1. Without(m)[0] = m /\ Without(n)[0] = n
    BY <1>1, WithoutIs
  <2>2. Width - Width = 0 /\ Width \in 1..Width
    BY <1>1
  <2> QED BY <1>1, <2>1, <2>2
<1>3. PICK i \in S : \A j \in S : i <= j
  <2>1. S \in SUBSET Nat
    BY <1>1
  <2>2. S # {}
    BY <1>2
  <2> HIDE DEF S
  <2> QED BY <2>1, <2>2, FirstExists
<1>4. \A j \in 0..(i - 1) : Without(m)[Width - j] = Without(n)[Width - j]
  <2>1. ASSUME NEW j \in 0..(i - 1) PROVE Without(m)[Width - j] = Without(n)[Width - j]
    <3>1. CASE j = 0
      BY <1>1, <3>1, DigitsTypes
    <3>2. CASE j # 0
      BY <1>1, <1>3, <3>2
    <3> QED BY <3>1, <3>2
  <2> QED BY <2>1
<1>5. Digits(m)[i] < Digits(n)[i]
  <2>1. PICK a, b : a = Without(m)[Width - i] /\ b = Without(n)[Width - i]
    OBVIOUS
  <2>2. a \in Nat /\ b \in Nat /\ a < b
    <3>1. Width - i \in 0..Width
      BY <1>1, <1>3
    <3>2. a \in Nat /\ b \in Nat /\ a <= b
      BY <1>1, <2>1, <3>1, WithoutTypes, WithoutGrows
    <3> QED BY <1>3, <2>1, <3>2
  <2>3. a \div 10 = b \div 10
    <3>1. Width - (i - 1) \in 1..Width /\ (Width - (i - 1)) - 1 = Width - i /\ i - 1 \in 0..(i - 1)
      BY <1>1, <1>3
    <3>2. /\ Without(m)[Width - (i - 1)] = Without(m)[Width - i] \div 10
          /\ Without(n)[Width - (i - 1)] = Without(n)[Width - i] \div 10
      BY <1>1, <3>1, WithoutIs
    <3> QED BY <1>4, <2>1, <3>1, <3>2
  <2>4. Digits(m)[i] = a % 10 /\ Digits(n)[i] = b % 10
    BY <2>1 DEF Digits
  <2>5. ASSUME NEW x \in Nat, NEW y \in Nat, x < y, x \div 10 = y \div 10
        PROVE  x % 10 < y % 10
    BY <2>5
  <2> QED BY <2>2, <2>3, <2>4, <2>5
<1>6. ASSUME NEW j \in 1..(i - 1) PROVE Digits(m)[j] = Digits(n)[j]
  <2>1. j \in 1..Width /\ j \in 0..(i - 1)
    BY <1>1, <1>3
  <2> QED BY <1>4, <2>1 DEF Digits
<1> QED BY <1>3, <1>5, <1>6

-----------------------------------------------------------------------------
(* The lexicographic order *)

Text(n) == {s \in Seq(Int) : Len(s) = n}

\* Of texts of one length the smaller has the smaller letter where they differ first.
LEMMA LexIs ==
  ASSUME NEW n \in Nat, NEW s \in Text(n), NEW t \in Text(n)
  PROVE  LexLess(s, t) <=> \E i \in 1..n : s[i] < t[i] /\ \A j \in 1..(i - 1) : s[j] = t[j]
<1>1. Len(s) = n /\ Len(t) = n
  BY DEF Text
<1>2. \A i \in 1..n : ~(i > n) /\ \A j \in 1..(i - 1) : j <= n
  OBVIOUS
<1>3. LexLess(s, t) <=>
        \E i \in 1..n :
          /\ \A j \in 1..(i - 1) : j <= n /\ s[j] = t[j]
          /\ i > n \/ s[i] < t[i]
  BY <1>1 DEF LexLess
<1> QED BY <1>2, <1>3

\* A function on 1..n is a text.
LEMMA IsText ==
  ASSUME NEW n \in Nat, NEW f \in [1..n -> Int]
  PROVE  f \in Seq(Int) /\ Len(f) = n /\ f \in Text(n)
<1>1. f \in Seq(Int) /\ Len(f) = n
  OBVIOUS
<1> QED BY <1>1 DEF Text

\* No two texts are each before the other, and none is before itself.
LEMMA LexOneWay ==
  ASSUME NEW n \in Nat, NEW s \in Text(n), NEW t \in Text(n), LexLess(s, t)
  PROVE  ~LexLess(t, s) /\ s # t
<1>1. PICK i \in 1..n : s[i] < t[i] /\ \A j \in 1..(i - 1) : s[j] = t[j]
  BY LexIs
<1>2. \A k \in 1..n : s[k] \in Int /\ t[k] \in Int
  BY DEF Text
<1>3. ASSUME NEW k \in 1..n, t[k] < s[k], \A j \in 1..(k - 1) : t[j] = s[j]
      PROVE  FALSE
  <2>1. CASE k < i
    BY <1>1, <1>2, <1>3, <2>1
  <2>2. CASE i < k
    BY <1>1, <1>2, <1>3, <2>2
  <2>3. CASE i = k
    BY <1>1, <1>2, <1>3, <2>3
  <2> QED BY <2>1, <2>2, <2>3
<1>4. ~LexLess(t, s)
  BY <1>3, LexIs
<1>5. s # t
  BY <1>1, <1>2
<1> QED BY <1>4, <1>5

\* Three numbers and what comes after them.
LEMMA ThreeOrder ==
  ASSUME NEW a \in [1..3 -> Int], NEW b \in [1..3 -> Int], NEW x \in Int, NEW y \in Int
  PROVE  /\ Append(a, x) \in Text(4) /\ Append(b, y) \in Text(4) /\ a \in Text(3) /\ b \in Text(3)
         /\ LexLess(Append(a, x), Append(b, y)) <=> LexLess(a, b) \/ (a = b /\ x < y)
         /\ LexLess(a, b) \/ LexLess(b, a) \/ a = b
<1>1. a \in Seq(Int) /\ b \in Seq(Int) /\ Len(a) = 3 /\ Len(b) = 3
  BY IsText
<1>2. a \in Text(3) /\ b \in Text(3)
  BY <1>1 DEF Text
<1> DEFINE s == Append(a, x)
           t == Append(b, y)
<1>3. /\ s \in Seq(Int) /\ t \in Seq(Int) /\ Len(s) = 4 /\ Len(t) = 4
      /\ s[1] = a[1] /\ s[2] = a[2] /\ s[3] = a[3] /\ s[4] = x
      /\ t[1] = b[1] /\ t[2] = b[2] /\ t[3] = b[3] /\ t[4] = y
  <2>1. ASSUME NEW c \in Seq(Int), Len(c) = 3, NEW z \in Int
        PROVE  /\ Append(c, z) \in Seq(Int) /\ Len(Append(c, z)) = 4
               /\ \A k \in 1..3 : Append(c, z)[k] = c[k]
               /\ Append(c, z)[4] = z
    <3>1. Append(c, z) \in Seq(Int) /\ Len(Append(c, z)) = Len(c) + 1
      BY AppendProperties
    <3>2. \A k \in 1..Len(c) : Append(c, z)[k] = c[k]
      BY AppendProperties
    <3>3. Append(c, z)[Len(c) + 1] = z
      BY AppendProperties
    <3> QED BY <2>1, <3>1, <3>2, <3>3
  <2> QED BY <1>1, <2>1
<1>4. s \in Text(4) /\ t \in Text(4)
  BY <1>3 DEF Text
<1> HIDE DEF s, t
<1>5. a = b <=> a[1] = b[1] /\ a[2] = b[2] /\ a[3] = b[3]
  <2>1. ASSUME a[1] = b[1] /\ a[2] = b[2] /\ a[3] = b[3] PROVE a = b
    <3>1. \A k \in 1..3 : k = 1 \/ k = 2 \/ k = 3
      OBVIOUS
    <3> QED BY <2>1, <3>1
  <2> QED BY <2>1
<1>6. LexLess(a, b) <=> \/ a[1] < b[1]
                        \/ a[1] = b[1] /\ a[2] < b[2]
                        \/ a[1] = b[1] /\ a[2] = b[2] /\ a[3] < b[3]
  <2>1. LexLess(a, b) <=> \E i \in 1..3 : a[i] < b[i] /\ \A j \in 1..(i - 1) : a[j] = b[j]
    BY <1>2, LexIs
  <2> QED BY <2>1
<1>7. LexLess(b, a) <=> \/ b[1] < a[1]
                        \/ a[1] = b[1] /\ b[2] < a[2]
                        \/ a[1] = b[1] /\ a[2] = b[2] /\ b[3] < a[3]
  <2>1. LexLess(b, a) <=> \E i \in 1..3 : b[i] < a[i] /\ \A j \in 1..(i - 1) : b[j] = a[j]
    BY <1>2, LexIs
  <2> QED BY <2>1
<1>8. LexLess(s, t) <=> \/ s[1] < t[1]
                        \/ s[1] = t[1] /\ s[2] < t[2]
                        \/ s[1] = t[1] /\ s[2] = t[2] /\ s[3] < t[3]
                        \/ s[1] = t[1] /\ s[2] = t[2] /\ s[3] = t[3] /\ s[4] < t[4]
  <2>1. LexLess(s, t) <=> \E i \in 1..4 : s[i] < t[i] /\ \A j \in 1..(i - 1) : s[j] = t[j]
    BY <1>4, LexIs
  <2> QED BY <2>1
<1>9. LexLess(s, t) <=> LexLess(a, b) \/ (a = b /\ x < y)
  BY <1>3, <1>5, <1>6, <1>8
<1>10. LexLess(a, b) \/ LexLess(b, a) \/ a = b
  <2>1. a[1] \in Int /\ a[2] \in Int /\ a[3] \in Int /\ b[1] \in Int /\ b[2] \in Int /\ b[3] \in Int
    OBVIOUS
  <2> QED BY <1>5, <1>6, <1>7, <2>1
<1> QED BY <1>2, <1>4, <1>9, <1>10 DEF s, t

-----------------------------------------------------------------------------
(* The padding keeps the order of the numbers *)

Numbers == [1..3 -> 0..Largest]
Pad(a) == Digits(a[1]) \o Digits(a[2]) \o Digits(a[3])

\* What joining two texts makes.
LEMMA Joined ==
  ASSUME NEW s \in Seq(Int), NEW t \in Seq(Int)
  PROVE  /\ s \o t \in Seq(Int) /\ Len(s \o t) = Len(s) + Len(t)
         /\ \A i \in 1..(Len(s) + Len(t)) : (s \o t)[i] = IF i <= Len(s) THEN s[i] ELSE t[i - Len(s)]
BY ConcatProperties

\* Where the digits of each number are.
LEMMA PadIs ==
  ASSUME NEW a \in Numbers
  PROVE  /\ Pad(a) \in Text(3 * Width)
         /\ \A i \in 1..Width : /\ Pad(a)[i] = Digits(a[1])[i]
                                /\ Pad(a)[Width + i] = Digits(a[2])[i]
                                /\ Pad(a)[2 * Width + i] = Digits(a[3])[i]
<1> DEFINE s == Digits(a[1])
           t == Digits(a[2])
           u == Digits(a[3])
<1>1. Width \in Nat
  BY VersionAssumption
<1>2. ASSUME NEW k \in 1..3
      PROVE  Digits(a[k]) \in Seq(Int) /\ Len(Digits(a[k])) = Width
  <2>1. a[k] \in 0..Largest
    BY DEF Numbers
  <2>2. Digits(a[k]) \in [1..Width -> Int]
    BY <2>1, DigitsTypes
  <2> QED BY <1>1, <2>2, IsText
<1>3. /\ s \in Seq(Int) /\ t \in Seq(Int) /\ u \in Seq(Int)
      /\ Len(s) = Width /\ Len(t) = Width /\ Len(u) = Width
  BY <1>2
<1>4. Pad(a) = (s \o t) \o u
  BY DEF Pad
<1> HIDE DEF s, t, u
<1> DEFINE st == s \o t
<1>5. /\ st \in Seq(Int) /\ Len(st) = Len(s) + Len(t)
      /\ \A i \in 1..(Len(s) + Len(t)) : st[i] = IF i <= Len(s) THEN s[i] ELSE t[i - Len(s)]
  BY <1>3, Joined
<1> HIDE DEF st
<1>6. /\ st \o u \in Seq(Int) /\ Len(st \o u) = Len(st) + Len(u)
      /\ \A i \in 1..(Len(st) + Len(u)) : (st \o u)[i] = IF i <= Len(st) THEN st[i] ELSE u[i - Len(st)]
  BY <1>3, <1>5, Joined
<1>7. Pad(a) = st \o u
  BY <1>4 DEF st
<1>8. Pad(a) \in Text(3 * Width)
  BY <1>1, <1>3, <1>5, <1>6, <1>7 DEF Text
<1>9. ASSUME NEW i \in 1..Width
      PROVE  Pad(a)[i] = s[i] /\ Pad(a)[Width + i] = t[i] /\ Pad(a)[2 * Width + i] = u[i]
  <2>1. /\ i \in 1..(Width + Width) /\ Width + i \in 1..(Width + Width)
        /\ i \in 1..(Width + Width + Width) /\ Width + i \in 1..(Width + Width + Width)
        /\ 2 * Width + i \in 1..(Width + Width + Width)
        /\ i <= Width /\ ~(Width + i <= Width) /\ (Width + i) - Width = i
        /\ i <= Width + Width /\ Width + i <= Width + Width /\ ~(2 * Width + i <= Width + Width)
        /\ (2 * Width + i) - (Width + Width) = i
    BY <1>1
  <2>2. st[i] = s[i] /\ st[Width + i] = t[i]
    BY <1>3, <1>5, <2>1
  <2>3. Len(st) = Width + Width /\ Len(u) = Width
    BY <1>3, <1>5
  <2>4. /\ (st \o u)[i] = st[i] /\ (st \o u)[Width + i] = st[Width + i]
        /\ (st \o u)[2 * Width + i] = u[i]
    BY <1>6, <2>1, <2>3
  <2> QED BY <1>7, <2>2, <2>4
<1> QED BY <1>8, <1>9 DEF s, t, u

\* Lesser numbers have the lesser padding.
LEMMA PadLess ==
  ASSUME NEW a \in Numbers, NEW b \in Numbers, LexLess(a, b)
  PROVE  LexLess(Pad(a), Pad(b))
<1>1. Width \in Nat \ {0} /\ 3 * Width \in Nat
  BY VersionAssumption
<1>2. a \in Text(3) /\ b \in Text(3) /\ \A k \in 1..3 : a[k] \in 0..Largest /\ b[k] \in 0..Largest
  <2>1. a \in [1..3 -> Int] /\ b \in [1..3 -> Int]
    BY VersionAssumption DEF Numbers
  <2> QED BY <2>1, IsText DEF Numbers
<1>3. PICK k \in 1..3 : a[k] < b[k] /\ \A j \in 1..(k - 1) : a[j] = b[j]
  BY <1>2, LexIs
<1>4. PICK i \in 1..Width : /\ Digits(a[k])[i] < Digits(b[k])[i]
                            /\ \A j \in 1..(i - 1) : Digits(a[k])[j] = Digits(b[k])[j]
  BY <1>2, <1>3, DigitsLess
<1>5. ASSUME NEW m \in 1..(3 * Width), Pad(a)[m] < Pad(b)[m], \A j \in 1..(m - 1) : Pad(a)[j] = Pad(b)[j]
      PROVE  LexLess(Pad(a), Pad(b))
  BY <1>1, <1>5, PadIs, LexIs
<1>6. CASE k = 1
  <2>1. i \in 1..(3 * Width) /\ \A j \in 1..(i - 1) : j \in 1..Width
    BY <1>1
  <2>2. Pad(a)[i] < Pad(b)[i] /\ \A j \in 1..(i - 1) : Pad(a)[j] = Pad(b)[j]
    BY <1>4, <1>6, <2>1, PadIs
  <2> QED BY <1>5, <2>1, <2>2
<1>7. CASE k = 2
  <2> DEFINE m == Width + i
  <2>1. m \in 1..(3 * Width)
    BY <1>1
  <2>2. Pad(a)[m] < Pad(b)[m]
    BY <1>4, <1>7, PadIs
  <2>3. ASSUME NEW j \in 1..(m - 1) PROVE Pad(a)[j] = Pad(b)[j]
    <3>1. CASE j <= Width
      BY <1>3, <1>7, <3>1, PadIs
    <3>2. CASE j > Width
      <4>1. PICK l : l = j - Width
        OBVIOUS
      <4>2. l \in 1..(i - 1) /\ l \in 1..Width /\ j = Width + l
        BY <1>1, <3>2, <4>1
      <4> QED BY <1>4, <1>7, <4>2, PadIs
    <3> QED BY <1>1, <3>1, <3>2
  <2> HIDE DEF m
  <2> QED BY <1>5, <2>1, <2>2, <2>3
<1>8. CASE k = 3
  <2> DEFINE m == 2 * Width + i
  <2>1. m \in 1..(3 * Width)
    BY <1>1
  <2>2. Pad(a)[m] < Pad(b)[m]
    BY <1>4, <1>8, PadIs
  <2>3. ASSUME NEW j \in 1..(m - 1) PROVE Pad(a)[j] = Pad(b)[j]
    <3>1. CASE j <= Width
      BY <1>3, <1>8, <3>1, PadIs
    <3>2. CASE j > Width /\ j <= 2 * Width
      <4>1. PICK l : l = j - Width
        OBVIOUS
      <4>2. l \in 1..Width /\ j = Width + l
        BY <1>1, <3>2, <4>1
      <4> QED BY <1>3, <1>8, <4>2, PadIs
    <3>3. CASE j > 2 * Width
      <4>1. PICK l : l = j - 2 * Width
        OBVIOUS
      <4>2. l \in 1..(i - 1) /\ l \in 1..Width /\ j = 2 * Width + l
        BY <1>1, <3>3, <4>1
      <4> QED BY <1>4, <1>8, <4>2, PadIs
    <3> QED BY <1>1, <3>1, <3>2, <3>3
  <2> HIDE DEF m
  <2> QED BY <1>5, <2>1, <2>2, <2>3
<1> QED BY <1>6, <1>7, <1>8

\* ... and only those, so the padding has the order of the numbers.
LEMMA PadOrder ==
  ASSUME NEW a \in Numbers, NEW b \in Numbers
  PROVE  /\ LexLess(Pad(a), Pad(b)) <=> LexLess(a, b)
         /\ Pad(a) = Pad(b) <=> a = b
<1>1. a \in [1..3 -> Int] /\ b \in [1..3 -> Int]
  BY VersionAssumption DEF Numbers
<1>2. LexLess(a, b) \/ LexLess(b, a) \/ a = b
  <2>1. 0 \in Int
    OBVIOUS
  <2> QED BY <1>1, <2>1, ThreeOrder
<1>3. /\ LexLess(a, b) => LexLess(Pad(a), Pad(b))
      /\ LexLess(b, a) => LexLess(Pad(b), Pad(a))
  BY PadLess
<1>4. /\ Pad(a) \in Text(3 * Width) /\ Pad(b) \in Text(3 * Width) /\ 3 * Width \in Nat
  BY PadIs, VersionAssumption
<1>5. /\ LexLess(Pad(a), Pad(b)) => ~LexLess(Pad(b), Pad(a)) /\ Pad(a) # Pad(b)
      /\ LexLess(Pad(b), Pad(a)) => ~LexLess(Pad(a), Pad(b)) /\ Pad(a) # Pad(b)
  BY <1>4, LexOneWay
<1> QED BY <1>2, <1>3, <1>5

-----------------------------------------------------------------------------
(* The order of versions *)

Before(v, w) == LexLess(Precedence(v), Precedence(w))

\* The numbers of any version fit, those of one that semver does not take, too.
LEMMA VersionIs ==
  ASSUME NEW v \in Version \cup Bound
  PROVE  /\ v.nums \in Numbers /\ v.nums \in [1..3 -> Int] /\ v.pre \in Int
         /\ PaddingVersion[v] = Pad(v.nums)
<1>1. Largest \in Nat /\ Numbers \subseteq [1..3 -> Int]
  BY VersionAssumption DEF Numbers
<1>2. CASE v = Invalid
  <2>1. v.nums = <<0, 0, 0>> /\ v.pre = -1
    BY <1>2 DEF Invalid
  <2>2. <<0, 0, 0>> \in Numbers
    BY <1>1 DEF Numbers
  <2> QED BY <1>1, <2>1, <2>2 DEF PaddingVersion, Pad
<1>3. CASE v # Invalid
  <2>1. v \in [nums : [1..3 -> 0..Largest], pre : 0..Release]
    BY <1>3, VersionAssumption
  <2>2. v.nums \in Numbers /\ v.pre \in 0..Release
    BY <2>1 DEF Numbers
  <2> QED BY <1>1, <2>2 DEF PaddingVersion, Pad, Release
<1> QED BY <1>2, <1>3

LEMMA ValidIs ==
  ASSUME NEW v \in (Version \ {Invalid}) \cup Bound
  PROVE  v \in [nums : Numbers, pre : 0..Release] /\ v.pre \in 0..9
BY VersionAssumption DEF Numbers, Release

\* Versions are ordered by their numbers, then by their prerelease.
LEMMA BeforeIs ==
  ASSUME NEW v \in Version \cup Bound, NEW w \in Version \cup Bound
  PROVE  /\ Before(v, w) <=> LexLess(v.nums, w.nums) \/ (v.nums = w.nums /\ v.pre < w.pre)
         /\ Precedence(v) = Precedence(w) <=> v.nums = w.nums /\ v.pre = w.pre
         /\ LexLess(v.nums, w.nums) \/ LexLess(w.nums, v.nums) \/ v.nums = w.nums
         /\ LexLess(v.nums, w.nums) => ~LexLess(w.nums, v.nums) /\ v.nums # w.nums
<1>1. v.nums \in [1..3 -> Int] /\ v.pre \in Int /\ w.nums \in [1..3 -> Int] /\ w.pre \in Int
  BY VersionIs
<1>2. /\ Precedence(v) \in Text(4) /\ Precedence(w) \in Text(4)
      /\ v.nums \in Text(3) /\ w.nums \in Text(3)
      /\ Before(v, w) <=> LexLess(v.nums, w.nums) \/ (v.nums = w.nums /\ v.pre < w.pre)
      /\ Before(w, v) <=> LexLess(w.nums, v.nums) \/ (w.nums = v.nums /\ w.pre < v.pre)
      /\ LexLess(v.nums, w.nums) \/ LexLess(w.nums, v.nums) \/ v.nums = w.nums
  BY <1>1, ThreeOrder DEF Before, Precedence
<1>3. LexLess(v.nums, w.nums) => ~LexLess(w.nums, v.nums) /\ v.nums # w.nums
  <2>1. 3 \in Nat
    OBVIOUS
  <2> QED BY <1>2, <2>1, LexOneWay
<1>4. ASSUME Precedence(v) = Precedence(w) PROVE v.nums = w.nums /\ v.pre = w.pre
  <2>1. ~Before(v, w) /\ ~Before(w, v)
    <3>1. 4 \in Nat
      OBVIOUS
    <3> QED BY <1>2, <1>4, <3>1, LexOneWay DEF Before
  <2> QED BY <1>1, <1>2, <2>1
<1> QED BY <1>2, <1>3, <1>4 DEF Precedence

\* The order is total.
LEMMA BeforeOrder ==
  ASSUME NEW v \in Version \ {Invalid}, NEW w \in Version \ {Invalid}, ~Before(v, w), ~Before(w, v)
  PROVE  v = w
<1>1. v.nums = w.nums /\ v.pre = w.pre
  BY BeforeIs, VersionIs
<1>2. v \in [nums : Numbers, pre : 0..Release] /\ w \in [nums : Numbers, pre : 0..Release]
  BY ValidIs
<1> QED BY <1>1, <1>2

\* Numbers that are bounded have a greatest.
LEMMA GreatestExists ==
  ASSUME NEW n \in Nat, NEW S \in SUBSET (0..n), S # {}
  PROVE  \E i \in S : \A j \in S : j <= i
<1> DEFINE T == {n - i : i \in S}
<1>1. T \in SUBSET Nat /\ T # {}
  <2>1. \A i \in S : n - i \in Nat
    OBVIOUS
  <2>2. T \in SUBSET Nat
    BY <2>1
  <2>3. PICK i \in S : TRUE
    OBVIOUS
  <2>4. n - i \in T
    OBVIOUS
  <2> QED BY <2>2, <2>4
<1>2. PICK k \in T : \A l \in T : k <= l
  <2> HIDE DEF T
  <2> QED BY <1>1, FirstExists
<1>3. PICK i \in S : k = n - i
  OBVIOUS
<1>4. ASSUME NEW j \in S PROVE j <= i
  <2>1. n - j \in T
    OBVIOUS
  <2>2. n - i <= n - j
    BY <1>2, <1>3, <2>1
  <2> QED BY <2>2
<1> QED BY <1>4

\* Of versions whose numbers are bounded there is a highest.
LEMMA HighestIs ==
  ASSUME NEW S \in SUBSET (Version \ {Invalid}), S # {}
  PROVE  Highest(S) \in S /\ \A w \in S : ~Before(Highest(S), w)
<1>1. \A v \in S : /\ v.nums[1] \in 0..Largest /\ v.nums[2] \in 0..Largest /\ v.nums[3] \in 0..Largest
                   /\ v.pre \in 0..9
  BY ValidIs DEF Numbers
<1>2. Largest \in Nat
  BY VersionAssumption
<1>3. PICK a \in S : \A w \in S : w.nums[1] <= a.nums[1]
  <2> DEFINE T == {v.nums[1] : v \in S}
  <2>1. T \in SUBSET (0..Largest) /\ T # {}
    BY <1>1
  <2>2. \E i \in T : \A j \in T : j <= i
    <3> HIDE DEF T
    <3> QED BY <1>2, <2>1, GreatestExists
  <2> QED BY <2>2
<1> DEFINE A == {v \in S : v.nums[1] = a.nums[1]}
<1>4. PICK b \in A : \A w \in A : w.nums[2] <= b.nums[2]
  <2> DEFINE T == {v.nums[2] : v \in A}
  <2>1. T \in SUBSET (0..Largest) /\ T # {}
    BY <1>1, <1>3
  <2>2. \E i \in T : \A j \in T : j <= i
    <3> HIDE DEF T
    <3> QED BY <1>2, <2>1, GreatestExists
  <2> QED BY <2>2
<1> DEFINE B == {v \in A : v.nums[2] = b.nums[2]}
<1>5. PICK c \in B : \A w \in B : w.nums[3] <= c.nums[3]
  <2> DEFINE T == {v.nums[3] : v \in B}
  <2>1. T \in SUBSET (0..Largest) /\ T # {}
    BY <1>1, <1>4
  <2>2. \E i \in T : \A j \in T : j <= i
    <3> HIDE DEF T
    <3> QED BY <1>2, <2>1, GreatestExists
  <2> QED BY <2>2
<1> DEFINE C == {v \in B : v.nums[3] = c.nums[3]}
<1>6. PICK d \in C : \A w \in C : w.pre <= d.pre
  <2> DEFINE T == {v.pre : v \in C}
  <2>1. T \in SUBSET (0..9) /\ T # {}
    BY <1>1, <1>5
  <2>2. \E i \in T : \A j \in T : j <= i
    <3> HIDE DEF T
    <3> QED BY <2>1, GreatestExists
  <2> QED BY <2>2
<1>7. ASSUME NEW w \in S PROVE ~Before(d, w)
  <2>1. d \in S /\ d.nums[1] = a.nums[1] /\ d.nums[2] = b.nums[2] /\ d.nums[3] = c.nums[3]
    OBVIOUS
  <2>2. d.nums \in Text(3) /\ w.nums \in Text(3)
    BY <2>1, VersionIs, IsText
  <2>3. ~LexLess(d.nums, w.nums)
    <3>1. ASSUME NEW i \in 1..3, d.nums[i] < w.nums[i], \A j \in 1..(i - 1) : d.nums[j] = w.nums[j]
          PROVE  FALSE
      <4>1. CASE i = 1
        BY <1>1, <1>3, <2>1, <3>1, <4>1
      <4>2. CASE i = 2
        <5>1. d.nums[1] = w.nums[1] /\ w \in A
          BY <2>1, <3>1, <4>2
        <5> QED BY <1>1, <1>4, <2>1, <3>1, <4>2, <5>1
      <4>3. CASE i = 3
        <5>1. d.nums[1] = w.nums[1] /\ d.nums[2] = w.nums[2] /\ w \in B
          BY <2>1, <3>1, <4>3
        <5> QED BY <1>1, <1>5, <2>1, <3>1, <4>3, <5>1
      <4> QED BY <4>1, <4>2, <4>3
    <3>2. 3 \in Nat
      OBVIOUS
    <3> QED BY <2>2, <3>1, <3>2, LexIs
  <2>4. ~(d.nums = w.nums /\ d.pre < w.pre)
    <3>1. ASSUME d.nums = w.nums PROVE w.pre <= d.pre
      <4>1. w \in C
        BY <2>1, <3>1
      <4> QED BY <1>6, <4>1
    <3> QED BY <1>1, <2>1, <3>1
  <2> QED BY <2>1, <2>3, <2>4, BeforeIs
<1>8. d \in S
  OBVIOUS
<1>9. \E v \in S : \A w \in S : ~LexLess(Precedence(v), Precedence(w))
  BY <1>7, <1>8 DEF Before
<1> QED BY <1>9 DEF Highest, Before

-----------------------------------------------------------------------------
(* What ranges are answered with *)

\* A range that is asked for, and what its comparators are.
LEMMA AskedIs ==
  ASSUME NEW range \in Asked, NEW alternative \in range
  PROVE  /\ alternative # {}
         /\ \A c \in alternative \ {Any} : c.version \in Bound /\ c.op \in {"<", "<=", ">", ">=", "="}
<1>1. alternative \in (SUBSET ({Any} \cup Comparator)) \ {{}}
  BY RangeAssumption
<1> QED BY <1>1 DEF Comparator

\* The database compares numbers as semver does.
LEMMA PaddingCompares ==
  ASSUME NEW v \in Version, NEW w \in Version \cup Bound
  PROVE  /\ LexLess(PaddingVersion[v], PaddingVersion[w]) <=> LexLess(v.nums, w.nums)
         /\ LexLess(PaddingVersion[w], PaddingVersion[v]) <=> LexLess(w.nums, v.nums)
         /\ PaddingVersion[v] = PaddingVersion[w] <=> v.nums = w.nums
BY VersionIs, PadOrder

\* Releases are compared by their numbers alone.
LEMMA ReleasesCompare ==
  ASSUME NEW v \in Version, NEW w \in Version \cup Bound, v.pre = w.pre,
         NEW op \in {"<", "<=", ">", ">=", "="}
  PROVE  Compare(op, PaddingVersion[v], PaddingVersion[w]) <=> Compare(op, Precedence(v), Precedence(w))
<1>1. /\ LexLess(Precedence(v), Precedence(w)) <=> LexLess(v.nums, w.nums)
      /\ LexLess(Precedence(w), Precedence(v)) <=> LexLess(w.nums, v.nums)
      /\ Precedence(v) = Precedence(w) <=> v.nums = w.nums
  BY BeforeIs, VersionIs DEF Before
<1> QED BY <1>1, PaddingCompares DEF Compare

\* Without prereleases the database selects what is in the range.
LEMMA ReleaseCondition ==
  ASSUME NEW range \in Asked, ~ContainPreRelease(range)
  PROVE  Condition(range) = InRange(range) /\ \A v \in InRange(range) : v # Invalid /\ v.pre = Release
<1>1. \A alternative \in range : \A c \in alternative \ {Any} : c.version.pre = Release
  BY DEF ContainPreRelease, IsPreRelease
<1>2. Invalid.pre # Release
  BY DEF Invalid, Release
<1>3. ASSUME NEW v \in Version, NEW alternative \in range
      PROVE  /\ (\A c \in alternative : Selects(c, v)) <=> Satisfies(v, alternative)
             /\ Satisfies(v, alternative) => v # Invalid /\ v.pre = Release
  <2>1. ASSUME Satisfies(v, alternative) PROVE v # Invalid /\ v.pre = Release
    BY <1>1, <2>1 DEF Satisfies, IsPreRelease
  <2>2. ASSUME \A c \in alternative : Selects(c, v) PROVE v.pre = Release /\ v # Invalid
    <3>1. PICK c \in alternative : TRUE
      BY AskedIs
    <3>2. v.pre = Release
      BY <1>1, <2>2, <3>1 DEF Selects, IsPreRelease
    <3> QED BY <1>2, <3>2
  <2>3. ASSUME v.pre = Release, v # Invalid, NEW c \in alternative \ {Any}
        PROVE  Selects(c, v) <=> Compare(c.op, Precedence(v), Precedence(c.version))
    <3>1. c.version \in Bound /\ c.op \in {"<", "<=", ">", ">=", "="} /\ c.version.pre = Release
      BY <1>1, AskedIs
    <3>2. Compare(c.op, PaddingVersion[v], PaddingVersion[c.version])
            <=> Compare(c.op, Precedence(v), Precedence(c.version))
      BY <2>3, <3>1, ReleasesCompare
    <3> QED BY <2>3, <3>2 DEF Selects, IsPreRelease
  <2>4. ASSUME v.pre = Release PROVE Selects(Any, v)
    BY <2>4 DEF Selects, IsPreRelease
  <2>5. ASSUME v.pre = Release, v # Invalid
        PROVE  (\A c \in alternative : Selects(c, v)) <=> Satisfies(v, alternative)
    <3>1. (\A c \in alternative : Selects(c, v)) <=> \A c \in alternative \ {Any} : Selects(c, v)
      BY <2>4, <2>5
    <3>2. Satisfies(v, alternative)
            <=> \A c \in alternative \ {Any} : Compare(c.op, Precedence(v), Precedence(c.version))
      BY <2>5 DEF Satisfies, IsPreRelease
    <3> QED BY <2>3, <2>5, <3>1, <3>2
  <2> QED BY <2>1, <2>2, <2>5
<1> QED BY <1>3 DEF Condition, InRange

\* Of the usual ranges it selects all that is in the range, and maybe more.
LEMMA UsualCondition ==
  ASSUME NEW range \in Asked, Usual(range)
  PROVE  InRange(range) \subseteq Condition(range)
<1> SUFFICES ASSUME NEW v \in Version, NEW alternative \in range, Satisfies(v, alternative),
                    NEW c \in alternative
             PROVE  Selects(c, v)
  BY DEF InRange, Condition
<1> DEFINE pre == {d \in alternative \ {Any} : IsPreRelease(d.version) /\ ~Below(d)}
<1>1. /\ \A d \in pre : d.op \notin {"<", ">"}
      /\ pre # {} => \A d \in alternative : d # Any /\ IsPreRelease(d.version)
  BY DEF Usual
<1>2. v # Invalid /\ v.pre \in 0..9
  BY ValidIs DEF Satisfies
<1>3. \A d \in alternative \ {Any} : /\ d.version \in Bound /\ d.op \in {"<", "<=", ">", ">=", "="}
                                    /\ Compare(d.op, Precedence(v), Precedence(d.version))
  BY AskedIs DEF Satisfies
<1>4. ASSUME NEW d \in alternative \ {Any}, Below(d)
      PROVE  d.version.nums # v.nums
  <2>1. Before(v, d.version) /\ d.version.pre = 0
    BY <1>3, <1>4 DEF Below, Compare, Before
  <2> QED BY <1>2, <1>3, <2>1, BeforeIs
<1>5. IsPreRelease(v) => pre # {}
  <2> SUFFICES ASSUME IsPreRelease(v) PROVE pre # {}
    OBVIOUS
  <2>1. PICK d \in alternative \ {Any} : IsPreRelease(d.version) /\ d.version.nums = v.nums
    BY DEF Satisfies
  <2>2. d \in pre
    BY <1>4, <2>1
  <2> QED BY <2>2
<1>6. CASE c = Any
  <2>1. ~IsPreRelease(v)
    BY <1>1, <1>5, <1>6
  <2> QED BY <1>6, <2>1 DEF Selects
<1>7. CASE c # Any
  <2>1. IsPreRelease(v) => IsPreRelease(c.version)
    BY <1>1, <1>5
  <2>2. /\ c.version \in Bound /\ c.op \in {"<", "<=", ">", ">=", "="}
        /\ Compare(c.op, Precedence(v), Precedence(c.version))
    BY <1>3, <1>7
  <2>3. c.version.pre \in 0..9
    BY <2>2, ValidIs
  <2>4. c.op \in {"<", ">"} => c \notin pre
    BY <1>1
  <2> HIDE DEF pre
  <2>5. Compare(c.op, PaddingVersion[v], PaddingVersion[c.version])
    <3>1. CASE c.op = "<"
      <4>1. Before(v, c.version)
        BY <2>2, <3>1 DEF Compare, Before
      <4>2. v.nums # c.version.nums
        <5>1. CASE Below(c)
          BY <1>4, <1>7, <5>1
        <5>2. CASE ~Below(c)
          <6>1. ~IsPreRelease(c.version)
            BY <1>7, <2>4, <3>1, <5>2 DEF pre
          <6>2. v.pre = Release /\ c.version.pre = Release
            BY <2>1, <6>1 DEF IsPreRelease
          <6> QED BY <2>2, <4>1, <6>2, BeforeIs DEF Release
        <5> QED BY <5>1, <5>2
      <4>3. LexLess(v.nums, c.version.nums)
        BY <2>2, <4>1, <4>2, BeforeIs
      <4> QED BY <2>2, <3>1, <4>3, PaddingCompares DEF Compare
    <3>2. CASE c.op = ">"
      <4>1. Before(c.version, v)
        BY <2>2, <3>2 DEF Compare, Before
      <4>2. ~IsPreRelease(c.version)
        <5>1. ~Below(c)
          BY <3>2 DEF Below
        <5> QED BY <1>7, <2>4, <3>2, <5>1 DEF pre
      <4>3. v.nums # c.version.nums
        <5>1. v.pre = Release /\ c.version.pre = Release
          BY <2>1, <4>2 DEF IsPreRelease
        <5> QED BY <2>2, <4>1, <5>1, BeforeIs DEF Release
      <4>4. LexLess(c.version.nums, v.nums)
        BY <2>2, <4>1, <4>3, BeforeIs
      <4> QED BY <2>2, <3>2, <4>4, PaddingCompares DEF Compare
    <3>3. CASE c.op = "<="
      <4>1. ~Before(c.version, v)
        BY <2>2, <3>3 DEF Compare, Before
      <4>2. ~LexLess(c.version.nums, v.nums)
        BY <2>2, <4>1, BeforeIs
      <4> QED BY <2>2, <3>3, <4>2, PaddingCompares DEF Compare
    <3>4. CASE c.op = ">="
      <4>1. ~Before(v, c.version)
        BY <2>2, <3>4 DEF Compare, Before
      <4>2. ~LexLess(v.nums, c.version.nums)
        BY <2>2, <4>1, BeforeIs
      <4> QED BY <2>2, <3>4, <4>2, PaddingCompares DEF Compare
    <3>5. CASE c.op = "="
      <4>1. Precedence(v) = Precedence(c.version)
        BY <2>2, <3>5 DEF Compare
      <4>2. v.nums = c.version.nums
        BY <2>2, <4>1, BeforeIs
      <4> QED BY <2>2, <3>5, <4>2, PaddingCompares DEF Compare
    <3> QED BY <2>2, <3>1, <3>2, <3>3, <3>4, <3>5
  <2> QED BY <1>7, <2>1, <2>5 DEF Selects
<1> QED BY <1>6, <1>7

\* The first by the padding is the highest of the releases that are found.
LEMMA FirstFound ==
  ASSUME NEW range \in Asked, ~ContainPreRelease(range)
  PROVE  FindMaxSatisfyVersion(SqlRange(range)) = {Highest(PaddedVersions \cap InRange(range))}
<1> DEFINE found == PaddedVersions \cap InRange(range)
<1>1. Found(SqlRange(range)) = found
  BY ReleaseCondition DEF Found, SqlRange
<1>2. found \in SUBSET (Version \ {Invalid}) /\ \A v \in found : v.pre = Release
  BY ReleaseCondition DEF InRange
<1>3. ASSUME NEW v \in found, NEW w \in found
      PROVE  LexLess(PaddingVersion[v], PaddingVersion[w]) <=> Before(v, w)
  <2>1. v \in Version /\ w \in Version /\ v.pre = Release /\ w.pre = Release
    BY <1>2
  <2> QED BY <2>1, PaddingCompares, BeforeIs DEF Release
<1> HIDE DEF found
<1>4. CASE found = {}
  <2>1. Highest(found) = None
    BY <1>4 DEF Highest
  <2> QED BY <1>1, <1>4, <2>1 DEF FindMaxSatisfyVersion, found
<1>5. CASE found # {}
  <2>1. Highest(found) \in found /\ \A w \in found : ~Before(Highest(found), w)
    BY <1>2, <1>5, HighestIs
  <2>2. FindMaxSatisfyVersion(SqlRange(range)) = {v \in found : \A w \in found : ~Before(v, w)}
    BY <1>1, <1>3, <1>5 DEF FindMaxSatisfyVersion
  <2>3. ASSUME NEW v \in found, \A w \in found : ~Before(v, w)
        PROVE  v = Highest(found)
    BY <1>2, <2>1, <2>3, BeforeOrder
  <2>4. {v \in found : \A w \in found : ~Before(v, w)} = {Highest(found)}
    BY <2>1, <2>3
  <2> QED BY <2>2, <2>4 DEF found
<1> QED BY <1>4, <1>5

\* What a range is answered with, for any versions with numbers up to any
\* largest and padded to any width it fits: it is in the range, and of a usual
\* range the highest there is (SqlRange, PaddingSemVer and
\* PackageVersionService.getVersion).
THEOREM RangesAreAnswered ==
  ResolutionSpec => []RangeAnswered
<1>1. ASSUME NEW r \in SqlRanges, tag = None \/ ~r.isTag
      PROVE  GetVersion(r) \subseteq {None} \cup (PaddedVersions \cap r.inRange)
  <2>1. PICK range \in Asked : r = SqlRange(range)
    BY DEF SqlRanges
  <2>2. r.inRange = InRange(range) /\ r.condition = Condition(range)
        /\ r.containPreRelease = ContainPreRelease(range)
    BY <2>1 DEF SqlRange
  <2>3. ASSUME NEW S \in SUBSET (PaddedVersions \cap InRange(range))
        PROVE  Highest(S) \in {None} \cup (PaddedVersions \cap InRange(range))
    <3>1. CASE S = {}
      BY <3>1 DEF Highest
    <3>2. CASE S # {}
      <4>1. S \in SUBSET (Version \ {Invalid})
        BY DEF InRange, Satisfies
      <4> QED BY <3>2, <4>1, HighestIs
    <3> QED BY <3>1, <3>2
  <2>4. CASE r.containPreRelease
    <3>1. GetVersion(r) = {Highest(Found(r) \cap r.inRange)}
      BY <1>1, <2>4 DEF GetVersion
    <3>2. Found(r) \cap r.inRange \in SUBSET (PaddedVersions \cap InRange(range))
      BY <2>2 DEF Found
    <3> QED BY <2>2, <2>3, <3>1, <3>2
  <2>5. CASE ~r.containPreRelease
    <3>1. GetVersion(r) = {Highest(PaddedVersions \cap InRange(range))}
      BY <1>1, <2>1, <2>2, <2>5, FirstFound DEF GetVersion
    <3> QED BY <2>2, <2>3, <3>1
  <2> QED BY <2>4, <2>5
<1>2. ASSUME NEW r \in UsualRanges, tag = None \/ ~r.isTag
      PROVE  GetVersion(r) = {Highest(PaddedVersions \cap r.inRange)}
  <2>1. PICK range \in Asked : r = SqlRange(range) /\ Usual(range)
    BY DEF SqlRanges, UsualRanges, SqlRange
  <2>2. r.inRange = InRange(range) /\ r.condition = Condition(range)
        /\ r.containPreRelease = ContainPreRelease(range)
    BY <2>1 DEF SqlRange
  <2>3. CASE r.containPreRelease
    <3>1. GetVersion(r) = {Highest(Found(r) \cap r.inRange)}
      BY <1>2, <2>3 DEF GetVersion
    <3>2. Found(r) \cap r.inRange = PaddedVersions \cap r.inRange
      BY <2>1, <2>2, UsualCondition DEF Found
    <3> QED BY <3>1, <3>2
  <2>4. CASE ~r.containPreRelease
    BY <1>2, <2>1, <2>2, <2>4, FirstFound DEF GetVersion
  <2> QED BY <2>3, <2>4
<1>3. RangeAnswered
  BY <1>1, <1>2 DEF RangeAnswered
<1> QED BY <1>3, PTL

=============================================================================
