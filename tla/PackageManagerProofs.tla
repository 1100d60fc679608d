------------------------ MODULE PackageManagerProofs ------------------------
(***************************************************************************)
(* That what PackageManager serves is there: for any processes, versions,  *)
(* tags, users and faults.                                                 *)
(***************************************************************************)
EXTENDS PackageManager, FiniteSetTheorems, SequenceTheorems, WellFoundedInduction, TLAPS

-----------------------------------------------------------------------------
(* The first and the last of a set of numbers *)

LEMMA FirstExists ==
  ASSUME NEW S \in SUBSET Nat, S # {}
  PROVE  \E i \in S : \A j \in S : i <= j
<1>1. PICK i \in S : \A j \in S : ~(<<j, i>> \in OpToRel(<, Nat))
  BY WFMin, NatLessThanWellFounded, Zenon
<1>2. ASSUME NEW j \in S
      PROVE  i <= j
  <2>1. ~(<<j, i>> \in OpToRel(<, Nat)) /\ i \in Nat /\ j \in Nat
    BY <1>1
  <2> QED BY <2>1 DEF OpToRel
<1>3. QED BY <1>2

LEMMA LastExists ==
  ASSUME NEW S \in SUBSET Nat, IsFiniteSet(S), S # {}
  PROVE  \E x \in S : \A y \in S : x >= y
<1> DEFINE HasLast(T) == \E x \in T : \A y \in T : x >= y
           Bad == {T \in SUBSET S : T # {} /\ ~HasLast(T)}
<1> SUFFICES ASSUME ~HasLast(S) PROVE FALSE
  OBVIOUS
<1>1. IsWellFoundedOn(StrictSubsetOrdering(S), SUBSET S)
  BY FS_StrictSubsetOrderingWellFounded, FS_FiniteSubsetsOfFinite
<1>2. S \in Bad
  OBVIOUS
<1>3. PICK T \in Bad : \A U \in Bad : ~(<<U, T>> \in StrictSubsetOrdering(S))
  <2> HIDE DEF HasLast
  <2>1. Bad \subseteq SUBSET S /\ Bad # {}
    BY <1>2
  <2> HIDE DEF Bad
  <2> QED BY <1>1, <2>1, WFMin, Zenon
<1>4. PICK x \in T : TRUE
  BY <1>3
<1>5. T \ {x} \subseteq T /\ T \ {x} # T /\ T \subseteq S /\ x \in Nat
  BY <1>3, <1>4
<1>6. T \ {x} \notin Bad
  <2>1. T \ {x} \in Bad => <<T \ {x}, T>> \in StrictSubsetOrdering(S)
    BY <1>5 DEF StrictSubsetOrdering
  <2> QED BY <1>3, <2>1
<1>7. CASE T \ {x} = {}
  <2>1. \A y \in T : x >= y
    BY <1>5, <1>7
  <2> QED BY <1>3, <1>4, <2>1
<1>8. CASE T \ {x} # {}
  <2>1. PICK m \in T \ {x} : \A y \in T \ {x} : m >= y
    BY <1>5, <1>6, <1>8
  <2>2. m \in Nat /\ T \subseteq Nat
    BY <1>5
  <2>3. CASE m >= x
    <3>1. \A y \in T : m >= y
      BY <2>1, <2>3
    <3> QED BY <1>3, <2>1, <3>1
  <2>4. CASE ~(m >= x)
    <3>1. \A y \in T : x >= y
      BY <1>5, <2>1, <2>2, <2>4
    <3> QED BY <1>3, <1>4, <3>1
  <2> QED BY <2>3, <2>4
<1> QED BY <1>7, <1>8

LEMMA MaxIs ==
  ASSUME NEW S \in SUBSET Nat, IsFiniteSet(S), S # {}
  PROVE  Max(S) \in S
BY LastExists DEF Max

LEMMA MinIs ==
  ASSUME NEW S \in SUBSET Nat, S # {}
  PROVE  Min(S) \in S
BY FirstExists DEF Min

-----------------------------------------------------------------------------
(* Where a call is *)

LEMMA FromPlain ==
  ASSUME NEW run \in Seq(Plain), NEW steps
  PROVE  From(run, steps) \in Seq(Plain)
<1> DEFINE marks == {i \in DOMAIN run : run[i] \in steps}
<1>1. marks \in SUBSET Nat /\ marks \subseteq 1..Len(run) /\ Len(run) \in Nat
  OBVIOUS
<1>2. CASE marks = {}
  BY <1>2 DEF From
<1>3. CASE marks # {}
  <2>1. Min(marks) \in 1..Len(run)
    BY <1>1, <1>3, MinIs
  <2>2. SubSeq(run, Min(marks), Len(run)) \in Seq(Plain)
    <3> HIDE DEF marks
    <3> QED BY <2>1
  <2> QED BY <1>3, <2>2 DEF From
<1> QED BY <1>2, <1>3

\* A call of which nothing is to be unlocked is over when it throws or returns.
LEMMA FromNothing ==
  ASSUME NEW run \in Removals \cup Deprecations
  PROVE  From(run, {"unlock"}) = <<>> /\ Caller(run) = <<>>
<1>1. ASSUME NEW i \in DOMAIN run
      PROVE  run[i] \notin {"unlock", "next"}
  BY DEF Removals, Deprecations
<1> QED BY <1>1 DEF From, Caller

\* A publication that is refused has its lock left.
LEMMA SubSeqPlain ==
  ASSUME NEW S, NEW run \in Seq(S), NEW m \in 1..Len(run), \A i \in m..Len(run) : run[i] \in Plain
  PROVE  SubSeq(run, m, Len(run)) \in Seq(Plain)
OBVIOUS

LEMMA FromPublication ==
  ASSUME NEW run,
         run \in {<<"save", "tar", "manifests", "row", "refresh", "tags", "unlock">>,
                  <<"row", "refresh", "tags", "unlock">>}
  PROVE  Caller(run) \in Seq(Plain)
<1> DEFINE marks == {i \in DOMAIN run : run[i] \in {"unlock", "next"}}
<1>1. CASE run = <<"save", "tar", "manifests", "row", "refresh", "tags", "unlock">>
  <2>1. Len(run) = 7 /\ DOMAIN run = 1..7 /\ marks = {7}
    BY <1>1
  <2>2. Min(marks) = 7
    BY <2>1, MinIs
  <2>3. SubSeq(run, 7, 7) \in Seq(Plain)
    <3>1. run \in Seq({run[i] : i \in 1..7}) /\ run[7] \in Plain
      BY <1>1 DEF Plain
    <3> QED BY <2>1, <3>1, SubSeqPlain
  <2> QED BY <2>1, <2>2, <2>3 DEF Caller, From
<1>2. CASE run = <<"row", "refresh", "tags", "unlock">>
  <2>1. Len(run) = 4 /\ DOMAIN run = 1..4 /\ marks = {4}
    BY <1>2
  <2>2. Min(marks) = 4
    BY <2>1, MinIs
  <2>3. SubSeq(run, 4, 4) \in Seq(Plain)
    <3>1. run \in Seq({run[i] : i \in 1..4}) /\ run[4] \in Plain
      BY <1>2 DEF Plain
    <3> QED BY <2>1, <3>1, SubSeqPlain
  <2> QED BY <2>1, <2>2, <2>3 DEF Caller, From
<1> QED BY <1>1, <1>2

LEMMA Places ==
  ASSUME NEW p, RunKnown(p)
  PROVE  /\ Publishing(p) => /\ Running(p) /\ ~Removing(p) /\ ~Retagging(p)
                             /\ Head(at[p].run) \in {"lock", "save", "tar", "manifests", "row"}
         /\ Removing(p) => /\ at[p].run \in Removals
                           /\ Running(p) /\ ~Waiting(p) /\ ~Retagging(p) /\ ~Publishing(p)
                           /\ Head(at[p].run) \in {"names", "list", "files", "deleteRow"}
         /\ Waiting(p) => Publishing(p)
         /\ at[p].run \in Seq(Plain) => ~Publishing(p) /\ ~Removing(p) /\ ~Retagging(p) /\ ~Waiting(p)
<1>1. Publishing(p) => /\ Running(p) /\ ~Removing(p) /\ ~Retagging(p)
                       /\ Head(at[p].run) \in {"lock", "save", "tar", "manifests", "row"}
  BY DEF Publishing, Publications, Running, Removing, Retagging, Step
<1>2. at[p].run \in Seq(Plain) => ~Publishing(p) /\ ~Removing(p) /\ ~Retagging(p) /\ ~Waiting(p)
  <2> SUFFICES ASSUME at[p].run \in Seq(Plain)
               PROVE  ~Publishing(p) /\ ~Removing(p) /\ ~Retagging(p) /\ ~Waiting(p)
    OBVIOUS
  <2>1. \A i \in DOMAIN at[p].run : at[p].run[i] \in Plain
    OBVIOUS
  <2>2. at[p].run # <<>> => Head(at[p].run) \in Plain
    OBVIOUS
  <2>3. ~Publishing(p)
    BY <1>1, <2>2 DEF Running, Plain
  <2> QED BY <2>1, <2>2, <2>3 DEF Removing, Retagging, Waiting, Running, Step, Plain
<1>3. Retagging(p) => ~Removing(p) /\ ~Waiting(p)
  <2> SUFFICES ASSUME Retagging(p) PROVE ~Removing(p) /\ ~Waiting(p)
    OBVIOUS
  <2>1. \A i \in DOMAIN at[p].run : at[p].run[i] \in Plain \cup {"distTags"}
    BY DEF Retagging
  <2> QED BY <2>1 DEF Retagging, Removing, Waiting, Step, Plain
<1>4. at[p].run \in Deprecations => ~Removing(p) /\ ~Waiting(p)
  BY DEF Deprecations, Removing, Waiting
<1>5. at[p].run \in Removals =>
        /\ Running(p) /\ ~Waiting(p) /\ ~Retagging(p) /\ ~Publishing(p)
        /\ Head(at[p].run) \in {"names", "list", "files", "deleteRow"}
  BY DEF Removals, Publishing, Publications, Running, Waiting, Retagging, Step
<1>6. \/ Publishing(p) \/ at[p].run \in Seq(Plain) \/ at[p].run \in Deprecations \/ at[p].run \in Removals
      \/ Retagging(p)
  BY DEF RunKnown, Publishing
<1> QED BY <1>1, <1>2, <1>3, <1>4, <1>5, <1>6

\* What is left of a call at a step that others may precede.
LEMMA AtPlain ==
  ASSUME NEW p, RunKnown(p), NEW label \in Plain, Step(p, label)
  PROVE  at[p].run \in Seq(Plain) /\ Rest(p) \in Seq(Plain) /\ ~Publishing(p) /\ ~Removing(p)
<1>1. at[p].run \notin Publications \cup Removals \cup Deprecations /\ ~Retagging(p)
  BY DEF Publications, Removals, Deprecations, Retagging, Step, Running, Plain
<1>2. at[p].run \in Seq(Plain) /\ at[p].run # <<>>
  BY <1>1 DEF RunKnown, Step, Running
<1> QED BY <1>2, Places DEF Rest

\* ... and at each of the others.
LEMMA AtOther ==
  ASSUME NEW p, RunKnown(p)
  PROVE  /\ Step(p, "lock") => at[p].run = <<"lock", "save", "tar", "manifests", "row", "refresh", "tags", "unlock">>
         /\ Step(p, "save") => at[p].run = <<"save", "tar", "manifests", "row", "refresh", "tags", "unlock">>
         /\ Step(p, "tar") => at[p].run = <<"tar", "manifests", "row", "refresh", "tags", "unlock">>
         /\ Step(p, "manifests") => at[p].run = <<"manifests", "row", "refresh", "tags", "unlock">>
         /\ Step(p, "row") => at[p].run = <<"row", "refresh", "tags", "unlock">>
         /\ Step(p, "names") => at[p].run = <<"names", "files", "deleteRow", "latest", "refresh">>
         /\ Step(p, "list") => at[p].run = <<"list", "blankFull", "blankAbbr">>
         /\ Step(p, "files") => at[p].run \in {<<"files", "deleteRow", "latest", "refresh">>,
                                               <<"files", "deleteRow", "blankFull", "blankAbbr">>}
         /\ Step(p, "deleteRow") => at[p].run \in {<<"deleteRow", "latest", "refresh">>,
                                                   <<"deleteRow", "blankFull", "blankAbbr">>}
         /\ Step(p, "depMan") => at[p].run = <<"depMan", "depAbb", "refresh">>
         /\ Step(p, "depAbb") => at[p].run = <<"depAbb", "refresh">>
         /\ Step(p, "distTags") => Retagging(p)
<1> DEFINE others == {"lock", "save", "tar", "manifests", "row", "names", "list", "files", "deleteRow",
                      "depMan", "depAbb", "distTags"}
<1>1. Step(p, Head(at[p].run)) /\ Head(at[p].run) \in others => at[p].run \notin Seq(Plain)
  <2>1. at[p].run \in Seq(Plain) /\ at[p].run # <<>> => Head(at[p].run) \in Plain
    OBVIOUS
  <2> QED BY <2>1 DEF Step, Running, Plain
<1>2. at[p].run \in Seq(Plain) \/ ~Running(p) \/
      at[p].run \in Publications \cup Removals \cup Deprecations \/ Retagging(p)
  BY DEF RunKnown
<1>3. Retagging(p) => Head(at[p].run) = "distTags"
  BY DEF Retagging, Step
<1> QED
  BY <1>1, <1>2, <1>3 DEF Step, Publications, Removals, Deprecations

-----------------------------------------------------------------------------
(* How a step moves its call *)

Frame(p) == DOMAIN at' = Proc /\ \A q \in Proc \ {p} : at'[q] = at[q]

LEMMA ThenIs ==
  ASSUME DOMAIN at = Proc, NEW p \in Proc, NEW l, NEW run, Then(p, l, run),
         run # <<>> => Head(run) # "next"
  PROVE  Frame(p) /\ at'[p] = IF run = <<>> THEN Nothing ELSE [l EXCEPT !.run = run]
BY DEF Then, Frame

LEMMA NoCall ==
  /\ DOMAIN Nothing = {"run", "v", "pub", "by", "todo", "upd", "rem", "flag", "ent", "f", "a"}
  /\ Nothing.run = <<>> /\ Nothing.v = None /\ Nothing.flag = FALSE /\ Nothing.f = None /\ Nothing.a = None
BY DEF Nothing

LEMMA NoCallNext ==
  ASSUME NEW p, at'[p] = Nothing
  PROVE  (RunKnown(p) /\ CallKind(p) /\ ~Publishing(p) /\ ~Removing(p) /\ ~Retagging(p))'
<1>1. at'[p].run = <<>> /\ <<>> \in Seq(Plain)
  BY NoCall
<1>2. <<>> \notin Publications
  BY DEF Publications
<1>3. (RunKnown(p) /\ ~Publishing(p) /\ ~Removing(p) /\ ~Retagging(p))'
  BY <1>1, <1>2 DEF RunKnown, Publishing, Removing, Retagging, Step, Running
<1> QED BY <1>3, NoCall DEF CallKind, Writing

LEMMA PlainRun ==
  ASSUME NEW run \in Seq(Plain)
  PROVE  /\ run \notin Publications /\ \A i \in DOMAIN run : run[i] \in Plain
         /\ run # <<>> => Head(run) \in Plain
<1>1. run # <<>> => Head(run) \in Plain
  OBVIOUS
<1>2. run \in Publications => run # <<>> /\ Head(run) \in {"lock", "save", "tar", "manifests", "row"}
  BY DEF Publications
<1>3. \A i \in DOMAIN run : run[i] \in Plain
  OBVIOUS
<1> QED BY <1>1, <1>2, <1>3 DEF Plain

\* What does not publish then does not upload then.
LEMMA NoUpload ==
  ASSUME NEW p, RunKnown(p)', ~Publishing(p)'
  PROVE  ~Step(p, "manifests")' /\ ~Step(p, "row")'
<1>1. PICK run : run = at'[p].run
  OBVIOUS
<1>2. run # <<>> /\ Head(run) \in {"manifests", "row"} => run \notin Seq(Plain)
  BY PlainRun DEF Plain
<1> QED BY <1>1, <1>2 DEF RunKnown, Publishing, Retagging, Step, Running, Removals, Deprecations

\* The call goes on with steps that may come in any order.
LEMMA GoesOn ==
  ASSUME RunsKnown, NEW p \in Proc, CallKind(p), NEW l, NEW run \in Seq(Plain), Then(p, l, run),
         DOMAIN l = DOMAIN Nothing, l.v = at[p].v, l.flag = at[p].flag
  PROVE  /\ Frame(p) /\ RunKnown(p)' /\ CallKind(p)' /\ at'[p].run \in Seq(Plain)
         /\ at'[p].v \in {at[p].v, None} /\ at'[p].f \in {l.f, None} /\ at'[p].a \in {l.a, None}
<1>1. run # <<>> => Head(run) \in Plain
  OBVIOUS
<1>2. Frame(p) /\ at'[p] = IF run = <<>> THEN Nothing ELSE [l EXCEPT !.run = run]
  BY <1>1, ThenIs DEF Plain, RunsKnown
<1> DEFINE m == [l EXCEPT !.run = run]
<1>3. DOMAIN m = DOMAIN Nothing /\ m.run = run /\ m.v = l.v /\ m.flag = l.flag /\ m.f = l.f /\ m.a = l.a
  BY NoCall
<1>4. at'[p].run = run /\ at'[p].v \in {at[p].v, None} /\ at'[p].f \in {l.f, None} /\ at'[p].a \in {l.a, None}
      /\ DOMAIN at'[p] = DOMAIN Nothing /\ at'[p].flag \in {at[p].flag, FALSE}
  <2> HIDE DEF m
  <2>1. at'[p] = IF run = <<>> THEN Nothing ELSE m
    BY <1>2 DEF m
  <2> QED BY <1>3, <2>1, NoCall
<1>5. ~Publishing(p)' /\ ~Waiting(p)'
  BY <1>4, PlainRun DEF Publishing, Waiting, Running, Plain
<1> QED BY <1>2, <1>4, <1>5 DEF CallKind, Writing, RunKnown

-----------------------------------------------------------------------------
(* What a step of another call leaves as it is *)

IInv == RunsKnown /\ Kinds /\ Kept

\* Rows come where there is none, and go when their removal has begun.
Advance ==
  /\ past.removed \subseteq past'.removed /\ (~past'.raced => ~past.raced)
  /\ \A v \in Version : \/ rows'[v] = rows[v] \/ rows[v] = None
                        \/ rows'[v] = None /\ <<v, rows[v]>> \in past'.removed

LEMMA KnownStays ==
  ASSUME Advance, NEW v \in Version, Known(v)
  PROVE  Known(v)'
<1>1. CASE v \in {x[1] : x \in past.removed}
  BY <1>1 DEF Advance, Known
<1>2. CASE rows[v] # None /\ rows'[v] = rows[v]
  BY <1>2 DEF Known
<1>3. CASE <<v, rows[v]>> \in past'.removed
  <2>1. <<v, rows[v]>>[1] = v
    OBVIOUS
  <2> QED BY <1>3, <2>1 DEF Known
<1> QED BY <1>1, <1>2, <1>3 DEF Advance, Known

LEMMA SoundStays ==
  ASSUME Advance, NEW doc, Sound(doc)
  PROVE  Sound(doc)'
<1>1. \A t \in Tag : Named(doc.tags[t]) => Named(doc.tags[t])'
  BY KnownStays DEF Named
<1>2. ASSUME doc.versions # None, NEW v \in Version, doc.versions[v] # None
      PROVE  ((v \in Existing /\ rows[v] = doc.versions[v].pub) \/ <<v, doc.versions[v].pub>> \in past.removed)'
  BY <1>2 DEF Sound, Advance, Existing
<1> QED BY <1>1, <1>2 DEF Sound

LEMMA CarriesStay ==
  ASSUME Advance, NEW q, at'[q] = at[q], Carries(q)
  PROVE  Carries(q)'
<1>1. PICK c : c = at[q]
  OBVIOUS
<1>2. /\ Sound(c.f) => Sound(c.f)'
      /\ Sound(c.a) => Sound(c.a)'
      /\ Named(c.v) => Named(c.v)'
  BY SoundStays, KnownStays DEF Named
<1>3. /\ Sound(at[q].f)' <=> Sound(c.f)'
      /\ Sound(at[q].a)' <=> Sound(c.a)'
      /\ Named(at[q].v)' <=> Named(c.v)'
  BY <1>1 DEF Sound, Named, Known
<1> QED
  BY <1>1, <1>2, <1>3 DEF Carries, SoundOrNone, Retagging, Step, Running, Rest, Publishing

LEMMA UploadsStay ==
  ASSUME NEW q, at'[q] = at[q], Uploads(q), Writing(q) => lock' = lock,
         Writing(q) /\ ~Step(q, "save") => rows'[at[q].v] = rows[at[q].v],
         Step(q, "manifests") \/ Step(q, "row") => file'[at[q].v].tar = file[at[q].v].tar,
         Step(q, "row") => \A which \in {"man", "abb"} : file[at[q].v][which] # None =>
           file'[at[q].v][which] # None /\ file'[at[q].v][which].pub = file[at[q].v][which].pub
  PROVE  Uploads(q)'
BY DEF Uploads, Writing, Publishing, Waiting, Running, Step

LEMMA RemovesStay ==
  ASSUME NEW q, at'[q] = at[q], Removes(q), past.removed \subseteq past'.removed,
         Removing(q) => \A v \in Existing : rows'[v] = rows[v]
  PROVE  Removes(q)'
<1>1. Target(q)' = Target(q)
  BY DEF Target
<1>2. Removing(q) => \A v \in Existing : v \in Existing' /\ rows'[v] = rows[v]
  BY DEF Existing
<1> QED BY <1>1, <1>2 DEF Removes, Removing, Step, Running

LEMMA StepKeeps ==
  ASSUME IInv, NEW p \in Proc, Frame(p), RunKnown(p)', CallKind(p)', StoreKinds',
         ~past'.raced =>
           /\ Advance
           /\ \A v \in Version : FilesFit(v)'
           /\ \A t \in Tag : Named(tags[t])'
           /\ SoundOrNone(full)' /\ SoundOrNone(abbr)'
           /\ Uploads(p)' /\ Removes(p)' /\ Carries(p)'
           /\ \A q \in Proc \ {p} : Uploads(q)' /\ Removes(q)'
           /\ Removing(p)' => Removing(p) \/ \A q \in Proc \ {p} : ~Removing(q)
  PROVE  IInv'
<1>1. \A q \in Proc \ {p} : at'[q] = at[q]
  BY DEF Frame
<1>2. RunsKnown'
  <2>1. \A q \in Proc \ {p} : RunKnown(q)'
    BY <1>1 DEF IInv, RunsKnown, RunKnown, Retagging, Step, Running, Rest
  <2> QED BY <2>1 DEF RunsKnown, Frame
<1>3. Kinds'
  <2>1. \A q \in Proc \ {p} : CallKind(q)'
    BY <1>1 DEF IInv, Kinds, CallKind, Writing, Publishing, Waiting, Step, Running
  <2> QED BY <2>1 DEF Kinds
<1>4. Kept'
  <2> SUFFICES ASSUME ~past'.raced PROVE Kept'
    BY DEF Kept
  <2>1. ~past.raced
    BY DEF Advance
  <2>2. \A q \in Proc \ {p} : Carries(q)'
    BY <1>1, <2>1, CarriesStay DEF IInv, Kept
  <2>3. \A q \in Proc \ {p} : Removing(q)' <=> Removing(q)
    BY <1>1 DEF Removing
  <2>4. \A q, r \in Proc : (Removing(q) /\ Removing(r))' => q = r
    <3>1. \A q, r \in Proc : Removing(q) /\ Removing(r) => q = r
      BY <2>1 DEF IInv, Kept
    <3>2. Removing(p)' => Removing(p) \/ \A q \in Proc \ {p} : ~Removing(q)
      OBVIOUS
    <3> QED BY <2>3, <3>1, <3>2
  <2> QED BY <2>2, <2>4 DEF Kept
<1> QED BY <1>2, <1>3, <1>4 DEF IInv

-----------------------------------------------------------------------------
(* Steps that leave rows and files alone *)

LEMMA QuietAdvances ==
  ASSUME IInv, UNCHANGED rows, past'.removed = past.removed, ~past'.raced => ~past.raced
  PROVE  /\ Advance
         /\ \A v \in Version : (Known(v) <=> Known(v)') /\ (Named(v) <=> Named(v)')
BY DEF Advance, Known, Named

LEMMA QuietStep ==
  ASSUME IInv, NEW p \in Proc, Frame(p), RunKnown(p)', CallKind(p)', UNCHANGED <<rows, file>>,
         pubs' \in Nat, DOMAIN tags' = Tag, past'.removed = past.removed, DOMAIN past' = DOMAIN past,
         past'.raced \in BOOLEAN, ~past'.raced => ~past.raced,
         ~past'.raced =>
           /\ \A t \in Tag : Named(tags[t])'
           /\ SoundOrNone(full)' /\ SoundOrNone(abbr)'
           /\ Uploads(p)' /\ Removes(p)' /\ Carries(p)'
           /\ \A q \in Proc \ {p} : Writing(q) => lock' = lock
           /\ Removing(p)' => Removing(p) \/ \A q \in Proc \ {p} : ~Removing(q)
  PROVE  IInv'
<1>1. Advance
  BY QuietAdvances
<1>2. StoreKinds'
  BY DEF IInv, Kinds, StoreKinds
<1>3. ASSUME ~past'.raced
      PROVE  /\ \A v \in Version : FilesFit(v)'
             /\ \A q \in Proc \ {p} : Uploads(q)' /\ Removes(q)'
  <2>1. ~past.raced
    BY <1>3
  <2>2. \A q \in Proc \ {p} : at'[q] = at[q] /\ Uploads(q) /\ Removes(q)
    BY <2>1 DEF Frame, IInv, Kept
  <2>3. \A q \in Proc \ {p} : Uploads(q)'
    BY <1>3, <2>2, UploadsStay
  <2>4. \A q \in Proc \ {p} : Removes(q)'
    BY <2>2, RemovesStay
  <2>5. \A v \in Version : FilesFit(v)'
    BY <2>1 DEF IInv, Kept, FilesFit
  <2> QED BY <2>3, <2>4, <2>5
<1> QED BY <1>1, <1>2, <1>3, StepKeeps

\* The same, of a call that neither publishes nor removes from then on.
LEMMA MoveStep ==
  ASSUME IInv, NEW p \in Proc, Frame(p), RunKnown(p)', CallKind(p)', ~Publishing(p)', ~Removing(p)',
         UNCHANGED <<rows, file>>, pubs' \in Nat, past'.removed = past.removed, DOMAIN past' = DOMAIN past,
         past'.raced \in BOOLEAN, ~past'.raced => ~past.raced, DOMAIN tags' = Tag,
         ~past'.raced =>
           /\ \A t \in Tag : Named(tags'[t])
           /\ SoundOrNone(full') /\ SoundOrNone(abbr')
           /\ SoundOrNone(at'[p].f) /\ SoundOrNone(at'[p].a) /\ Named(at'[p].v)
           /\ Retagging(p)' => Sound(at'[p].f) /\ Sound(at'[p].a)
           /\ \A q \in Proc \ {p} : Writing(q) => lock' = lock
  PROVE  IInv'
<1>1. /\ \A doc : Sound(doc) => Sound(doc)'
      /\ \A v : Named(v) => Named(v)'
  BY QuietAdvances, SoundStays DEF Named
<1>2. ASSUME ~past'.raced
      PROVE  /\ \A t \in Tag : Named(tags[t])'
             /\ SoundOrNone(full)' /\ SoundOrNone(abbr)' /\ Carries(p)'
  <2>1. PICK c : c = at'[p]
    OBVIOUS
  <2>2. PICK ts : ts = tags'
    OBVIOUS
  <2>3. PICK fs : fs = full'
    OBVIOUS
  <2>4. PICK as : as = abbr'
    OBVIOUS
  <2>5. /\ \A t \in Tag : Named(ts[t])'
        /\ (fs # None => Sound(fs)') /\ (as # None => Sound(as)')
        /\ (c.f # None => Sound(c.f)') /\ (c.a # None => Sound(c.a)') /\ Named(c.v)'
        /\ Retagging(p)' => Sound(c.f)' /\ Sound(c.a)'
    BY <1>1, <1>2, <2>1, <2>2, <2>3, <2>4 DEF SoundOrNone
  <2> QED BY <2>1, <2>2, <2>3, <2>4, <2>5 DEF Carries, SoundOrNone, Sound, Named, Known
<1>3. Uploads(p)' /\ Removes(p)'
  <2>1. ~Writing(p)' /\ ~Step(p, "manifests")' /\ ~Step(p, "row")'
    BY NoUpload DEF Writing
  <2> QED BY <2>1 DEF Uploads, Removes
<1> QED BY <1>2, <1>3, QuietStep

\* The step is followed by what may come in any order.
LEMMA PlainStep ==
  ASSUME IInv, NEW p \in Proc, NEW l, NEW run \in Seq(Plain), Then(p, l, run),
         DOMAIN l = DOMAIN Nothing, l.v = at[p].v, l.flag = at[p].flag,
         UNCHANGED <<rows, file>>, pubs' \in Nat, past' = past, DOMAIN tags' = Tag,
         ~past.raced =>
           /\ \A t \in Tag : Named(tags'[t])
           /\ SoundOrNone(full') /\ SoundOrNone(abbr')
           /\ SoundOrNone(l.f) /\ SoundOrNone(l.a) /\ Named(at[p].v)
           /\ \A q \in Proc \ {p} : Writing(q) => lock' = lock
  PROVE  IInv'
<1>1. /\ Frame(p) /\ RunKnown(p)' /\ CallKind(p)' /\ at'[p].run \in Seq(Plain)
      /\ at'[p].v \in {at[p].v, None} /\ at'[p].f \in {l.f, None} /\ at'[p].a \in {l.a, None}
  BY GoesOn DEF IInv, Kinds
<1>2. (~Publishing(p) /\ ~Removing(p) /\ ~Retagging(p))'
  BY <1>1, PlainRun DEF Publishing, Removing, Retagging, Running, Step, Plain
<1>3. DOMAIN past' = DOMAIN past /\ past'.raced \in BOOLEAN
  BY DEF IInv, Kinds, StoreKinds
<1>4. ~past.raced =>
        SoundOrNone(at'[p].f) /\ SoundOrNone(at'[p].a) /\ Named(at'[p].v)
  BY <1>1, PackageAssumption DEF SoundOrNone, Named
<1> QED BY <1>1, <1>2, <1>3, <1>4, MoveStep

LEMMA Front ==
  ASSUME NEW S, NEW x \in S, NEW y \in S, NEW z \in S, NEW rest \in Seq(S)
  PROVE  /\ <<x, y, z>> \o rest \in Seq(S) /\ <<x, y, z>> \o rest # <<>>
         /\ Head(<<x, y, z>> \o rest) = x /\ Tail(<<x, y, z>> \o rest) = <<y, z>> \o rest
OBVIOUS

\* The step is followed by the tags, which go into both documents.
LEMMA RetagStep ==
  ASSUME IInv, NEW p \in Proc, NEW l, NEW rest \in Seq(Plain),
         Then(p, l, <<"distTags", "full", "abbr">> \o rest),
         DOMAIN l = DOMAIN Nothing, l.v = at[p].v, l.flag = at[p].flag,
         UNCHANGED <<rows, tags, file, full, abbr, lock, pubs, past>>,
         ~past.raced => Sound(l.f) /\ Sound(l.a) /\ Named(at[p].v)
  PROVE  IInv'
<1> DEFINE run == <<"distTags", "full", "abbr">> \o rest
           m == [l EXCEPT !.run = run]
<1>1. /\ run \in Seq(Plain \cup {"distTags"}) /\ run # <<>> /\ Head(run) = "distTags"
      /\ Tail(run) \in Seq(Plain)
  <2>1. rest \in Seq(Plain \cup {"distTags"})
    OBVIOUS
  <2>2. {"distTags", "full", "abbr"} \subseteq Plain \cup {"distTags"} /\ {"full", "abbr"} \subseteq Plain
    BY DEF Plain
  <2>3. Tail(run) = <<"full", "abbr">> \o rest
    BY <2>1, <2>2, Front
  <2>4. <<"full", "abbr">> \o rest \in Seq(Plain)
    BY <2>2
  <2>5. run \in Seq(Plain \cup {"distTags"}) /\ run # <<>> /\ Head(run) = "distTags"
    BY <2>1, <2>2, Front
  <2> HIDE DEF run
  <2> QED BY <2>3, <2>4, <2>5
<1>2. Frame(p) /\ at'[p] = m
  <2> HIDE DEF run
  <2>1. run # <<>> /\ Head(run) # "next"
    BY <1>1
  <2>2. Then(p, l, run)
    BY DEF run
  <2> QED BY <2>1, <2>2, ThenIs DEF IInv, RunsKnown
<1>3. DOMAIN m = DOMAIN Nothing /\ m.run = run /\ m.v = l.v /\ m.flag = l.flag /\ m.f = l.f /\ m.a = l.a
  <2> HIDE DEF run
  <2> QED BY NoCall
<1> HIDE DEF run, m
<1>4. Retagging(p)' /\ RunKnown(p)'
  BY <1>1, <1>2, <1>3 DEF Retagging, RunKnown, Step, Running, Rest
<1>5. (~Publishing(p) /\ ~Removing(p) /\ ~Waiting(p))'
  <2>1. \A i \in DOMAIN run : run[i] \in Plain \cup {"distTags"}
    BY <1>1
  <2>2. run \notin Publications
    BY <1>1 DEF Publications
  <2> QED BY <1>1, <1>2, <1>3, <2>1, <2>2 DEF Publishing, Removing, Waiting, Plain
<1>6. CallKind(p)'
  BY <1>2, <1>3, <1>5 DEF CallKind, IInv, Kinds, Writing
<1>7. DOMAIN past' = DOMAIN past /\ past'.raced \in BOOLEAN /\ pubs' \in Nat /\ DOMAIN tags' = Tag
  BY DEF IInv, Kinds, StoreKinds
<1>8. ~past'.raced =>
        /\ \A t \in Tag : Named(tags'[t])
        /\ SoundOrNone(full') /\ SoundOrNone(abbr')
        /\ SoundOrNone(at'[p].f) /\ SoundOrNone(at'[p].a) /\ Named(at'[p].v)
        /\ Sound(at'[p].f) /\ Sound(at'[p].a)
  BY <1>2, <1>3 DEF SoundOrNone, IInv, Kept
<1> QED BY <1>2, <1>4, <1>5, <1>6, <1>7, <1>8, MoveStep

-----------------------------------------------------------------------------
(* The documents *)

LEMMA Holds ==
  ASSUME IInv, NEW p \in Proc
  PROVE  /\ DOMAIN at = Proc /\ DOMAIN at[p] = DOMAIN Nothing /\ RunKnown(p) /\ CallKind(p)
         /\ DOMAIN tags = Tag /\ pubs \in Nat /\ past.raced \in BOOLEAN
         /\ ~past.raced =>
              /\ \A t \in Tag : Named(tags[t])
              /\ SoundOrNone(full) /\ SoundOrNone(abbr)
              /\ SoundOrNone(at[p].f) /\ SoundOrNone(at[p].a) /\ SoundOrNone(None)
              /\ Retagging(p) => Sound(at[p].f) /\ Sound(at[p].a)
              /\ ~Publishing(p) => Named(at[p].v)
BY DEF IInv, RunsKnown, Kinds, StoreKinds, CallKind, Kept, Carries, SoundOrNone

LEMMA WithDocs ==
  ASSUME NEW l, DOMAIN l = DOMAIN Nothing, NEW x, NEW y
  PROVE  LET m == [l EXCEPT !.f = x, !.a = y]
         IN DOMAIN m = DOMAIN Nothing /\ m.v = l.v /\ m.flag = l.flag /\ m.f = x /\ m.a = y
BY NoCall

LEMMA DocOfSound ==
  ASSUME IInv, ~past.raced, NEW which \in {"man", "abb"}
  PROVE  Sound(DocOf(which))
<1> DEFINE listed == [v \in Version |-> IF rows[v] # None THEN file[v][which] ELSE None]
<1>1. /\ {"versions", "tags"} \subseteq DOMAIN DocOf(which)
      /\ DocOf(which).tags = tags /\ DocOf(which).versions = listed
  BY DEF DocOf, Document
<1>2. \A v \in Version : listed[v] # None => rows[v] # None /\ listed[v].pub = rows[v]
  BY DEF IInv, Kept, FilesFit
<1> HIDE DEF listed
<1>3. \A t \in Tag : Named(tags[t])
  BY DEF IInv, Kept
<1> QED BY <1>1, <1>2, <1>3 DEF Sound, Existing

LEMMA PatchedSound ==
  ASSUME IInv, ~past.raced, NEW which \in {"man", "abb"}, NEW doc, Sound(doc), doc.versions # None,
         NEW upd, NEW rem
  PROVE  Sound(Patched(doc, which, upd, rem))
<1> DEFINE new == [v \in Version |->
             IF v \in rem THEN None
             ELSE IF v \in upd /\ rows[v] # None /\ file[v].man # None /\ file[v][which] # None
                  THEN file[v][which] ELSE doc.versions[v]]
<1>1. Patched(doc, which, upd, rem) = [doc EXCEPT !.versions = new]
  BY DEF Patched
<1>2. PICK patched : patched = Patched(doc, which, upd, rem)
  OBVIOUS
<1>3. DOMAIN patched = DOMAIN doc /\ patched.versions = new /\ patched.tags = doc.tags
  <2> HIDE DEF new
  <2> QED BY <1>1, <1>2 DEF Sound
<1>4. ASSUME NEW v \in Version, new[v] # None
      PROVE  (v \in Existing /\ rows[v] = new[v].pub) \/ <<v, new[v].pub>> \in past.removed
  <2>1. rows[v] # None /\ file[v][which] # None => file[v][which].pub = rows[v]
    BY DEF IInv, Kept, FilesFit
  <2>2. doc.versions[v] # None =>
          (v \in Existing /\ rows[v] = doc.versions[v].pub) \/ <<v, doc.versions[v].pub>> \in past.removed
    BY DEF Sound
  <2> QED BY <1>4, <2>1, <2>2 DEF Existing
<1> HIDE DEF new
<1>5. Sound(patched)
  BY <1>3, <1>4 DEF Sound
<1> QED BY <1>2, <1>5

LEMMA RefreshStep ==
  ASSUME IInv, NEW p \in Proc, Refresh(p)
  PROVE  IInv'
<1>1. /\ Rest(p) \in Seq(Plain) /\ ~Publishing(p)
      /\ <<"full", "abbr">> \o Rest(p) \in Seq(Plain)
  <2>1. Rest(p) \in Seq(Plain) /\ ~Publishing(p)
    BY Holds, AtPlain DEF Refresh, Plain
  <2> QED BY <2>1 DEF Plain
<1>2. PICK rest : rest = Rest(p)
  OBVIOUS
<1>3. PICK l : l = at[p]
  OBVIOUS
<1>4. CASE Continue(p, at[p])
  BY <1>1, <1>2, <1>3, <1>4, Holds, PlainStep DEF Refresh, Continue, store
<1>5. CASE Then(p, [at[p] EXCEPT !.f = DocOf("man"), !.a = DocOf("abb")], <<"full", "abbr">> \o Rest(p))
  <2>1. PICK m : m = [l EXCEPT !.f = DocOf("man"), !.a = DocOf("abb")]
    OBVIOUS
  <2>2. /\ DOMAIN m = DOMAIN Nothing /\ m.v = l.v /\ m.flag = l.flag
        /\ m.f = DocOf("man") /\ m.a = DocOf("abb")
    BY <1>3, <2>1, Holds, WithDocs
  <2>3. ~past.raced => SoundOrNone(m.f) /\ SoundOrNone(m.a)
    BY <2>2, DocOfSound DEF SoundOrNone
  <2>4. PICK run : run = <<"full", "abbr">> \o Rest(p)
    OBVIOUS
  <2>5. Then(p, m, run) /\ run \in Seq(Plain)
    BY <1>1, <1>3, <1>5, <2>1, <2>4
  <2> QED BY <1>1, <1>3, <2>2, <2>3, <2>5, Holds, PlainStep DEF Refresh, store
<1>6. CASE /\ HasVersions(full) /\ HasVersions(abbr)
           /\ Then(p, [at[p] EXCEPT !.f = Patched(full, "man", at[p].upd, at[p].rem),
                                    !.a = Patched(abbr, "abb", at[p].upd, at[p].rem)],
                   <<"distTags", "full", "abbr">> \o Rest(p))
  <2>1. PICK x : x = Patched(full, "man", at[p].upd, at[p].rem)
    OBVIOUS
  <2>2. PICK y : y = Patched(abbr, "abb", at[p].upd, at[p].rem)
    OBVIOUS
  <2>3. PICK m : m = [l EXCEPT !.f = x, !.a = y]
    OBVIOUS
  <2>4. DOMAIN m = DOMAIN Nothing /\ m.v = l.v /\ m.flag = l.flag /\ m.f = x /\ m.a = y
    BY <1>3, <2>3, Holds, WithDocs
  <2>5. ~past.raced => Sound(m.f) /\ Sound(m.a) /\ Named(at[p].v)
    BY <1>1, <1>6, <2>1, <2>2, <2>4, Holds, PatchedSound DEF HasVersions, SoundOrNone
  <2>6. Then(p, m, <<"distTags", "full", "abbr">> \o rest)
    BY <1>2, <1>3, <1>6, <2>1, <2>2, <2>3
  <2>7. UNCHANGED <<rows, tags, file, full, abbr, lock, pubs, past>>
    BY DEF Refresh, store
  <2> QED BY <1>1, <1>2, <1>3, <2>4, <2>5, <2>6, <2>7, RetagStep
<1> QED BY <1>4, <1>5, <1>6 DEF Refresh

LEMMA RefreshTagsStep ==
  ASSUME IInv, NEW p \in Proc, RefreshTags(p)
  PROVE  IInv'
<1>1. /\ at[p].run \in Seq(Plain) /\ Rest(p) \in Seq(Plain) /\ ~Publishing(p)
      /\ <<"full">> \o Rest(p) \in Seq(Plain)
  <2>1. at[p].run \in Seq(Plain) /\ Rest(p) \in Seq(Plain) /\ ~Publishing(p)
    BY Holds, AtPlain DEF RefreshTags, Plain
  <2> QED BY <2>1 DEF Plain
<1>2. PICK rest : rest = Rest(p)
  OBVIOUS
<1>3. PICK l : l = at[p]
  OBVIOUS
<1>4. CASE Throw(p) \/ Continue(p, at[p])
  <2>1. PICK run : run \in {From(at[p].run, {"unlock"}), Rest(p)} /\ Then(p, l, run)
    BY <1>3, <1>4 DEF Throw, Continue
  <2>2. run \in Seq(Plain)
    BY <1>1, <2>1, FromPlain
  <2> QED BY <1>1, <1>3, <2>1, <2>2, Holds, PlainStep DEF RefreshTags, store
<1>5. PICK m : m = [l EXCEPT !.f = full, !.a = abbr]
  OBVIOUS
<1>6. /\ DOMAIN m = DOMAIN Nothing /\ m.v = l.v /\ m.flag = l.flag /\ m.f = full /\ m.a = abbr
      /\ ~past.raced => SoundOrNone(m.f) /\ SoundOrNone(m.a)
  <2>1. DOMAIN m = DOMAIN Nothing /\ m.v = l.v /\ m.flag = l.flag /\ m.f = full /\ m.a = abbr
    BY <1>3, <1>5, Holds, WithDocs
  <2> QED BY <2>1, Holds
<1>7. CASE Then(p, [at[p] EXCEPT !.f = full, !.a = abbr], <<"full">> \o Rest(p))
  <2>1. PICK run : run = <<"full">> \o Rest(p)
    OBVIOUS
  <2>2. Then(p, m, run) /\ run \in Seq(Plain)
    BY <1>1, <1>3, <1>5, <1>7, <2>1
  <2> QED BY <1>1, <1>3, <1>6, <2>2, Holds, PlainStep DEF RefreshTags, store
<1>8. CASE /\ full # None /\ abbr # None
           /\ Then(p, [at[p] EXCEPT !.f = full, !.a = abbr], <<"distTags", "full", "abbr">> \o Rest(p))
  <2>1. Then(p, m, <<"distTags", "full", "abbr">> \o rest)
    BY <1>2, <1>3, <1>5, <1>8
  <2>2. ~past.raced => Sound(m.f) /\ Sound(m.a) /\ Named(at[p].v)
    BY <1>1, <1>6, <1>8, Holds DEF SoundOrNone
  <2>3. UNCHANGED <<rows, tags, file, full, abbr, lock, pubs, past>>
    BY DEF RefreshTags, store
  <2> QED BY <1>1, <1>2, <1>3, <1>6, <2>1, <2>2, <2>3, RetagStep
<1>9. \/ Throw(p) \/ Continue(p, at[p])
      \/ /\ full # None
         /\ Then(p, [at[p] EXCEPT !.f = full, !.a = abbr],
                 (IF abbr = None THEN <<"full">> ELSE <<"distTags", "full", "abbr">>) \o Rest(p))
  BY DEF RefreshTags
<1> QED BY <1>4, <1>7, <1>8, <1>9

\* A document whose versions and tags are those of another.
LEMMA SoundLike ==
  ASSUME NEW doc, Sound(doc), NEW new, DOMAIN new = DOMAIN doc, new.versions = doc.versions, new.tags = doc.tags
  PROVE  Sound(new)
BY DEF Sound

LEMMA RefreshPeopleStep ==
  ASSUME IInv, NEW p \in Proc, RefreshPeople(p)
  PROVE  IInv'
<1>1. /\ at[p].run \in Seq(Plain) /\ Rest(p) \in Seq(Plain) /\ ~Publishing(p)
      /\ <<"full">> \o Rest(p) \in Seq(Plain)
  <2>1. at[p].run \in Seq(Plain) /\ Rest(p) \in Seq(Plain) /\ ~Publishing(p)
    BY Holds, AtPlain DEF RefreshPeople, Plain
  <2> QED BY <2>1 DEF Plain
<1>2. PICK l : l = at[p]
  OBVIOUS
<1>3. CASE Throw(p) \/ Continue(p, at[p])
  <2>1. PICK run : run \in {From(at[p].run, {"unlock"}), Rest(p)} /\ Then(p, l, run)
    BY <1>2, <1>3 DEF Throw, Continue
  <2>2. run \in Seq(Plain)
    BY <1>1, <2>1, FromPlain
  <2> QED BY <1>1, <1>2, <2>1, <2>2, Holds, PlainStep DEF RefreshPeople, store
<1>4. CASE /\ full # None
           /\ Then(p, [at[p] EXCEPT !.f = [full EXCEPT !.people = people]], <<"full">> \o Rest(p))
  <2>1. PICK x : x = [full EXCEPT !.people = people]
    OBVIOUS
  <2>2. DOMAIN x = DOMAIN full /\ ({"versions", "tags"} \subseteq DOMAIN full => x.versions = full.versions /\ x.tags = full.tags)
    BY <2>1
  <2>3. ~past.raced => Sound(x)
    <3>1. PICK d : d = full
      OBVIOUS
    <3>2. Sound(d) => Sound(x)
      BY <2>2, <3>1, SoundLike DEF Sound
    <3> QED BY <1>4, <3>1, <3>2, Holds DEF SoundOrNone
  <2>4. PICK m : m = [l EXCEPT !.f = x]
    OBVIOUS
  <2>5. DOMAIN m = DOMAIN Nothing /\ m.v = l.v /\ m.flag = l.flag /\ m.f = x /\ m.a = l.a
    BY <1>2, <2>4, Holds, NoCall
  <2>6. PICK run : run = <<"full">> \o Rest(p)
    OBVIOUS
  <2>7. Then(p, m, run) /\ run \in Seq(Plain)
    BY <1>1, <1>2, <1>4, <2>1, <2>4, <2>6
  <2>8. ~past.raced => SoundOrNone(m.f) /\ SoundOrNone(m.a)
    BY <1>2, <2>3, <2>5, Holds DEF SoundOrNone
  <2> QED BY <1>1, <1>2, <2>5, <2>7, <2>8, Holds, PlainStep DEF RefreshPeople, store
<1> QED BY <1>3, <1>4 DEF RefreshPeople

LEMMA SetDistTagsStep ==
  ASSUME IInv, NEW p \in Proc, SetDistTags(p)
  PROVE  IInv'
<1>1. Retagging(p) /\ Rest(p) \in Seq(Plain) /\ ~Publishing(p)
  <2>1. Retagging(p)
    BY Holds, AtOther DEF SetDistTags
  <2> QED BY <2>1, Holds, Places DEF Retagging
<1>2. PICK l : l = at[p]
  OBVIOUS
<1>3. PICK x : x = [l.f EXCEPT !.tags = tags]
  OBVIOUS
<1>4. PICK y : y = [l.a EXCEPT !.tags = tags]
  OBVIOUS
<1>5. PICK m : m = [l EXCEPT !.f = x, !.a = y]
  OBVIOUS
<1>6. DOMAIN m = DOMAIN Nothing /\ m.v = l.v /\ m.flag = l.flag /\ m.f = x /\ m.a = y
  BY <1>2, <1>5, Holds, WithDocs
<1>7. ASSUME NEW doc, Sound(doc), ~past.raced
      PROVE  Sound([doc EXCEPT !.tags = tags])
  <2>1. PICK new : new = [doc EXCEPT !.tags = tags]
    OBVIOUS
  <2>2. DOMAIN new = DOMAIN doc /\ new.versions = doc.versions /\ new.tags = tags
    BY <1>7, <2>1 DEF Sound
  <2>3. \A t \in Tag : Named(tags[t])
    BY <1>7, Holds
  <2> QED BY <1>7, <2>1, <2>2, <2>3 DEF Sound
<1>8. ~past.raced => SoundOrNone(m.f) /\ SoundOrNone(m.a)
  BY <1>1, <1>2, <1>3, <1>4, <1>6, <1>7, Holds DEF SoundOrNone
<1>9. PICK run : run = Rest(p)
  OBVIOUS
<1>10. Then(p, m, run)
  BY <1>2, <1>3, <1>4, <1>5, <1>9 DEF SetDistTags, Continue
<1> QED BY <1>1, <1>2, <1>6, <1>8, <1>9, <1>10, Holds, PlainStep DEF SetDistTags, store

LEMMA WriteFullStep ==
  ASSUME IInv, NEW p \in Proc, WriteFull(p)
  PROVE  IInv'
<1>1. Rest(p) \in Seq(Plain) /\ ~Publishing(p)
  BY Holds, AtPlain DEF WriteFull, Plain
<1>2. PICK l : l = at[p]
  OBVIOUS
<1>3. PICK m : m = [l EXCEPT !.f = None, !.ent.full = TRUE]
  OBVIOUS
<1>4. DOMAIN m = DOMAIN Nothing /\ m.v = l.v /\ m.flag = l.flag /\ m.f = None /\ m.a = l.a
  BY <1>2, <1>3, Holds, NoCall
<1>5. PICK run : run = Rest(p)
  OBVIOUS
<1>6. Then(p, m, run) /\ full' = l.f
  BY <1>2, <1>3, <1>5 DEF WriteFull, Continue
<1> QED BY <1>1, <1>2, <1>4, <1>5, <1>6, Holds, PlainStep DEF WriteFull

LEMMA WriteAbbrStep ==
  ASSUME IInv, NEW p \in Proc, WriteAbbr(p)
  PROVE  IInv'
<1>1. Rest(p) \in Seq(Plain) /\ ~Publishing(p)
  BY Holds, AtPlain DEF WriteAbbr, Plain
<1>2. PICK l : l = at[p]
  OBVIOUS
<1>3. PICK m : m = [l EXCEPT !.a = None, !.ent.abbr = TRUE]
  OBVIOUS
<1>4. DOMAIN m = DOMAIN Nothing /\ m.v = l.v /\ m.flag = l.flag /\ m.a = None /\ m.f = l.f
  BY <1>2, <1>3, Holds, NoCall
<1>5. PICK run : run = Rest(p)
  OBVIOUS
<1>6. Then(p, m, run) /\ abbr' = l.a
  BY <1>2, <1>3, <1>5 DEF WriteAbbr, Continue
<1> QED BY <1>1, <1>2, <1>4, <1>5, <1>6, Holds, PlainStep DEF WriteAbbr

-----------------------------------------------------------------------------
(* Tags, maintainers, blocks and the lock *)

LEMMA ReleaseLockStep ==
  ASSUME IInv, NEW p \in Proc, ReleaseLock(p)
  PROVE  IInv'
<1>1. Rest(p) \in Seq(Plain) /\ ~Publishing(p)
  BY Holds, AtPlain DEF ReleaseLock, Plain
<1>2. PICK l : l = at[p]
  OBVIOUS
<1>3. PICK run : run = Rest(p)
  OBVIOUS
<1>4. Then(p, l, run)
  BY <1>2, <1>3 DEF ReleaseLock, Continue
<1>5. ~past.raced => \A q \in Proc \ {p} : Writing(q) => lock' = lock
  BY DEF IInv, Kept, Uploads, ReleaseLock
<1> QED BY <1>1, <1>2, <1>3, <1>4, <1>5, Holds, PlainStep DEF ReleaseLock, store

LEMMA SaveTagsStep ==
  ASSUME IInv, NEW p \in Proc, SaveTags(p)
  PROVE  IInv'
<1>1. at[p].run \in Seq(Plain) /\ Rest(p) \in Seq(Plain) /\ ~Publishing(p)
  BY Holds, AtPlain DEF SaveTags, Plain
<1>2. PICK l : l = at[p]
  OBVIOUS
<1>3. CASE Continue(p, l) /\ UNCHANGED tags
  <2>1. PICK run : run = Rest(p)
    OBVIOUS
  <2> QED BY <1>1, <1>2, <1>3, <2>1, Holds, PlainStep DEF SaveTags, Continue
<1>4. CASE l.todo # {}
  <2>1. PICK t \in l.todo :
          LET m == [l EXCEPT !.todo = @ \ {t}]
          IN IF tags[t] = l.v THEN Then(p, m, m.run) /\ UNCHANGED tags
             ELSE tags' = [tags EXCEPT ![t] = l.v] /\ Then(p, m, <<"root">> \o m.run)
    BY <1>2, <1>4 DEF SaveTags
  <2>2. PICK m : m = [l EXCEPT !.todo = @ \ {t}]
    OBVIOUS
  <2>3. /\ DOMAIN m = DOMAIN Nothing /\ m.v = l.v /\ m.flag = l.flag /\ m.f = l.f /\ m.a = l.a
        /\ m.run = l.run
    BY <1>2, <2>2, Holds, NoCall
  <2>4. PICK run \in Seq(Plain) : Then(p, m, run)
    <3>1. m.run \in Seq(Plain) /\ <<"root">> \o m.run \in Seq(Plain)
      BY <1>1, <1>2, <2>3 DEF Plain
    <3> QED BY <2>1, <2>2, <3>1
  <2>5. DOMAIN tags' = Tag /\ (~past.raced => \A u \in Tag : Named(tags'[u]))
    <3>1. tags' = tags \/ tags' = [tags EXCEPT ![t] = l.v]
      BY <2>1
    <3>2. \A u \in Tag : tags'[u] \in {tags[u], l.v}
      BY <3>1, Holds
    <3> QED BY <1>1, <1>2, <3>1, <3>2, Holds
  <2> QED BY <1>1, <1>2, <2>3, <2>4, <2>5, Holds, PlainStep DEF SaveTags
<1> QED BY <1>2, <1>3, <1>4 DEF SaveTags

LEMMA MoveLatestStep ==
  ASSUME IInv, NEW p \in Proc, MoveLatest(p)
  PROVE  IInv'
<1>1. at[p].run \in Seq(Plain) /\ Rest(p) \in Seq(Plain) /\ ~Publishing(p)
  BY Holds, AtPlain DEF MoveLatest, Plain
<1>2. PICK l : l = at[p]
  OBVIOUS
<1>3. PICK run \in Seq(Plain) : Then(p, l, run)
  <2>1. Caller(at[p].run) \in Seq(Plain) /\ <<"root">> \o Rest(p) \in Seq(Plain)
    BY <1>1, FromPlain DEF Caller, Plain
  <2> QED BY <1>1, <1>2, <2>1 DEF MoveLatest, Return, Continue
<1>4. DOMAIN tags' = Tag /\ (~past.raced => \A t \in Tag : Named(tags'[t]))
  <2>1. CASE UNCHANGED tags
    BY <2>1, Holds
  <2>2. CASE Existing # {} /\ tags' = [tags EXCEPT !["latest"] = Max(Existing)]
    <3>1. Max(Existing) \in Existing
      <4>1. Existing \subseteq Version /\ IsFiniteSet(Existing)
        BY PackageAssumption, FS_Subset DEF Existing
      <4> QED BY <2>2, <4>1, MaxIs, PackageAssumption
    <3>2. Named(Max(Existing))
      BY <3>1 DEF Named, Known, Existing
    <3>3. \A t \in Tag : tags'[t] \in {tags[t], Max(Existing)}
      BY <2>2, Holds
    <3> QED BY <2>2, <3>2, <3>3, Holds
  <2> QED BY <2>1, <2>2 DEF MoveLatest
<1> QED BY <1>1, <1>2, <1>3, <1>4, Holds, PlainStep DEF MoveLatest

LEMMA BlankSound ==
  Sound(UnpublishedInfo)
<1>1. /\ {"versions", "tags"} \subseteq DOMAIN UnpublishedInfo
      /\ UnpublishedInfo.versions = None /\ \A t \in Tag : UnpublishedInfo.tags[t] = None
  BY DEF UnpublishedInfo, Document
<1> QED BY <1>1, PackageAssumption DEF Sound, Named

LEMMA BlankStep ==
  ASSUME IInv, NEW p \in Proc, BlankFull(p) \/ BlankAbbr(p)
  PROVE  IInv'
<1>1. at[p].run \in Seq(Plain) /\ Rest(p) \in Seq(Plain) /\ ~Publishing(p)
  BY Holds, AtPlain DEF BlankFull, BlankAbbr, Plain
<1>2. PICK l : l = at[p]
  OBVIOUS
<1>3. PICK run \in Seq(Plain) : Then(p, l, run)
  <2>1. From(at[p].run, {"unlock"}) \in Seq(Plain)
    BY <1>1, FromPlain
  <2> QED BY <1>1, <1>2, <2>1 DEF BlankFull, BlankAbbr, Throw, Continue
<1>4. full' \in {full, UnpublishedInfo} /\ abbr' \in {abbr, UnpublishedInfo}
  BY DEF BlankFull, BlankAbbr
<1>5. ~past.raced => SoundOrNone(full') /\ SoundOrNone(abbr')
  BY <1>4, BlankSound, Holds DEF SoundOrNone
<1> QED BY <1>1, <1>2, <1>3, <1>5, Holds, PlainStep DEF BlankFull, BlankAbbr

LEMMA DeleteTagStep ==
  ASSUME IInv, NEW p \in Proc, DeleteTag(p)
  PROVE  IInv'
<1>1. at[p].run \in Seq(Plain) /\ Rest(p) \in Seq(Plain) /\ ~Publishing(p)
  BY Holds, AtPlain DEF DeleteTag, Plain
<1>2. PICK l : l = at[p]
  OBVIOUS
<1>3. PICK t \in l.todo :
        IF tags[t] = None THEN Continue(p, [l EXCEPT !.todo = @ \ {t}]) /\ UNCHANGED tags
        ELSE /\ tags' = [tags EXCEPT ![t] = None]
             /\ Then(p, [l EXCEPT !.todo = @ \ {t}], <<"root">> \o Rest(p))
  BY <1>2 DEF DeleteTag
<1>4. PICK m : m = [l EXCEPT !.todo = @ \ {t}]
  OBVIOUS
<1>5. DOMAIN m = DOMAIN Nothing /\ m.v = l.v /\ m.flag = l.flag /\ m.f = l.f /\ m.a = l.a
  BY <1>2, <1>4, Holds, NoCall
<1>6. PICK run \in Seq(Plain) : Then(p, m, run)
  <2>1. <<"root">> \o Rest(p) \in Seq(Plain)
    BY <1>1 DEF Plain
  <2> QED BY <1>1, <1>3, <1>4, <2>1 DEF Continue
<1>7. DOMAIN tags' = Tag /\ (~past.raced => \A u \in Tag : Named(tags'[u]))
  <2>1. tags' = tags \/ tags' = [tags EXCEPT ![t] = None]
    BY <1>3
  <2>2. \A u \in Tag : tags'[u] \in {tags[u], None}
    BY <2>1, Holds
  <2>3. Named(None)
    BY PackageAssumption DEF Named
  <2> QED BY <2>1, <2>2, <2>3, Holds
<1> QED BY <1>1, <1>2, <1>5, <1>6, <1>7, Holds, PlainStep DEF DeleteTag

LEMMA ReplacePeopleStep ==
  ASSUME IInv, NEW p \in Proc, ReplacePeople(p)
  PROVE  IInv'
<1>1. Rest(p) \in Seq(Plain) /\ ~Publishing(p)
  BY Holds, AtPlain DEF ReplacePeople, Plain
<1>2. PICK l : l = at[p]
  OBVIOUS
<1>3. PICK m : m = [l EXCEPT !.todo = {}]
  OBVIOUS
<1>4. DOMAIN m = DOMAIN Nothing /\ m.v = l.v /\ m.flag = l.flag /\ m.f = l.f /\ m.a = l.a
  BY <1>2, <1>3, Holds, NoCall
<1>5. PICK run : run = Rest(p)
  OBVIOUS
<1>6. Then(p, m, run)
  BY <1>2, <1>3, <1>5 DEF ReplacePeople, Continue
<1> QED BY <1>1, <1>2, <1>4, <1>5, <1>6, Holds, PlainStep DEF ReplacePeople

LEMMA SaveBlockStep ==
  ASSUME IInv, NEW p \in Proc, SaveBlock(p)
  PROVE  IInv'
<1>1. Rest(p) \in Seq(Plain) /\ ~Publishing(p)
  BY Holds, AtPlain DEF SaveBlock, Plain
<1>2. PICK l : l = at[p]
  OBVIOUS
<1>3. PICK run : run = Rest(p)
  OBVIOUS
<1>4. Then(p, l, run)
  BY <1>2, <1>3 DEF SaveBlock, Continue
<1> QED BY <1>1, <1>2, <1>3, <1>4, Holds, PlainStep DEF SaveBlock

LEMMA RefreshBlockStep ==
  ASSUME IInv, NEW p \in Proc, RefreshBlock(p)
  PROVE  IInv'
<1>1. Rest(p) \in Seq(Plain) /\ ~Publishing(p)
  BY Holds, AtPlain DEF RefreshBlock, Plain
<1>2. PICK l : l = at[p]
  OBVIOUS
<1> DEFINE Marked(doc) == IF doc = None THEN None ELSE [doc EXCEPT !.block = l.flag]
<1>3. CASE Continue(p, at[p])
  <2>1. PICK run : run = Rest(p)
    OBVIOUS
  <2> QED BY <1>1, <1>2, <1>3, <2>1, Holds, PlainStep DEF RefreshBlock, Continue, store
<1>4. CASE Then(p, [l EXCEPT !.f = Marked(full), !.a = Marked(abbr)],
                (IF full = None THEN <<>> ELSE <<"full">>)
                \o (IF abbr = None THEN <<>> ELSE <<"abbr">>) \o Rest(p))
  <2>1. PICK m : m = [l EXCEPT !.f = Marked(full), !.a = Marked(abbr)]
    OBVIOUS
  <2>2. /\ DOMAIN m = DOMAIN Nothing /\ m.v = l.v /\ m.flag = l.flag
        /\ m.f = Marked(full) /\ m.a = Marked(abbr)
    <3> HIDE DEF Marked
    <3> QED BY <1>2, <2>1, Holds, WithDocs
  <2>3. ASSUME NEW doc, SoundOrNone(doc)
        PROVE  SoundOrNone(Marked(doc))
    <3>1. PICK new : new = [doc EXCEPT !.block = l.flag]
      OBVIOUS
    <3>2. Sound(doc) => DOMAIN new = DOMAIN doc /\ new.versions = doc.versions /\ new.tags = doc.tags
      BY <3>1 DEF Sound
    <3>3. Sound(doc) => Sound(new)
      BY <3>2, SoundLike
    <3> QED BY <2>3, <3>1, <3>3 DEF SoundOrNone
  <2>4. ~past.raced => SoundOrNone(m.f) /\ SoundOrNone(m.a)
    <3> HIDE DEF Marked
    <3> QED BY <2>2, <2>3, Holds
  <2>5. PICK run : run = (IF full = None THEN <<>> ELSE <<"full">>)
                         \o (IF abbr = None THEN <<>> ELSE <<"abbr">>) \o Rest(p)
    OBVIOUS
  <2>6. run \in Seq(Plain)
    <3>1. (IF full = None THEN <<>> ELSE <<"full">>) \in Seq(Plain)
          /\ (IF abbr = None THEN <<>> ELSE <<"abbr">>) \in Seq(Plain)
      <4>1. <<>> \in Seq(Plain) /\ <<"full">> \in Seq(Plain) /\ <<"abbr">> \in Seq(Plain)
        BY DEF Plain
      <4> QED BY <4>1
    <3> QED BY <1>1, <2>5, <3>1
  <2>7. Then(p, m, run)
    BY <1>4, <2>1, <2>5
  <2> QED BY <1>1, <1>2, <2>2, <2>4, <2>6, <2>7, Holds, PlainStep DEF RefreshBlock, store
<1> QED BY <1>2, <1>3, <1>4 DEF RefreshBlock

-----------------------------------------------------------------------------
(* Removals *)

LEMMA JoinedThree ==
  ASSUME NEW a, NEW b, NEW c
  PROVE  <<a>> \o <<b, c>> = <<a, b, c>>
<1> DEFINE s == <<a>> \o <<b, c>>
           t == <<a, b, c>>
<1>1. s \in Seq({a, b, c}) /\ t \in Seq({a, b, c}) /\ Len(s) = 3 /\ Len(t) = 3
  OBVIOUS
<1>2. \A i \in 1..3 : s[i] = t[i]
  OBVIOUS
<1> QED BY <1>1, <1>2, SeqEqual

LEMMA JoinedFour ==
  ASSUME NEW a, NEW b, NEW c, NEW d
  PROVE  <<a, b>> \o <<c, d>> = <<a, b, c, d>>
<1> DEFINE s == <<a, b>> \o <<c, d>>
           t == <<a, b, c, d>>
<1>1. s \in Seq({a, b, c, d}) /\ t \in Seq({a, b, c, d}) /\ Len(s) = 4 /\ Len(t) = 4
  OBVIOUS
<1>2. \A i \in 1..4 : s[i] = t[i]
  OBVIOUS
<1> QED BY <1>1, <1>2, SeqEqual

\* A call goes on at one of the places of a removal or a deprecation.
LEMMA Lands ==
  ASSUME IInv, NEW p \in Proc, NEW l, NEW run \in Removals \cup Deprecations, Then(p, l, run),
         DOMAIN l = DOMAIN Nothing, l.v = at[p].v, l.flag = at[p].flag
  PROVE  /\ Frame(p) /\ RunKnown(p)' /\ CallKind(p)' /\ ~Publishing(p)' /\ ~Retagging(p)'
         /\ at'[p].run = run /\ at'[p].v = l.v /\ at'[p].f = l.f /\ at'[p].a = l.a /\ at'[p].todo = l.todo
         /\ run # <<>> /\ (run \in Removals => Head(run) \in {"names", "list", "files", "deleteRow"})
         /\ (Removing(p)' => run \in Removals)
<1>1. /\ run # <<>> /\ Head(run) \in {"names", "list", "files", "deleteRow", "depMan", "depAbb"}
      /\ run \in Removals => Head(run) \in {"names", "list", "files", "deleteRow"}
      /\ \A i \in DOMAIN run : run \notin Removals => run[i] \notin {"names", "list", "files", "deleteRow"}
  BY DEF Removals, Deprecations
<1>2. run \notin Publications
  <2>1. run \in Publications => Head(run) \in {"lock", "save", "tar", "manifests", "row"}
    BY DEF Publications
  <2> QED BY <1>1, <2>1
<1>3. Frame(p) /\ at'[p] = [l EXCEPT !.run = run]
  BY <1>1, Holds, ThenIs
<1>4. /\ DOMAIN at'[p] = DOMAIN Nothing /\ at'[p].run = run /\ at'[p].v = l.v /\ at'[p].flag = l.flag
      /\ at'[p].f = l.f /\ at'[p].a = l.a /\ at'[p].todo = l.todo
  BY <1>3, NoCall
<1>5. (RunKnown(p) /\ ~Publishing(p) /\ ~Retagging(p) /\ ~Waiting(p))'
  BY <1>1, <1>2, <1>4 DEF RunKnown, Publishing, Retagging, Waiting, Running, Step
<1>6. CallKind(p)'
  BY <1>4, <1>5, Holds DEF CallKind, Writing
<1>7. Removing(p)' => run \in Removals
  BY <1>1, <1>4 DEF Removing
<1> QED BY <1>1, <1>3, <1>4, <1>5, <1>6, <1>7

\* A removal goes on without having removed anything.
LEMMA RemovalStep ==
  ASSUME IInv, NEW p \in Proc, Removing(p), NEW l, NEW run \in Removals, Then(p, l, run),
         DOMAIN l = DOMAIN Nothing, l.v = at[p].v, l.flag = at[p].flag, l.f = at[p].f, l.a = at[p].a,
         UNCHANGED <<rows, tags, file, full, abbr, lock, pubs, past>>,
         Head(run) # "deleteRow",
         ~past.raced /\ Head(run) # "list" =>
           l.todo # {} /\ \A x \in l.todo : \E v \in Existing : x = <<v, rows[v]>>
  PROVE  IInv'
<1>1. /\ Frame(p) /\ RunKnown(p)' /\ CallKind(p)' /\ ~Publishing(p)' /\ ~Retagging(p)'
      /\ at'[p].run = run /\ at'[p].v = l.v /\ at'[p].f = l.f /\ at'[p].a = l.a /\ at'[p].todo = l.todo
      /\ run # <<>> /\ Head(run) \in {"names", "list", "files", "deleteRow"}
  BY Lands
<1>2. ASSUME ~past.raced
      PROVE  /\ Uploads(p)' /\ Removes(p)' /\ Carries(p)'
             /\ \A t \in Tag : Named(tags[t])'
             /\ SoundOrNone(full)' /\ SoundOrNone(abbr)'
  <2>1. Uploads(p)'
    BY <1>1 DEF Uploads, Writing, Step
  <2>2. Removes(p)'
    <3>1. ~Step(p, "deleteRow")' /\ (Step(p, "list")' <=> Head(run) = "list")
      BY <1>1 DEF Step, Running
    <3> QED BY <1>1, <1>2, <3>1 DEF Removes, Existing
  <2>3. ~Publishing(p)
    BY Holds, Places
  <2>4. /\ SoundOrNone(at[p].f) /\ SoundOrNone(at[p].a) /\ Named(at[p].v)
        /\ SoundOrNone(full) /\ SoundOrNone(abbr) /\ \A t \in Tag : Named(tags[t])
    BY <1>2, <2>3, Holds
  <2>5. Carries(p)'
    BY <1>1, <2>4 DEF Carries, SoundOrNone, Sound, Named, Known, Existing
  <2>6. SoundOrNone(full)' /\ SoundOrNone(abbr)' /\ \A t \in Tag : Named(tags[t])'
    BY <2>4 DEF SoundOrNone, Sound, Named, Known, Existing
  <2> QED BY <2>1, <2>2, <2>5, <2>6
<1>3. DOMAIN tags' = Tag /\ pubs' \in Nat /\ past'.raced \in BOOLEAN
  BY Holds
<1> QED BY <1>1, <1>2, <1>3, QuietStep

LEMMA CheckNamesStep ==
  ASSUME IInv, NEW p \in Proc, CheckNames(p)
  PROVE  IInv'
<1>1. at[p].run = <<"names", "files", "deleteRow", "latest", "refresh">> /\ Removing(p)
  <2>1. at[p].run = <<"names", "files", "deleteRow", "latest", "refresh">>
    BY Holds, AtOther DEF CheckNames
  <2> QED BY <2>1 DEF Removing
<1>2. PICK l : l = at[p]
  OBVIOUS
<1>3. Rest(p) = <<"files", "deleteRow", "latest", "refresh">>
  BY <1>1 DEF Rest
<1>4. CASE Then(p, l, <<"list", "blankFull", "blankAbbr">> \o Caller(Rest(p)))
  <2>1. Caller(Rest(p)) = <<>>
    <3>1. Rest(p) \in Removals
      BY <1>3 DEF Removals
    <3> QED BY <3>1, FromNothing
  <2>2. PICK run : run = <<"list", "blankFull", "blankAbbr">> \o Caller(Rest(p))
    OBVIOUS
  <2>3. run = <<"list", "blankFull", "blankAbbr">>
    BY <2>1, <2>2
  <2>4. run \in Removals /\ Head(run) = "list"
    BY <2>3 DEF Removals
  <2> QED BY <1>1, <1>2, <1>4, <2>2, <2>4, Holds, RemovalStep DEF CheckNames, store
<1>5. CASE Then(p, l, Rest(p))
  <2>1. PICK run : run = Rest(p)
    OBVIOUS
  <2>2. run \in Removals /\ Head(run) = "files"
    BY <1>3, <2>1 DEF Removals
  <2>3. ~past.raced => l.todo # {} /\ \A x \in l.todo : \E v \in Existing : x = <<v, rows[v]>>
    BY <1>1, <1>2 DEF IInv, Kept, Removes, Step
  <2> QED BY <1>1, <1>2, <1>5, <2>1, <2>2, <2>3, Holds, RemovalStep DEF CheckNames, store
<1> QED BY <1>2, <1>4, <1>5 DEF CheckNames, Continue

LEMMA ListVersionsStep ==
  ASSUME IInv, NEW p \in Proc, ListVersions(p)
  PROVE  IInv'
<1>1. at[p].run = <<"list", "blankFull", "blankAbbr">> /\ Removing(p) /\ ~Publishing(p)
  <2>1. at[p].run = <<"list", "blankFull", "blankAbbr">>
    BY Holds, AtOther DEF ListVersions
  <2>2. Removing(p)
    BY <2>1 DEF Removing
  <2> QED BY <2>1, <2>2, Holds, Places
<1>2. PICK l : l = at[p]
  OBVIOUS
<1>3. CASE Return(p)
  <2>1. PICK run : run = Caller(at[p].run)
    OBVIOUS
  <2>2. run \in Seq(Plain)
    <3>1. at[p].run \in Removals
      BY <1>1 DEF Removals
    <3>2. run = <<>>
      BY <2>1, <3>1, FromNothing
    <3> QED BY <3>2
  <2> QED BY <1>1, <1>2, <1>3, <2>1, <2>2, Holds, PlainStep DEF ListVersions, Return, store
<1>4. CASE /\ Existing # {}
           /\ Then(p, [l EXCEPT !.todo = {<<v, rows[v]>> : v \in Existing}], <<"files", "deleteRow">> \o Rest(p))
  <2>1. PICK m : m = [l EXCEPT !.todo = {<<v, rows[v]>> : v \in Existing}]
    OBVIOUS
  <2>2. /\ DOMAIN m = DOMAIN Nothing /\ m.v = l.v /\ m.flag = l.flag /\ m.f = l.f /\ m.a = l.a
        /\ m.todo = {<<v, rows[v]>> : v \in Existing}
    BY <1>2, <2>1, Holds, NoCall
  <2>3. PICK run : run = <<"files", "deleteRow">> \o Rest(p)
    OBVIOUS
  <2>4. run \in Removals /\ Head(run) = "files"
    <3>1. Rest(p) = <<"blankFull", "blankAbbr">>
      BY <1>1 DEF Rest
    <3>2. <<"files", "deleteRow">> \o <<"blankFull", "blankAbbr">> = <<"files", "deleteRow", "blankFull", "blankAbbr">>
      BY JoinedFour, Zenon
    <3>3. run = <<"files", "deleteRow", "blankFull", "blankAbbr">>
      BY <2>3, <3>1, <3>2, Zenon
    <3> QED BY <3>3 DEF Removals
  <2>5. Then(p, m, run)
    BY <1>4, <2>1, <2>3
  <2>6. m.todo # {} /\ \A x \in m.todo : \E v \in Existing : x = <<v, rows[v]>>
    BY <1>4, <2>2
  <2>7. UNCHANGED <<rows, tags, file, full, abbr, lock, pubs, past>>
    BY DEF ListVersions, store
  <2> QED BY <1>1, <1>2, <2>2, <2>4, <2>5, <2>6, <2>7, Holds, RemovalStep
<1> QED BY <1>2, <1>3, <1>4 DEF ListVersions

\* A call that changes rows and files and no document.
LEMMA StoreStep ==
  ASSUME IInv, NEW p \in Proc, Frame(p), RunKnown(p)', CallKind(p)', StoreKinds', ~Retagging(p)',
         UNCHANGED <<tags, full, abbr>>,
         at'[p].f \in {at[p].f, None}, at'[p].a \in {at[p].a, None},
         ~past'.raced =>
           /\ ~past.raced /\ Advance
           /\ \A v \in Version : FilesFit(v)'
           /\ Uploads(p)' /\ Removes(p)' /\ (~Publishing(p) => Named(at[p].v))'
           /\ \A q \in Proc \ {p} : Uploads(q)' /\ Removes(q)'
           /\ Removing(p)' => Removing(p) \/ \A q \in Proc \ {p} : ~Removing(q)
  PROVE  IInv'
<1>1. ASSUME ~past'.raced
      PROVE  /\ \A t \in Tag : Named(tags[t])'
             /\ SoundOrNone(full)' /\ SoundOrNone(abbr)' /\ Carries(p)'
  <2>1. Advance /\ ~past.raced
    BY <1>1
  <2>2. \A t \in Tag : Named(tags[t])'
    <3>1. \A t \in Tag : Named(tags[t])
      BY <2>1, Holds
    <3> QED BY <2>1, <3>1, KnownStays DEF Named, Known
  <2>3. PICK c : c = at[p]
    OBVIOUS
  <2>4. PICK fs : fs = full
    OBVIOUS
  <2>5. PICK as : as = abbr
    OBVIOUS
  <2>6. /\ (fs # None => Sound(fs)') /\ (as # None => Sound(as)')
        /\ (c.f # None => Sound(c.f)') /\ (c.a # None => Sound(c.a)')
    BY <2>1, <2>3, <2>4, <2>5, Holds, SoundStays DEF SoundOrNone
  <2>7. PICK d : d = at'[p]
    OBVIOUS
  <2>8. (d.f # None => Sound(d.f)') /\ (d.a # None => Sound(d.a)')
    BY <2>3, <2>6, <2>7
  <2>9. SoundOrNone(full)' /\ SoundOrNone(abbr)'
    BY <2>4, <2>5, <2>6 DEF SoundOrNone, Sound, Existing, Named, Known
  <2>10. SoundOrNone(at[p].f)' /\ SoundOrNone(at[p].a)'
    BY <2>7, <2>8 DEF SoundOrNone, Sound, Existing, Named, Known
  <2> QED BY <1>1, <2>2, <2>9, <2>10 DEF Carries
<1> QED BY <1>1, StepKeeps DEF Advance

\* What is removed next has its row.
LEMMA TargetIs ==
  ASSUME IInv, ~past.raced, NEW p \in Proc, Removing(p), ~Step(p, "list")
  PROVE  \E v \in Existing : Target(p) = <<v, rows[v]>> /\ Target(p) \in at[p].todo
<1>1. at[p].todo # {} /\ \A x \in at[p].todo : \E v \in Existing : x = <<v, rows[v]>>
  BY DEF IInv, Kept, Removes
<1> DEFINE numbers == {x[1] : x \in at[p].todo}
<1>2. numbers \subseteq Version /\ numbers # {}
  BY <1>1 DEF Existing
<1>3. \E n \in numbers : \A m \in numbers : n >= m
  <2> HIDE DEF numbers
  <2>1. numbers \in SUBSET Nat /\ IsFiniteSet(numbers)
    BY <1>2, PackageAssumption, FS_Subset
  <2> QED BY <1>2, <2>1, LastExists
<1>4. \E x \in at[p].todo : \A y \in at[p].todo : x[1] >= y[1]
  BY <1>3
<1>5. Target(p) \in at[p].todo
  BY <1>4 DEF Target
<1> QED BY <1>1, <1>5

\* Who has a row to remove, or is about to remove one, leaves publications alone.
LEMMA NotUploaded ==
  ASSUME IInv, ~past.raced, NEW q \in Proc, NEW v \in Existing
  PROVE  /\ Writing(q) /\ ~Step(q, "save") => at[q].v # v
         /\ Step(q, "manifests") \/ Step(q, "row") => Writing(q) /\ ~Step(q, "save") /\ at[q].v # v
<1>1. Step(q, "manifests") \/ Step(q, "row") => Writing(q) /\ ~Step(q, "save")
  BY Holds, AtOther DEF Writing, Publishing, Publications, Waiting, Step, Running
<1> QED BY <1>1 DEF IInv, Kept, Uploads, Existing

LEMMA DestroyFilesStep ==
  ASSUME IInv, NEW p \in Proc, DestroyFiles(p)
  PROVE  IInv'
<1>1. at[p].run \in {<<"files", "deleteRow", "latest", "refresh">>,
                     <<"files", "deleteRow", "blankFull", "blankAbbr">>}
  BY Holds, AtOther DEF DestroyFiles
<1>2. Removing(p) /\ ~Step(p, "list") /\ ~Publishing(p)
  <2>1. Removing(p) /\ ~Step(p, "list")
    BY <1>1 DEF Removing, Step
  <2> QED BY <2>1, Holds, Places
<1>3. PICK l : l = at[p]
  OBVIOUS
<1>4. PICK run : run = Rest(p)
  OBVIOUS
<1>5. run \in Removals /\ Head(run) = "deleteRow"
  <2>1. CASE at[p].run = <<"files", "deleteRow", "latest", "refresh">>
    <3>1. run = <<"deleteRow", "latest", "refresh">>
      BY <1>4, <2>1 DEF Rest
    <3> QED BY <3>1 DEF Removals
  <2>2. CASE at[p].run = <<"files", "deleteRow", "blankFull", "blankAbbr">>
    <3>1. run = <<"deleteRow", "blankFull", "blankAbbr">>
      BY <1>4, <2>2 DEF Rest
    <3> QED BY <3>1 DEF Removals
  <2> QED BY <1>1, <2>1, <2>2
<1>6. Then(p, l, run)
  BY <1>3, <1>4 DEF DestroyFiles, Continue
<1>7. /\ Frame(p) /\ RunKnown(p)' /\ CallKind(p)' /\ ~Publishing(p)' /\ ~Retagging(p)'
      /\ at'[p].run = run /\ at'[p].v = l.v /\ at'[p].f = l.f /\ at'[p].a = l.a /\ at'[p].todo = l.todo
  BY <1>3, <1>5, <1>6, Holds, Lands
<1>8. PICK x : x = Target(p)
  OBVIOUS
<1>9. /\ file' = [file EXCEPT ![x[1]] = NoFiles] /\ past'.removed = past.removed \cup {x}
      /\ past'.raced = past.raced /\ DOMAIN past' = DOMAIN past /\ UNCHANGED <<rows, tags, full, abbr, lock, pubs>>
  BY <1>8 DEF DestroyFiles, IInv, Kinds, StoreKinds
<1>10. StoreKinds'
  BY <1>9 DEF IInv, Kinds, StoreKinds, NoFiles
<1>11. ASSUME ~past.raced
       PROVE  /\ Advance /\ \A v \in Version : FilesFit(v)'
              /\ Uploads(p)' /\ Removes(p)' /\ Named(at[p].v)'
              /\ \A q \in Proc \ {p} : Uploads(q)' /\ Removes(q)'
  <2>1. Advance
    BY <1>9 DEF Advance
  <2>2. PICK v \in Existing : x = <<v, rows[v]>> /\ x \in l.todo
    BY <1>2, <1>3, <1>8, <1>11, TargetIs
  <2>3. /\ v \in Version /\ x[1] = v /\ file'[v] = NoFiles
        /\ \A w \in Version \ {v} : file'[w] = file[w]
    BY <1>9, <2>2 DEF Existing, IInv, Kinds, StoreKinds
  <2>4. \A w \in Version : FilesFit(w)'
    <3>1. FilesFit(v)'
      BY <1>9, <2>2, <2>3 DEF FilesFit, NoFiles
    <3>2. \A w \in Version \ {v} : FilesFit(w)'
      BY <1>9, <1>11, <2>3 DEF FilesFit, IInv, Kept
    <3> QED BY <3>1, <3>2
  <2>5. Uploads(p)'
    BY <1>5, <1>7 DEF Uploads, Writing, Step
  <2>6. Removes(p)'
    <3>1. l.todo # {} /\ \A y \in l.todo : \E w \in Existing : y = <<w, rows[w]>>
      BY <1>2, <1>3, <1>11 DEF IInv, Kept, Removes
    <3>2. Target(p)' = x
      BY <1>3, <1>7, <1>8 DEF Target
    <3> QED BY <1>7, <1>9, <3>1, <3>2 DEF Removes, Existing
  <2>7. Named(at[p].v)'
    <3>1. Named(l.v)
      BY <1>2, <1>3, <1>11, Holds
    <3> QED BY <1>7, <1>9, <3>1 DEF Named, Known
  <2>8. ASSUME NEW q \in Proc \ {p}
        PROVE  Uploads(q)' /\ Removes(q)'
    <3>1. at'[q] = at[q] /\ Uploads(q) /\ Removes(q)
      BY <1>7, <1>11 DEF Frame, IInv, Kept
    <3>2. Step(q, "manifests") \/ Step(q, "row") => at[q].v \in Version /\ at[q].v # v
      BY <1>11, <2>2, Holds, NotUploaded DEF CallKind, Writing
    <3>3. Uploads(q)'
      BY <1>9, <2>3, <3>1, <3>2, UploadsStay
    <3> QED BY <1>9, <3>1, <3>3, RemovesStay
  <2> QED BY <2>1, <2>4, <2>5, <2>6, <2>7, <2>8
<1> QED BY <1>2, <1>3, <1>7, <1>9, <1>10, <1>11, StoreStep

LEMMA RemoveRowStep ==
  ASSUME IInv, NEW p \in Proc, RemoveRow(p)
  PROVE  IInv'
<1>1. at[p].run \in {<<"deleteRow", "latest", "refresh">>, <<"deleteRow", "blankFull", "blankAbbr">>}
  BY Holds, AtOther DEF RemoveRow
<1>2. Removing(p) /\ ~Step(p, "list") /\ ~Publishing(p) /\ Step(p, "deleteRow")
  <2>1. Removing(p) /\ ~Step(p, "list")
    BY <1>1 DEF Removing, Step
  <2> QED BY <2>1, Holds, Places DEF RemoveRow
<1>3. PICK l : l = at[p]
  OBVIOUS
<1>4. PICK x : x = Target(p)
  OBVIOUS
<1>5. PICK m : m = [l EXCEPT !.todo = l.todo \ {x}]
  OBVIOUS
<1>6. /\ DOMAIN m = DOMAIN Nothing /\ m.v = l.v /\ m.flag = l.flag /\ m.f = l.f /\ m.a = l.a
      /\ m.todo = l.todo \ {x}
  BY <1>3, <1>5, Holds, NoCall
<1>7. PICK run : run = (IF m.todo = {} THEN <<>> ELSE <<"files", "deleteRow">>) \o Rest(p)
  OBVIOUS
<1>8. Then(p, m, run)
  BY <1>3, <1>4, <1>5, <1>6, <1>7 DEF RemoveRow
<1>9. IF m.todo = {} THEN run \in Seq(Plain) ELSE run \in Removals /\ Head(run) = "files"
  <2>1. Rest(p) \in {<<"latest", "refresh">>, <<"blankFull", "blankAbbr">>}
    <3>1. CASE at[p].run = <<"deleteRow", "latest", "refresh">>
      BY <3>1 DEF Rest
    <3>2. CASE at[p].run = <<"deleteRow", "blankFull", "blankAbbr">>
      BY <3>2 DEF Rest
    <3> QED BY <1>1, <3>1, <3>2
  <2>2. CASE m.todo = {}
    <3>1. Rest(p) \in Seq(Plain)
      <4>1. <<"latest", "refresh">> \in Seq(Plain) /\ <<"blankFull", "blankAbbr">> \in Seq(Plain)
        BY DEF Plain
      <4> QED BY <2>1, <4>1
    <3> QED BY <1>7, <2>2, <3>1
  <2>3. CASE m.todo # {}
    <3>1. /\ <<"files", "deleteRow">> \o <<"blankFull", "blankAbbr">> = <<"files", "deleteRow", "blankFull", "blankAbbr">>
          /\ <<"files", "deleteRow">> \o <<"latest", "refresh">> = <<"files", "deleteRow", "latest", "refresh">>
      BY JoinedFour, Zenon
    <3>2. run \in {<<"files", "deleteRow", "blankFull", "blankAbbr">>, <<"files", "deleteRow", "latest", "refresh">>}
      <4>1. run = <<"files", "deleteRow">> \o Rest(p)
        BY <1>7, <2>3
      <4> QED BY <2>1, <3>1, <4>1, Zenon
    <3> QED BY <2>3, <3>2 DEF Removals
  <2> QED BY <2>2, <2>3
<1>10. /\ Frame(p) /\ RunKnown(p)' /\ CallKind(p)' /\ ~Publishing(p)' /\ ~Retagging(p)'
       /\ at'[p].v \in {l.v, None} /\ at'[p].f \in {l.f, None} /\ at'[p].a \in {l.a, None}
       /\ Removing(p)' => m.todo # {} /\ at'[p].todo = m.todo /\ at'[p].run = run
  <2>1. CASE m.todo = {}
    <3>1. /\ Frame(p) /\ RunKnown(p)' /\ CallKind(p)' /\ at'[p].run \in Seq(Plain)
          /\ at'[p].v \in {l.v, None} /\ at'[p].f \in {l.f, None} /\ at'[p].a \in {l.a, None}
      BY <1>3, <1>6, <1>8, <1>9, <2>1, Holds, GoesOn DEF IInv
    <3>2. (~Publishing(p) /\ ~Retagging(p) /\ ~Removing(p))'
      BY <3>1, PlainRun DEF Publishing, Removing, Retagging, Running, Step, Plain
    <3> QED BY <3>1, <3>2
  <2>2. CASE m.todo # {}
    <3> QED BY <1>3, <1>6, <1>8, <1>9, <2>2, Lands
  <2> QED BY <2>1, <2>2
<1>11. /\ rows' = IF rows[x[1]] = x[2] THEN [rows EXCEPT ![x[1]] = None] ELSE rows
       /\ UNCHANGED <<tags, file, full, abbr, lock, pubs, past>>
  BY <1>4 DEF RemoveRow
<1>12. StoreKinds'
  BY <1>11 DEF IInv, Kinds, StoreKinds
<1>13. ASSUME ~past.raced
       PROVE  /\ Advance /\ \A v \in Version : FilesFit(v)'
              /\ Uploads(p)' /\ Removes(p)' /\ Named(at[p].v)'
              /\ \A q \in Proc \ {p} : Uploads(q)' /\ Removes(q)'
  <2>1. PICK v \in Existing : x = <<v, rows[v]>> /\ x \in l.todo
    BY <1>2, <1>3, <1>4, <1>13, TargetIs
  <2>2. /\ v \in Version /\ rows'[v] = None /\ \A w \in Version \ {v} : rows'[w] = rows[w]
    BY <1>11, <2>1 DEF Existing, IInv, Kinds, StoreKinds
  <2>3. x \in past.removed
    BY <1>2, <1>4, <1>13 DEF IInv, Kept, Removes
  <2>4. Advance
    BY <1>11, <2>1, <2>2, <2>3 DEF Advance
  <2>5. \A w \in Version : FilesFit(w)'
    BY <1>11, <1>13, <2>2 DEF FilesFit, IInv, Kept
  <2>6. Uploads(p)'
    <3>1. ~Step(p, "manifests")' /\ ~Step(p, "row")'
      BY <1>10, NoUpload
    <3> QED BY <1>10, <3>1 DEF Uploads, Writing
  <2>7. Removes(p)'
    <3> SUFFICES ASSUME Removing(p)' PROVE Removes(p)'
      BY DEF Removes
    <3>1. at'[p].todo = m.todo /\ m.todo # {} /\ ~Step(p, "deleteRow")'
      BY <1>9, <1>10 DEF Step
    <3>2. \A y \in l.todo : \E w \in Existing : y = <<w, rows[w]>>
      BY <1>2, <1>3, <1>13 DEF IInv, Kept, Removes
    <3>3. \A y \in m.todo : \E w \in Existing' : y = <<w, rows'[w]>>
      BY <1>6, <2>1, <2>2, <3>2 DEF Existing
    <3> QED BY <3>1, <3>3 DEF Removes
  <2>8. Named(at[p].v)'
    <3>1. Named(l.v)
      BY <1>2, <1>3, <1>13, Holds
    <3>2. Named(l.v) => (l.v \in Version => Known(l.v)')
      BY <2>4, KnownStays DEF Named
    <3> QED BY <1>10, <3>1, <3>2, PackageAssumption DEF Named, Known
  <2>9. ASSUME NEW q \in Proc \ {p}
        PROVE  Uploads(q)' /\ Removes(q)'
    <3>1. at'[q] = at[q] /\ Uploads(q)
      BY <1>10, <1>13 DEF Frame, IInv, Kept
    <3>2. Writing(q) /\ ~Step(q, "save") => at[q].v \in Version /\ at[q].v # v
      BY <1>13, <2>1, Holds, NotUploaded DEF CallKind, Writing
    <3>3. Uploads(q)'
      BY <1>11, <2>2, <3>1, <3>2, UploadsStay
    <3>4. ~Removing(q)'
      BY <1>2, <1>13, <3>1 DEF IInv, Kept, Removing
    <3> QED BY <3>3, <3>4 DEF Removes
  <2> QED BY <2>4, <2>5, <2>6, <2>7, <2>8, <2>9
<1> QED BY <1>2, <1>3, <1>10, <1>11, <1>12, <1>13, StoreStep

-----------------------------------------------------------------------------
(* Publications *)

\* A publication goes on at its next place.
LEMMA PublicationGoesOn ==
  ASSUME IInv, NEW p \in Proc, Publishing(p), NEW l, NEW run \in Publications, Then(p, l, run),
         DOMAIN l = DOMAIN Nothing, l.v = at[p].v, l.flag = at[p].flag, Head(run) # "save" => l.pub \in Nat,
         Head(run) # "lock"
  PROVE  /\ Frame(p) /\ RunKnown(p)' /\ CallKind(p)' /\ Publishing(p)' /\ ~Retagging(p)' /\ ~Removing(p)'
         /\ at'[p].run = run /\ at'[p].v = l.v /\ at'[p].pub = l.pub /\ at'[p].f = l.f /\ at'[p].a = l.a
         /\ Writing(p)' /\ l.v \in Version /\ run # <<>>
<1>1. /\ run # <<>> /\ Head(run) \in {"save", "tar", "manifests", "row"}
      /\ \A i \in DOMAIN run : run[i] \notin {"names", "list", "files", "deleteRow"}
  BY DEF Publications
<1>2. Frame(p) /\ at'[p] = [l EXCEPT !.run = run]
  BY <1>1, Holds, ThenIs
<1>3. /\ DOMAIN at'[p] = DOMAIN Nothing /\ at'[p].run = run /\ at'[p].v = l.v /\ at'[p].flag = l.flag
      /\ at'[p].pub = l.pub /\ at'[p].f = l.f /\ at'[p].a = l.a
  BY <1>2, NoCall
<1>4. (RunKnown(p) /\ Publishing(p) /\ ~Retagging(p) /\ ~Removing(p) /\ ~Waiting(p))'
  BY <1>1, <1>3 DEF RunKnown, Publishing, Retagging, Removing, Waiting, Running, Step
<1>5. l.v \in Version
  BY Holds DEF CallKind
<1>6. CallKind(p)'
  BY <1>1, <1>3, <1>4, <1>5, Holds DEF CallKind, Writing, Step, Running
<1> QED BY <1>1, <1>2, <1>3, <1>4, <1>5, <1>6 DEF Writing

\* Another call is not uploading, and none of its rows is touched.
LEMMA OthersStay ==
  ASSUME IInv, ~past.raced, NEW p \in Proc, Writing(p), Frame(p), past.removed \subseteq past'.removed,
         \A v \in Existing : rows'[v] = rows[v]
  PROVE  \A q \in Proc \ {p} : Uploads(q)' /\ Removes(q)'
<1> SUFFICES ASSUME NEW q \in Proc \ {p}
             PROVE  Uploads(q)' /\ Removes(q)'
  OBVIOUS
<1>1. at'[q] = at[q] /\ Uploads(q) /\ Removes(q)
  BY DEF Frame, IInv, Kept
<1>2. ~Writing(q)
  BY DEF IInv, Kept, Uploads
<1>3. ~Step(q, "manifests") /\ ~Step(q, "row")
  BY <1>2, Holds, AtOther DEF Writing, Publishing, Publications, Waiting, Step, Running
<1>4. Uploads(q)'
  BY <1>1, <1>2, <1>3, UploadsStay
<1> QED BY <1>1, <1>4, RemovesStay

LEMMA AcquireLockStep ==
  ASSUME IInv, NEW p \in Proc, AcquireLock(p)
  PROVE  IInv'
<1>1. Publishing(p) /\ ~Writing(p)
      /\ at[p].run = <<"lock", "save", "tar", "manifests", "row", "refresh", "tags", "unlock">>
  BY Holds, AtOther, Places DEF AcquireLock, Waiting, Step, Writing
<1>2. UNCHANGED <<rows, tags, file, full, abbr, pubs>>
  BY DEF AcquireLock, store
<1>3. PICK l : l = at[p]
  OBVIOUS
<1>4. CASE lock = None /\ lock' = p /\ Continue(p, at[p]) /\ Enter(p)
  <2>1. PICK run : run = Rest(p)
    OBVIOUS
  <2>2. run = <<"save", "tar", "manifests", "row", "refresh", "tags", "unlock">>
    BY <1>1, <2>1 DEF Rest
  <2>3. run \in Publications /\ Head(run) = "save"
    BY <2>2 DEF Publications
  <2>4. Then(p, l, run)
    BY <1>3, <1>4, <2>1 DEF Continue
  <2>5. /\ Frame(p) /\ RunKnown(p)' /\ CallKind(p)' /\ Publishing(p)' /\ ~Retagging(p)' /\ ~Removing(p)'
        /\ at'[p].run = run /\ run # <<>> /\ at'[p].v = l.v /\ at'[p].f = l.f /\ at'[p].a = l.a
    BY <1>1, <1>3, <2>3, <2>4, Holds, PublicationGoesOn
  <2>6. past'.removed = past.removed /\ past'.raced = past.raced /\ DOMAIN past' = DOMAIN past
    BY <1>4, <2>5 DEF Enter, IInv, Kinds, StoreKinds
  <2>7. StoreKinds'
    BY <1>2, <2>6 DEF IInv, Kinds, StoreKinds
  <2>8. ASSUME ~past.raced
        PROVE  /\ Advance /\ \A v \in Version : FilesFit(v)'
               /\ Uploads(p)' /\ Removes(p)'
               /\ \A q \in Proc \ {p} : Uploads(q)' /\ Removes(q)'
    <3>1. Advance
      BY <1>2, <2>6 DEF Advance
    <3>2. \A v \in Version : FilesFit(v)'
      BY <1>2, <2>6, <2>8 DEF FilesFit, IInv, Kept
    <3>3. Uploads(p)' /\ Removes(p)'
      BY <1>4, <2>3, <2>5 DEF Uploads, Removes, Step, Running
    <3>4. ASSUME NEW q \in Proc \ {p}
          PROVE  Uploads(q)' /\ Removes(q)'
      <4>1. at'[q] = at[q] /\ Uploads(q) /\ Removes(q)
        BY <2>5, <2>8 DEF Frame, IInv, Kept
      <4>2. ~Writing(q)
        BY <1>4, <4>1, PackageAssumption DEF Uploads
      <4>3. Uploads(q)'
        BY <1>2, <4>1, <4>2, UploadsStay
      <4> QED BY <1>2, <2>6, <4>1, <4>3, RemovesStay
    <3> QED BY <3>1, <3>2, <3>3, <3>4
  <2> QED BY <1>2, <1>3, <2>5, <2>6, <2>7, <2>8, StoreStep
<1>5. CASE Then(p, Nothing, <<>>) /\ UNCHANGED <<lock, past>>
  <2>1. Frame(p) /\ at'[p] = Nothing
    BY <1>5, Holds, ThenIs
  <2>2. (RunKnown(p) /\ CallKind(p) /\ ~Publishing(p) /\ ~Removing(p) /\ ~Retagging(p))'
    BY <2>1, NoCallNext
  <2>3. ~past.raced => /\ SoundOrNone(at'[p].f) /\ SoundOrNone(at'[p].a) /\ Named(at'[p].v)
    BY <2>1, NoCall, PackageAssumption DEF SoundOrNone, Named
  <2>4. DOMAIN past' = DOMAIN past /\ past'.raced \in BOOLEAN /\ pubs' \in Nat /\ DOMAIN tags' = Tag
    BY <1>2, <1>5, Holds
  <2> QED BY <1>2, <1>5, <2>1, <2>2, <2>3, <2>4, Holds, MoveStep
<1> QED BY <1>4, <1>5 DEF AcquireLock

LEMMA SavePackageStep ==
  ASSUME IInv, NEW p \in Proc, SavePackage(p)
  PROVE  IInv'
<1>1. at[p].run = <<"save", "tar", "manifests", "row", "refresh", "tags", "unlock">>
  BY Holds, AtOther DEF SavePackage
<1>2. Publishing(p) /\ Writing(p)
  BY <1>1 DEF Publishing, Publications, Writing, Waiting
<1>3. UNCHANGED <<rows, tags, file, full, abbr, lock, past>>
  BY DEF SavePackage
<1>4. PICK l : l = at[p]
  OBVIOUS
<1>5. CASE rows[l.v] # None /\ Return(p) /\ UNCHANGED pubs
  <2>1. PICK run : run = Caller(at[p].run)
    OBVIOUS
  <2>2. run \in Seq(Plain)
    BY <1>1, <2>1, FromPublication
  <2>3. Then(p, l, run)
    BY <1>4, <1>5, <2>1 DEF Return
  <2>4. Named(at[p].v)
    BY <1>4, <1>5 DEF Named, Known
  <2> QED BY <1>3, <1>4, <1>5, <2>2, <2>3, <2>4, Holds, PlainStep
<1>6. CASE /\ rows[l.v] = None /\ pubs' = pubs + 1
           /\ Continue(p, [l EXCEPT !.pub = pubs + 1, !.ent = Entity, !.upd = {l.v}])
  <2>1. PICK m : m = [l EXCEPT !.pub = pubs + 1, !.ent = Entity, !.upd = {l.v}]
    OBVIOUS
  <2>2. /\ DOMAIN m = DOMAIN Nothing /\ m.v = l.v /\ m.flag = l.flag /\ m.f = l.f /\ m.a = l.a
        /\ m.pub = pubs + 1 /\ m.pub \in Nat
    BY <1>4, <2>1, Holds, NoCall
  <2>3. PICK run : run = Rest(p)
    OBVIOUS
  <2>4. run = <<"tar", "manifests", "row", "refresh", "tags", "unlock">>
    BY <1>1, <2>3 DEF Rest
  <2>5. run \in Publications /\ Head(run) = "tar"
    BY <2>4 DEF Publications
  <2>6. Then(p, m, run)
    BY <1>6, <2>1, <2>3 DEF Continue
  <2>7. /\ Frame(p) /\ RunKnown(p)' /\ CallKind(p)' /\ Publishing(p)' /\ ~Retagging(p)' /\ ~Removing(p)'
        /\ at'[p].run = run /\ at'[p].v = l.v /\ at'[p].f = l.f /\ at'[p].a = l.a
    BY <1>2, <1>4, <2>2, <2>5, <2>6, PublicationGoesOn
  <2>8. StoreKinds'
    BY <1>3, <1>6, Holds DEF IInv, Kinds, StoreKinds
  <2>9. ASSUME ~past.raced
        PROVE  /\ Advance /\ \A v \in Version : FilesFit(v)'
               /\ Uploads(p)' /\ Removes(p)'
               /\ \A q \in Proc \ {p} : Uploads(q)' /\ Removes(q)'
    <3>1. Advance
      BY <1>3 DEF Advance
    <3>2. \A v \in Version : FilesFit(v)'
      BY <1>3, <2>9 DEF FilesFit, IInv, Kept
    <3>3. lock = p
      BY <1>2, <2>9 DEF IInv, Kept, Uploads
    <3>4. Uploads(p)' /\ Removes(p)'
      BY <1>3, <1>4, <1>6, <2>5, <2>7, <3>3 DEF Uploads, Removes, Step
    <3> QED BY <1>2, <1>3, <2>7, <2>9, <3>1, <3>2, <3>4, OthersStay
  <2> QED BY <1>3, <1>4, <2>7, <2>8, <2>9, StoreStep
<1> QED BY <1>4, <1>5, <1>6 DEF SavePackage

LEMMA UploadTarStep ==
  ASSUME IInv, NEW p \in Proc, UploadTar(p)
  PROVE  IInv'
<1>1. at[p].run = <<"tar", "manifests", "row", "refresh", "tags", "unlock">>
  BY Holds, AtOther DEF UploadTar
<1>2. Publishing(p) /\ Writing(p) /\ ~Step(p, "save")
  BY <1>1 DEF Publishing, Publications, Writing, Waiting, Step
<1>3. PICK l : l = at[p]
  OBVIOUS
<1>4. UNCHANGED <<rows, tags, full, abbr, lock, pubs, past>> /\ file' = [file EXCEPT ![l.v].tar = l.pub]
  BY <1>3 DEF UploadTar
<1>5. l.v \in Version /\ l.pub \in Nat
  BY <1>2, <1>3, Holds DEF CallKind
<1>6. PICK run : run = Rest(p)
  OBVIOUS
<1>7. run = <<"manifests", "row", "refresh", "tags", "unlock">>
  BY <1>1, <1>6 DEF Rest
<1>8. run \in Publications /\ Head(run) = "manifests"
  BY <1>7 DEF Publications
<1>9. Then(p, l, run)
  BY <1>3, <1>6 DEF UploadTar, Continue
<1>10. /\ Frame(p) /\ RunKnown(p)' /\ CallKind(p)' /\ Publishing(p)' /\ ~Retagging(p)' /\ ~Removing(p)'
       /\ at'[p].run = run /\ at'[p].v = l.v /\ at'[p].pub = l.pub /\ at'[p].f = l.f /\ at'[p].a = l.a
  BY <1>2, <1>3, <1>5, <1>8, <1>9, Holds, PublicationGoesOn
<1>11. StoreKinds' /\ file'[l.v].tar = l.pub /\ \A w \in Version \ {l.v} : file'[w] = file[w]
  BY <1>4, <1>5 DEF IInv, Kinds, StoreKinds
<1>12. ASSUME ~past.raced
       PROVE  /\ Advance /\ \A v \in Version : FilesFit(v)'
              /\ Uploads(p)' /\ Removes(p)'
              /\ \A q \in Proc \ {p} : Uploads(q)' /\ Removes(q)'
  <2>1. Advance
    BY <1>4 DEF Advance
  <2>2. rows[l.v] = None /\ lock = p
    BY <1>2, <1>3, <1>12 DEF IInv, Kept, Uploads
  <2>3. \A v \in Version : FilesFit(v)'
    BY <1>4, <1>11, <1>12, <2>2 DEF FilesFit, IInv, Kept
  <2>4. Uploads(p)' /\ Removes(p)'
    BY <1>4, <1>8, <1>10, <1>11, <2>2 DEF Uploads, Removes, Step
  <2> QED BY <1>2, <1>4, <1>10, <1>12, <2>1, <2>3, <2>4, OthersStay
<1> QED BY <1>3, <1>4, <1>10, <1>11, <1>12, StoreStep

LEMMA UploadManifestsStep ==
  ASSUME IInv, NEW p \in Proc, UploadManifests(p)
  PROVE  IInv'
<1>1. at[p].run = <<"manifests", "row", "refresh", "tags", "unlock">>
  BY Holds, AtOther DEF UploadManifests
<1>2. Publishing(p) /\ Writing(p) /\ ~Step(p, "save") /\ Step(p, "manifests")
  BY <1>1 DEF Publishing, Publications, Writing, Waiting, Step, UploadManifests
<1>3. PICK l : l = at[p]
  OBVIOUS
<1>4. PICK meta : meta = [pub |-> l.pub, deprecated |-> l.flag]
  OBVIOUS
<1>5. /\ UNCHANGED <<rows, tags, full, abbr, lock, pubs, past>>
      /\ file' = [file EXCEPT ![l.v] = [@ EXCEPT !.man = meta, !.abb = meta]]
  BY <1>3, <1>4 DEF UploadManifests
<1>6. l.v \in Version /\ l.pub \in Nat /\ l.flag \in BOOLEAN /\ meta \in Metas /\ meta.pub = l.pub /\ meta # None
  <2>1. l.v \in Version /\ l.pub \in Nat /\ l.flag \in BOOLEAN
    BY <1>2, <1>3, Holds DEF CallKind
  <2> QED BY <1>4, <2>1, PackageAssumption DEF Metas
<1>7. PICK run : run = Rest(p)
  OBVIOUS
<1>8. run = <<"row", "refresh", "tags", "unlock">>
  BY <1>1, <1>7 DEF Rest
<1>9. run \in Publications /\ Head(run) = "row"
  BY <1>8 DEF Publications
<1>10. Then(p, l, run)
  BY <1>3, <1>7 DEF UploadManifests, Continue
<1>11. /\ Frame(p) /\ RunKnown(p)' /\ CallKind(p)' /\ Publishing(p)' /\ ~Retagging(p)' /\ ~Removing(p)'
       /\ at'[p].run = run /\ at'[p].v = l.v /\ at'[p].pub = l.pub /\ at'[p].f = l.f /\ at'[p].a = l.a
  BY <1>2, <1>3, <1>6, <1>9, <1>10, Holds, PublicationGoesOn
<1>12. /\ StoreKinds' /\ file'[l.v].tar = file[l.v].tar /\ file'[l.v].man = meta /\ file'[l.v].abb = meta
       /\ \A w \in Version \ {l.v} : file'[w] = file[w]
  BY <1>5, <1>6 DEF IInv, Kinds, StoreKinds
<1>13. ASSUME ~past.raced
       PROVE  /\ Advance /\ \A v \in Version : FilesFit(v)'
              /\ Uploads(p)' /\ Removes(p)'
              /\ \A q \in Proc \ {p} : Uploads(q)' /\ Removes(q)'
  <2>1. Advance
    BY <1>5 DEF Advance
  <2>2. rows[l.v] = None /\ lock = p /\ file[l.v].tar = l.pub
    BY <1>2, <1>3, <1>13 DEF IInv, Kept, Uploads
  <2>3. \A v \in Version : FilesFit(v)'
    BY <1>5, <1>12, <1>13, <2>2 DEF FilesFit, IInv, Kept
  <2>4. Uploads(p)' /\ Removes(p)'
    BY <1>5, <1>6, <1>9, <1>11, <1>12, <2>2 DEF Uploads, Removes, Step
  <2> QED BY <1>2, <1>5, <1>11, <1>13, <2>1, <2>3, <2>4, OthersStay
<1> QED BY <1>3, <1>5, <1>11, <1>12, <1>13, StoreStep

LEMMA CreateVersionStep ==
  ASSUME IInv, NEW p \in Proc, CreateVersion(p)
  PROVE  IInv'
<1>1. at[p].run = <<"row", "refresh", "tags", "unlock">>
  BY Holds, AtOther DEF CreateVersion
<1>2. Publishing(p) /\ Writing(p) /\ ~Step(p, "save") /\ Step(p, "row")
  BY <1>1 DEF Publishing, Publications, Writing, Waiting, Step, CreateVersion
<1>3. PICK l : l = at[p]
  OBVIOUS
<1>4. UNCHANGED <<tags, file, full, abbr, lock, pubs, past>>
  BY DEF CreateVersion
<1>5. l.v \in Version /\ l.pub \in Nat /\ l.pub # None
  <2>1. l.v \in Version /\ l.pub \in Nat
    BY <1>2, <1>3, Holds DEF CallKind
  <2> QED BY <2>1, PackageAssumption
<1>6. CASE rows[l.v] # None /\ Return(p) /\ UNCHANGED rows
  <2>1. PICK run : run = Caller(at[p].run)
    OBVIOUS
  <2>2. run \in Seq(Plain)
    BY <1>1, <2>1, FromPublication
  <2>3. Then(p, l, run)
    BY <1>3, <1>6, <2>1 DEF Return
  <2>4. Named(at[p].v)
    BY <1>3, <1>6 DEF Named, Known
  <2> QED BY <1>3, <1>4, <1>6, <2>2, <2>3, <2>4, Holds, PlainStep
<1>7. CASE rows[l.v] = None /\ rows' = [rows EXCEPT ![l.v] = l.pub] /\ Continue(p, l)
  <2>1. PICK run : run = Rest(p)
    OBVIOUS
  <2>2. run = <<"refresh", "tags", "unlock">>
    BY <1>1, <2>1 DEF Rest
  <2>3. run \in Seq(Plain)
    BY <2>2 DEF Plain
  <2>4. Then(p, l, run)
    BY <1>7, <2>1 DEF Continue
  <2>5. /\ Frame(p) /\ RunKnown(p)' /\ CallKind(p)' /\ at'[p].run \in Seq(Plain)
        /\ at'[p].v \in {l.v, None} /\ at'[p].f \in {l.f, None} /\ at'[p].a \in {l.a, None}
    BY <1>3, <2>3, <2>4, Holds, GoesOn DEF IInv
  <2>6. (~Publishing(p) /\ ~Removing(p) /\ ~Retagging(p))'
    BY <2>5, PlainRun DEF Publishing, Removing, Retagging, Running, Step, Plain
  <2>7. StoreKinds' /\ rows'[l.v] = l.pub /\ \A w \in Version \ {l.v} : rows'[w] = rows[w]
    BY <1>4, <1>5, <1>7 DEF IInv, Kinds, StoreKinds
  <2>8. ASSUME ~past.raced
        PROVE  /\ Advance /\ \A v \in Version : FilesFit(v)'
               /\ Uploads(p)' /\ Removes(p)' /\ Named(at[p].v)'
               /\ \A q \in Proc \ {p} : Uploads(q)' /\ Removes(q)'
    <3>1. Advance
      BY <1>4, <1>7, <2>7 DEF Advance
    <3>2. /\ file[l.v].tar = l.pub
          /\ \A which \in {"man", "abb"} : file[l.v][which] # None /\ file[l.v][which].pub = l.pub
      BY <1>2, <1>3, <2>8 DEF IInv, Kept, Uploads
    <3>3. \A v \in Version : FilesFit(v)'
      <4>1. FilesFit(l.v)'
        BY <1>4, <1>5, <2>7, <3>2 DEF FilesFit
      <4>2. \A v \in Version \ {l.v} : FilesFit(v)'
        BY <1>4, <2>7, <2>8 DEF FilesFit, IInv, Kept
      <4> QED BY <4>1, <4>2
    <3>4. Uploads(p)' /\ Removes(p)'
      BY <2>5, <2>6, NoUpload DEF Uploads, Removes, Writing
    <3>5. Named(at[p].v)'
      BY <1>5, <2>5, <2>7, PackageAssumption DEF Named, Known
    <3>6. \A v \in Existing : rows'[v] = rows[v]
      BY <1>7, <2>7 DEF Existing
    <3> QED BY <1>2, <1>4, <2>5, <2>8, <3>1, <3>3, <3>4, <3>5, <3>6, OthersStay
  <2> QED BY <1>3, <1>4, <2>5, <2>6, <2>7, <2>8, StoreStep
<1> QED BY <1>3, <1>6, <1>7 DEF CreateVersion

-----------------------------------------------------------------------------
(* Deprecations *)

LEMMA DeprecationStep ==
  ASSUME IInv, NEW p \in Proc, at[p].run \in Deprecations, NEW l, NEW run, Then(p, l, run),
         run \in Seq(Plain) \/ run \in Deprecations,
         DOMAIN l = DOMAIN Nothing, l.v = at[p].v, l.flag = at[p].flag, l.f = at[p].f, l.a = at[p].a,
         UNCHANGED <<rows, tags, full, abbr, lock, pubs, past>>, StoreKinds',
         \A v \in Version :
           /\ file'[v].tar = file[v].tar
           /\ \A which \in {"man", "abb"} :
                /\ (file'[v][which] = None) <=> (file[v][which] = None)
                /\ file[v][which] # None => file'[v][which].pub = file[v][which].pub
  PROVE  IInv'
<1>1. ~Publishing(p)
  <2>1. at[p].run \in Deprecations => Head(at[p].run) \in {"depMan", "depAbb"}
    BY DEF Deprecations
  <2>2. Publishing(p) => Head(at[p].run) \in {"lock", "save", "tar", "manifests", "row"}
    BY Holds, Places
  <2> QED BY <2>1, <2>2
<1>2. /\ Frame(p) /\ RunKnown(p)' /\ CallKind(p)'
      /\ at'[p].v \in {l.v, None} /\ at'[p].f \in {l.f, None} /\ at'[p].a \in {l.a, None}
      /\ ~Publishing(p)' /\ ~Retagging(p)' /\ ~Removing(p)'
  <2>1. CASE run \in Seq(Plain)
    <3>1. /\ Frame(p) /\ RunKnown(p)' /\ CallKind(p)' /\ at'[p].run \in Seq(Plain)
          /\ at'[p].v \in {l.v, None} /\ at'[p].f \in {l.f, None} /\ at'[p].a \in {l.a, None}
      BY <2>1, Holds, GoesOn DEF IInv
    <3>2. (~Publishing(p) /\ ~Removing(p) /\ ~Retagging(p))'
      BY <3>1, PlainRun DEF Publishing, Removing, Retagging, Running, Step, Plain
    <3> QED BY <3>1, <3>2
  <2>2. CASE run \in Deprecations
    <3>1. run \notin Removals
      BY <2>2 DEF Deprecations, Removals
    <3> QED BY <2>2, <3>1, Lands
  <2> QED BY <2>1, <2>2
<1>3. ASSUME ~past.raced
      PROVE  /\ Advance /\ \A v \in Version : FilesFit(v)'
             /\ Uploads(p)' /\ Removes(p)' /\ Named(at[p].v)'
             /\ \A q \in Proc \ {p} : Uploads(q)' /\ Removes(q)'
  <2>1. Advance
    BY DEF Advance
  <2>2. \A v \in Version : FilesFit(v)'
    <3>1. \A v \in Version : FilesFit(v)
      BY <1>3 DEF IInv, Kept
    <3> QED BY <3>1 DEF FilesFit
  <2>3. Uploads(p)' /\ Removes(p)'
    BY <1>2, NoUpload DEF Uploads, Removes, Writing
  <2>4. Named(at[p].v)'
    <3>1. Named(l.v)
      BY <1>1, <1>3, Holds
    <3> QED BY <1>2, <3>1, PackageAssumption DEF Named, Known
  <2>5. ASSUME NEW q \in Proc \ {p}
        PROVE  Uploads(q)' /\ Removes(q)'
    <3>1. at'[q] = at[q] /\ Uploads(q) /\ Removes(q)
      BY <1>2, <1>3 DEF Frame, IInv, Kept
    <3>2. Step(q, "manifests") \/ Step(q, "row") => at[q].v \in Version
      BY Holds, AtOther DEF CallKind, Publishing, Publications
    <3>3. Uploads(q)'
      BY <3>1, <3>2, UploadsStay
    <3> QED BY <3>1, <3>3, RemovesStay
  <2> QED BY <2>1, <2>2, <2>3, <2>4, <2>5
<1> QED BY <1>2, <1>3, StoreStep

LEMMA DeprecateFullStep ==
  ASSUME IInv, NEW p \in Proc, DeprecateFull(p)
  PROVE  IInv'
<1>1. at[p].run = <<"depMan", "depAbb", "refresh">> /\ at[p].run \in Deprecations
  <2>1. at[p].run = <<"depMan", "depAbb", "refresh">>
    BY Holds, AtOther DEF DeprecateFull
  <2> QED BY <2>1 DEF Deprecations
<1>2. UNCHANGED <<rows, tags, full, abbr, lock, pubs, past>>
  BY DEF DeprecateFull
<1>3. PICK l : l = at[p]
  OBVIOUS
<1>4. PICK v : v = Min(l.todo)
  OBVIOUS
<1>5. CASE UNCHANGED file /\ (Then(p, l, Tail(Rest(p))) \/ Throw(p))
  <2>1. PICK run : run \in {Tail(Rest(p)), From(at[p].run, {"unlock"})} /\ Then(p, l, run)
    BY <1>3, <1>5 DEF Throw
  <2>2. run \in Seq(Plain)
    <3>1. Rest(p) = <<"depAbb", "refresh">>
      BY <1>1 DEF Rest
    <3>2. Tail(Rest(p)) = <<"refresh">>
      BY <3>1
    <3>3. <<"refresh">> \in Seq(Plain) /\ <<>> \in Seq(Plain)
      BY DEF Plain
    <3> QED BY <1>1, <2>1, <3>2, <3>3, FromNothing
  <2>3. StoreKinds'
    BY <1>2, <1>5 DEF IInv, Kinds, StoreKinds
  <2> QED BY <1>1, <1>2, <1>3, <1>5, <2>1, <2>2, <2>3, Holds, DeprecationStep
<1>6. CASE Then(p, [l EXCEPT !.todo = @ \ {v}], l.run) /\ UNCHANGED file
  <2>1. PICK m : m = [l EXCEPT !.todo = @ \ {v}]
    OBVIOUS
  <2>2. DOMAIN m = DOMAIN Nothing /\ m.v = l.v /\ m.flag = l.flag /\ m.f = l.f /\ m.a = l.a
    BY <1>3, <2>1, Holds, NoCall
  <2>3. PICK run : run = l.run
    OBVIOUS
  <2>4. Then(p, m, run)
    BY <1>6, <2>1, <2>3
  <2>5. StoreKinds'
    BY <1>2, <1>6 DEF IInv, Kinds, StoreKinds
  <2> QED BY <1>1, <1>2, <1>3, <1>6, <2>2, <2>3, <2>4, <2>5, DeprecationStep
<1>7. CASE /\ file[v].man # None /\ file' = [file EXCEPT ![v].man.deprecated = l.flag]
           /\ Continue(p, l)
  <2>1. PICK run : run = Rest(p)
    OBVIOUS
  <2>2. run \in Deprecations
    <3>1. run = <<"depAbb", "refresh">>
      BY <1>1, <2>1 DEF Rest
    <3> QED BY <3>1 DEF Deprecations
  <2>3. Then(p, l, run)
    BY <1>7, <2>1 DEF Continue
  <2>4. l.flag \in BOOLEAN /\ file \in [Version -> [tar : Nat \cup {None}, man : Metas \cup {None}, abb : Metas \cup {None}]]
    BY <1>3, Holds DEF CallKind, IInv, Kinds, StoreKinds
  <2>5. /\ file' \in [Version -> [tar : Nat \cup {None}, man : Metas \cup {None}, abb : Metas \cup {None}]]
        /\ \A w \in Version :
             /\ file'[w].tar = file[w].tar
             /\ \A which \in {"man", "abb"} :
                  /\ (file'[w][which] = None) <=> (file[w][which] = None)
                  /\ file[w][which] # None => file'[w][which].pub = file[w][which].pub
    <3>1. CASE v \notin Version
      <4>1. file' = file
        BY <1>7, <2>4, <3>1
      <4> QED BY <2>4, <4>1
    <3>2. CASE v \in Version
      <4>1. PICK meta : meta = [file[v].man EXCEPT !.deprecated = l.flag]
        OBVIOUS
      <4>2. meta \in Metas /\ meta.pub = file[v].man.pub /\ meta # None
        BY <1>7, <2>4, <3>2, <4>1, PackageAssumption DEF Metas
      <4>3. file' = [file EXCEPT ![v].man = meta]
        BY <1>7, <4>1
      <4> QED BY <1>7, <2>4, <3>2, <4>2, <4>3
    <3> QED BY <3>1, <3>2
  <2>6. StoreKinds'
    BY <1>2, <2>5 DEF IInv, Kinds, StoreKinds
  <2> QED BY <1>1, <1>2, <1>3, <2>2, <2>3, <2>5, <2>6, Holds, DeprecationStep
<1> QED BY <1>3, <1>4, <1>5, <1>6, <1>7 DEF DeprecateFull

LEMMA DeprecateAbbrStep ==
  ASSUME IInv, NEW p \in Proc, DeprecateAbbr(p)
  PROVE  IInv'
<1>1. at[p].run = <<"depAbb", "refresh">> /\ at[p].run \in Deprecations
  <2>1. at[p].run = <<"depAbb", "refresh">>
    BY Holds, AtOther DEF DeprecateAbbr
  <2> QED BY <2>1 DEF Deprecations
<1>2. UNCHANGED <<rows, tags, full, abbr, lock, pubs, past>>
  BY DEF DeprecateAbbr
<1>3. PICK l : l = at[p]
  OBVIOUS
<1>4. PICK v : v = Min(l.todo)
  OBVIOUS
<1>5. CASE UNCHANGED file /\ Throw(p)
  <2>1. PICK run : run = From(at[p].run, {"unlock"})
    OBVIOUS
  <2>2. run \in Seq(Plain)
    <3>1. <<>> \in Seq(Plain)
      OBVIOUS
    <3> QED BY <1>1, <2>1, <3>1, FromNothing
  <2>3. Then(p, l, run)
    BY <1>3, <1>5, <2>1 DEF Throw
  <2>4. StoreKinds'
    BY <1>2, <1>5 DEF IInv, Kinds, StoreKinds
  <2> QED BY <1>1, <1>2, <1>3, <1>5, <2>2, <2>3, <2>4, Holds, DeprecationStep
<1>6. CASE /\ file[v].abb # None /\ file' = [file EXCEPT ![v].abb.deprecated = l.flag]
           /\ Then(p, [l EXCEPT !.todo = @ \ {v}, !.upd = @ \cup {v}], <<"depMan">> \o l.run)
  <2>1. PICK m : m = [l EXCEPT !.todo = @ \ {v}, !.upd = @ \cup {v}]
    OBVIOUS
  <2>2. DOMAIN m = DOMAIN Nothing /\ m.v = l.v /\ m.flag = l.flag /\ m.f = l.f /\ m.a = l.a
    BY <1>3, <2>1, Holds, NoCall
  <2>3. PICK run : run = <<"depMan">> \o l.run
    OBVIOUS
  <2>4. run \in Deprecations
    <3>1. <<"depMan">> \o <<"depAbb", "refresh">> = <<"depMan", "depAbb", "refresh">>
      BY JoinedThree, Zenon
    <3>2. run = <<"depMan", "depAbb", "refresh">>
      BY <1>1, <1>3, <2>3, <3>1, Zenon
    <3> QED BY <3>2 DEF Deprecations
  <2>5. Then(p, m, run)
    BY <1>6, <2>1, <2>3
  <2>6. l.flag \in BOOLEAN /\ file \in [Version -> [tar : Nat \cup {None}, man : Metas \cup {None}, abb : Metas \cup {None}]]
    BY <1>3, Holds DEF CallKind, IInv, Kinds, StoreKinds
  <2>7. /\ file' \in [Version -> [tar : Nat \cup {None}, man : Metas \cup {None}, abb : Metas \cup {None}]]
        /\ \A w \in Version :
             /\ file'[w].tar = file[w].tar
             /\ \A which \in {"man", "abb"} :
                  /\ (file'[w][which] = None) <=> (file[w][which] = None)
                  /\ file[w][which] # None => file'[w][which].pub = file[w][which].pub
    <3>1. CASE v \notin Version
      <4>1. file' = file
        BY <1>6, <2>6, <3>1
      <4> QED BY <2>6, <4>1
    <3>2. CASE v \in Version
      <4>1. PICK meta : meta = [file[v].abb EXCEPT !.deprecated = l.flag]
        OBVIOUS
      <4>2. meta \in Metas /\ meta.pub = file[v].abb.pub /\ meta # None
        BY <1>6, <2>6, <3>2, <4>1, PackageAssumption DEF Metas
      <4>3. file' = [file EXCEPT ![v].abb = meta]
        BY <1>6, <4>1
      <4> QED BY <1>6, <2>6, <3>2, <4>2, <4>3
    <3> QED BY <3>1, <3>2
  <2>8. StoreKinds'
    BY <1>2, <2>7 DEF IInv, Kinds, StoreKinds
  <2> QED BY <1>1, <1>2, <1>3, <2>2, <2>4, <2>5, <2>7, <2>8, DeprecationStep
<1> QED BY <1>3, <1>4, <1>5, <1>6 DEF DeprecateAbbr

-----------------------------------------------------------------------------
(* How calls begin and break off *)

\* A call begins: a publication waits, the others are at their first step.
LEMMA BeginStep ==
  ASSUME IInv, NEW p \in Proc, NEW op, NEW l, Begin(p, op, l), DOMAIN l = DOMAIN Nothing,
         l.v \in Version \cup {None}, l.flag \in BOOLEAN, l.run # <<>>,
         \/ l.run \in Removals \cup Deprecations \cup Seq(Plain)
         \/ l.run \in Publications /\ Head(l.run) = "lock" /\ l.v \in Version,
         Head(l.run) # "deleteRow",
         ~past.raced =>
           /\ SoundOrNone(l.f) /\ SoundOrNone(l.a)
           /\ l.run \notin Publications => Named(l.v)
           /\ l.run \in Removals /\ Head(l.run) # "list" =>
                l.todo # {} /\ \A x \in l.todo : \E v \in Existing : x = <<v, rows[v]>>
  PROVE  IInv'
<1>1. UNCHANGED <<rows, file, tags, full, abbr, lock, pubs>>
  BY DEF Begin, store
<1>2. Frame(p) /\ at'[p] = l
  BY Holds DEF Begin, Frame
<1>3. /\ RunKnown(p)' /\ ~Retagging(p)'
      /\ Publishing(p)' <=> l.run \in Publications
      /\ Publishing(p)' => l.v \in Version /\ ~Writing(p)' /\ Head(l.run) = "lock"
  <2>1. l.run \in Seq(Plain) => l.run \notin Publications /\ Head(l.run) \in Plain
    BY PlainRun
  <2>2. l.run \in Removals \cup Deprecations =>
          l.run \notin Publications /\ Head(l.run) \in {"names", "list", "files", "deleteRow", "depMan", "depAbb"}
    BY DEF Removals, Deprecations, Publications
  <2> QED BY <1>2, <2>1, <2>2 DEF RunKnown, Retagging, Publishing, Writing, Waiting, Running, Step, Plain
<1>4. CallKind(p)'
  BY <1>2, <1>3 DEF CallKind, Writing
<1>5. Removing(p)' => l.run \in Removals /\ Head(l.run) # "lock"
  <2>1. \A i \in DOMAIN l.run : l.run \notin Removals => l.run[i] \notin {"names", "list", "files", "deleteRow"}
    <3>1. l.run \in Publications => \A i \in DOMAIN l.run : l.run[i] \notin {"names", "list", "files", "deleteRow"}
      BY DEF Publications
    <3>2. l.run \in Deprecations => \A i \in DOMAIN l.run : l.run[i] \notin {"names", "list", "files", "deleteRow"}
      BY DEF Deprecations
    <3>3. l.run \in Seq(Plain) => \A i \in DOMAIN l.run : l.run[i] \notin {"names", "list", "files", "deleteRow"}
      BY PlainRun DEF Plain
    <3> QED BY <3>1, <3>2, <3>3
  <2>2. l.run \in Removals => Head(l.run) # "lock"
    BY DEF Removals
  <2> QED BY <1>2, <2>1, <2>2 DEF Removing
<1>6. /\ past'.removed = past.removed /\ DOMAIN past' = DOMAIN past /\ past'.raced \in BOOLEAN
      /\ ~past'.raced => ~past.raced
      /\ ~past'.raced /\ Removing(p)' => \A q \in Proc \ {p} : ~Removing(q)
  <2>1. CASE Head(l.run) = "lock" /\ UNCHANGED past
    BY <1>5, <2>1, Holds
  <2>2. CASE Enter(p)
    <3>1. \A q \in Proc : Removing(q) => Running(q) /\ ~Waiting(q)
      BY Holds, Places
    <3> QED BY <2>2, <3>1 DEF Enter, IInv, Kinds, StoreKinds
  <2> QED BY <2>1, <2>2 DEF Begin
<1>7. ASSUME ~past'.raced
      PROVE  /\ \A t \in Tag : Named(tags[t])'
             /\ SoundOrNone(full)' /\ SoundOrNone(abbr)'
             /\ Uploads(p)' /\ Removes(p)' /\ Carries(p)'
  <2>1. ~past.raced
    BY <1>6, <1>7
  <2>2. /\ \A t \in Tag : Named(tags[t])
        /\ SoundOrNone(full) /\ SoundOrNone(abbr)
    BY <2>1, Holds
  <2>3. /\ \A t \in Tag : Named(tags[t])'
        /\ SoundOrNone(full)' /\ SoundOrNone(abbr)'
    BY <1>1, <1>6, <2>2 DEF Named, Known, SoundOrNone, Sound, Existing
  <2>4. Uploads(p)'
    <3>1. ~Step(p, "manifests")' /\ ~Step(p, "row")'
      <4>1. Publishing(p)' => ~Step(p, "manifests")' /\ ~Step(p, "row")'
        BY <1>2, <1>3 DEF Step
      <4> QED BY <1>3, <4>1, NoUpload
    <3> QED BY <1>3, <3>1 DEF Uploads, Writing
  <2>5. Removes(p)'
    BY <1>1, <1>2, <1>5, <2>1 DEF Removes, Step, Running, Existing
  <2>6. Carries(p)'
    BY <1>1, <1>2, <1>3, <1>6, <2>1 DEF Carries, SoundOrNone, Sound, Named, Known, Existing
  <2> QED BY <2>3, <2>4, <2>5, <2>6
<1> QED BY <1>1, <1>2, <1>3, <1>4, <1>6, <1>7, Holds, QuietStep

\* The calls that a request may begin, and what they have in hand.
LEMMA CallsBegin ==
  ASSUME IInv, NEW p \in Proc, Request(p)
  PROVE  IInv'
<1>1. ASSUME NEW u \in User, NEW v \in Version, NEW ts, Publish(p, u, v, ts)
      PROVE  IInv'
  <2>1. PICK todo : Begin(p, "publish", [Nothing EXCEPT
          !.run = <<"lock", "save", "tar", "manifests", "row", "refresh", "tags", "unlock">>,
          !.v = v, !.by = u, !.todo = todo])
    BY <1>1 DEF Publish
  <2>2. PICK run : run = <<"lock", "save", "tar", "manifests", "row", "refresh", "tags", "unlock">>
    OBVIOUS
  <2>3. run \in Publications /\ Head(run) = "lock" /\ run # <<>>
    BY <2>2 DEF Publications
  <2>4. PICK l : l = [Nothing EXCEPT !.run = run, !.v = v, !.by = u, !.todo = todo]
    OBVIOUS
  <2>5. /\ DOMAIN l = DOMAIN Nothing /\ l.run = run /\ l.v = v /\ l.flag = FALSE /\ l.f = None /\ l.a = None
    BY <2>4, NoCall
  <2>6. Begin(p, "publish", l)
    BY <2>1, <2>2, <2>4
  <2>7. run \notin Removals
    BY <2>3 DEF Removals
  <2> QED BY <2>3, <2>5, <2>6, <2>7, BeginStep DEF SoundOrNone
<1>2. ASSUME NEW v \in Version, RemoveVersion(p, v)
      PROVE  IInv'
  <2>1. PICK run : run = <<"names", "files", "deleteRow", "latest", "refresh">>
    OBVIOUS
  <2>2. run \in Removals /\ Head(run) = "names" /\ run # <<>> /\ run \notin Publications
    BY <2>1 DEF Removals, Publications
  <2>3. PICK l : l = [Nothing EXCEPT !.run = run, !.v = v, !.todo = {<<v, rows[v]>>}, !.rem = {v}, !.ent = Entity]
    OBVIOUS
  <2>4. /\ DOMAIN l = DOMAIN Nothing /\ l.run = run /\ l.v = v /\ l.flag = FALSE /\ l.f = None /\ l.a = None
        /\ l.todo = {<<v, rows[v]>>}
    BY <2>3, NoCall
  <2>5. Begin(p, "remove", l) /\ v \in Existing
    BY <1>2, <2>1, <2>3 DEF RemoveVersion, Existing
  <2>6. Named(v)
    BY <2>5 DEF Named, Known, Existing
  <2> QED BY <2>2, <2>4, <2>5, <2>6, BeginStep DEF SoundOrNone
<1>3. ASSUME RemoveByPkgUri(p)
      PROVE  IInv'
  <2>1. CASE tags["latest"] \in Existing /\ RemoveVersion(p, tags["latest"])
    BY <1>2, <2>1 DEF Existing
  <2>2. CASE Begin(p, "remove", [Nothing EXCEPT !.run = <<"list", "blankFull", "blankAbbr">>, !.ent = Entity])
    <3>1. PICK run : run = <<"list", "blankFull", "blankAbbr">>
      OBVIOUS
    <3>2. run \in Removals /\ Head(run) = "list" /\ run # <<>>
      BY <3>1 DEF Removals
    <3>3. PICK l : l = [Nothing EXCEPT !.run = run, !.ent = Entity]
      OBVIOUS
    <3>4. /\ DOMAIN l = DOMAIN Nothing /\ l.run = run /\ l.v = None /\ l.flag = FALSE /\ l.f = None /\ l.a = None
      BY <3>3, NoCall
    <3>5. Begin(p, "remove", l) /\ Named(None)
      BY <2>2, <3>1, <3>3, PackageAssumption DEF Named
    <3> QED BY <3>2, <3>4, <3>5, BeginStep DEF SoundOrNone
  <2> QED BY <1>3, <2>1, <2>2 DEF RemoveByPkgUri
<1>4. ASSUME NEW op, NEW l, NEW run \in Seq(Plain), Begin(p, op, l), DOMAIN l = DOMAIN Nothing, l.run = run,
             run # <<>>, l.v \in Existing \cup {None}, l.flag \in BOOLEAN,
             ~past.raced => SoundOrNone(l.f) /\ SoundOrNone(l.a)
      PROVE  IInv'
  <2>1. Head(run) # "deleteRow" /\ run \notin Removals
    <3>1. run \in Removals => Head(run) \in {"names", "list", "files", "deleteRow"}
      BY DEF Removals
    <3>2. Head(run) \in Plain
      BY <1>4, PlainRun
    <3> QED BY <3>1, <3>2 DEF Plain
  <2>2. l.v \in Version \cup {None} /\ Named(l.v)
    BY <1>4, PackageAssumption DEF Named, Known, Existing
  <2> QED BY <1>4, <2>1, <2>2, BeginStep
<1>5. ASSUME NEW v \in Version, NEW t \in Tag, SaveTag(p, t, v)
      PROVE  IInv'
  <2>1. PICK run : run = <<"tags">>
    OBVIOUS
  <2>2. run \in Seq(Plain) /\ run # <<>>
    BY <2>1 DEF Plain
  <2>3. PICK l : l = [Nothing EXCEPT !.run = run, !.v = v, !.todo = {t}, !.ent = Entity]
    OBVIOUS
  <2>4. /\ DOMAIN l = DOMAIN Nothing /\ l.run = run /\ l.v = v /\ l.flag = FALSE /\ l.f = None /\ l.a = None
    BY <2>3, NoCall
  <2>5. Begin(p, "tag", l) /\ v \in Existing
    BY <1>5, <2>1, <2>3 DEF SaveTag, Existing
  <2> QED BY <1>4, <2>2, <2>4, <2>5 DEF SoundOrNone
<1>6. ASSUME NEW t \in Tag, RemoveTag(p, t)
      PROVE  IInv'
  <2>1. PICK run : run = <<"untag">>
    OBVIOUS
  <2>2. run \in Seq(Plain) /\ run # <<>>
    BY <2>1 DEF Plain
  <2>3. PICK l : l = [Nothing EXCEPT !.run = run, !.todo = {t}, !.ent = Entity]
    OBVIOUS
  <2>4. /\ DOMAIN l = DOMAIN Nothing /\ l.run = run /\ l.v = None /\ l.flag = FALSE /\ l.f = None /\ l.a = None
    BY <2>3, NoCall
  <2>5. Begin(p, "tag", l)
    BY <1>6, <2>1, <2>3 DEF RemoveTag
  <2> QED BY <1>4, <2>2, <2>4, <2>5 DEF SoundOrNone
<1>7. ASSUME NEW vs \in SUBSET Version, NEW flag \in BOOLEAN, Deprecate(p, vs, flag)
      PROVE  IInv'
  <2>1. PICK run : run = <<"depMan", "depAbb", "refresh">>
    OBVIOUS
  <2>2. run \in Deprecations /\ Head(run) = "depMan" /\ run # <<>> /\ run \notin Removals
    BY <2>1 DEF Deprecations, Removals
  <2>3. PICK l : l = [Nothing EXCEPT !.run = run, !.todo = vs, !.flag = flag, !.ent = Entity]
    OBVIOUS
  <2>4. /\ DOMAIN l = DOMAIN Nothing /\ l.run = run /\ l.v = None /\ l.flag = flag /\ l.f = None /\ l.a = None
    BY <2>3, NoCall
  <2>5. Begin(p, "deprecate", l) /\ Named(None)
    BY <1>7, <2>1, <2>3, PackageAssumption DEF Deprecate, Named
  <2> QED BY <2>2, <2>4, <2>5, BeginStep DEF SoundOrNone
<1>8. ASSUME NEW us, SetMaintainers(p, us)
      PROVE  IInv'
  <2>1. PICK run : run = <<"people", "docPeople">>
    OBVIOUS
  <2>2. run \in Seq(Plain) /\ run # <<>>
    BY <2>1 DEF Plain
  <2>3. PICK l : l = [Nothing EXCEPT !.run = run, !.todo = us, !.ent = Entity]
    OBVIOUS
  <2>4. /\ DOMAIN l = DOMAIN Nothing /\ l.run = run /\ l.v = None /\ l.flag = FALSE /\ l.f = None /\ l.a = None
    BY <2>3, NoCall
  <2>5. Begin(p, "owner", l)
    BY <1>8, <2>1, <2>3 DEF SetMaintainers
  <2> QED BY <1>4, <2>2, <2>4, <2>5 DEF SoundOrNone
<1>9. ASSUME NEW flag \in BOOLEAN, Block(p, flag)
      PROVE  IInv'
  <2>1. PICK run : run = <<"block", "docBlock">>
    OBVIOUS
  <2>2. run \in Seq(Plain) /\ run # <<>>
    BY <2>1 DEF Plain
  <2>3. PICK l : l = [Nothing EXCEPT !.run = run, !.flag = flag, !.ent = Entity]
    OBVIOUS
  <2>4. /\ DOMAIN l = DOMAIN Nothing /\ l.run = run /\ l.v = None /\ l.flag = flag /\ l.f = None /\ l.a = None
    BY <2>3, NoCall
  <2>5. Begin(p, "block", l)
    BY <1>9, <2>1, <2>3 DEF Block
  <2> QED BY <1>4, <2>2, <2>4, <2>5 DEF SoundOrNone
<1>10. ASSUME NEW which \in {"full", "abbr"}, List(p, which)
       PROVE  IInv'
  <2>1. PICK run : run = <<which>>
    OBVIOUS
  <2>2. run \in Seq(Plain) /\ run # <<>>
    BY <2>1 DEF Plain
  <2>3. PICK x : x = IF which = "full" THEN DocOf("man") ELSE None
    OBVIOUS
  <2>4. PICK y : y = IF which = "abbr" THEN DocOf("abb") ELSE None
    OBVIOUS
  <2>5. PICK l : l = [Nothing EXCEPT !.run = run, !.ent = Entity, !.f = x, !.a = y]
    OBVIOUS
  <2>6. /\ DOMAIN l = DOMAIN Nothing /\ l.run = run /\ l.v = None /\ l.flag = FALSE /\ l.f = x /\ l.a = y
    BY <2>5, NoCall
  <2>7. Begin(p, "list", l)
    BY <1>10, <2>1, <2>3, <2>4, <2>5 DEF List
  <2>8. ~past.raced => SoundOrNone(x) /\ SoundOrNone(y)
    BY <2>3, <2>4, DocOfSound DEF SoundOrNone
  <2> QED BY <1>4, <2>2, <2>6, <2>7, <2>8
<1> QED BY <1>1, <1>2, <1>3, <1>5, <1>6, <1>7, <1>8, <1>9, <1>10 DEF Request

LEMMA AbortStep ==
  ASSUME IInv, NEW p \in Proc, Abort(p)
  PROVE  IInv'
<1>1. /\ UNCHANGED <<rows, file, tags, full, abbr, pubs>>
      /\ past'.removed = past.removed /\ past'.raced = past.raced /\ DOMAIN past' = DOMAIN past
  BY DEF Abort, store, IInv, Kinds, StoreKinds
<1>2. Frame(p) /\ at'[p] = Nothing
  BY Holds DEF Abort, Frame
<1>3. (RunKnown(p) /\ CallKind(p) /\ ~Publishing(p) /\ ~Removing(p) /\ ~Retagging(p))'
  BY <1>2, NoCallNext
<1>4. ~past.raced => \A q \in Proc \ {p} : Writing(q) => lock' = lock
  BY DEF Abort, IInv, Kept, Uploads
<1>5. ~past.raced => SoundOrNone(at'[p].f) /\ SoundOrNone(at'[p].a) /\ Named(at'[p].v)
  BY <1>2, NoCall, PackageAssumption DEF SoundOrNone, Named
<1> QED BY <1>1, <1>2, <1>3, <1>4, <1>5, Holds, MoveStep

LEMMA LockLapsesStep ==
  ASSUME IInv, LockLapses
  PROVE  IInv'
<1>1. UNCHANGED <<store, at, pubs, calls>>
  BY DEF LockLapses
<1>2. RunsKnown'
  BY <1>1 DEF IInv, RunsKnown, RunKnown, Retagging, Step, Running, Rest
<1>3. past'.removed = past.removed /\ DOMAIN past' = DOMAIN past /\ past'.raced \in BOOLEAN
      /\ (past' = past \/ past'.raced) /\ (Running(lock) => past'.raced)
  BY DEF LockLapses, IInv, Kinds, StoreKinds
<1>4. Kinds'
  <2>1. \A p \in Proc : CallKind(p)'
    BY <1>1 DEF IInv, Kinds, CallKind, Writing, Publishing, Waiting, Step, Running
  <2> QED BY <1>1, <1>3, <2>1 DEF IInv, Kinds, StoreKinds, store
<1>5. Kept'
  <2> SUFFICES ASSUME ~past'.raced PROVE Kept'
    BY DEF Kept
  <2>1. past' = past /\ ~past.raced /\ ~Running(lock)
    BY <1>3 DEF LockLapses
  <2>2. ASSUME NEW q \in Proc
        PROVE  Uploads(q)' /\ Removes(q)' /\ Carries(q)'
    <3>1. Uploads(q) /\ Removes(q) /\ Carries(q) /\ Advance
      BY <1>1, <2>1 DEF IInv, Kept, Advance, store
    <3>2. ~Writing(q)
      BY <2>1, <3>1, Holds, Places DEF Writing, Uploads
    <3>3. Uploads(q)'
      BY <1>1, <3>1, <3>2, UploadsStay DEF store
    <3>4. Removes(q)'
      BY <1>1, <2>1, <3>1, RemovesStay DEF store
    <3> QED BY <1>1, <3>1, <3>3, <3>4, CarriesStay
  <2>3. /\ \A v \in Version : FilesFit(v)'
        /\ \A t \in Tag : Named(tags[t])'
        /\ SoundOrNone(full)' /\ SoundOrNone(abbr)'
    BY <1>1, <2>1 DEF IInv, Kept, FilesFit, Named, Known, SoundOrNone, Sound, Existing, store
  <2>4. \A p, q \in Proc : (Removing(p) /\ Removing(q))' => p = q
    BY <1>1, <2>1 DEF IInv, Kept, Removing
  <2> QED BY <2>2, <2>3, <2>4 DEF Kept
<1> QED BY <1>2, <1>4, <1>5 DEF IInv

-----------------------------------------------------------------------------
(* What holds of every state *)

LEMMA InitHolds ==
  Init => IInv
<1> SUFFICES ASSUME Init PROVE IInv
  OBVIOUS
<1>1. \A p \in Proc : at[p] = Nothing
  BY DEF Init
<1>2. DOMAIN at = Proc /\ lock = None /\ past = [disturbed |-> FALSE, raced |-> FALSE, removed |-> {}]
  BY DEF Init
<1>3. ASSUME NEW p \in Proc
      PROVE  /\ RunKnown(p) /\ CallKind(p) /\ Uploads(p) /\ Removes(p) /\ Carries(p) /\ ~Removing(p)
  <2>1. at[p].run = <<>> /\ <<>> \in Seq(Plain) /\ at[p].v = None /\ at[p].flag = FALSE
        /\ at[p].f = None /\ at[p].a = None /\ DOMAIN at[p] = DOMAIN Nothing
    BY <1>1, NoCall
  <2>2. <<>> \notin Publications
    BY DEF Publications
  <2>3. RunKnown(p) /\ ~Publishing(p) /\ ~Removing(p) /\ ~Retagging(p) /\ ~Running(p)
    BY <2>1, <2>2 DEF RunKnown, Publishing, Removing, Retagging, Step, Running
  <2>4. CallKind(p)
    BY <2>1, <2>3 DEF CallKind, Writing
  <2>5. Uploads(p) /\ Removes(p)
    BY <2>3 DEF Uploads, Removes, Writing, Step
  <2>6. Carries(p)
    BY <2>1, <2>3, PackageAssumption DEF Carries, SoundOrNone, Named
  <2> QED BY <2>3, <2>4, <2>5, <2>6
<1>4. CASE Fresh
  <2>1. /\ rows = [v \in Version |-> None] /\ tags = [t \in Tag |-> None]
        /\ file = [v \in Version |-> NoFiles] /\ full = None /\ abbr = None /\ pubs = 0
    BY <1>4 DEF Fresh
  <2>2. StoreKinds
    BY <1>2, <2>1 DEF StoreKinds, NoFiles
  <2>3. \A v \in Version : FilesFit(v)
    BY <2>1 DEF FilesFit
  <2>4. (\A t \in Tag : Named(tags[t])) /\ SoundOrNone(full) /\ SoundOrNone(abbr)
    BY <2>1, PackageAssumption DEF Named, SoundOrNone
  <2> QED BY <1>2, <1>3, <2>2, <2>3, <2>4 DEF IInv, RunsKnown, Kinds, Kept
<1>5. CASE Synced
  <2>1. PICK n \in Latest, u \in User :
          LET has(v) == v <= n
              latest == [t \in Tag |-> IF t = "latest" THEN n ELSE None]
              metas == [v \in Version |-> IF has(v) THEN Meta(v) ELSE None]
          IN /\ rows = [v \in Version |-> IF has(v) THEN v ELSE None]
             /\ tags = latest
             /\ file = [v \in Version |-> IF has(v) THEN [tar |-> v, man |-> Meta(v), abb |-> Meta(v)] ELSE NoFiles]
             /\ full = Document(metas, latest, {u})
             /\ abbr = Document(metas, latest, {})
             /\ pubs = n
    BY <1>5 DEF Synced
  <2>2. n \in Version /\ n \in Nat /\ None \notin Version /\ Version \subseteq Nat
    BY PackageAssumption
  <2>3. ASSUME NEW v \in Version
        PROVE  Meta(v) \in Metas /\ Meta(v) # None /\ Meta(v).pub = v /\ v \in Nat /\ v # None
    <3>1. v \in Nat /\ v # None
      BY <2>2
    <3>2. Meta(v) \in Metas /\ Meta(v).pub = v
      BY <3>1 DEF Meta, Metas
    <3>3. None \notin Metas
      BY PackageAssumption DEF Metas
    <3> QED BY <3>1, <3>2, <3>3
  <2>4. \A v \in Version : /\ rows[v] = (IF v <= n THEN v ELSE None)
                           /\ file[v] = IF v <= n THEN [tar |-> v, man |-> Meta(v), abb |-> Meta(v)] ELSE NoFiles
    BY <2>1
  <2>5. StoreKinds
    <3>1. DOMAIN rows = Version /\ DOMAIN file = Version /\ DOMAIN tags = Tag /\ pubs \in Nat
      BY <2>1, <2>2
    <3>2. rows \in [Version -> Nat \cup {None}]
      <4>1. \A v \in Version : (IF v <= n THEN v ELSE None) \in Nat \cup {None}
        BY <2>2
      <4> QED BY <2>1, <4>1
    <3>3. file \in [Version -> [tar : Nat \cup {None}, man : Metas \cup {None}, abb : Metas \cup {None}]]
      <4>1. \A v \in Version : (IF v <= n THEN [tar |-> v, man |-> Meta(v), abb |-> Meta(v)] ELSE NoFiles)
              \in [tar : Nat \cup {None}, man : Metas \cup {None}, abb : Metas \cup {None}]
        <5>1. NoFiles \in [tar : Nat \cup {None}, man : Metas \cup {None}, abb : Metas \cup {None}]
          BY DEF NoFiles
        <5> QED BY <2>3, <5>1
      <4> QED BY <2>1, <4>1
    <3> QED BY <1>2, <3>1, <3>2, <3>3 DEF StoreKinds
  <2>6. ASSUME NEW v \in Version
        PROVE  FilesFit(v)
    <3>1. CASE v <= n
      <4>1. rows[v] = v /\ file[v].tar = v /\ file[v].man = Meta(v) /\ file[v].abb = Meta(v)
        <5>1. rows[v] = v /\ file[v] = [tar |-> v, man |-> Meta(v), abb |-> Meta(v)]
          BY <2>4, <3>1, Zenon
        <5>2. PICK meta : meta = Meta(v)
          OBVIOUS
        <5>3. file[v] = [tar |-> v, man |-> meta, abb |-> meta]
          BY <5>1, <5>2
        <5> QED BY <5>1, <5>2, <5>3
      <4> QED BY <2>3, <4>1 DEF FilesFit
    <3>2. CASE ~(v <= n)
      BY <2>4, <3>2 DEF FilesFit
    <3> QED BY <3>1, <3>2
  <2>7. Named(n) /\ Named(None)
    <3>1. rows[n] # None
      <4>1. n <= n
        BY <2>2
      <4>2. rows[n] = n
        BY <2>2, <2>4, <4>1
      <4> QED BY <2>2, <4>2
    <3> QED BY <2>2, <3>1 DEF Named, Known
  <2>8. \A t \in Tag : Named(tags[t])
    BY <2>1, <2>7
  <2>9. ASSUME NEW doc \in {full, abbr}
        PROVE  Sound(doc)
    <3>1. /\ {"versions", "tags"} \subseteq DOMAIN doc /\ doc.tags = tags
          /\ doc.versions = [v \in Version |-> IF v <= n THEN Meta(v) ELSE None]
      BY <2>1, <2>9 DEF Document
    <3>2. \A v \in Version : doc.versions[v] # None => v \in Existing /\ rows[v] = doc.versions[v].pub
      BY <2>3, <2>4, <3>1 DEF Existing
    <3> QED BY <2>8, <3>1, <3>2 DEF Sound
  <2> QED BY <1>2, <1>3, <2>5, <2>6, <2>8, <2>9 DEF IInv, RunsKnown, Kinds, Kept, SoundOrNone
<1> QED BY <1>4, <1>5 DEF Init

LEMMA StutterStep ==
  ASSUME IInv, UNCHANGED vars
  PROVE  IInv'
<1>1. UNCHANGED <<pkg, rows, tags, people, file, full, abbr, lock, at, pubs, calls, faults, past>>
  BY DEF vars, store
<1>2. RunsKnown'
  BY <1>1 DEF IInv, RunsKnown, RunKnown, Retagging, Step, Running, Rest
<1>3. Kinds'
  <2>1. \A p \in Proc : CallKind(p)'
    BY <1>1 DEF IInv, Kinds, CallKind, Writing, Publishing, Waiting, Step, Running
  <2> QED BY <1>1, <2>1 DEF IInv, Kinds, StoreKinds
<1>4. Kept'
  <2> SUFFICES ASSUME ~past'.raced PROVE Kept'
    BY DEF Kept
  <2>1. ~past.raced
    BY <1>1
  <2>2. ASSUME NEW q \in Proc
        PROVE  Uploads(q)' /\ Removes(q)' /\ Carries(q)'
    <3>1. Uploads(q) /\ Removes(q) /\ Carries(q) /\ Advance
      BY <1>1, <2>1 DEF IInv, Kept, Advance
    <3>2. Uploads(q)'
      BY <1>1, <3>1, UploadsStay
    <3>3. Removes(q)'
      BY <1>1, <3>1, RemovesStay
    <3> QED BY <1>1, <3>1, <3>2, <3>3, CarriesStay
  <2>3. /\ \A v \in Version : FilesFit(v)'
        /\ \A t \in Tag : Named(tags[t])'
        /\ SoundOrNone(full)' /\ SoundOrNone(abbr)'
    BY <1>1, <2>1 DEF IInv, Kept, FilesFit, Named, Known, SoundOrNone, Sound, Existing
  <2>4. \A p, q \in Proc : (Removing(p) /\ Removing(q))' => p = q
    BY <1>1, <2>1 DEF IInv, Kept, Removing
  <2> QED BY <2>2, <2>3, <2>4 DEF Kept
<1> QED BY <1>2, <1>3, <1>4 DEF IInv

LEMMA NextHolds ==
  IInv /\ [Next]_vars => IInv'
<1> SUFFICES ASSUME IInv, [Next]_vars PROVE IInv'
  OBVIOUS
<1>1. ASSUME NEW p \in Proc, Request(p)
      PROVE  IInv'
  BY <1>1, CallsBegin
<1>2. ASSUME NEW p \in Proc, Write(p)
      PROVE  IInv'
  <2>1. CASE Refresh(p) \/ RefreshTags(p) \/ RefreshPeople(p) \/ SetDistTags(p) \/ WriteFull(p) \/ WriteAbbr(p)
    BY <2>1, RefreshStep, RefreshTagsStep, RefreshPeopleStep, SetDistTagsStep, WriteFullStep, WriteAbbrStep
  <2>2. CASE AcquireLock(p) \/ ReleaseLock(p) \/ SavePackage(p) \/ UploadTar(p) \/ UploadManifests(p)
             \/ CreateVersion(p) \/ SaveTags(p)
    BY <2>2, AcquireLockStep, ReleaseLockStep, SavePackageStep, UploadTarStep, UploadManifestsStep,
       CreateVersionStep, SaveTagsStep
  <2>3. CASE CheckNames(p) \/ ListVersions(p) \/ DestroyFiles(p) \/ RemoveRow(p) \/ MoveLatest(p)
             \/ BlankFull(p) \/ BlankAbbr(p)
    BY <2>3, CheckNamesStep, ListVersionsStep, DestroyFilesStep, RemoveRowStep, MoveLatestStep, BlankStep
  <2>4. CASE DeleteTag(p) \/ DeprecateFull(p) \/ DeprecateAbbr(p) \/ ReplacePeople(p) \/ SaveBlock(p)
             \/ RefreshBlock(p)
    BY <2>4, DeleteTagStep, DeprecateFullStep, DeprecateAbbrStep, ReplacePeopleStep, SaveBlockStep, RefreshBlockStep
  <2> QED BY <1>2, <2>1, <2>2, <2>3, <2>4 DEF Write
<1>3. ASSUME NEW p \in Proc, Abort(p)
      PROVE  IInv'
  BY <1>3, AbortStep
<1>4. CASE LockLapses
  BY <1>4, LockLapsesStep
<1>5. CASE UNCHANGED vars
  BY <1>5, StutterStep
<1> QED BY <1>1, <1>2, <1>3, <1>4, <1>5 DEF Next

\* In every state each call has left one of the sequences of steps that its
\* operation can come to, and rows, files and calls are of their kinds.
\* (PackageManagerService: which of its methods calls which.)
THEOREM CallsKnown ==
  Spec => [](RunsKnown /\ Kinds)
<1>1. IInv => RunsKnown /\ Kinds
  BY DEF IInv
<1> QED BY InitHolds, NextHolds, <1>1, PTL DEF Spec

\* A version's tarball is the one its row was created for: neither a second
\* publication of it, refused or broken off wherever, nor any removal of
\* something else replaces it, unless a publication's lock lapsed or two
\* removals overlapped (PackageManagerService, publish and
\* _removePackageVersionAndDist).
THEOREM TarballsAreKept ==
  Spec => []TarballsKept
<1>1. IInv => TarballsKept
  BY DEF IInv, Kept, TarballsKept, FilesFit, Existing
<1> QED BY InitHolds, NextHolds, <1>1, PTL DEF Spec

LEMMA WithRowServed ==
  ASSUME IInv, ~past.raced, NEW v \in Existing, <<v, rows[v]>> \notin past.removed
  PROVE  Served(v)
<1>1. FilesFit(v) /\ rows[v] # None
  BY DEF IInv, Kept, Existing
<1> QED BY <1>1 DEF FilesFit, Served

LEMMA SoundIsServed ==
  IInv => ListedServed
<1> SUFFICES ASSUME IInv, ~past.raced, NEW v \in Version, NEW doc \in {full, abbr},
                    HasVersions(doc), doc.versions[v] # None, <<v, doc.versions[v].pub>> \notin past.removed
             PROVE  Served(v)
  BY DEF ListedServed
<1>1. Sound(doc)
  BY DEF IInv, Kept, SoundOrNone, HasVersions
<1>2. v \in Existing /\ rows[v] = doc.versions[v].pub
  BY <1>1 DEF Sound, HasVersions
<1> QED BY <1>2, WithRowServed

\* A version that a document of the package lists is served, whatever calls
\* overlap and wherever they break off, unless somebody began to remove that
\* publication of it: files are uploaded before the row is created, the row
\* before the documents are written, and a document only ever lists what it has
\* read rows of.
THEOREM ListedIsServed ==
  Spec => []ListedServed
<1>1. IInv => ListedServed
  BY SoundIsServed
<1> QED BY InitHolds, NextHolds, <1>1, PTL DEF Spec

\* Neither a tag row nor a tag of a document names a version that is not
\* served, unless somebody began to remove that version (savePackageTag,
\* removePackageVersion and the documents that they refresh).
THEOREM TagsDoNotDangle ==
  Spec => []NothingDangles
<1>1. IInv => ListedServed
  BY SoundIsServed
<1>2. IInv => NothingDangles
  <2> SUFFICES ASSUME IInv, ~past.raced, NEW t \in Tag,
                      NEW tagged \in {tags} \cup {doc.tags : doc \in {full, abbr} \ {None}},
                      tagged[t] \in Version \ {x[1] : x \in past.removed}
               PROVE  Served(tagged[t])
    BY <1>1 DEF NothingDangles
  <2>1. Named(tagged[t])
    BY DEF IInv, Kept, SoundOrNone, Sound
  <2>2. PICK v : v = tagged[t]
    OBVIOUS
  <2>3. v \in Existing
    BY <2>1, <2>2 DEF Named, Known, Existing
  <2>4. <<v, rows[v]>> \notin past.removed
    <3>1. <<v, rows[v]>>[1] = v
      OBVIOUS
    <3> QED BY <2>2, <3>1
  <2> QED BY <2>2, <2>3, <2>4, WithRowServed
<1> QED BY InitHolds, NextHolds, <1>2, PTL DEF Spec

-----------------------------------------------------------------------------
(* The inductive invariant of DocumentsAgree: calls one after the other *)

\* A call that waits for the lock has written nothing yet.
Active(p) == Running(p) /\ ~Waiting(p)

Shapes ==
  /\ pkg \in [exists : BOOLEAN, private : BOOLEAN, full : BOOLEAN, abbr : BOOLEAN, blocked : BOOLEAN]
  /\ tags \in [Tag -> Version \cup {None}] /\ people \in SUBSET User

\* The versions a document lists are those of the rows and files, but for some.
Lists(versions, which, but) ==
  IF versions = None THEN Existing \subseteq but
  ELSE /\ versions \in Listings /\ Existing # {}
       /\ \A v \in Version \ but : versions[v] = IF rows[v] # None THEN file[v][which] ELSE None
Says(doc, which, but) == doc \in Documents /\ Lists(doc.versions, which, but)
Tagged(doc) == Existing # {} => doc.tags = tags

\* Both documents are there, or none is yet.
NoDocs == ~pkg.full /\ ~pkg.abbr /\ full = None /\ abbr = None
Docs == pkg.exists /\ pkg.full /\ pkg.abbr /\ full \in Documents /\ abbr \in Documents
Owned == full.people \subseteq people
Written(but) == Docs /\ Says(full, "man", but) /\ Says(abbr, "abb", but)

Whole(v) == file[v].man # None /\ file[v].abb # None
WholeBut(but) == \A v \in Existing \ but : Whole(v)

\* What a call finds and leaves.
Settled ==
  /\ WholeBut({})
  /\ IF pkg.exists THEN Written({}) /\ Owned /\ Tagged(full) /\ Tagged(abbr) ELSE NoDocs /\ Existing = {}

\* The call knows which documents are there.
Knowing == [full : BOOLEAN, abbr : BOOLEAN]
Knows(p) == at[p].ent = [full |-> TRUE, abbr |-> TRUE]
Ready(p) == Settled /\ pkg.exists /\ Knows(p)

\* What may follow when the documents are written; until the refresh they need
\* not list the versions it is for.
Ends == {<<>>, <<"tags">>, <<"tags", "unlock">>, <<"refresh">>}
Due(p) == at[p].upd \cup at[p].rem
Stale(p, end) == IF end = <<"refresh">> THEN Due(p) ELSE {}
ToRefresh(p) == at[p].upd \subseteq Existing /\ at[p].rem \subseteq Version \ Existing
Follows(p, end) ==
  /\ end \in Ends /\ pkg.exists /\ WholeBut({})
  /\ end = <<"refresh">> => ToRefresh(p)
  /\ end \in {<<"tags">>, <<"tags", "unlock">>} => at[p].v \in Version /\ at[p].todo \subseteq Tag

\* What the call is about to write.
NextFull(p, end) == Says(at[p].f, "man", Stale(p, end)) /\ at[p].f.people \subseteq people
NextAbbr(p, end) == Says(at[p].a, "abb", Stale(p, end))

\* What a publication knows when it has the lock, and later.
Asks(p) ==
  /\ at[p].v \in Version /\ at[p].by \in User /\ at[p].todo \subseteq Tag
  /\ at[p].upd = {} /\ at[p].rem = {}
Publishes(p) ==
  /\ pkg.exists /\ at[p].v \in Version /\ rows[at[p].v] = None /\ at[p].todo \subseteq Tag
  /\ at[p].upd = {at[p].v} /\ at[p].rem = {} /\ at[p].ent = Entity
  /\ WholeBut({}) /\ ((NoDocs /\ Existing = {}) \/ (Written({}) /\ Owned))

\* A call that removes one version of several, or all there are.
RemovesOne(p) ==
  /\ at[p].v \in Existing /\ at[p].upd = {} /\ at[p].rem = {at[p].v}
  /\ at[p].todo = {<<at[p].v, rows[at[p].v]>>}
RemovesAll(p) ==
  /\ Docs /\ Knows(p) /\ Existing # {} /\ at[p].todo = {<<v, rows[v]>> : v \in Existing}

\* What is true at each step.
AtRefresh(p) ==
  /\ Follows(p, Rest(p)) /\ Rest(p) # <<"refresh">> /\ ToRefresh(p) /\ at[p].ent = Entity
  /\ \/ NoDocs /\ Existing # {} /\ Existing \subseteq Due(p)
     \/ Written(Due(p)) /\ Owned
AtDistTags(p) == \E end \in Ends :
  /\ at[p].run = <<"distTags", "full", "abbr">> \o end /\ Follows(p, end)
  /\ Docs /\ Knows(p) /\ NextFull(p, end) /\ NextAbbr(p, end)
AtFull(p) ==
  \/ \E end \in Ends :
       /\ at[p].run = <<"full", "abbr">> \o end /\ Follows(p, end) /\ at[p].ent \in Knowing
       /\ NextFull(p, end) /\ NextAbbr(p, end) /\ Tagged(at[p].f) /\ Tagged(at[p].a)
  \/ /\ Rest(p) = <<>> /\ Docs /\ WholeBut({}) /\ Knows(p)
     /\ NextFull(p, <<>>) /\ Tagged(at[p].f)
     /\ Says(abbr, "abb", {}) /\ Tagged(abbr)
AtAbbr(p) ==
  /\ Follows(p, Rest(p)) /\ at[p].ent \in Knowing /\ at[p].ent.full
  /\ pkg.full /\ Says(full, "man", Stale(p, Rest(p))) /\ Owned /\ Tagged(full)
  /\ NextAbbr(p, Rest(p)) /\ Tagged(at[p].a)
AtRoot(p) ==
  Follows(p, Rest(p)) /\ Knows(p) /\ Written(Stale(p, Rest(p))) /\ Owned
AtTags(p) ==
  Rest(p) \in {<<>>, <<"unlock">>} /\ Ready(p) /\ at[p].v \in Version /\ at[p].todo \subseteq Tag
AtFiles(p) ==
  IF at[p].run = <<"files", "deleteRow", "latest", "refresh">>
  THEN Ready(p) /\ RemovesOne(p) /\ Existing # {at[p].v} ELSE RemovesAll(p)
AtDeleteRow(p) ==
  IF at[p].run = <<"deleteRow", "latest", "refresh">>
  THEN /\ RemovesOne(p) /\ Existing # {at[p].v} /\ Knows(p)
       /\ Written({at[p].v}) /\ Owned /\ WholeBut({at[p].v})
  ELSE RemovesAll(p)
AtLatest(p) ==
  /\ Rest(p) = <<"refresh">> /\ Follows(p, Rest(p)) /\ Knows(p) /\ Existing # {}
  /\ Written(Due(p)) /\ Owned
AtBlankFull(p) == Rest(p) = <<"blankAbbr">> /\ Docs /\ Knows(p) /\ Existing = {}
AtBlankAbbr(p) == Rest(p) = <<>> /\ Docs /\ Knows(p) /\ Existing = {} /\ full.versions = None /\ Owned
AtDocPeople(p) == Rest(p) = <<>> /\ Knows(p) /\ Written({}) /\ WholeBut({}) /\ Tagged(full) /\ Tagged(abbr)
AtDepMan(p) ==
  at[p].todo \subseteq Version /\ ToRefresh(p) /\ Knows(p) /\ WholeBut({}) /\ Written(Due(p)) /\ Owned
AtDepAbb(p) ==
  LET v == Min(at[p].todo)
  IN /\ at[p].todo \subseteq Version /\ at[p].todo # {} /\ v \in Existing
     /\ ToRefresh(p) /\ Knows(p) /\ WholeBut({}) /\ Written(Due(p) \cup {v}) /\ Owned
AtSave(p) == Settled /\ Asks(p)
AtRow(p) == Publishes(p) /\ Whole(at[p].v)
AtUnlock(p) == Rest(p) = <<>> /\ Settled
AtNames(p) == Ready(p) /\ RemovesOne(p)
AtUntag(p) == Rest(p) = <<>> /\ Ready(p) /\ at[p].todo \subseteq Tag
AtPeople(p) == Rest(p) = <<"docPeople">> /\ Ready(p) /\ at[p].todo \subseteq User
AtBlock(p) == Rest(p) = <<"docBlock">> /\ Ready(p)
AtDocBlock(p) == Rest(p) = <<>> /\ Ready(p)

InOrder(p) ==
  /\ Step(p, "save") => AtSave(p)
  /\ Step(p, "tar") \/ Step(p, "manifests") => Publishes(p)
  /\ Step(p, "row") => AtRow(p)
  /\ Step(p, "refresh") => AtRefresh(p)
  /\ Step(p, "distTags") => AtDistTags(p)
  /\ Step(p, "full") => AtFull(p)
  /\ Step(p, "abbr") => AtAbbr(p)
  /\ Step(p, "root") => AtRoot(p)
  /\ Step(p, "tags") => AtTags(p)
  /\ Step(p, "unlock") => AtUnlock(p)
  /\ Step(p, "names") => AtNames(p)
  /\ Step(p, "list") => Ready(p)
  /\ Step(p, "files") => AtFiles(p)
  /\ Step(p, "deleteRow") => AtDeleteRow(p)
  /\ Step(p, "latest") => AtLatest(p)
  /\ Step(p, "blankFull") => AtBlankFull(p)
  /\ Step(p, "blankAbbr") => AtBlankAbbr(p)
  /\ Step(p, "untag") => AtUntag(p)
  /\ Step(p, "people") => AtPeople(p)
  /\ Step(p, "docPeople") => AtDocPeople(p)
  /\ Step(p, "block") => AtBlock(p)
  /\ Step(p, "docBlock") => AtDocBlock(p)
  /\ Step(p, "depMan") => AtDepMan(p)
  /\ Step(p, "depAbb") => AtDepAbb(p)

\* One call is active at most, and without one the documents agree.
OneAtATime ==
  /\ Shapes
  /\ \A p, q \in Proc : Active(p) /\ Active(q) => p = q
  /\ \A p \in Proc : (Active(p) => InOrder(p)) /\ (Waiting(p) => Asks(p))
  /\ (\A p \in Proc : ~Active(p)) => Settled
Orderly == ~past.disturbed => OneAtATime

-----------------------------------------------------------------------------
(* Calls one after the other *)

\* A call at a step whose part of the invariant holds is in order.
LEMMA Placed ==
  ASSUME NEW p
  PROVE  /\ (Step(p, "save") /\ AtSave(p))' => (Active(p) /\ InOrder(p))'
         /\ (Step(p, "tar") /\ Publishes(p))' => (Active(p) /\ InOrder(p))'
         /\ (Step(p, "manifests") /\ Publishes(p))' => (Active(p) /\ InOrder(p))'
         /\ (Step(p, "row") /\ AtRow(p))' => (Active(p) /\ InOrder(p))'
         /\ (Step(p, "refresh") /\ AtRefresh(p))' => (Active(p) /\ InOrder(p))'
         /\ (Step(p, "distTags") /\ AtDistTags(p))' => (Active(p) /\ InOrder(p))'
         /\ (Step(p, "full") /\ AtFull(p))' => (Active(p) /\ InOrder(p))'
         /\ (Step(p, "abbr") /\ AtAbbr(p))' => (Active(p) /\ InOrder(p))'
         /\ (Step(p, "root") /\ AtRoot(p))' => (Active(p) /\ InOrder(p))'
         /\ (Step(p, "tags") /\ AtTags(p))' => (Active(p) /\ InOrder(p))'
         /\ (Step(p, "unlock") /\ AtUnlock(p))' => (Active(p) /\ InOrder(p))'
         /\ (Step(p, "names") /\ AtNames(p))' => (Active(p) /\ InOrder(p))'
         /\ (Step(p, "list") /\ Ready(p))' => (Active(p) /\ InOrder(p))'
         /\ (Step(p, "files") /\ AtFiles(p))' => (Active(p) /\ InOrder(p))'
         /\ (Step(p, "deleteRow") /\ AtDeleteRow(p))' => (Active(p) /\ InOrder(p))'
         /\ (Step(p, "latest") /\ AtLatest(p))' => (Active(p) /\ InOrder(p))'
         /\ (Step(p, "blankFull") /\ AtBlankFull(p))' => (Active(p) /\ InOrder(p))'
         /\ (Step(p, "blankAbbr") /\ AtBlankAbbr(p))' => (Active(p) /\ InOrder(p))'
         /\ (Step(p, "untag") /\ AtUntag(p))' => (Active(p) /\ InOrder(p))'
         /\ (Step(p, "people") /\ AtPeople(p))' => (Active(p) /\ InOrder(p))'
         /\ (Step(p, "docPeople") /\ AtDocPeople(p))' => (Active(p) /\ InOrder(p))'
         /\ (Step(p, "block") /\ AtBlock(p))' => (Active(p) /\ InOrder(p))'
         /\ (Step(p, "docBlock") /\ AtDocBlock(p))' => (Active(p) /\ InOrder(p))'
         /\ (Step(p, "depMan") /\ AtDepMan(p))' => (Active(p) /\ InOrder(p))'
         /\ (Step(p, "depAbb") /\ AtDepAbb(p))' => (Active(p) /\ InOrder(p))'
<1>1. (Step(p, "save") /\ AtSave(p))' => (Active(p) /\ InOrder(p))'
  BY DEF Step, Active, Waiting, Running, InOrder
<1>2. (Step(p, "tar") /\ Publishes(p))' => (Active(p) /\ InOrder(p))'
  BY DEF Step, Active, Waiting, Running, InOrder
<1>3. (Step(p, "manifests") /\ Publishes(p))' => (Active(p) /\ InOrder(p))'
  BY DEF Step, Active, Waiting, Running, InOrder
<1>4. (Step(p, "row") /\ AtRow(p))' => (Active(p) /\ InOrder(p))'
  BY DEF Step, Active, Waiting, Running, InOrder
<1>5. (Step(p, "refresh") /\ AtRefresh(p))' => (Active(p) /\ InOrder(p))'
  BY DEF Step, Active, Waiting, Running, InOrder
<1>6. (Step(p, "distTags") /\ AtDistTags(p))' => (Active(p) /\ InOrder(p))'
  BY DEF Step, Active, Waiting, Running, InOrder
<1>7. (Step(p, "full") /\ AtFull(p))' => (Active(p) /\ InOrder(p))'
  BY DEF Step, Active, Waiting, Running, InOrder
<1>8. (Step(p, "abbr") /\ AtAbbr(p))' => (Active(p) /\ InOrder(p))'
  BY DEF Step, Active, Waiting, Running, InOrder
<1>9. (Step(p, "root") /\ AtRoot(p))' => (Active(p) /\ InOrder(p))'
  BY DEF Step, Active, Waiting, Running, InOrder
<1>10. (Step(p, "tags") /\ AtTags(p))' => (Active(p) /\ InOrder(p))'
  BY DEF Step, Active, Waiting, Running, InOrder
<1>11. (Step(p, "unlock") /\ AtUnlock(p))' => (Active(p) /\ InOrder(p))'
  BY DEF Step, Active, Waiting, Running, InOrder
<1>12. (Step(p, "names") /\ AtNames(p))' => (Active(p) /\ InOrder(p))'
  BY DEF Step, Active, Waiting, Running, InOrder
<1>13. (Step(p, "list") /\ Ready(p))' => (Active(p) /\ InOrder(p))'
  BY DEF Step, Active, Waiting, Running, InOrder
<1>14. (Step(p, "files") /\ AtFiles(p))' => (Active(p) /\ InOrder(p))'
  BY DEF Step, Active, Waiting, Running, InOrder
<1>15. (Step(p, "deleteRow") /\ AtDeleteRow(p))' => (Active(p) /\ InOrder(p))'
  BY DEF Step, Active, Waiting, Running, InOrder
<1>16. (Step(p, "latest") /\ AtLatest(p))' => (Active(p) /\ InOrder(p))'
  BY DEF Step, Active, Waiting, Running, InOrder
<1>17. (Step(p, "blankFull") /\ AtBlankFull(p))' => (Active(p) /\ InOrder(p))'
  BY DEF Step, Active, Waiting, Running, InOrder
<1>18. (Step(p, "blankAbbr") /\ AtBlankAbbr(p))' => (Active(p) /\ InOrder(p))'
  BY DEF Step, Active, Waiting, Running, InOrder
<1>19. (Step(p, "untag") /\ AtUntag(p))' => (Active(p) /\ InOrder(p))'
  BY DEF Step, Active, Waiting, Running, InOrder
<1>20. (Step(p, "people") /\ AtPeople(p))' => (Active(p) /\ InOrder(p))'
  BY DEF Step, Active, Waiting, Running, InOrder
<1>21. (Step(p, "docPeople") /\ AtDocPeople(p))' => (Active(p) /\ InOrder(p))'
  BY DEF Step, Active, Waiting, Running, InOrder
<1>22. (Step(p, "block") /\ AtBlock(p))' => (Active(p) /\ InOrder(p))'
  BY DEF Step, Active, Waiting, Running, InOrder
<1>23. (Step(p, "docBlock") /\ AtDocBlock(p))' => (Active(p) /\ InOrder(p))'
  BY DEF Step, Active, Waiting, Running, InOrder
<1>24. (Step(p, "depMan") /\ AtDepMan(p))' => (Active(p) /\ InOrder(p))'
  BY DEF Step, Active, Waiting, Running, InOrder
<1>25. (Step(p, "depAbb") /\ AtDepAbb(p))' => (Active(p) /\ InOrder(p))'
  BY DEF Step, Active, Waiting, Running, InOrder
<1> QED BY <1>1, <1>2, <1>3, <1>4, <1>5, <1>6, <1>7, <1>8, <1>9, <1>10, <1>11, <1>12, <1>13, <1>14, <1>15, <1>16, <1>17, <1>18, <1>19, <1>20, <1>21, <1>22, <1>23, <1>24, <1>25

\* The only active call takes a step, or one begins when there is none.
LEMMA OrderlyStep ==
  ASSUME Orderly, NEW p \in Proc, Frame(p), past'.disturbed \/ ~past.disturbed,
         ~past'.disturbed =>
           /\ \A q \in Proc \ {p} : ~Active(q)
           /\ Shapes'
           /\ \/ ~Active(p)' /\ (Waiting(p) => Asks(p))' /\ Settled'
              \/ Active(p)' /\ InOrder(p)'
  PROVE  Orderly'
<1> SUFFICES ASSUME ~past'.disturbed PROVE OneAtATime'
  BY DEF Orderly
<1>1. OneAtATime
  BY DEF Orderly
<1>2. ASSUME NEW q \in Proc \ {p}
      PROVE  ~Active(q)' /\ (Waiting(q) => Asks(q))'
  <2>1. at'[q] = at[q] /\ ~Active(q) /\ (Waiting(q) => Asks(q))
    BY <1>1 DEF Frame, OneAtATime
  <2> QED BY <2>1 DEF Active, Running, Waiting, Asks
<1>3. Active(p)' => ~Waiting(p)'
  BY DEF Active
<1> QED BY <1>2, <1>3 DEF OneAtATime

\* Nothing that a call knows of the package changes.
LEMMA InOrderStays ==
  ASSUME UNCHANGED store, NEW q, at'[q] = at[q], InOrder(q)
  PROVE  InOrder(q)'
<1> USE DEF Follows, Stale, Due, Rest, ToRefresh, WholeBut, Whole, Existing, Entity, Docs, NoDocs, Written, Says,
     Lists, Owned, Tagged, Knows, Ready, Settled, RemovesOne, RemovesAll, NextFull, NextAbbr, Asks, store
<1>1. (AtRefresh(q) => AtRefresh(q)') /\ (AtRoot(q) => AtRoot(q)')
  BY DEF AtRefresh, AtRoot
<1>2. (AtDistTags(q) => AtDistTags(q)')
  BY DEF AtDistTags
<1>3. (AtAbbr(q) => AtAbbr(q)')
  BY DEF AtAbbr
<1>4. (AtTags(q) => AtTags(q)') /\ (AtUnlock(q) => AtUnlock(q)') /\ (AtSave(q) => AtSave(q)')
  BY DEF AtTags, AtUnlock, AtSave
<1>5. (AtFiles(q) => AtFiles(q)')
  BY DEF AtFiles
<1>6. (AtDeleteRow(q) => AtDeleteRow(q)')
  BY DEF AtDeleteRow
<1>7. (AtLatest(q) => AtLatest(q)') /\ (AtBlankFull(q) => AtBlankFull(q)') /\ (AtBlankAbbr(q) => AtBlankAbbr(q)') /\ (AtDocPeople(q) => AtDocPeople(q)')
  BY DEF AtLatest, AtBlankFull, AtBlankAbbr, AtDocPeople
<1>8. (AtDepMan(q) => AtDepMan(q)')
  BY DEF AtDepMan
<1>9. (AtDepAbb(q) => AtDepAbb(q)')
  BY DEF AtDepAbb
<1>10. (Publishes(q) => Publishes(q)')
  BY DEF Publishes
<1>11. (AtRow(q) => AtRow(q)')
  BY DEF AtRow, Publishes
<1>12. (AtNames(q) => AtNames(q)') /\ (AtUntag(q) => AtUntag(q)')
  BY DEF AtNames, AtUntag
<1>13. (AtPeople(q) => AtPeople(q)') /\ (AtBlock(q) => AtBlock(q)') /\ (AtDocBlock(q) => AtDocBlock(q)') /\ (Ready(q) => Ready(q)')
  BY DEF AtPeople, AtBlock, AtDocBlock
<1>14. AtFull(q) => AtFull(q)'
  <2>1. ASSUME NEW end \in Ends
        PROVE  (/\ at[q].run = <<"full", "abbr">> \o end /\ Follows(q, end) /\ at[q].ent \in Knowing
                /\ NextFull(q, end) /\ NextAbbr(q, end) /\ Tagged(at[q].f) /\ Tagged(at[q].a))
               => (/\ at[q].run = <<"full", "abbr">> \o end /\ Follows(q, end) /\ at[q].ent \in Knowing
                   /\ NextFull(q, end) /\ NextAbbr(q, end) /\ Tagged(at[q].f) /\ Tagged(at[q].a))'
    OBVIOUS
  <2>2. (/\ Rest(q) = <<>> /\ Docs /\ WholeBut({}) /\ Knows(q)
         /\ NextFull(q, <<>>) /\ Tagged(at[q].f)
         /\ Says(abbr, "abb", {}) /\ Tagged(abbr))
        => (/\ Rest(q) = <<>> /\ Docs /\ WholeBut({}) /\ Knows(q)
            /\ NextFull(q, <<>>) /\ Tagged(at[q].f)
            /\ Says(abbr, "abb", {}) /\ Tagged(abbr))'
    OBVIOUS
  <2> HIDE DEF Follows, NextFull, NextAbbr, Tagged, Rest, Docs, WholeBut, Says
  <2> QED BY <2>1, <2>2 DEF AtFull
<1>15. \A label : Step(q, label)' <=> Step(q, label)
  BY DEF Step, Running
<1> HIDE DEF Follows, Stale, Due, Rest, ToRefresh, WholeBut, Whole, Existing, Entity, Docs, NoDocs, Written, Says,
     Lists, Owned, Tagged, Knows, Ready, Settled, RemovesOne, RemovesAll, NextFull, NextAbbr, Asks, store
<1> QED
  BY <1>1, <1>2, <1>3, <1>4, <1>5, <1>6, <1>7, <1>8, <1>9, <1>10, <1>11, <1>12, <1>13, <1>14, <1>15 DEF InOrder

\* One that has written nothing waits, gives up or asks for the lock.
LEMMA AsideStep ==
  ASSUME Orderly, NEW p \in Proc, Frame(p), past'.disturbed = past.disturbed,
         UNCHANGED store, ~Active(p), ~Active(p)', Waiting(p)' => Asks(p)'
  PROVE  Orderly'
<1> SUFFICES ASSUME ~past'.disturbed PROVE OneAtATime'
  BY DEF Orderly
<1>1. OneAtATime /\ UNCHANGED <<pkg, rows, tags, people, file, full, abbr>>
  BY DEF Orderly, store
<1>2. ASSUME NEW q \in Proc \ {p}
      PROVE  /\ Active(q)' <=> Active(q)
             /\ (Waiting(q) => Asks(q))'
             /\ Active(q) => InOrder(q)'
  <2>1. at'[q] = at[q]
    BY DEF Frame
  <2>2. (Active(q)' <=> Active(q)) /\ (Waiting(q) => Asks(q))'
    BY <1>1, <2>1 DEF Active, Running, Waiting, Asks, OneAtATime
  <2>3. InOrder(q) => InOrder(q)'
    BY <2>1, InOrderStays
  <2> QED BY <1>1, <2>2, <2>3 DEF OneAtATime
<1>3. Shapes' /\ (Settled => Settled')
  BY <1>1 DEF Shapes, OneAtATime, Settled, WholeBut, Whole, Written, Docs, NoDocs, Says, Lists, Owned, Tagged, Existing
<1> QED BY <1>1, <1>2, <1>3 DEF OneAtATime

\* While nothing is disturbed a call that takes a step is the only active one.
LEMMA Turn ==
  ASSUME IInv, Orderly, ~past.disturbed, NEW p \in Proc, NEW label, Step(p, label), label # "lock"
  PROVE  /\ Active(p) /\ InOrder(p) /\ Shapes /\ RunKnown(p)
         /\ \A q \in Proc \ {p} : ~Active(q)
         /\ rows \in [Version -> Nat \cup {None}]
         /\ file \in [Version -> [tar : Nat \cup {None}, man : Metas \cup {None}, abb : Metas \cup {None}]]
         /\ tags \in [Tag -> Version \cup {None}] /\ people \in SUBSET User
         /\ DOMAIN at[p] = DOMAIN Nothing
<1>1. Active(p)
  BY DEF Active, Waiting, Step
<1>2. OneAtATime
  BY DEF Orderly
<1> QED BY <1>1, <1>2, Holds DEF OneAtATime, Shapes, IInv, Kinds, StoreKinds

LEMMA TurnEnds ==
  ASSUME IInv, Orderly, NEW p \in Proc, NEW label, Step(p, label), label # "lock", Frame(p),
         past'.disturbed = past.disturbed,
         ~past.disturbed => Shapes' /\ ((at'[p] = Nothing /\ Settled') \/ (Active(p)' /\ InOrder(p)'))
  PROVE  Orderly'
<1>1. at'[p] = Nothing => ~Active(p)' /\ ~Waiting(p)'
  BY NoCall DEF Active, Running, Waiting
<1>2. ~past.disturbed => \A q \in Proc \ {p} : ~Active(q)
  BY Turn
<1> QED BY <1>1, <1>2, OrderlyStep

\* Where a step leaves its call.
LEMMA TakesUp ==
  ASSUME IInv, NEW p \in Proc, NEW l, DOMAIN l = DOMAIN Nothing, NEW run, run # <<>>, Head(run) # "next",
         Then(p, l, run)
  PROVE  /\ Frame(p) /\ at'[p].run = run /\ Step(p, Head(run))' /\ Rest(p)' = Tail(run)
         /\ at'[p].v = l.v /\ at'[p].by = l.by /\ at'[p].todo = l.todo /\ at'[p].upd = l.upd /\ at'[p].rem = l.rem
         /\ at'[p].ent = l.ent /\ at'[p].f = l.f /\ at'[p].a = l.a /\ at'[p].flag = l.flag
         /\ at'[p].pub = l.pub
<1>1. Frame(p) /\ at'[p] = [l EXCEPT !.run = run]
  BY ThenIs, Holds
<1> QED BY <1>1, NoCall DEF Step, Running, Rest

LEMMA IsOver ==
  ASSUME IInv, NEW p \in Proc, NEW l, NEW run, run = <<>>, Then(p, l, run)
  PROVE  Frame(p) /\ at'[p] = Nothing
BY ThenIs, Holds

-----------------------------------------------------------------------------
(* Writing the documents *)

\* What is left to do after the documents is one of four endings.
LEMMA Ending ==
  ASSUME NEW end \in Ends
  PROVE  /\ end \in Seq(Plain) /\ end \in Seq({"tags", "unlock", "refresh"})
         /\ end # <<>> => Head(end) \in {"tags", "refresh"} /\ Tail(end) \in {<<>>, <<"unlock">>}
         /\ end \in {<<"tags">>, <<"tags", "unlock">>} => Head(end) = "tags"
<1>1. end \in Seq(Plain) /\ end \in Seq({"tags", "unlock", "refresh"})
  <2>1. <<>> \in Seq(Plain) /\ <<>> \in Seq({"tags", "unlock", "refresh"})
    OBVIOUS
  <2>2. CASE end = <<"tags">>
    BY <2>2 DEF Plain
  <2>3. CASE end = <<"refresh">>
    BY <2>3 DEF Plain
  <2>4. CASE end = <<"tags", "unlock">>
    BY <2>4 DEF Plain
  <2> QED BY <2>1, <2>2, <2>3, <2>4 DEF Ends
<1>2. end # <<>> => Head(end) \in {"tags", "refresh"} /\ Tail(end) \in {<<>>, <<"unlock">>}
  <2>1. CASE end = <<"tags">>
    BY <2>1
  <2>2. CASE end = <<"refresh">>
    BY <2>2
  <2>3. CASE end = <<"tags", "unlock">>
    BY <2>3
  <2> QED BY <2>1, <2>2, <2>3 DEF Ends
<1>3. end \in {<<"tags">>, <<"tags", "unlock">>} => Head(end) = "tags"
  OBVIOUS
<1> QED BY <1>1, <1>2, <1>3

\* That both documents are there is something a call may know.
LEMMA KnowsAll ==
  [full |-> TRUE, abbr |-> TRUE] \in Knowing
BY DEF Knowing

\* The rows and files being what they were, so is what a document may say.
LEMMA SaysStays ==
  ASSUME UNCHANGED <<rows, file>>, NEW doc, NEW which, NEW but, Says(doc, which, but)
  PROVE  Says(doc, which, but)'
BY DEF Says, Lists, Existing

\* A document with other tags, people or block lists what it did.
LEMMA SaysWithTags ==
  ASSUME NEW doc, NEW which, NEW but, Says(doc, which, but), NEW tagged \in [Tag -> Version \cup {None}]
  PROVE  LET new == [doc EXCEPT !.tags = tagged]
         IN Says(new, which, but) /\ new.tags = tagged /\ new.people = doc.people
<1>1. PICK d : d = doc
  OBVIOUS
<1>2. PICK x : x = [d EXCEPT !.tags = tagged]
  OBVIOUS
<1>3. x \in Documents /\ x.versions = d.versions /\ x.tags = tagged /\ x.people = d.people
  BY <1>1, <1>2 DEF Documents, Says
<1> QED BY <1>1, <1>2, <1>3 DEF Says

LEMMA SaysWithPeople ==
  ASSUME NEW doc, NEW which, NEW but, Says(doc, which, but), NEW of \in SUBSET User
  PROVE  LET new == [doc EXCEPT !.people = of]
         IN Says(new, which, but) /\ new.tags = doc.tags /\ new.people = of
<1>1. PICK d : d = doc
  OBVIOUS
<1>2. PICK x : x = [d EXCEPT !.people = of]
  OBVIOUS
<1>3. x \in Documents /\ x.versions = d.versions /\ x.tags = d.tags /\ x.people = of
  BY <1>1, <1>2 DEF Documents, Says
<1> QED BY <1>1, <1>2, <1>3 DEF Says

LEMMA SaysWithBlock ==
  ASSUME NEW doc, NEW which, NEW but, Says(doc, which, but), NEW block \in BOOLEAN
  PROVE  LET new == [doc EXCEPT !.block = block]
         IN Says(new, which, but) /\ new.tags = doc.tags /\ new.people = doc.people
<1>1. PICK d : d = doc
  OBVIOUS
<1>2. PICK x : x = [d EXCEPT !.block = block]
  OBVIOUS
<1>3. x \in Documents /\ x.versions = d.versions /\ x.tags = d.tags /\ x.people = d.people
  BY <1>1, <1>2 DEF Documents, Says
<1> QED BY <1>1, <1>2, <1>3 DEF Says

LEMMA SetDistTagsOrderly ==
  ASSUME IInv, Orderly, NEW p \in Proc, SetDistTags(p)
  PROVE  Orderly'
<1>1. PICK l : l = at[p]
  OBVIOUS
<1>3. PICK x : x = [l.f EXCEPT !.tags = tags]
  OBVIOUS
<1>4. PICK y : y = [l.a EXCEPT !.tags = tags]
  OBVIOUS
<1>5. PICK m : m = [l EXCEPT !.f = x, !.a = y]
  OBVIOUS
<1>6. /\ DOMAIN m = DOMAIN Nothing /\ m.v = l.v /\ m.todo = l.todo /\ m.upd = l.upd /\ m.rem = l.rem
      /\ m.ent = l.ent /\ m.f = x /\ m.a = y
  BY <1>1, <1>5, Holds, NoCall
<1>7. PICK run : run = Rest(p)
  OBVIOUS
<1>8. Then(p, m, run) /\ Step(p, "distTags")
  BY <1>1, <1>3, <1>4, <1>5, <1>7 DEF SetDistTags, Continue
<1>9. Retagging(p) /\ run \in Seq(Plain)
  BY <1>7, <1>8, AtOther, Holds DEF Retagging
<1>10. run # <<>> => Head(run) # "next"
  BY <1>9, PlainRun DEF Plain
<1>11. Frame(p)
  BY <1>6, <1>8, <1>10, ThenIs, Holds
<1>12. ASSUME ~past.disturbed
       PROVE  Shapes' /\ Active(p)' /\ InOrder(p)'
  <2>1. Shapes /\ AtDistTags(p) /\ tags \in [Tag -> Version \cup {None}]
    BY <1>8, <1>12, Turn DEF InOrder
  <2>2. PICK end \in Ends :
          /\ l.run = <<"distTags", "full", "abbr">> \o end /\ Follows(p, end)
          /\ Docs /\ Knows(p) /\ NextFull(p, end) /\ NextAbbr(p, end)
    BY <1>1, <2>1 DEF AtDistTags
  <2>3. run = <<"full", "abbr">> \o end /\ Head(run) = "full" /\ run # <<>>
    <3>1. end \in Seq(Plain) /\ {"distTags", "full", "abbr"} \subseteq Plain \cup {"distTags"}
      BY Ending DEF Plain
    <3>2. end \in Seq(Plain \cup {"distTags"})
      BY <3>1
    <3>3. run = <<"full", "abbr">> \o end
      BY <1>1, <1>7, <2>2, <3>1, <3>2, Front DEF Rest
    <3> QED BY <3>1, <3>3
  <2>4. /\ Step(p, "full")' /\ at'[p].run = run /\ at'[p].v = l.v /\ at'[p].todo = l.todo
        /\ at'[p].upd = l.upd /\ at'[p].rem = l.rem /\ at'[p].ent = l.ent /\ at'[p].f = x /\ at'[p].a = y
    BY <1>6, <1>8, <1>10, <2>3, TakesUp
  <2>5. UNCHANGED <<pkg, rows, tags, people, file, full, abbr>>
    BY DEF SetDistTags, store
  <2>6. Shapes'
    BY <2>1, <2>5 DEF Shapes
  <2>7. Follows(p, end)'
    BY <1>1, <2>2, <2>4, <2>5 DEF Follows, WholeBut, Whole, Existing, ToRefresh
  <2>8. NextFull(p, end)' /\ Tagged(at[p].f)'
    <3>1. Says(x, "man", Stale(p, end)) /\ x.tags = tags /\ x.people \subseteq people
      BY <1>1, <1>3, <2>1, <2>2, SaysWithTags DEF NextFull, Shapes
    <3>2. Stale(p, end)' = Stale(p, end)
      BY <1>1, <2>4 DEF Stale, Due
    <3> QED BY <2>4, <2>5, <3>1, <3>2, SaysStays DEF NextFull, Tagged
  <2>9. NextAbbr(p, end)' /\ Tagged(at[p].a)'
    <3>1. Says(y, "abb", Stale(p, end)) /\ y.tags = tags
      BY <1>1, <1>4, <2>1, <2>2, SaysWithTags DEF NextAbbr, Shapes
    <3>2. Stale(p, end)' = Stale(p, end)
      BY <1>1, <2>4 DEF Stale, Due
    <3> QED BY <2>4, <2>5, <3>1, <3>2, SaysStays DEF NextAbbr, Tagged
  <2>10. AtFull(p)'
    <3>1. at'[p].ent \in Knowing
      <4>1. l.ent = [full |-> TRUE, abbr |-> TRUE]
        BY <1>1, <2>2 DEF Knows
      <4> QED BY <2>4, <4>1, KnowsAll
    <3>2. at'[p].run = <<"full", "abbr">> \o end
      BY <2>3, <2>4
    <3> QED BY <2>7, <2>8, <2>9, <3>1, <3>2 DEF AtFull
  <2> QED BY <2>4, <2>6, <2>10, Placed
<1>13. past' = past
  BY DEF SetDistTags
<1> QED BY <1>8, <1>11, <1>12, <1>13, TurnEnds

\* The documents are written and say what they should: the call goes on.
LEMMA EndsWell ==
  ASSUME IInv, NEW p \in Proc, NEW l, DOMAIN l = DOMAIN Nothing, NEW end \in Ends, Then(p, l, end),
         l.ent = [full |-> TRUE, abbr |-> TRUE],
         NEW due, due = IF end = <<"refresh">> THEN l.upd \cup l.rem ELSE {},
         Written(due)', Owned', Tagged(full)', Tagged(abbr)', WholeBut({})',
         end = <<"refresh">> => (l.upd \subseteq Existing /\ l.rem \subseteq Version \ Existing)',
         end \in {<<"tags">>, <<"tags", "unlock">>} => l.v \in Version /\ l.todo \subseteq Tag
  PROVE  Frame(p) /\ ((at'[p] = Nothing /\ Settled') \/ (Active(p)' /\ InOrder(p)'))
<1>1. CASE end = <<>>
  <2>1. Frame(p) /\ at'[p] = Nothing
    BY <1>1, IsOver
  <2>2. due = {}
    BY <1>1
  <2>3. Settled'
    BY <2>2 DEF Settled, Written, Docs
  <2> QED BY <2>1, <2>3
<1>2. CASE end # <<>>
  <2>1. Head(end) # "next"
    BY <1>2, Ending
  <2>2. /\ Frame(p) /\ at'[p].run = end /\ Step(p, Head(end))' /\ Rest(p)' = Tail(end)
        /\ at'[p].v = l.v /\ at'[p].todo = l.todo /\ at'[p].upd = l.upd /\ at'[p].rem = l.rem
        /\ at'[p].ent = l.ent
    BY <1>2, <2>1, TakesUp
  <2>3. CASE end = <<"refresh">>
    <3>1. Step(p, "refresh")' /\ Rest(p)' = <<>> /\ due = l.upd \cup l.rem
      BY <2>2, <2>3
    <3>2. (pkg.exists /\ Entity = [full |-> TRUE, abbr |-> TRUE])'
      BY DEF Written, Docs, Entity
    <3>3. ToRefresh(p)' /\ Due(p)' = due
      BY <2>2, <2>3, <3>1 DEF ToRefresh, Due
    <3>4. AtRefresh(p)'
      <4>1. Follows(p, Rest(p))'
        <5>1. pkg'.exists /\ WholeBut({})'
          BY <3>2
        <5>2. <<>> \in Ends /\ <<>> # <<"refresh">> /\ <<>> \notin {<<"tags">>, <<"tags", "unlock">>}
          BY DEF Ends
        <5> QED BY <3>1, <5>1, <5>2 DEF Follows
      <4>2. (Rest(p) # <<"refresh">>)'
        BY <3>1
      <4>3. (Written(Due(p)) /\ Owned)'
        BY <3>3
      <4>4. (at[p].ent = Entity)'
        BY <2>2, <3>2
      <4> QED BY <3>3, <4>1, <4>2, <4>3, <4>4 DEF AtRefresh
    <3> QED BY <2>2, <3>1, <3>4, Placed
  <2>4. CASE end \in {<<"tags">>, <<"tags", "unlock">>}
    <3>1. Step(p, "tags")' /\ Rest(p)' \in {<<>>, <<"unlock">>}
      <4>1. Head(end) = "tags" /\ Tail(end) \in {<<>>, <<"unlock">>}
        BY <2>4, Ending
      <4> QED BY <2>2, <4>1
    <3>2. due = {}
      BY <2>4
    <3>3. Settled' /\ pkg'.exists
      BY <3>2 DEF Settled, Written, Docs
    <3>4. AtTags(p)'
      <4>1. Knows(p)'
        BY <2>2 DEF Knows
      <4>2. (at[p].v \in Version /\ at[p].todo \subseteq Tag)'
        BY <2>2, <2>4
      <4> QED BY <3>1, <3>3, <4>1, <4>2 DEF AtTags, Ready
    <3> QED BY <2>2, <3>1, <3>4, Placed
  <2> QED BY <1>2, <2>3, <2>4 DEF Ends
<1> QED BY <1>1, <1>2

\* The call goes on with the versions, tags and updates that it had.
LEMMA FollowsStays ==
  ASSUME NEW p, NEW end, Follows(p, end), UNCHANGED <<rows, file>>, pkg'.exists = pkg.exists,
         at'[p].v = at[p].v, at'[p].todo = at[p].todo, at'[p].upd = at[p].upd, at'[p].rem = at[p].rem
  PROVE  Follows(p, end)' /\ Stale(p, end)' = Stale(p, end)
BY DEF Follows, WholeBut, Whole, Existing, ToRefresh, Stale, Due

LEMMA JoinedEnd ==
  ASSUME NEW a \in Plain, NEW b \in Plain, NEW end \in Seq(Plain)
  PROVE  /\ <<a, b>> \o end \in Seq(Plain) /\ <<a, b>> \o end # <<>>
         /\ Head(<<a, b>> \o end) = a /\ Tail(<<a, b>> \o end) = <<b>> \o end
         /\ <<b>> \o end \in Seq(Plain) /\ <<b>> \o end # <<>>
         /\ Head(<<b>> \o end) = b /\ Tail(<<b>> \o end) = end
OBVIOUS

LEMMA WriteFullOrderly ==
  ASSUME IInv, Orderly, NEW p \in Proc, WriteFull(p)
  PROVE  Orderly'
<1>1. PICK l : l = at[p]
  OBVIOUS
<1>2. PICK m : m = [l EXCEPT !.f = None, !.ent.full = TRUE]
  OBVIOUS
<1>3. /\ DOMAIN m = DOMAIN Nothing /\ m.v = l.v /\ m.todo = l.todo /\ m.upd = l.upd /\ m.rem = l.rem
      /\ m.ent = [l.ent EXCEPT !.full = TRUE] /\ m.a = l.a
  BY <1>1, <1>2, Holds, NoCall
<1>4. PICK run : run = Rest(p)
  OBVIOUS
<1>5. Then(p, m, run) /\ Step(p, "full") /\ full' = l.f /\ pkg' = [pkg EXCEPT !.full = TRUE, !.abbr = l.ent.abbr]
      /\ UNCHANGED <<rows, tags, people, file, abbr, past>>
  BY <1>1, <1>2, <1>4 DEF WriteFull, Continue
<1>6. run \in Seq(Plain) /\ (run # <<>> => Head(run) # "next")
  <2>1. run \in Seq(Plain)
    BY <1>4, <1>5, AtPlain, Holds DEF Plain
  <2> QED BY <2>1, PlainRun DEF Plain
<1>7. Frame(p)
  BY <1>3, <1>5, <1>6, ThenIs, Holds
<1>8. ASSUME ~past.disturbed
      PROVE  Shapes' /\ ((at'[p] = Nothing /\ Settled') \/ (Active(p)' /\ InOrder(p)'))
  <2>1. Shapes /\ AtFull(p)
    BY <1>5, <1>8, Turn DEF InOrder
  <2>0. l.ent.abbr \in BOOLEAN
    <3>1. CASE \E end \in Ends : at[p].ent \in Knowing /\ Follows(p, end)
      <4>1. l.ent \in Knowing
        BY <1>1, <3>1
      <4> QED BY <4>1 DEF Knowing
    <3>2. CASE Knows(p)
      <4>1. l.ent = [full |-> TRUE, abbr |-> TRUE]
        BY <1>1, <3>2 DEF Knows
      <4> QED BY <4>1
    <3> QED BY <2>1, <3>1, <3>2 DEF AtFull
  <2>2. /\ pkg'.exists = pkg.exists /\ pkg'.full /\ pkg'.abbr = l.ent.abbr
        /\ Shapes'
    BY <1>5, <2>0, <2>1 DEF Shapes
  <2>3. CASE \E end \in Ends :
               /\ at[p].run = <<"full", "abbr">> \o end /\ Follows(p, end) /\ at[p].ent \in Knowing
               /\ NextFull(p, end) /\ NextAbbr(p, end) /\ Tagged(at[p].f) /\ Tagged(at[p].a)
    <3>1. PICK end \in Ends :
               /\ at[p].run = <<"full", "abbr">> \o end /\ Follows(p, end) /\ at[p].ent \in Knowing
               /\ NextFull(p, end) /\ NextAbbr(p, end) /\ Tagged(at[p].f) /\ Tagged(at[p].a)
      BY <2>3
    <3>2. run # <<>> /\ Head(run) = "abbr" /\ Tail(run) = end
      <4>1. end \in Seq(Plain) /\ "full" \in Plain /\ "abbr" \in Plain
        BY Ending DEF Plain
      <4>2. run = <<"abbr">> \o end
        BY <1>4, <3>1, <4>1, JoinedEnd DEF Rest
      <4> QED BY <4>1, <4>2, JoinedEnd
    <3>3. /\ Step(p, "abbr")' /\ Rest(p)' = end /\ at'[p].v = l.v /\ at'[p].todo = l.todo
          /\ at'[p].upd = l.upd /\ at'[p].rem = l.rem /\ at'[p].ent = m.ent /\ at'[p].a = l.a
      <4>1. DOMAIN m = DOMAIN Nothing /\ run # <<>> /\ Head(run) # "next" /\ Then(p, m, run)
        BY <1>3, <1>5, <1>6, <3>2
      <4>2. /\ Step(p, Head(run))' /\ Rest(p)' = Tail(run) /\ at'[p].v = m.v /\ at'[p].todo = m.todo
            /\ at'[p].upd = m.upd /\ at'[p].rem = m.rem /\ at'[p].ent = m.ent /\ at'[p].a = m.a
        BY <4>1, TakesUp
      <4> QED BY <1>3, <3>2, <4>2
    <3>4. Follows(p, end)' /\ Stale(p, end)' = Stale(p, end)
      BY <1>1, <1>5, <2>2, <3>1, <3>3, FollowsStays
    <3>5. at'[p].ent \in Knowing /\ at'[p].ent.full
      <4>1. l.ent \in Knowing
        BY <1>1, <3>1
      <4> QED BY <1>3, <3>3, <4>1 DEF Knowing
    <3>6. Says(full, "man", Stale(p, end))' /\ Owned' /\ Tagged(full)'
      <4>1. Says(l.f, "man", Stale(p, end)) /\ l.f.people \subseteq people /\ Tagged(l.f)
        BY <1>1, <3>1 DEF NextFull
      <4>2. Says(l.f, "man", Stale(p, end))'
        BY <1>5, <3>4, <4>1, SaysStays
      <4>3. Tagged(l.f)'
        BY <1>5, <4>1 DEF Tagged, Existing
      <4> QED BY <1>5, <4>1, <4>2, <4>3 DEF Owned, Says, Tagged
    <3>7. NextAbbr(p, end)' /\ Tagged(at[p].a)'
      <4>1. Says(l.a, "abb", Stale(p, end)) /\ Tagged(l.a)
        BY <1>1, <3>1 DEF NextAbbr
      <4>2. Says(l.a, "abb", Stale(p, end))'
        BY <1>5, <3>4, <4>1, SaysStays
      <4>3. Tagged(l.a)'
        BY <1>5, <4>1 DEF Tagged, Existing
      <4> QED BY <3>3, <3>4, <4>2, <4>3 DEF NextAbbr, Says, Tagged
    <3>8. AtAbbr(p)'
      BY <2>2, <3>3, <3>4, <3>5, <3>6, <3>7 DEF AtAbbr
    <3> QED BY <2>2, <3>3, <3>8, Placed
  <2>4. CASE /\ Rest(p) = <<>> /\ Docs /\ WholeBut({}) /\ Knows(p)
             /\ NextFull(p, <<>>) /\ Tagged(at[p].f)
             /\ Says(abbr, "abb", {}) /\ Tagged(abbr)
    <3>1. at'[p] = Nothing
      BY <1>4, <1>5, <2>4, IsOver
    <3>2. Says(l.f, "man", {}) /\ l.f.people \subseteq people /\ Tagged(l.f)
      BY <1>1, <2>4 DEF NextFull, Stale
    <3>3. Says(l.f, "man", {})' /\ Says(abbr, "abb", {})' /\ Tagged(l.f)' /\ Tagged(abbr)' /\ WholeBut({})'
      <4>1. Says(l.f, "man", {})'
        BY <1>5, <3>2, SaysStays
      <4>2. Says(abbr, "abb", {})'
        BY <1>5, <2>4 DEF Says, Lists, Existing
      <4>3. Tagged(l.f)' /\ Tagged(abbr)' /\ WholeBut({})'
        BY <1>5, <2>4, <3>2 DEF Tagged, Existing, WholeBut, Whole
      <4> QED BY <4>1, <4>2, <4>3
    <3>4. Docs'
      BY <1>1, <1>5, <2>2, <2>4, <3>2 DEF Docs, Says, Knows
    <3>5. Settled'
      BY <1>5, <2>2, <2>4, <3>2, <3>3, <3>4 DEF Settled, Written, Docs, Owned, Says, Tagged
    <3> QED BY <2>2, <3>1, <3>5
  <2> QED BY <2>1, <2>3, <2>4 DEF AtFull
<1> QED BY <1>5, <1>7, <1>8, TurnEnds

LEMMA WriteAbbrOrderly ==
  ASSUME IInv, Orderly, NEW p \in Proc, WriteAbbr(p)
  PROVE  Orderly'
<1>1. PICK l : l = at[p]
  OBVIOUS
<1>2. PICK m : m = [l EXCEPT !.a = None, !.ent.abbr = TRUE]
  OBVIOUS
<1>3. /\ DOMAIN m = DOMAIN Nothing /\ m.v = l.v /\ m.todo = l.todo /\ m.upd = l.upd /\ m.rem = l.rem
      /\ m.ent = [l.ent EXCEPT !.abbr = TRUE]
  BY <1>1, <1>2, Holds, NoCall
<1>4. PICK end : end = Rest(p)
  OBVIOUS
<1>5. Then(p, m, end) /\ Step(p, "abbr") /\ abbr' = l.a /\ pkg' = [pkg EXCEPT !.abbr = TRUE, !.full = l.ent.full]
      /\ UNCHANGED <<rows, tags, people, file, full, past>>
  BY <1>1, <1>2, <1>4 DEF WriteAbbr, Continue
<1>6. end \in Seq(Plain) /\ (end # <<>> => Head(end) # "next")
  <2>1. end \in Seq(Plain)
    BY <1>4, <1>5, AtPlain, Holds DEF Plain
  <2> QED BY <2>1, PlainRun DEF Plain
<1>7. Frame(p)
  BY <1>3, <1>5, <1>6, ThenIs, Holds
<1>8. ASSUME ~past.disturbed
      PROVE  Shapes' /\ ((at'[p] = Nothing /\ Settled') \/ (Active(p)' /\ InOrder(p)'))
  <2>1. Shapes /\ AtAbbr(p)
    BY <1>5, <1>8, Turn DEF InOrder
  <2>0. l.ent.full
    BY <1>1, <2>1 DEF AtAbbr
  <2>2. /\ pkg'.exists = pkg.exists /\ pkg'.full /\ pkg'.abbr
        /\ Shapes'
    BY <1>5, <2>0, <2>1 DEF Shapes, AtAbbr, Knowing
  <2>3. /\ Follows(p, end) /\ l.ent \in Knowing /\ l.ent.full
        /\ pkg.full /\ Says(full, "man", Stale(p, end)) /\ Owned /\ Tagged(full)
        /\ Says(l.a, "abb", Stale(p, end)) /\ Tagged(l.a)
    BY <1>1, <1>4, <2>1 DEF AtAbbr, NextAbbr
  <2>4. PICK due : due = Stale(p, end)
    OBVIOUS
  <2>5. due = IF end = <<"refresh">> THEN m.upd \cup m.rem ELSE {}
    BY <1>1, <1>3, <2>4 DEF Stale, Due
  <2>6. m.ent = [full |-> TRUE, abbr |-> TRUE]
    BY <1>3, <2>3 DEF Knowing
  <2>7. Says(full, "man", due)' /\ Says(abbr, "abb", due)'
    <3>1. Says(l.a, "abb", due)'
      BY <1>5, <2>3, <2>4, SaysStays
    <3> QED BY <1>5, <2>3, <2>4, <3>1 DEF Says, Lists, Existing
  <2>8. Docs'
    BY <1>5, <2>2, <2>3 DEF Docs, Says, Follows
  <2>9. Written(due)' /\ Owned' /\ Tagged(full)' /\ Tagged(abbr)' /\ WholeBut({})'
    BY <1>5, <2>3, <2>7, <2>8 DEF Written, Owned, Tagged, Existing, WholeBut, Whole, Follows
  <2>10. end \in Ends /\ (end = <<"refresh">> => (m.upd \subseteq Existing /\ m.rem \subseteq Version \ Existing)')
         /\ (end \in {<<"tags">>, <<"tags", "unlock">>} => m.v \in Version /\ m.todo \subseteq Tag)
    BY <1>1, <1>3, <1>5, <2>3 DEF Follows, ToRefresh, Existing
  <2>11. Then(p, m, end) /\ DOMAIN m = DOMAIN Nothing
    BY <1>3, <1>5
  <2> QED BY <2>2, <2>5, <2>6, <2>9, <2>10, <2>11, EndsWell
<1> QED BY <1>5, <1>7, <1>8, TurnEnds

\* Both documents are in hand, and the tags follow.
LEMMA TakesDocs ==
  ASSUME IInv, NEW p \in Proc, NEW end \in Ends, NEW x, NEW y, UNCHANGED store,
         Then(p, [at[p] EXCEPT !.f = x, !.a = y], <<"distTags", "full", "abbr">> \o end),
         Follows(p, end), Docs, Knows(p),
         Says(x, "man", Stale(p, end)), x.people \subseteq people, Says(y, "abb", Stale(p, end))
  PROVE  Frame(p) /\ Active(p)' /\ InOrder(p)'
<1>1. PICK l : l = at[p]
  OBVIOUS
<1>2. PICK m : m = [l EXCEPT !.f = x, !.a = y]
  OBVIOUS
<1>3. /\ DOMAIN m = DOMAIN Nothing /\ m.v = l.v /\ m.todo = l.todo /\ m.upd = l.upd /\ m.rem = l.rem
      /\ m.ent = l.ent /\ m.f = x /\ m.a = y
  BY <1>1, <1>2, Holds, NoCall
<1>4. PICK run : run = <<"distTags", "full", "abbr">> \o end
  OBVIOUS
<1>5. run # <<>> /\ Head(run) = "distTags"
  <2>1. end \in Seq(Plain)
    BY Ending
  <2>2. end \in Seq(Plain \cup {"distTags"}) /\ {"distTags", "full", "abbr"} \subseteq Plain \cup {"distTags"}
    BY <2>1 DEF Plain
  <2> QED BY <1>4, <2>2, Front
<1>6. Then(p, m, run)
  BY <1>1, <1>2, <1>4
<1>7. /\ Frame(p) /\ Step(p, Head(run))' /\ at'[p].run = run /\ at'[p].v = m.v /\ at'[p].todo = m.todo
      /\ at'[p].upd = m.upd /\ at'[p].rem = m.rem /\ at'[p].ent = m.ent /\ at'[p].f = m.f /\ at'[p].a = m.a
  BY <1>3, <1>5, <1>6, TakesUp
<1>8. UNCHANGED <<pkg, rows, tags, people, file, full, abbr>>
  BY DEF store
<1>9. Follows(p, end)' /\ Stale(p, end)' = Stale(p, end)
  BY <1>1, <1>3, <1>7, <1>8, FollowsStays
<1>10. Docs' /\ Knows(p)'
  BY <1>1, <1>3, <1>7, <1>8 DEF Docs, Knows
<1>11. NextFull(p, end)' /\ NextAbbr(p, end)'
  <2>1. Says(x, "man", Stale(p, end))' /\ Says(y, "abb", Stale(p, end))'
    BY <1>8, <1>9, SaysStays
  <2> QED BY <1>3, <1>7, <1>8, <1>9, <2>1 DEF NextFull, NextAbbr
<1>12. AtDistTags(p)'
  <2>1. at'[p].run = <<"distTags", "full", "abbr">> \o end
    BY <1>4, <1>7
  <2> QED BY <1>9, <1>10, <1>11, <2>1 DEF AtDistTags
<1> QED BY <1>5, <1>7, <1>12, Placed

LEMMA RefreshTagsOrderly ==
  ASSUME IInv, Orderly, NEW p \in Proc, RefreshTags(p)
  PROVE  Orderly'
<1>1. PICK end : end = Rest(p)
  OBVIOUS
<1>2. Step(p, "root") /\ UNCHANGED store /\ past' = past
  BY DEF RefreshTags
<1>3. Frame(p)
  BY Holds DEF RefreshTags, Throw, Continue, Then, Frame
<1>4. ASSUME ~past.disturbed
      PROVE  Shapes' /\ Active(p)' /\ InOrder(p)'
  <2>1. Shapes /\ AtRoot(p)
    BY <1>2, <1>4, Turn DEF InOrder
  <2>2. /\ Follows(p, end) /\ end \in Ends /\ Knows(p) /\ Docs /\ Owned
        /\ Says(full, "man", Stale(p, end)) /\ Says(abbr, "abb", Stale(p, end))
    BY <1>1, <2>1 DEF AtRoot, Written, Follows
  <2>3. at[p].ent.full /\ at[p].ent.abbr /\ full # None /\ abbr # None
    BY <2>2, ObjectAssumption DEF Knows, Docs
  <2>4. Then(p, [at[p] EXCEPT !.f = full, !.a = abbr], <<"distTags", "full", "abbr">> \o end)
    BY <1>1, <2>3 DEF RefreshTags
  <2>5. Active(p)' /\ InOrder(p)'
    BY <1>2, <2>2, <2>4, TakesDocs DEF Owned
  <2>6. Shapes'
    BY <1>2, <2>1 DEF Shapes, store
  <2> QED BY <2>5, <2>6
<1> QED BY <1>2, <1>3, <1>4, TurnEnds

\* A document of the rows and files says what they say.
LEMMA DocOfSays ==
  ASSUME IInv, Shapes, Existing # {}, NEW which \in {"man", "abb"}
  PROVE  /\ Says(DocOf(which), which, {}) /\ Tagged(DocOf(which))
         /\ DocOf(which).people \subseteq people
<1>1. PICK listed : listed = [v \in Version |-> IF rows[v] # None THEN file[v][which] ELSE None]
  OBVIOUS
<1>2. PICK of : of = IF which = "man" THEN people ELSE {}
  OBVIOUS
<1>3. PICK doc : doc = [versions |-> listed, tags |-> tags, block |-> FALSE, people |-> of]
  OBVIOUS
<1>4. DocOf(which) = doc
  BY <1>1, <1>2, <1>3 DEF DocOf, Document
<1>5. listed \in Listings
  <2>1. file \in [Version -> [tar : Nat \cup {None}, man : Metas \cup {None}, abb : Metas \cup {None}]]
    BY DEF IInv, Kinds, StoreKinds
  <2>2. \A v \in Version : file[v][which] \in Metas \cup {None}
    BY <2>1
  <2> QED BY <1>1, <2>2 DEF Listings
<1>6. listed # None
  BY <1>5, ObjectAssumption
<1>7. doc \in Documents /\ doc.versions = listed /\ doc.tags = tags /\ doc.people = of
  BY <1>2, <1>3, <1>5 DEF Documents, Shapes
<1>8. Lists(listed, which, {})
  BY <1>1, <1>5, <1>6 DEF Lists
<1> QED BY <1>2, <1>4, <1>7, <1>8 DEF Says, Tagged

\* ... and one patched where it was stale says what they say as well.
LEMMA PatchedSays ==
  ASSUME IInv, NEW which \in {"man", "abb"}, NEW upd, upd \subseteq Existing,
         NEW rem, rem \subseteq Version \ Existing, WholeBut({}),
         NEW doc, Says(doc, which, upd \cup rem), doc.versions # None
  PROVE  /\ Says(Patched(doc, which, upd, rem), which, {})
         /\ Patched(doc, which, upd, rem).people = doc.people
<1>1. PICK old : old = doc.versions
  OBVIOUS
<1>2. PICK listed : listed = [v \in Version |->
         IF v \in rem THEN None
         ELSE IF v \in upd /\ rows[v] # None /\ file[v].man # None /\ file[v][which] # None
              THEN file[v][which] ELSE old[v]]
  OBVIOUS
<1>3. PICK new : new = [doc EXCEPT !.versions = listed]
  OBVIOUS
<1>4. Patched(doc, which, upd, rem) = new
  BY <1>1, <1>2, <1>3 DEF Patched
<1>5. doc \in Documents /\ Lists(old, which, upd \cup rem) /\ old # None
  BY <1>1 DEF Says
<1>6. /\ old \in Listings /\ Existing # {}
      /\ \A v \in Version \ (upd \cup rem) : old[v] = IF rows[v] # None THEN file[v][which] ELSE None
  BY <1>5 DEF Lists
<1>7. \A v \in Version : listed[v] = IF rows[v] # None THEN file[v][which] ELSE None
  <2> SUFFICES ASSUME NEW v \in Version PROVE listed[v] = IF rows[v] # None THEN file[v][which] ELSE None
    OBVIOUS
  <2>1. CASE v \in rem
    BY <1>2, <2>1 DEF Existing
  <2>2. CASE v \in upd /\ v \notin rem
    <3>1. rows[v] # None /\ file[v].man # None /\ file[v].abb # None
      BY <2>2 DEF Existing, WholeBut, Whole
    <3>2. file[v][which] # None
      BY <3>1
    <3> QED BY <1>2, <2>2, <3>1, <3>2
  <2>3. CASE v \notin upd \cup rem
    BY <1>2, <1>6, <2>3
  <2> QED BY <2>1, <2>2, <2>3
<1>8. listed \in Listings
  <2>1. file \in [Version -> [tar : Nat \cup {None}, man : Metas \cup {None}, abb : Metas \cup {None}]]
    BY DEF IInv, Kinds, StoreKinds
  <2>2. \A v \in Version : file[v][which] \in Metas \cup {None}
    BY <2>1
  <2>3. \A v \in Version : listed[v] \in Metas \cup {None}
    BY <1>7, <2>2
  <2>4. listed = [v \in Version |-> listed[v]]
    BY <1>2
  <2> QED BY <2>3, <2>4 DEF Listings
<1>9. new \in Documents /\ new.versions = listed /\ new.people = doc.people
  BY <1>3, <1>5, <1>8 DEF Documents
<1>10. Lists(listed, which, {})
  <2>1. listed # None
    BY <1>8, ObjectAssumption
  <2> QED BY <1>6, <1>7, <1>8, <2>1 DEF Lists
<1> QED BY <1>4, <1>9, <1>10 DEF Says

\* Both documents are in hand with the tags that they are for.
LEMMA TakesNew ==
  ASSUME IInv, NEW p \in Proc, NEW end \in Ends, NEW x, NEW y, UNCHANGED store,
         Then(p, [at[p] EXCEPT !.f = x, !.a = y], <<"full", "abbr">> \o end),
         Follows(p, end), at[p].ent \in Knowing,
         Says(x, "man", Stale(p, end)), x.people \subseteq people, Says(y, "abb", Stale(p, end)),
         Tagged(x), Tagged(y)
  PROVE  Frame(p) /\ Active(p)' /\ InOrder(p)'
<1>1. PICK l : l = at[p]
  OBVIOUS
<1>2. PICK m : m = [l EXCEPT !.f = x, !.a = y]
  OBVIOUS
<1>3. /\ DOMAIN m = DOMAIN Nothing /\ m.v = l.v /\ m.todo = l.todo /\ m.upd = l.upd /\ m.rem = l.rem
      /\ m.ent = l.ent /\ m.f = x /\ m.a = y
  BY <1>1, <1>2, Holds, NoCall
<1>4. PICK run : run = <<"full", "abbr">> \o end
  OBVIOUS
<1>5. run # <<>> /\ Head(run) = "full"
  <2>1. end \in Seq(Plain) /\ "full" \in Plain /\ "abbr" \in Plain
    BY Ending DEF Plain
  <2> QED BY <1>4, <2>1, JoinedEnd
<1>6. Then(p, m, run)
  BY <1>1, <1>2, <1>4
<1>7. /\ Frame(p) /\ Step(p, Head(run))' /\ at'[p].run = run /\ at'[p].v = m.v /\ at'[p].todo = m.todo
      /\ at'[p].upd = m.upd /\ at'[p].rem = m.rem /\ at'[p].ent = m.ent /\ at'[p].f = m.f /\ at'[p].a = m.a
  BY <1>3, <1>5, <1>6, TakesUp
<1>8. UNCHANGED <<pkg, rows, tags, people, file, full, abbr>>
  BY DEF store
<1>9. Follows(p, end)' /\ Stale(p, end)' = Stale(p, end)
  BY <1>1, <1>3, <1>7, <1>8, FollowsStays
<1>10. NextFull(p, end)' /\ NextAbbr(p, end)'
  <2>1. Says(x, "man", Stale(p, end))' /\ Says(y, "abb", Stale(p, end))'
    BY <1>8, <1>9, SaysStays
  <2> QED BY <1>3, <1>7, <1>8, <1>9, <2>1 DEF NextFull, NextAbbr
<1>11. Tagged(at[p].f)' /\ Tagged(at[p].a)'
  BY <1>3, <1>7, <1>8 DEF Tagged, Existing
<1>12. AtFull(p)'
  <2>1. at'[p].run = <<"full", "abbr">> \o end /\ at'[p].ent \in Knowing
    BY <1>1, <1>3, <1>4, <1>7
  <2> QED BY <1>9, <1>10, <1>11, <2>1 DEF AtFull
<1> QED BY <1>5, <1>7, <1>12, Placed

LEMMA RefreshOrderly ==
  ASSUME IInv, Orderly, NEW p \in Proc, Refresh(p)
  PROVE  Orderly'
<1>1. PICK end : end = Rest(p)
  OBVIOUS
<1>2. Step(p, "refresh") /\ UNCHANGED store /\ past' = past
  BY DEF Refresh
<1>3. Frame(p)
  BY Holds DEF Refresh, Continue, Then, Frame
<1>4. UNCHANGED <<pkg, rows, tags, people, file, full, abbr>>
  BY <1>2 DEF store
<1>5. ASSUME ~past.disturbed
      PROVE  Shapes' /\ ((at'[p] = Nothing /\ Settled') \/ (Active(p)' /\ InOrder(p)'))
  <2>1. Shapes /\ AtRefresh(p)
    BY <1>2, <1>5, Turn DEF InOrder
  <2>2. Shapes'
    BY <1>4, <2>1 DEF Shapes
  <2>3. /\ Follows(p, end) /\ end \in Ends /\ end # <<"refresh">> /\ ToRefresh(p) /\ Stale(p, end) = {}
        /\ at[p].ent = [full |-> pkg.full, abbr |-> pkg.abbr] /\ at[p].ent \in Knowing /\ WholeBut({})
    BY <1>1, <2>1 DEF AtRefresh, Follows, Stale, Entity, Shapes, Knowing
  <2> DEFINE anew == ~at[p].ent.full \/ ~at[p].ent.abbr \/ ~HasVersions(full) \/ ~HasVersions(abbr)
  <2>4. \/ NoDocs /\ Existing # {} /\ Existing \subseteq Due(p)
        \/ Written(Due(p)) /\ Owned
    BY <2>1 DEF AtRefresh
  <2>5. CASE anew /\ Existing # {}
    <3>1. Then(p, [at[p] EXCEPT !.f = DocOf("man"), !.a = DocOf("abb")], <<"full", "abbr">> \o end)
      BY <1>1, <2>5 DEF Refresh
    <3>2. /\ Says(DocOf("man"), "man", {}) /\ Says(DocOf("abb"), "abb", {})
          /\ DocOf("man").people \subseteq people /\ Tagged(DocOf("man")) /\ Tagged(DocOf("abb"))
      BY <2>1, <2>5, DocOfSays
    <3> QED BY <1>2, <2>2, <2>3, <3>1, <3>2, TakesNew
  <2>6. CASE anew /\ Existing = {}
    <3>1. Written(Due(p)) /\ Owned
      BY <2>4, <2>6
    <3>2. Then(p, at[p], end)
      BY <1>1, <2>6 DEF Refresh, Continue
    <3>3. Written({}) /\ Owned /\ Tagged(full) /\ Tagged(abbr) /\ Docs
      BY <2>6, <3>1 DEF Written, Says, Lists, Tagged
    <3>4. PICK due : due = {}
      OBVIOUS
    <3>5. (Written(due) /\ Owned /\ Tagged(full) /\ Tagged(abbr) /\ WholeBut({}))'
      BY <1>4, <2>3, <3>3, <3>4 DEF Written, Says, Lists, Existing, Tagged, Owned, Docs, WholeBut, Whole
    <3>6. at[p].ent = [full |-> TRUE, abbr |-> TRUE]
      <4>1. pkg.full = TRUE /\ pkg.abbr = TRUE
        BY <2>1, <3>3 DEF Docs, Shapes
      <4> QED BY <2>3, <4>1
    <3>7. /\ end \in {<<"tags">>, <<"tags", "unlock">>} => at[p].v \in Version /\ at[p].todo \subseteq Tag
          /\ due = IF end = <<"refresh">> THEN at[p].upd \cup at[p].rem ELSE {}
      BY <2>3, <3>4 DEF Follows
    <3> QED BY <2>2, <2>3, <3>2, <3>5, <3>6, <3>7, Holds, EndsWell
  <2>7. CASE ~anew
    <3>1. Then(p, [at[p] EXCEPT !.f = Patched(full, "man", at[p].upd, at[p].rem),
                               !.a = Patched(abbr, "abb", at[p].upd, at[p].rem)],
               <<"distTags", "full", "abbr">> \o end)
      BY <1>1, <2>7 DEF Refresh
    <3>2. Written(Due(p)) /\ Owned /\ full.versions # None /\ abbr.versions # None
      BY <2>3, <2>4, <2>7 DEF NoDocs, HasVersions
    <3>3. /\ at[p].upd \subseteq Existing /\ at[p].rem \subseteq Version \ Existing
          /\ Says(full, "man", at[p].upd \cup at[p].rem) /\ Says(abbr, "abb", at[p].upd \cup at[p].rem)
      BY <2>3, <3>2 DEF ToRefresh, Written, Due
    <3>4. /\ Says(Patched(full, "man", at[p].upd, at[p].rem), "man", {})
          /\ Patched(full, "man", at[p].upd, at[p].rem).people = full.people
          /\ Says(Patched(abbr, "abb", at[p].upd, at[p].rem), "abb", {})
      BY <2>3, <3>2, <3>3, PatchedSays
    <3>5. Knows(p) /\ Docs /\ full.people \subseteq people
      <4>1. Docs
        BY <3>2 DEF Written
      <4>2. pkg.full = TRUE /\ pkg.abbr = TRUE
        BY <2>1, <4>1 DEF Docs, Shapes
      <4> QED BY <2>3, <3>2, <4>1, <4>2 DEF Owned, Knows
    <3> QED BY <1>2, <2>2, <2>3, <3>1, <3>4, <3>5, TakesDocs
  <2> QED BY <2>5, <2>6, <2>7
<1> QED BY <1>2, <1>3, <1>5, TurnEnds

LEMMA RefreshPeopleOrderly ==
  ASSUME IInv, Orderly, NEW p \in Proc, RefreshPeople(p)
  PROVE  Orderly'
<1>1. Step(p, "docPeople") /\ UNCHANGED store /\ past' = past
  BY DEF RefreshPeople
<1>2. Frame(p)
  BY Holds DEF RefreshPeople, Throw, Continue, Then, Frame
<1>3. UNCHANGED <<pkg, rows, tags, people, file, full, abbr>>
  BY <1>1 DEF store
<1>4. ASSUME ~past.disturbed
      PROVE  Shapes' /\ Active(p)' /\ InOrder(p)'
  <2>1. Shapes /\ AtDocPeople(p)
    BY <1>1, <1>4, Turn DEF InOrder
  <2>2. /\ Rest(p) = <<>> /\ Knows(p) /\ Docs /\ Says(full, "man", {}) /\ Says(abbr, "abb", {})
        /\ WholeBut({}) /\ Tagged(full) /\ Tagged(abbr)
    BY <2>1 DEF AtDocPeople, Written
  <2>3. at[p].ent.full /\ full # None
    BY <2>2, ObjectAssumption DEF Knows, Docs
  <2>4. PICK x : x = [full EXCEPT !.people = people]
    OBVIOUS
  <2>5. Says(x, "man", {}) /\ x.tags = full.tags /\ x.people = people
    BY <2>1, <2>2, <2>4, SaysWithPeople DEF Shapes
  <2>6. PICK l : l = at[p]
    OBVIOUS
  <2>7. PICK m : m = [l EXCEPT !.f = x]
    OBVIOUS
  <2>8. DOMAIN m = DOMAIN Nothing /\ m.ent = l.ent /\ m.f = x
    BY <2>6, <2>7, Holds, NoCall
  <2>9. PICK run : run = <<"full">>
    OBVIOUS
  <2>10. Then(p, m, run)
    <3>1. <<"full">> \o <<>> = <<"full">>
      OBVIOUS
    <3> QED BY <2>2, <2>3, <2>4, <2>6, <2>7, <2>9, <3>1 DEF RefreshPeople
  <2>11. run # <<>> /\ Head(run) = "full" /\ Tail(run) = <<>>
    BY <2>9
  <2>12. Step(p, Head(run))' /\ Rest(p)' = Tail(run) /\ at'[p].ent = m.ent /\ at'[p].f = m.f
    BY <2>8, <2>10, <2>11, TakesUp
  <2>13. Knows(p)'
    BY <2>2, <2>6, <2>8, <2>12 DEF Knows
  <2>14. NextFull(p, <<>>)' /\ Tagged(at[p].f)'
    <3>1. Says(x, "man", {})'
      BY <1>3, <2>5, SaysStays
    <3>2. Stale(p, <<>>)' = {}
      BY DEF Stale
    <3> QED BY <1>3, <2>2, <2>5, <2>8, <2>12, <3>1, <3>2 DEF NextFull, Tagged, Existing
  <2>15. (Docs /\ WholeBut({}) /\ Says(abbr, "abb", {}) /\ Tagged(abbr))'
    BY <1>3, <2>2 DEF Docs, WholeBut, Whole, Existing, Says, Lists, Tagged
  <2>16. AtFull(p)'
    BY <2>11, <2>12, <2>13, <2>14, <2>15 DEF AtFull
  <2>17. Shapes'
    BY <1>3, <2>1 DEF Shapes
  <2> QED BY <2>11, <2>12, <2>16, <2>17, Placed
<1> QED BY <1>1, <1>2, <1>4, TurnEnds

\* Lists of steps put together.
LEMMA JoinedTwo ==
  ASSUME NEW a, NEW b
  PROVE  <<a>> \o <<b>> = <<a, b>>
<1> DEFINE s == <<a>> \o <<b>>
           t == <<a, b>>
<1>1. s \in Seq({a, b}) /\ t \in Seq({a, b}) /\ Len(s) = 2 /\ Len(t) = 2
  OBVIOUS
<1>2. \A i \in 1..2 : s[i] = t[i]
  OBVIOUS
<1> QED BY <1>1, <1>2, SeqEqual

LEMMA RefreshBlockOrderly ==
  ASSUME IInv, Orderly, NEW p \in Proc, RefreshBlock(p)
  PROVE  Orderly'
<1>1. Step(p, "docBlock") /\ UNCHANGED store /\ past' = past
  BY DEF RefreshBlock
<1>2. Frame(p)
  BY Holds DEF RefreshBlock, Continue, Then, Frame
<1>3. UNCHANGED <<pkg, rows, tags, people, file, full, abbr>>
  BY <1>1 DEF store
<1>4. ASSUME ~past.disturbed
      PROVE  Shapes' /\ Active(p)' /\ InOrder(p)'
  <2>1. Shapes /\ AtDocBlock(p)
    BY <1>1, <1>4, Turn DEF InOrder
  <2>2. /\ Rest(p) = <<>> /\ Knows(p) /\ pkg.exists /\ Docs /\ Says(full, "man", {}) /\ Says(abbr, "abb", {})
        /\ WholeBut({}) /\ Tagged(full) /\ Tagged(abbr) /\ Owned
    BY <2>1 DEF AtDocBlock, Ready, Settled, Written
  <2>3. at[p].ent.full /\ at[p].ent.abbr /\ full # None /\ abbr # None
    BY <2>2, ObjectAssumption DEF Knows, Docs
  <2>4. PICK flag \in BOOLEAN : flag = at[p].flag
    BY Holds DEF CallKind
  <2>5. PICK x : x = [full EXCEPT !.block = flag]
    OBVIOUS
  <2>6. PICK y : y = [abbr EXCEPT !.block = flag]
    OBVIOUS
  <2>7. /\ Says(x, "man", {}) /\ x.tags = full.tags /\ x.people = full.people
        /\ Says(y, "abb", {}) /\ y.tags = abbr.tags
    BY <2>2, <2>5, <2>6, SaysWithBlock
  <2>8. Then(p, [at[p] EXCEPT !.f = x, !.a = y], <<"full", "abbr">> \o <<>>)
    <3>1. <<"full">> \o <<"abbr">> \o <<>> = <<"full", "abbr">> \o <<>>
      <4>1. <<"full">> \o <<"abbr">> = <<"full", "abbr">>
        BY JoinedTwo
      <4> QED BY <4>1
    <3> QED BY <2>2, <2>3, <2>4, <2>5, <2>6, <3>1 DEF RefreshBlock
  <2>9. <<>> \in Ends /\ Stale(p, <<>>) = {} /\ Follows(p, <<>>)
    <3>1. <<>> \in Ends /\ <<>> # <<"refresh">> /\ <<>> \notin {<<"tags">>, <<"tags", "unlock">>}
      BY DEF Ends
    <3> QED BY <2>2, <3>1 DEF Stale, Follows
  <2>10. at[p].ent \in Knowing
    BY <2>2, KnowsAll DEF Knows
  <2>11. Tagged(x) /\ Tagged(y) /\ x.people \subseteq people
    BY <2>2, <2>7 DEF Tagged, Owned
  <2>12. Active(p)' /\ InOrder(p)'
    BY <1>1, <2>7, <2>8, <2>9, <2>10, <2>11, TakesNew
  <2>13. Shapes'
    BY <1>3, <2>1 DEF Shapes
  <2> QED BY <2>12, <2>13
<1> QED BY <1>1, <1>2, <1>4, TurnEnds

-----------------------------------------------------------------------------
(* Steps between the documents: lock, block, people, tags *)

\* What is settled stays so while the store does.
LEMMA SettledStays ==
  ASSUME UNCHANGED store
  PROVE  (Settled => Settled') /\ (Shapes => Shapes')
BY DEF store, Settled, Shapes, WholeBut, Whole, Written, Docs, NoDocs, Says, Lists, Existing, Owned, Tagged

LEMMA ReleaseLockOrderly ==
  ASSUME IInv, Orderly, NEW p \in Proc, ReleaseLock(p)
  PROVE  Orderly'
<1>1. Step(p, "unlock") /\ UNCHANGED store /\ past' = past
  BY DEF ReleaseLock
<1>2. Frame(p)
  BY Holds DEF ReleaseLock, Continue, Then, Frame
<1>3. ASSUME ~past.disturbed
      PROVE  Shapes' /\ at'[p] = Nothing /\ Settled'
  <2>1. Shapes /\ AtUnlock(p)
    BY <1>1, <1>3, Turn DEF InOrder
  <2>2. at'[p] = Nothing
    BY <2>1, IsOver DEF AtUnlock, ReleaseLock, Continue
  <2> QED BY <1>1, <2>1, <2>2, SettledStays DEF AtUnlock
<1> QED BY <1>1, <1>2, <1>3, TurnEnds

LEMMA SaveBlockOrderly ==
  ASSUME IInv, Orderly, NEW p \in Proc, SaveBlock(p)
  PROVE  Orderly'
<1>1. Step(p, "block") /\ pkg' = [pkg EXCEPT !.blocked = at[p].flag] /\ past' = past
      /\ UNCHANGED <<rows, tags, people, file, full, abbr>>
  BY DEF SaveBlock
<1>2. Frame(p)
  BY Holds DEF SaveBlock, Continue, Then, Frame
<1>3. ASSUME ~past.disturbed
      PROVE  Shapes' /\ Active(p)' /\ InOrder(p)'
  <2>1. Shapes /\ Rest(p) = <<"docBlock">> /\ Ready(p)
    BY <1>1, <1>3, Turn DEF InOrder, AtBlock
  <2>2. /\ pkg'.exists = pkg.exists /\ pkg'.full = pkg.full /\ pkg'.abbr = pkg.abbr
        /\ Shapes'
    BY <1>1, <2>1, Holds DEF Shapes, CallKind
  <2>3. PICK l : l = at[p]
    OBVIOUS
  <2>4. PICK run : run = Rest(p)
    OBVIOUS
  <2>5. /\ Then(p, l, run) /\ DOMAIN l = DOMAIN Nothing /\ run # <<>> /\ Head(run) = "docBlock"
        /\ Tail(run) = <<>>
    BY <2>1, <2>3, <2>4, Holds DEF SaveBlock, Continue
  <2>6. Step(p, Head(run))' /\ Rest(p)' = Tail(run) /\ at'[p].ent = l.ent
    BY <2>5, TakesUp
  <2>7. Settled'
    BY <1>1, <2>1, <2>2 DEF Ready, Settled, WholeBut, Whole, Written, Docs, NoDocs, Says, Lists, Existing, Owned, Tagged
  <2>8. AtDocBlock(p)'
    BY <2>1, <2>2, <2>3, <2>5, <2>6, <2>7 DEF AtDocBlock, Ready, Knows
  <2> QED BY <2>2, <2>5, <2>6, <2>8, Placed
<1> QED BY <1>1, <1>2, <1>3, TurnEnds

LEMMA ReplacePeopleOrderly ==
  ASSUME IInv, Orderly, NEW p \in Proc, ReplacePeople(p)
  PROVE  Orderly'
<1>1. Step(p, "people") /\ people' = at[p].todo /\ past' = past
      /\ UNCHANGED <<pkg, rows, tags, file, full, abbr>>
  BY DEF ReplacePeople
<1>2. Frame(p)
  BY Holds DEF ReplacePeople, Continue, Then, Frame
<1>3. ASSUME ~past.disturbed
      PROVE  Shapes' /\ Active(p)' /\ InOrder(p)'
  <2>1. Shapes /\ Rest(p) = <<"docPeople">> /\ Ready(p) /\ at[p].todo \subseteq User
    BY <1>1, <1>3, Turn DEF InOrder, AtPeople
  <2>2. Shapes'
    BY <1>1, <2>1 DEF Shapes
  <2>3. PICK l : l = at[p]
    OBVIOUS
  <2>4. PICK run : run = Rest(p)
    OBVIOUS
  <2>5. PICK m : m = [l EXCEPT !.todo = {}]
    OBVIOUS
  <2>6. DOMAIN m = DOMAIN Nothing /\ m.ent = l.ent
    BY <2>3, <2>5, Holds, NoCall
  <2>7. Then(p, m, run) /\ run # <<>> /\ Head(run) = "docPeople" /\ Tail(run) = <<>>
    BY <2>1, <2>3, <2>4, <2>5 DEF ReplacePeople, Continue
  <2>8. Step(p, Head(run))' /\ Rest(p)' = Tail(run) /\ at'[p].ent = m.ent
    BY <2>6, <2>7, TakesUp
  <2>9. (Written({}) /\ WholeBut({}) /\ Tagged(full) /\ Tagged(abbr))'
    BY <1>1, <2>1 DEF Ready, Settled, WholeBut, Whole, Written, Docs, Says, Lists, Existing, Tagged
  <2>10. AtDocPeople(p)'
    BY <2>1, <2>3, <2>6, <2>7, <2>8, <2>9 DEF AtDocPeople, Ready, Knows
  <2> QED BY <2>2, <2>7, <2>8, <2>10, Placed
<1> QED BY <1>1, <1>2, <1>3, TurnEnds

LEMMA HeadAndTail ==
  ASSUME NEW S, NEW run \in Seq(S), run # <<>>
  PROVE  run = <<Head(run)>> \o Tail(run)
OBVIOUS

LEMMA JoinedOne ==
  ASSUME NEW a \in Plain, NEW rest \in Seq(Plain)
  PROVE  <<a>> \o rest # <<>> /\ Head(<<a>> \o rest) = a /\ Tail(<<a>> \o rest) = rest
OBVIOUS

LEMMA SaveTagsOrderly ==
  ASSUME IInv, Orderly, NEW p \in Proc, SaveTags(p)
  PROVE  Orderly'
<1>1. Step(p, "tags") /\ past' = past /\ UNCHANGED <<pkg, rows, people, file, full, abbr>>
  BY DEF SaveTags
<1>2. Frame(p)
  BY Holds DEF SaveTags, Continue, Then, Frame
<1>3. ASSUME ~past.disturbed
      PROVE  Shapes' /\ ((at'[p] = Nothing /\ Settled') \/ (Active(p)' /\ InOrder(p)'))
  <2>1. /\ Shapes /\ Rest(p) \in {<<>>, <<"unlock">>} /\ Ready(p) /\ at[p].v \in Version /\ at[p].todo \subseteq Tag
        /\ tags \in [Tag -> Version \cup {None}]
    BY <1>1, <1>3, Turn DEF InOrder, AtTags
  <2>2. PICK l : l = at[p]
    OBVIOUS
  <2>3. PICK run : run = l.run
    OBVIOUS
  <2>4. /\ run \in {<<"tags">>, <<"tags", "unlock">>} /\ Tail(run) = Rest(p) /\ run # <<>> /\ Head(run) = "tags"
        /\ run \in Ends /\ run # <<"refresh">> /\ run \in Seq(Plain)
    <3>1. run \in Seq(Plain) /\ run # <<>> /\ Head(run) = "tags" /\ Tail(run) \in {<<>>, <<"unlock">>}
      BY <1>1, <2>1, <2>2, <2>3, AtPlain, Holds DEF Plain, Step, Running, Rest
    <3>2. run = <<Head(run)>> \o Tail(run)
      BY <3>1, HeadAndTail
    <3>3. run \in {<<"tags">>, <<"tags", "unlock">>}
      <4>1. CASE Tail(run) = <<>>
        <5>1. run = <<"tags">> \o <<>>
          BY <3>1, <3>2, <4>1
        <5> QED BY <5>1
      <4>2. CASE Tail(run) = <<"unlock">>
        <5>1. run = <<"tags">> \o <<"unlock">>
          BY <3>1, <3>2, <4>2
        <5> QED BY <5>1, JoinedTwo
      <4> QED BY <3>1, <4>1, <4>2
    <3> QED BY <2>2, <2>3, <3>1, <3>3 DEF Ends, Rest
  <2>5. DOMAIN l = DOMAIN Nothing /\ l.ent = [full |-> TRUE, abbr |-> TRUE]
    BY <2>1, <2>2, Holds DEF Ready, Knows
  <2>6. CASE l.todo = {}
    <3>1. Then(p, l, Tail(run)) /\ UNCHANGED store
      BY <1>1, <2>2, <2>4, <2>6 DEF SaveTags, Continue, store
    <3>2. Settled' /\ Shapes'
      BY <2>1, <3>1, SettledStays DEF Ready
    <3>3. CASE Tail(run) = <<>>
      BY <3>1, <3>2, <3>3, IsOver
    <3>4. CASE Tail(run) # <<>>
      <4>1. PICK next : next = <<"unlock">>
        OBVIOUS
      <4>2. Then(p, l, next) /\ next # <<>> /\ Head(next) = "unlock" /\ Tail(next) = <<>>
        <5>1. Tail(run) = next
          BY <2>1, <2>4, <3>4, <4>1
        <5>2. next # <<>> /\ Head(next) = "unlock" /\ Tail(next) = <<>>
          BY <4>1
        <5> QED BY <3>1, <5>1, <5>2
      <4>3. Step(p, Head(next))' /\ Rest(p)' = Tail(next)
        BY <2>5, <4>2, TakesUp
      <4>4. AtUnlock(p)'
        BY <3>2, <4>2, <4>3 DEF AtUnlock
      <4> QED BY <3>2, <4>2, <4>3, <4>4, Placed
    <3> QED BY <3>3, <3>4
  <2>7. ASSUME NEW t \in l.todo
        PROVE  LET m == [l EXCEPT !.todo = @ \ {t}]
               IN (IF tags[t] = l.v THEN Then(p, m, m.run) /\ UNCHANGED tags
                   ELSE tags' = [tags EXCEPT ![t] = l.v] /\ Then(p, m, <<"root">> \o m.run))
                  => Shapes' /\ Active(p)' /\ InOrder(p)'
    <3>1. PICK m : m = [l EXCEPT !.todo = @ \ {t}]
      OBVIOUS
    <3>2. DOMAIN m = DOMAIN Nothing /\ m.run = run /\ m.v = l.v /\ m.todo = l.todo \ {t} /\ m.ent = l.ent
      BY <2>3, <2>5, <3>1, NoCall
    <3>3. ASSUME Then(p, m, run), UNCHANGED tags
          PROVE  Shapes' /\ Active(p)' /\ InOrder(p)'
      <4>1. Settled' /\ Shapes'
        BY <1>1, <2>1, <3>3, SettledStays DEF Ready, store
      <4>2. /\ Step(p, Head(run))' /\ Rest(p)' = Tail(run) /\ at'[p].v = m.v /\ at'[p].todo = m.todo
            /\ at'[p].ent = m.ent
        BY <2>4, <3>2, <3>3, TakesUp
      <4>3. AtTags(p)'
        BY <1>1, <2>1, <2>2, <2>4, <2>5, <3>2, <4>1, <4>2 DEF AtTags, Ready, Knows
      <4> QED BY <2>4, <4>1, <4>2, <4>3, Placed
    <3>4. ASSUME Then(p, m, <<"root">> \o run), tags' = [tags EXCEPT ![t] = l.v]
          PROVE  Shapes' /\ Active(p)' /\ InOrder(p)'
      <4>1. Shapes'
        BY <1>1, <2>1, <2>2, <3>4 DEF Shapes
      <4>2. PICK next : next = <<"root">> \o run
        OBVIOUS
      <4>3. next # <<>> /\ Head(next) = "root" /\ Tail(next) = run
        BY <2>4, <4>2, JoinedOne DEF Plain
      <4>4. Then(p, m, next) /\ Head(next) # "next"
        BY <3>4, <4>2, <4>3
      <4>5. /\ Step(p, Head(next))' /\ Rest(p)' = Tail(next) /\ at'[p].v = m.v /\ at'[p].todo = m.todo
            /\ at'[p].ent = m.ent
        BY <3>2, <4>3, <4>4, TakesUp
      <4>6. (Written({}) /\ WholeBut({}) /\ Owned)'
        BY <1>1, <2>1 DEF Ready, Settled, WholeBut, Whole, Written, Docs, Says, Lists, Existing, Owned
      <4>7. Follows(p, run)' /\ Stale(p, run)' = {}
        BY <1>1, <2>1, <2>2, <2>4, <3>2, <4>5, <4>6 DEF Follows, Stale, Ready
      <4>8. AtRoot(p)'
        BY <2>5, <3>2, <4>3, <4>5, <4>6, <4>7 DEF AtRoot, Knows
      <4> QED BY <4>1, <4>3, <4>5, <4>8, Placed
    <3> QED BY <3>1, <3>2, <3>3, <3>4
  <2>8. CASE l.todo # {}
    <3>1. \E t \in l.todo :
            LET m == [l EXCEPT !.todo = @ \ {t}]
            IN IF tags[t] = l.v THEN Then(p, m, m.run) /\ UNCHANGED tags
               ELSE tags' = [tags EXCEPT ![t] = l.v] /\ Then(p, m, <<"root">> \o m.run)
      BY <2>2, <2>8 DEF SaveTags
    <3> QED BY <2>7, <3>1
  <2> QED BY <2>6, <2>8
<1> QED BY <1>1, <1>2, <1>3, TurnEnds

-----------------------------------------------------------------------------
(* A publication up to its row *)

\* A call that begins to write while nothing is disturbed is alone.
LEMMA EntersAlone ==
  ASSUME IInv, NEW p \in Proc, Enter(p), ~past'.disturbed
  PROVE  ~past.disturbed /\ \A q \in Proc \ {p} : ~Active(q)
<1>1. DOMAIN past = {"disturbed", "raced", "removed"}
  BY DEF IInv, Kinds, StoreKinds
<1>2. PICK others : others = {q \in Proc \ {p} : Running(q) /\ ~Waiting(q)}
  OBVIOUS
<1>3. past'.disturbed = (past.disturbed \/ others # {})
  BY <1>1, <1>2 DEF Enter
<1>4. ~past.disturbed /\ others = {}
  BY <1>3
<1> QED BY <1>2, <1>4 DEF Active

LEMMA AcquireLockOrderly ==
  ASSUME IInv, Orderly, NEW p \in Proc, AcquireLock(p)
  PROVE  Orderly'
<1>1. Waiting(p) /\ Step(p, "lock") /\ UNCHANGED store /\ ~Active(p)
  BY DEF AcquireLock, Waiting, Step, Active
<1>2. CASE lock = None
  <2>1. Continue(p, at[p]) /\ Enter(p)
    BY <1>2 DEF AcquireLock
  <2>2. PICK l : l = at[p]
    OBVIOUS
  <2>3. PICK run : run = Rest(p)
    OBVIOUS
  <2>4. Then(p, l, run) /\ DOMAIN l = DOMAIN Nothing
    BY <2>1, <2>2, <2>3, Holds DEF Continue
  <2>5. run # <<>> /\ Head(run) = "save"
    <3>1. at[p].run = <<"lock", "save", "tar", "manifests", "row", "refresh", "tags", "unlock">>
      BY <1>1, AtOther, Holds
    <3>2. run = <<"save", "tar", "manifests", "row", "refresh", "tags", "unlock">>
      BY <2>3, <3>1 DEF Rest
    <3> QED BY <3>2
  <2>6. /\ Frame(p) /\ Step(p, Head(run))' /\ at'[p].v = l.v /\ at'[p].by = l.by /\ at'[p].todo = l.todo
        /\ at'[p].upd = l.upd /\ at'[p].rem = l.rem
    BY <2>4, <2>5, TakesUp
  <2>7. ASSUME ~past'.disturbed
        PROVE  ~past.disturbed /\ (\A q \in Proc \ {p} : ~Active(q)) /\ Shapes' /\ Active(p)' /\ InOrder(p)'
    <3>1. ~past.disturbed /\ \A q \in Proc \ {p} : ~Active(q)
      BY <2>1, <2>7, EntersAlone
    <3>2. Shapes /\ Asks(p) /\ Settled
      BY <1>1, <3>1 DEF Orderly, OneAtATime
    <3>3. Shapes' /\ Settled' /\ Asks(p)'
      BY <1>1, <2>2, <2>6, <3>2, SettledStays DEF Asks
    <3>4. AtSave(p)'
      BY <3>3 DEF AtSave
    <3> QED BY <2>5, <2>6, <3>1, <3>3, <3>4, Placed
  <2> QED BY <2>6, <2>7, OrderlyStep
<1>3. CASE lock # None
  <2>1. Then(p, Nothing, <<>>) /\ past' = past
    BY <1>3 DEF AcquireLock
  <2>2. Frame(p) /\ at'[p] = Nothing
    BY <2>1, IsOver
  <2>3. ~Active(p)' /\ ~Waiting(p)'
    BY <2>2, NoCall DEF Active, Waiting, Running
  <2> QED BY <1>1, <2>1, <2>2, <2>3, AsideStep
<1> QED BY <1>2, <1>3

\* A publication that is refused has its lock left.
LEMMA RefusedUnlocks ==
  ASSUME NEW run, run = <<"save", "tar", "manifests", "row", "refresh", "tags", "unlock">>
  PROVE  Caller(run) = <<"unlock">>
<1> DEFINE marks == {i \in DOMAIN run : run[i] \in {"unlock", "next"}}
<1>1. Len(run) = 7 /\ DOMAIN run = 1..7 /\ marks = {7} /\ run[7] = "unlock"
  OBVIOUS
<1>2. Min(marks) = 7
  BY <1>1, MinIs
<1>3. SubSeq(run, 7, 7) = <<"unlock">>
  <2>1. PICK s : s = SubSeq(run, 7, 7)
    OBVIOUS
  <2>2. run \in Seq({run[i] : i \in 1..7})
    OBVIOUS
  <2>3. s \in Seq({run[i] : i \in 1..7}) /\ Len(s) = 1 /\ s[1] = "unlock"
    BY <1>1, <2>1, <2>2
  <2>4. <<"unlock">> \in Seq({run[i] : i \in 1..7}) /\ Len(<<"unlock">>) = 1
    BY <1>1
  <2>5. \A i \in 1..1 : s[i] = <<"unlock">>[i]
    BY <2>3
  <2> QED BY <2>1, <2>3, <2>4, <2>5, SeqEqual
<1> QED BY <1>1, <1>2, <1>3 DEF Caller, From

LEMMA SavePackageOrderly ==
  ASSUME IInv, Orderly, NEW p \in Proc, SavePackage(p)
  PROVE  Orderly'
<1>1. /\ Step(p, "save") /\ past' = past /\ pkg' = [pkg EXCEPT !.exists = TRUE]
      /\ people' = people \cup {at[p].by} /\ UNCHANGED <<rows, tags, file, full, abbr>>
  BY DEF SavePackage
<1>2. Frame(p)
  BY Holds DEF SavePackage, Return, Continue, Then, Frame
<1>3. ASSUME ~past.disturbed
      PROVE  Shapes' /\ Active(p)' /\ InOrder(p)'
  <2>1. Shapes /\ Settled /\ Asks(p)
    BY <1>1, <1>3, Turn DEF InOrder, AtSave
  <2>2. /\ pkg'.exists /\ pkg'.full = pkg.full /\ pkg'.abbr = pkg.abbr
        /\ Shapes'
    BY <1>1, <2>1 DEF Shapes, Asks
  <2>3. PICK l : l = at[p]
    OBVIOUS
  <2>4. l.run = <<"save", "tar", "manifests", "row", "refresh", "tags", "unlock">> /\ DOMAIN l = DOMAIN Nothing
    BY <1>1, <2>3, AtOther, Holds
  <2>5. CASE rows[l.v] # None
    <3>1. PICK run : run = <<"unlock">>
      OBVIOUS
    <3>2. Then(p, l, run)
      BY <2>3, <2>4, <2>5, <3>1, RefusedUnlocks DEF SavePackage, Return
    <3>3. run # <<>> /\ Head(run) = "unlock" /\ Tail(run) = <<>>
      BY <3>1
    <3>4. Step(p, Head(run))' /\ Rest(p)' = Tail(run)
      BY <2>4, <3>2, <3>3, TakesUp
    <3>5. pkg.exists
      BY <2>1, <2>3, <2>5 DEF Settled, Asks, Existing
    <3>6. Settled'
      BY <1>1, <2>1, <2>2, <3>5 DEF Settled, WholeBut, Whole, Written, Docs, Says, Lists, Existing, Owned, Tagged
    <3>7. AtUnlock(p)'
      BY <3>3, <3>4, <3>6 DEF AtUnlock
    <3> QED BY <2>2, <3>3, <3>4, <3>7, Placed
  <2>6. CASE rows[l.v] = None
    <3>1. PICK n : n = pubs + 1
      OBVIOUS
    <3>2. PICK m : m = [l EXCEPT !.pub = n, !.ent = Entity, !.upd = {l.v}]
      OBVIOUS
    <3>3. /\ DOMAIN m = DOMAIN Nothing /\ m.v = l.v /\ m.todo = l.todo /\ m.upd = {l.v} /\ m.rem = l.rem
          /\ m.ent = Entity
      BY <2>4, <3>2, NoCall
    <3>4. PICK run : run = Rest(p)
      OBVIOUS
    <3>5. Then(p, m, run)
      BY <2>3, <2>6, <3>1, <3>2, <3>4 DEF SavePackage, Continue
    <3>6. run # <<>> /\ Head(run) = "tar"
      <4>1. run = <<"tar", "manifests", "row", "refresh", "tags", "unlock">>
        <5>1. at[p].run = <<"save", "tar", "manifests", "row", "refresh", "tags", "unlock">>
          BY <2>3, <2>4
        <5> QED BY <3>4, <5>1 DEF Rest
      <4> QED BY <4>1
    <3>7. /\ Step(p, Head(run))' /\ at'[p].v = m.v /\ at'[p].todo = m.todo
          /\ at'[p].upd = m.upd /\ at'[p].rem = m.rem /\ at'[p].ent = m.ent
      BY <3>3, <3>5, <3>6, TakesUp
    <3>8. (at[p].ent = Entity)'
      BY <2>2, <3>3, <3>7 DEF Entity
    <3>9. (WholeBut({}) /\ ((NoDocs /\ Existing = {}) \/ (Written({}) /\ Owned)))'
      BY <1>1, <2>1, <2>2 DEF Settled, WholeBut, Whole, Written, Docs, NoDocs, Says, Lists, Existing, Owned
    <3>10. Publishes(p)'
      BY <1>1, <2>1, <2>2, <2>3, <2>6, <3>3, <3>7, <3>8, <3>9 DEF Publishes, Asks
    <3> QED BY <2>2, <3>6, <3>7, <3>10, Placed
  <2> QED BY <2>5, <2>6
<1> QED BY <1>1, <1>2, <1>3, TurnEnds

\* A version without a row is listed nowhere, whatever its files are.
LEMMA SaysAnyway ==
  ASSUME UNCHANGED rows, NEW doc, NEW which, \A v \in Existing : file'[v][which] = file[v][which],
         NEW but, Says(doc, which, but)
  PROVE  Says(doc, which, but)'
BY DEF Says, Lists, Existing

\* A document says of the other versions what it did.
LEMMA SaysBesides ==
  ASSUME NEW u, NEW doc, NEW which, NEW but, Says(doc, which, but),
         \A v \in Version \ {u} : rows'[v] = rows[v] /\ file'[v][which] = file[v][which],
         Existing # {} => Existing' # {}
  PROVE  Says(doc, which, but \cup {u})'
<1>1. CASE doc.versions = None
  BY <1>1 DEF Says, Lists, Existing
<1>2. CASE doc.versions # None
  <2>1. doc.versions \in Listings /\ Existing' # {}
    BY <1>2 DEF Says, Lists
  <2>2. \A v \in Version \ (but \cup {u}) : doc.versions[v] = IF rows'[v] # None THEN file'[v][which] ELSE None
    BY <1>2 DEF Says, Lists
  <2> QED BY <1>2, <2>1, <2>2 DEF Says, Lists
<1> QED BY <1>1, <1>2

\* What a publication uploads is of a version that has no row yet.
LEMMA UploadsAside ==
  ASSUME NEW p \in Proc, Publishes(p), UNCHANGED <<pkg, rows, tags, people, full, abbr>>,
         NEW v, v = at[p].v, \A w \in Version \ {v} : file'[w] = file[w],
         at'[p].v = at[p].v, at'[p].todo = at[p].todo, at'[p].upd = at[p].upd, at'[p].rem = at[p].rem,
         at'[p].ent = at[p].ent
  PROVE  Publishes(p)'
<1>1. \A w \in Existing : file'[w] = file[w]
  BY DEF Publishes, Existing
<1>2. (NoDocs /\ Existing = {}) => (NoDocs /\ Existing = {})'
  BY DEF NoDocs, Existing
<1>3. (Written({}) /\ Owned) => (Written({}) /\ Owned)'
  BY <1>1, SaysAnyway DEF Written, Owned, Docs
<1>4. WholeBut({})'
  BY <1>1 DEF Publishes, WholeBut, Whole, Existing
<1>5. (at[p].ent = Entity)'
  BY DEF Publishes, Entity
<1> QED BY <1>2, <1>3, <1>4, <1>5 DEF Publishes

LEMMA UploadTarOrderly ==
  ASSUME IInv, Orderly, NEW p \in Proc, UploadTar(p)
  PROVE  Orderly'
<1>1. /\ Step(p, "tar") /\ past' = past /\ file' = [file EXCEPT ![at[p].v].tar = at[p].pub]
      /\ UNCHANGED <<pkg, rows, tags, people, full, abbr>>
  BY DEF UploadTar
<1>2. Frame(p)
  BY Holds DEF UploadTar, Continue, Then, Frame
<1>3. ASSUME ~past.disturbed
      PROVE  Shapes' /\ Active(p)' /\ InOrder(p)'
  <2>1. Shapes /\ Publishes(p)
    BY <1>1, <1>3, Turn DEF InOrder
  <2>2. PICK l : l = at[p]
    OBVIOUS
  <2>3. at[p].run = <<"tar", "manifests", "row", "refresh", "tags", "unlock">> /\ DOMAIN l = DOMAIN Nothing
    BY <1>1, <2>2, AtOther, Holds
  <2>4. PICK run : run = Rest(p)
    OBVIOUS
  <2>5. run = <<"manifests", "row", "refresh", "tags", "unlock">>
    BY <2>3, <2>4 DEF Rest
  <2>6. Then(p, l, run) /\ run # <<>> /\ Head(run) = "manifests"
    BY <2>2, <2>4, <2>5 DEF UploadTar, Continue
  <2>7. /\ Step(p, Head(run))' /\ at'[p].v = l.v /\ at'[p].todo = l.todo
        /\ at'[p].upd = l.upd /\ at'[p].rem = l.rem /\ at'[p].ent = l.ent
    BY <2>3, <2>6, TakesUp
  <2>8. \A w \in Version \ {at[p].v} : file'[w] = file[w]
    <3>1. DOMAIN file = Version
      BY DEF IInv, Kinds, StoreKinds
    <3> QED BY <1>1, <3>1
  <2>9. Publishes(p)'
    BY <1>1, <2>1, <2>2, <2>7, <2>8, UploadsAside
  <2>10. Shapes'
    BY <1>1, <2>1 DEF Shapes
  <2> QED BY <2>6, <2>7, <2>9, <2>10, Placed
<1> QED BY <1>1, <1>2, <1>3, TurnEnds

LEMMA UploadManifestsOrderly ==
  ASSUME IInv, Orderly, NEW p \in Proc, UploadManifests(p)
  PROVE  Orderly'
<1>1. PICK meta : meta = [pub |-> at[p].pub, deprecated |-> at[p].flag]
  OBVIOUS
<1>2. /\ Step(p, "manifests") /\ past' = past /\ file' = [file EXCEPT ![at[p].v] = [@ EXCEPT !.man = meta, !.abb = meta]]
      /\ UNCHANGED <<pkg, rows, tags, people, full, abbr>>
  BY <1>1 DEF UploadManifests
<1>3. Frame(p)
  BY Holds DEF UploadManifests, Continue, Then, Frame
<1>4. ASSUME ~past.disturbed
      PROVE  Shapes' /\ Active(p)' /\ InOrder(p)'
  <2>1. Shapes /\ Publishes(p)
    BY <1>2, <1>4, Turn DEF InOrder
  <2>2. PICK l : l = at[p]
    OBVIOUS
  <2>3. at[p].run = <<"manifests", "row", "refresh", "tags", "unlock">> /\ DOMAIN l = DOMAIN Nothing
    BY <1>2, <2>2, AtOther, Holds
  <2>4. PICK run : run = Rest(p)
    OBVIOUS
  <2>5. run = <<"row", "refresh", "tags", "unlock">>
    BY <2>3, <2>4 DEF Rest
  <2>6. Then(p, l, run) /\ run # <<>> /\ Head(run) = "row"
    BY <2>2, <2>4, <2>5 DEF UploadManifests, Continue
  <2>7. /\ Step(p, Head(run))' /\ at'[p].v = l.v /\ at'[p].todo = l.todo
        /\ at'[p].upd = l.upd /\ at'[p].rem = l.rem /\ at'[p].ent = l.ent
    BY <2>3, <2>6, TakesUp
  <2>8. file \in [Version -> [tar : Nat \cup {None}, man : Metas \cup {None}, abb : Metas \cup {None}]]
    BY DEF IInv, Kinds, StoreKinds
  <2>9. \A w \in Version \ {at[p].v} : file'[w] = file[w]
    BY <1>2, <2>8
  <2>10. Publishes(p)'
    BY <1>2, <2>1, <2>2, <2>7, <2>9, UploadsAside
  <2>11. meta # None
    <3>1. Writing(p) /\ ~Step(p, "save")
      BY <1>2, <2>3 DEF Writing, Publishing, Publications, Waiting, Step
    <3>2. at[p].pub \in Nat /\ at[p].flag \in BOOLEAN
      BY <3>1, Holds DEF CallKind
    <3> QED BY <1>1, <3>2, PackageAssumption
  <2>12. Whole(at[p].v)'
    <3>1. PICK v \in Version : v = at[p].v
      BY <2>1 DEF Publishes
    <3>2. file'[v].man = meta /\ file'[v].abb = meta
      BY <1>2, <2>8, <3>1
    <3>3. at'[p].v = v
      BY <2>2, <2>7, <3>1
    <3> QED BY <2>11, <3>2, <3>3 DEF Whole
  <2>13. Shapes'
    BY <1>2, <2>1 DEF Shapes
  <2> QED BY <2>6, <2>7, <2>10, <2>12, <2>13, Placed DEF AtRow
<1> QED BY <1>2, <1>3, <1>4, TurnEnds

\* With the row the documents are stale by this version and no other.
LEMMA CreateVersionOrderly ==
  ASSUME IInv, Orderly, NEW p \in Proc, CreateVersion(p)
  PROVE  Orderly'
<1>1. Step(p, "row") /\ past' = past /\ UNCHANGED <<pkg, tags, people, file, full, abbr>>
  BY DEF CreateVersion
<1>2. Frame(p)
  BY Holds DEF CreateVersion, Return, Continue, Then, Frame
<1>3. ASSUME ~past.disturbed
      PROVE  Shapes' /\ Active(p)' /\ InOrder(p)'
  <2>1. /\ Shapes /\ Publishes(p) /\ Whole(at[p].v)
        /\ rows \in [Version -> Nat \cup {None}]
    BY <1>1, <1>3, Turn DEF InOrder, AtRow
  <2>2. PICK l : l = at[p]
    OBVIOUS
  <2>3. at[p].run = <<"row", "refresh", "tags", "unlock">> /\ DOMAIN l = DOMAIN Nothing
    BY <1>1, <2>2, AtOther, Holds
  <2>4. PICK run : run = Rest(p)
    OBVIOUS
  <2>5. run = <<"refresh", "tags", "unlock">>
    BY <2>3, <2>4 DEF Rest
  <2>6. PICK v \in Version : v = l.v /\ rows[v] = None
    BY <2>1, <2>2 DEF Publishes
  <2>7. rows' = [rows EXCEPT ![v] = l.pub] /\ Then(p, l, run)
    BY <2>2, <2>4, <2>6 DEF CreateVersion, Continue
  <2>8. run # <<>> /\ Head(run) = "refresh" /\ Tail(run) = <<"tags", "unlock">>
    BY <2>5
  <2>9. /\ Step(p, Head(run))' /\ Rest(p)' = Tail(run) /\ at'[p].v = l.v /\ at'[p].todo = l.todo
        /\ at'[p].upd = l.upd /\ at'[p].rem = l.rem /\ at'[p].ent = l.ent
    BY <2>3, <2>7, <2>8, TakesUp
  <2>10. l.pub # None
    <3>1. Writing(p) /\ ~Step(p, "save")
      BY <1>1, <2>3 DEF Writing, Publishing, Publications, Waiting, Step
    <3>2. l.pub \in Nat
      BY <2>2, <3>1, Holds DEF CallKind
    <3> QED BY <3>2, PackageAssumption
  <2>11. rows'[v] # None /\ \A w \in Version \ {v} : rows'[w] = rows[w]
    BY <2>1, <2>7, <2>10
  <2>12. Existing' = Existing \cup {v}
    BY <2>11, <2>6 DEF Existing
  <2>13. WholeBut({})'
    BY <1>1, <2>1, <2>2, <2>6, <2>12 DEF Publishes, WholeBut, Whole
  <2>14. at'[p].upd = {v} /\ at'[p].rem = {} /\ ToRefresh(p)' /\ Due(p)' = {v}
    BY <2>1, <2>2, <2>6, <2>9, <2>12 DEF Publishes, ToRefresh, Due
  <2>15. (\/ NoDocs /\ Existing # {} /\ Existing \subseteq Due(p)
          \/ Written(Due(p)) /\ Owned)'
    <3>1. CASE NoDocs /\ Existing = {}
      BY <1>1, <2>12, <2>14, <3>1 DEF NoDocs
    <3>2. CASE Written({}) /\ Owned
      <4>1. Says(full, "man", {}) /\ Says(abbr, "abb", {})
        BY <3>2 DEF Written
      <4>2. Says(full, "man", {} \cup {v})' /\ Says(abbr, "abb", {} \cup {v})'
        BY <1>1, <2>11, <2>12, <4>1, SaysBesides
      <4> QED BY <1>1, <2>14, <3>2, <4>2 DEF Written, Docs, Owned
    <3> QED BY <2>1, <3>1, <3>2 DEF Publishes
  <2>16. Follows(p, Rest(p))'
    <3>1. <<"tags", "unlock">> \in Ends /\ <<"tags", "unlock">> # <<"refresh">>
      BY DEF Ends
    <3>2. at'[p].v \in Version /\ at'[p].todo \subseteq Tag /\ pkg'.exists
      BY <1>1, <2>1, <2>2, <2>6, <2>9 DEF Publishes
    <3> QED BY <2>8, <2>9, <2>13, <3>1, <3>2 DEF Follows
  <2>17. (at[p].ent = Entity)' /\ (Rest(p) # <<"refresh">>)'
    BY <1>1, <2>1, <2>2, <2>8, <2>9 DEF Publishes, Entity
  <2>18. AtRefresh(p)'
    BY <2>14, <2>15, <2>16, <2>17 DEF AtRefresh
  <2>19. Shapes'
    BY <1>1, <2>1 DEF Shapes
  <2> QED BY <2>8, <2>9, <2>18, <2>19, Placed
<1> QED BY <1>1, <1>2, <1>3, TurnEnds

-----------------------------------------------------------------------------
(* Tags taken away or moved, blank documents, deprecation *)

LEMMA DeleteTagOrderly ==
  ASSUME IInv, Orderly, NEW p \in Proc, DeleteTag(p)
  PROVE  Orderly'
<1>1. Step(p, "untag") /\ past' = past /\ UNCHANGED <<pkg, rows, people, file, full, abbr>>
  BY DEF DeleteTag
<1>2. Frame(p)
  BY Holds DEF DeleteTag, Continue, Then, Frame
<1>3. ASSUME ~past.disturbed
      PROVE  Shapes' /\ ((at'[p] = Nothing /\ Settled') \/ (Active(p)' /\ InOrder(p)'))
  <2>1. Shapes /\ Rest(p) = <<>> /\ Ready(p) /\ at[p].todo \subseteq Tag
    BY <1>1, <1>3, Turn DEF InOrder, AtUntag
  <2>2. PICK l : l = at[p]
    OBVIOUS
  <2>3. PICK t \in l.todo :
          IF tags[t] = None THEN Continue(p, [l EXCEPT !.todo = @ \ {t}]) /\ UNCHANGED tags
          ELSE /\ tags' = [tags EXCEPT ![t] = None]
               /\ Then(p, [l EXCEPT !.todo = @ \ {t}], <<"root">> \o Rest(p))
    BY <2>2 DEF DeleteTag
  <2>4. PICK m : m = [l EXCEPT !.todo = @ \ {t}]
    OBVIOUS
  <2>5. DOMAIN m = DOMAIN Nothing /\ m.v = l.v /\ m.todo = l.todo \ {t} /\ m.ent = l.ent
    BY <2>2, <2>4, Holds, NoCall
  <2>6. CASE tags[t] = None
    <3>1. Then(p, m, <<>>) /\ UNCHANGED store
      BY <1>1, <2>1, <2>3, <2>4, <2>6 DEF Continue, store
    <3>2. Settled' /\ Shapes'
      BY <2>1, <3>1, SettledStays DEF Ready
    <3> QED BY <3>1, <3>2, IsOver
  <2>7. CASE tags[t] # None
    <3>1. PICK run : run = <<"root">>
      OBVIOUS
    <3>2. tags' = [tags EXCEPT ![t] = None] /\ Then(p, m, run)
      <4>1. <<"root">> \o <<>> = <<"root">>
        OBVIOUS
      <4> QED BY <2>1, <2>3, <2>4, <2>7, <3>1, <4>1
    <3>3. run # <<>> /\ Head(run) = "root" /\ Tail(run) = <<>>
      BY <3>1
    <3>4. Step(p, Head(run))' /\ Rest(p)' = Tail(run) /\ at'[p].ent = m.ent
      BY <2>5, <3>2, <3>3, TakesUp
    <3>5. Shapes'
      BY <1>1, <2>1, <3>2 DEF Shapes
    <3>6. (Written({}) /\ WholeBut({}) /\ Owned)'
      BY <1>1, <2>1 DEF Ready, Settled, WholeBut, Whole, Written, Docs, Says, Lists, Existing, Owned
    <3>7. Follows(p, <<>>)' /\ Stale(p, <<>>)' = {}
      <4>1. <<>> \in Ends /\ <<>> # <<"refresh">> /\ <<>> \notin {<<"tags">>, <<"tags", "unlock">>}
        BY DEF Ends
      <4>2. pkg'.exists
        BY <1>1, <2>1 DEF Ready
      <4> QED BY <3>6, <4>1, <4>2 DEF Follows, Stale
    <3>8. Knows(p)'
      BY <2>1, <2>2, <2>5, <3>4 DEF Ready, Knows
    <3>9. AtRoot(p)'
      BY <3>3, <3>4, <3>6, <3>7, <3>8 DEF AtRoot
    <3> QED BY <3>3, <3>4, <3>5, <3>9, Placed
  <2> QED BY <2>6, <2>7
<1> QED BY <1>1, <1>2, <1>3, TurnEnds

\* With the tags right, or to be put right with the refresh, a call refreshes.
LEMMA ThenRefreshes ==
  ASSUME IInv, NEW p \in Proc, NEW l, DOMAIN l = DOMAIN Nothing, Then(p, l, <<"refresh">>),
         l.ent = [full |-> TRUE, abbr |-> TRUE],
         (Shapes /\ Written(l.upd \cup l.rem) /\ Owned /\ WholeBut({}))',
         (l.upd \subseteq Existing /\ l.rem \subseteq Version \ Existing)'
  PROVE  Frame(p) /\ Active(p)' /\ InOrder(p)'
<1>1. PICK run : run = <<"refresh">>
  OBVIOUS
<1>2. Then(p, l, run) /\ run # <<>> /\ Head(run) = "refresh" /\ Tail(run) = <<>>
  BY <1>1
<1>3. /\ Frame(p) /\ Step(p, Head(run))' /\ Rest(p)' = Tail(run) /\ at'[p].v = l.v /\ at'[p].todo = l.todo
      /\ at'[p].upd = l.upd /\ at'[p].rem = l.rem /\ at'[p].ent = l.ent
  BY <1>2, TakesUp
<1>4. (pkg.exists /\ Entity = [full |-> TRUE, abbr |-> TRUE])'
  BY DEF Written, Docs, Entity, Shapes
<1>5. Follows(p, Rest(p))' /\ (Rest(p) # <<"refresh">>)'
  <2>1. <<>> \in Ends /\ <<>> # <<"refresh">> /\ <<>> \notin {<<"tags">>, <<"tags", "unlock">>}
    BY DEF Ends
  <2> QED BY <1>2, <1>3, <1>4, <2>1 DEF Follows
<1>6. ToRefresh(p)' /\ (Written(Due(p)) /\ Owned)' /\ (at[p].ent = Entity)'
  BY <1>3, <1>4 DEF ToRefresh, Due
<1>7. AtRefresh(p)'
  BY <1>5, <1>6 DEF AtRefresh
<1> QED BY <1>2, <1>3, <1>7, Placed

LEMMA MoveLatestOrderly ==
  ASSUME IInv, Orderly, NEW p \in Proc, MoveLatest(p)
  PROVE  Orderly'
<1>1. Step(p, "latest") /\ past' = past /\ UNCHANGED <<pkg, rows, people, file, full, abbr>>
  BY DEF MoveLatest
<1>2. Frame(p)
  BY Holds DEF MoveLatest, Return, Continue, Then, Frame
<1>3. ASSUME ~past.disturbed
      PROVE  Shapes' /\ Active(p)' /\ InOrder(p)'
  <2>1. /\ Shapes /\ Rest(p) = <<"refresh">> /\ Follows(p, Rest(p)) /\ Knows(p) /\ Existing # {}
        /\ Written(Due(p)) /\ Owned
    BY <1>1, <1>3, Turn DEF InOrder, AtLatest
  <2>2. PICK l : l = at[p]
    OBVIOUS
  <2>3. DOMAIN l = DOMAIN Nothing /\ l.ent = [full |-> TRUE, abbr |-> TRUE]
    BY <2>1, <2>2, Holds DEF Knows
  <2>4. (Written(l.upd \cup l.rem) /\ Owned /\ WholeBut({}))'
    BY <1>1, <2>1, <2>2 DEF Follows, WholeBut, Whole, Written, Docs, Says, Lists, Existing, Owned, Due
  <2>5. (l.upd \subseteq Existing /\ l.rem \subseteq Version \ Existing)'
    BY <1>1, <2>1, <2>2 DEF Follows, ToRefresh, Existing
  <2>6. CASE tags["latest"] = l.v /\ Max(Existing) # l.v
    <3>1. PICK run : run = <<"root", "refresh">>
      OBVIOUS
    <3>2. tags' = [tags EXCEPT !["latest"] = Max(Existing)] /\ Then(p, l, run)
      <4>1. <<"root">> \o <<"refresh">> = <<"root", "refresh">>
        BY JoinedTwo
      <4> QED BY <2>1, <2>2, <2>6, <3>1, <4>1 DEF MoveLatest
    <3>3. run # <<>> /\ Head(run) = "root" /\ Tail(run) = <<"refresh">>
      BY <3>1
    <3>4. /\ Step(p, Head(run))' /\ Rest(p)' = Tail(run) /\ at'[p].v = l.v /\ at'[p].todo = l.todo
          /\ at'[p].upd = l.upd /\ at'[p].rem = l.rem /\ at'[p].ent = l.ent
      BY <2>3, <3>2, <3>3, TakesUp
    <3>5. Max(Existing) \in Version
      <4>1. Existing \in SUBSET Nat /\ IsFiniteSet(Existing) /\ Existing \subseteq Version
        BY PackageAssumption, FS_Subset DEF Existing
      <4> QED BY <2>1, <4>1, MaxIs
    <3>6. Shapes'
      BY <1>1, <2>1, <3>2, <3>5 DEF Shapes
    <3>7. Follows(p, <<"refresh">>)' /\ Stale(p, <<"refresh">>)' = l.upd \cup l.rem
      BY <1>1, <2>1, <2>2, <3>4, FollowsStays DEF Stale, Due
    <3>8. AtRoot(p)'
      <4>1. Knows(p)'
        BY <2>3, <3>4 DEF Knows
      <4>2. (Written(Stale(p, Rest(p))))'
        BY <2>4, <3>3, <3>4, <3>7
      <4> QED BY <2>4, <3>3, <3>4, <3>7, <4>1, <4>2 DEF AtRoot
    <3> QED BY <3>3, <3>4, <3>6, <3>8, Placed
  <2>7. CASE ~(tags["latest"] = l.v /\ Max(Existing) # l.v)
    <3>1. UNCHANGED tags /\ Then(p, l, <<"refresh">>)
      BY <2>1, <2>2, <2>7 DEF MoveLatest, Continue
    <3>2. Shapes'
      BY <1>1, <2>1, <3>1 DEF Shapes
    <3> QED BY <2>3, <2>4, <2>5, <3>1, <3>2, ThenRefreshes
  <2> QED BY <2>6, <2>7
<1> QED BY <1>1, <1>2, <1>3, TurnEnds

\* The blank document that an unpublished package has.
LEMMA UnpublishedIs ==
  /\ UnpublishedInfo \in Documents /\ UnpublishedInfo.versions = None /\ UnpublishedInfo.people = {}
BY DEF UnpublishedInfo, Document, Documents

LEMMA BlankFullOrderly ==
  ASSUME IInv, Orderly, NEW p \in Proc, BlankFull(p)
  PROVE  Orderly'
<1>1. Step(p, "blankFull") /\ past' = past /\ UNCHANGED <<pkg, rows, tags, people, file, abbr>>
  BY DEF BlankFull
<1>2. Frame(p)
  BY Holds DEF BlankFull, Throw, Continue, Then, Frame
<1>3. ASSUME ~past.disturbed
      PROVE  Shapes' /\ Active(p)' /\ InOrder(p)'
  <2>1. Shapes /\ Rest(p) = <<"blankAbbr">> /\ Docs /\ Knows(p) /\ Existing = {}
    BY <1>1, <1>3, Turn DEF InOrder, AtBlankFull
  <2>2. PICK l : l = at[p]
    OBVIOUS
  <2>3. PICK run : run = Rest(p)
    OBVIOUS
  <2>4. full' = UnpublishedInfo /\ Then(p, l, run)
    BY <2>1, <2>2, <2>3 DEF BlankFull, Continue, Knows
  <2>5. DOMAIN l = DOMAIN Nothing /\ run # <<>> /\ Head(run) = "blankAbbr" /\ Tail(run) = <<>>
    BY <2>1, <2>2, <2>3, Holds
  <2>6. Step(p, Head(run))' /\ Rest(p)' = Tail(run) /\ at'[p].ent = l.ent
    BY <2>4, <2>5, TakesUp
  <2>7. AtBlankAbbr(p)'
    BY <1>1, <2>1, <2>2, <2>4, <2>5, <2>6, UnpublishedIs DEF AtBlankAbbr, Docs, Knows, Existing, Owned
  <2>8. Shapes'
    BY <1>1, <2>1 DEF Shapes
  <2> QED BY <2>5, <2>6, <2>7, <2>8, Placed
<1> QED BY <1>1, <1>2, <1>3, TurnEnds

LEMMA BlankAbbrOrderly ==
  ASSUME IInv, Orderly, NEW p \in Proc, BlankAbbr(p)
  PROVE  Orderly'
<1>1. Step(p, "blankAbbr") /\ past' = past /\ UNCHANGED <<pkg, rows, tags, people, file, full>>
  BY DEF BlankAbbr
<1>2. Frame(p)
  BY Holds DEF BlankAbbr, Throw, Continue, Then, Frame
<1>3. ASSUME ~past.disturbed
      PROVE  Shapes' /\ at'[p] = Nothing /\ Settled'
  <2>1. Shapes /\ Rest(p) = <<>> /\ Docs /\ Knows(p) /\ Existing = {} /\ full.versions = None /\ Owned
    BY <1>1, <1>3, Turn DEF InOrder, AtBlankAbbr
  <2>2. abbr' = UnpublishedInfo /\ Then(p, at[p], <<>>)
    BY <2>1 DEF BlankAbbr, Continue, Knows
  <2>3. at'[p] = Nothing
    BY <2>2, IsOver
  <2>4. Existing' = {} /\ Docs' /\ Owned'
    BY <1>1, <2>1, <2>2, UnpublishedIs DEF Existing, Docs, Owned
  <2>5. Settled'
    BY <1>1, <2>1, <2>2, <2>4, UnpublishedIs DEF Settled, WholeBut, Written, Says, Lists, Tagged, Docs
  <2>6. Shapes'
    BY <1>1, <2>1 DEF Shapes
  <2> QED BY <2>3, <2>5, <2>6
<1> QED BY <1>1, <1>2, <1>3, TurnEnds

\* The version that is deprecated keeps its files, changed.
LEMMA DeprecatesOne ==
  ASSUME IInv, NEW v \in Existing, NEW which \in {"man", "abb"}, NEW flag \in BOOLEAN, file[v][which] # None,
         file' = [file EXCEPT ![v][which].deprecated = flag], UNCHANGED rows
  PROVE  /\ \A w \in Version \ {v} : file'[w] = file[w]
         /\ \A other \in {"man", "abb"} : other # which => file'[v][other] = file[v][other]
         /\ file'[v][which] # None
<1>1. file \in [Version -> [tar : Nat \cup {None}, man : Metas \cup {None}, abb : Metas \cup {None}]]
      /\ v \in Version
  BY DEF IInv, Kinds, StoreKinds, Existing
<1>2. PICK meta \in Metas : meta = file[v][which]
  BY <1>1
<1>3. PICK new : new = [meta EXCEPT !.deprecated = flag]
  OBVIOUS
<1>4. new \in Metas
  BY <1>2, <1>3 DEF Metas
<1>5. new # None
  BY <1>4, PackageAssumption DEF Metas
<1>6. file' = [file EXCEPT ![v] = [@ EXCEPT ![which] = new]]
  BY <1>1, <1>2, <1>3
<1> QED BY <1>1, <1>5, <1>6

LEMMA DeprecateFullOrderly ==
  ASSUME IInv, Orderly, NEW p \in Proc, DeprecateFull(p)
  PROVE  Orderly'
<1>1. Step(p, "depMan") /\ past' = past /\ UNCHANGED <<pkg, rows, tags, people, full, abbr>>
  BY DEF DeprecateFull
<1>2. Frame(p)
  BY Holds DEF DeprecateFull, Throw, Continue, Then, Frame
<1>3. ASSUME ~past.disturbed
      PROVE  Shapes' /\ Active(p)' /\ InOrder(p)'
  <2>1. /\ Shapes /\ at[p].todo \subseteq Version /\ ToRefresh(p) /\ Knows(p) /\ WholeBut({}) /\ Written(Due(p)) /\ Owned
    BY <1>1, <1>3, Turn DEF InOrder, AtDepMan
  <2>2. Shapes'
    BY <1>1, <2>1 DEF Shapes
  <2>3. PICK l : l = at[p]
    OBVIOUS
  <2>4. l.run = <<"depMan", "depAbb", "refresh">> /\ DOMAIN l = DOMAIN Nothing /\ l.ent = [full |-> TRUE, abbr |-> TRUE]
    BY <1>1, <2>1, <2>3, AtOther, Holds DEF Knows
  <2>5. PICK rest : rest = Rest(p)
    OBVIOUS
  <2>6. rest = <<"depAbb", "refresh">>
    <3>1. at[p].run = <<"depMan", "depAbb", "refresh">>
      BY <2>3, <2>4
    <3> QED BY <2>5, <3>1 DEF Rest
  <2>7. CASE l.todo = {}
    <3>1. Tail(rest) = <<"refresh">>
      BY <2>6
    <3>2. Then(p, l, <<"refresh">>) /\ UNCHANGED file
      BY <2>3, <2>5, <2>7, <3>1 DEF DeprecateFull
    <3>3. (Written(l.upd \cup l.rem) /\ Owned /\ WholeBut({}))'
      BY <1>1, <2>1, <2>3, <3>2 DEF WholeBut, Whole, Written, Docs, Says, Lists, Existing, Owned, Due
    <3>4. (l.upd \subseteq Existing /\ l.rem \subseteq Version \ Existing)'
      BY <1>1, <2>1, <2>3 DEF ToRefresh, Existing
    <3> QED BY <2>2, <2>4, <3>2, <3>3, <3>4, ThenRefreshes
  <2>8. CASE l.todo # {}
    <3>1. PICK v \in l.todo : v = Min(l.todo)
      BY <2>1, <2>3, <2>8, MinIs, PackageAssumption
    <3>2. v \in Version
      BY <2>1, <2>3
    <3>3. CASE rows[v] = None
      <4>1. PICK m : m = [l EXCEPT !.todo = @ \ {v}]
        OBVIOUS
      <4>2. /\ DOMAIN m = DOMAIN Nothing /\ m.run = l.run /\ m.todo = l.todo \ {v} /\ m.upd = l.upd /\ m.rem = l.rem
            /\ m.ent = l.ent
        BY <2>4, <4>1, NoCall
      <4>3. PICK run : run = l.run
        OBVIOUS
      <4>4. Then(p, m, run) /\ UNCHANGED file
        BY <2>3, <2>8, <3>1, <3>3, <4>1, <4>2, <4>3 DEF DeprecateFull
      <4>5. run # <<>> /\ Head(run) = "depMan"
        BY <2>4, <4>3
      <4>6. /\ Step(p, Head(run))' /\ at'[p].todo = m.todo /\ at'[p].upd = m.upd /\ at'[p].rem = m.rem
            /\ at'[p].ent = m.ent
        BY <4>2, <4>4, <4>5, TakesUp
      <4>7. Due(p)' = Due(p) /\ ToRefresh(p)' /\ Knows(p)'
        BY <1>1, <2>1, <2>3, <4>2, <4>6 DEF Due, ToRefresh, Existing, Knows
      <4>8. (WholeBut({}) /\ Written(Due(p)) /\ Owned)'
        BY <1>1, <2>1, <4>4, <4>7 DEF WholeBut, Whole, Written, Docs, Says, Lists, Existing, Owned
      <4>9. AtDepMan(p)'
        BY <2>1, <2>3, <4>2, <4>6, <4>7, <4>8 DEF AtDepMan
      <4> QED BY <2>2, <4>5, <4>6, <4>9, Placed
    <3>4. CASE rows[v] # None
      <4>1. v \in Existing /\ file[v].man # None
        BY <2>1, <3>2, <3>4 DEF Existing, WholeBut, Whole
      <4>2. file' = [file EXCEPT ![v].man.deprecated = l.flag] /\ Then(p, l, rest)
        BY <2>3, <2>5, <2>8, <3>1, <3>4, <4>1 DEF DeprecateFull, Continue
      <4>3. rest # <<>> /\ Head(rest) = "depAbb"
        BY <2>6
      <4>4. /\ Step(p, Head(rest))' /\ at'[p].todo = l.todo /\ at'[p].upd = l.upd /\ at'[p].rem = l.rem
            /\ at'[p].ent = l.ent
        BY <2>4, <4>2, <4>3, TakesUp
      <4>5. /\ \A w \in Version \ {v} : file'[w] = file[w]
            /\ file'[v].abb = file[v].abb /\ file'[v].man # None
        <5>1. file' = [file EXCEPT ![v]["man"].deprecated = l.flag] /\ l.flag \in BOOLEAN
          BY <2>3, <4>2, Holds DEF CallKind
        <5> QED BY <1>1, <4>1, <5>1, DeprecatesOne
      <4>6. Existing' = Existing /\ WholeBut({})'
        BY <1>1, <2>1, <4>1, <4>5 DEF Existing, WholeBut, Whole
      <4>7. Due(p)' = Due(p) /\ ToRefresh(p)' /\ Knows(p)'
        BY <2>1, <2>3, <4>4, <4>6 DEF Due, ToRefresh, Knows
      <4>8. (Written(Due(p) \cup {v}) /\ Owned)'
        <5>1. Says(full, "man", Due(p) \cup {v})' /\ Says(abbr, "abb", Due(p) \cup {v})'
          <6>1. Says(full, "man", Due(p)) /\ Says(abbr, "abb", Due(p))
            BY <2>1 DEF Written
          <6>2. \A w \in Version \ {v} : rows'[w] = rows[w] /\ file'[w] = file[w]
            BY <1>1, <4>5
          <6> QED BY <1>1, <4>6, <4>7, <6>1, <6>2, SaysBesides
        <5> QED BY <1>1, <2>1, <5>1 DEF Written, Docs, Owned
      <4>9. AtDepAbb(p)'
        <5>1. Min(at[p].todo)' = v
          BY <2>3, <3>1, <4>4
        <5>2. at'[p].todo \subseteq Version /\ at'[p].todo # {} /\ v \in Existing'
          BY <2>1, <2>3, <2>8, <4>1, <4>4, <4>6
        <5> QED BY <4>6, <4>7, <4>8, <5>1, <5>2 DEF AtDepAbb
      <4> QED BY <2>2, <4>3, <4>4, <4>9, Placed
    <3> QED BY <3>3, <3>4
  <2> QED BY <2>7, <2>8
<1> QED BY <1>1, <1>2, <1>3, TurnEnds

LEMMA DeprecateAbbrOrderly ==
  ASSUME IInv, Orderly, NEW p \in Proc, DeprecateAbbr(p)
  PROVE  Orderly'
<1>1. Step(p, "depAbb") /\ past' = past /\ UNCHANGED <<pkg, rows, tags, people, full, abbr>>
  BY DEF DeprecateAbbr
<1>2. Frame(p)
  BY Holds DEF DeprecateAbbr, Throw, Continue, Then, Frame
<1>3. ASSUME ~past.disturbed
      PROVE  Shapes' /\ Active(p)' /\ InOrder(p)'
  <2>1. Shapes /\ AtDepAbb(p)
    BY <1>1, <1>3, Turn DEF InOrder
  <2>2. Shapes'
    BY <1>1, <2>1 DEF Shapes
  <2>3. PICK l : l = at[p]
    OBVIOUS
  <2>4. PICK v : v = Min(l.todo)
    OBVIOUS
  <2>5. /\ l.todo \subseteq Version /\ v \in Existing /\ ToRefresh(p) /\ Knows(p) /\ WholeBut({})
        /\ Written(Due(p) \cup {v}) /\ Owned
    BY <2>1, <2>3, <2>4 DEF AtDepAbb
  <2>6. l.run = <<"depAbb", "refresh">> /\ DOMAIN l = DOMAIN Nothing
    BY <1>1, <2>3, AtOther, Holds
  <2>7. file[v].abb # None
    BY <2>5 DEF WholeBut, Whole
  <2>8. PICK m : m = [l EXCEPT !.todo = @ \ {v}, !.upd = @ \cup {v}]
    OBVIOUS
  <2>9. /\ DOMAIN m = DOMAIN Nothing /\ m.todo = l.todo \ {v} /\ m.upd = l.upd \cup {v} /\ m.rem = l.rem
        /\ m.ent = l.ent
    BY <2>6, <2>8, NoCall
  <2>10. PICK run : run = <<"depMan", "depAbb", "refresh">>
    OBVIOUS
  <2>11. Then(p, m, run) /\ file' = [file EXCEPT ![v].abb.deprecated = l.flag]
    <3>1. <<"depMan">> \o l.run = run
      BY <2>6, <2>10, JoinedThree
    <3> QED BY <2>3, <2>4, <2>7, <2>8, <3>1 DEF DeprecateAbbr
  <2>12. run # <<>> /\ Head(run) = "depMan"
    BY <2>10
  <2>13. /\ Step(p, Head(run))' /\ at'[p].todo = m.todo /\ at'[p].upd = m.upd /\ at'[p].rem = m.rem
         /\ at'[p].ent = m.ent
    BY <2>9, <2>11, <2>12, TakesUp
  <2>14. /\ \A w \in Version \ {v} : file'[w] = file[w]
         /\ file'[v].man = file[v].man /\ file'[v].abb # None
    <3>1. file' = [file EXCEPT ![v]["abb"].deprecated = l.flag] /\ l.flag \in BOOLEAN
      BY <2>3, <2>11, Holds DEF CallKind
    <3> QED BY <1>1, <2>5, <2>7, <3>1, DeprecatesOne
  <2>15. Existing' = Existing /\ WholeBut({})'
    BY <1>1, <2>5, <2>14 DEF Existing, WholeBut, Whole
  <2>16. Due(p)' = Due(p) \cup {v} /\ ToRefresh(p)' /\ Knows(p)'
    BY <2>3, <2>5, <2>9, <2>13, <2>15 DEF Due, ToRefresh, Knows
  <2>17. (Written(Due(p)) /\ Owned)'
    <3>1. Says(full, "man", Due(p))' /\ Says(abbr, "abb", Due(p))'
      <4>1. Says(full, "man", Due(p) \cup {v}) /\ Says(abbr, "abb", Due(p) \cup {v})
        BY <2>5 DEF Written
      <4>2. \A w \in Version \ {v} : rows'[w] = rows[w] /\ file'[w] = file[w]
        BY <1>1, <2>14
      <4>3. PICK due : due = Due(p) \cup {v}
        OBVIOUS
      <4>4. due \cup {v} = due
        BY <4>3
      <4>5. Says(full, "man", due) /\ Says(abbr, "abb", due) /\ (Existing # {} => Existing' # {})
        BY <2>15, <4>1, <4>3
      <4>6. Says(full, "man", due \cup {v})' /\ Says(abbr, "abb", due \cup {v})'
        BY <1>1, <4>2, <4>5, SaysBesides
      <4>7. Says(full, "man", due)' /\ Says(abbr, "abb", due)'
        BY <4>4, <4>6
      <4>8. due = Due(p)'
        BY <2>16, <4>3
      <4> QED BY <4>7, <4>8
    <3> QED BY <1>1, <2>5, <3>1 DEF Written, Docs, Owned
  <2>18. AtDepMan(p)'
    BY <2>5, <2>9, <2>13, <2>15, <2>16, <2>17 DEF AtDepMan
  <2> QED BY <2>2, <2>12, <2>13, <2>18, Placed
<1> QED BY <1>1, <1>2, <1>3, TurnEnds

-----------------------------------------------------------------------------
(* Removals *)

LEMMA CheckNamesOrderly ==
  ASSUME IInv, Orderly, NEW p \in Proc, CheckNames(p)
  PROVE  Orderly'
<1>1. Step(p, "names") /\ past' = past /\ UNCHANGED store
  BY DEF CheckNames
<1>2. at[p].run = <<"names", "files", "deleteRow", "latest", "refresh">>
  BY <1>1, AtOther, Holds
<1>3. PICK rest : rest = Rest(p)
  OBVIOUS
<1>4. rest = <<"files", "deleteRow", "latest", "refresh">>
  BY <1>2, <1>3 DEF Rest
<1>5. PICK l : l = at[p]
  OBVIOUS
<1>6. DOMAIN l = DOMAIN Nothing
  BY <1>5, Holds
<1>7. CASE Existing = {l.v}
  <2>1. PICK run : run = <<"list", "blankFull", "blankAbbr">>
    OBVIOUS
  <2>2. Caller(rest) = <<>>
    BY <1>4, FromNothing DEF Removals
  <2>3. Then(p, l, run)
    <3>1. run \o <<>> = run
      BY <2>1
    <3> QED BY <1>3, <1>5, <1>7, <2>1, <2>2, <3>1 DEF CheckNames
  <2>4. run # <<>> /\ Head(run) = "list"
    BY <2>1
  <2>5. Frame(p) /\ Step(p, Head(run))' /\ at'[p].ent = l.ent
    BY <1>6, <2>3, <2>4, TakesUp
  <2>6. ASSUME ~past.disturbed
        PROVE  Shapes' /\ Active(p)' /\ InOrder(p)'
    <3>1. Shapes /\ Ready(p)
      BY <1>1, <2>6, Turn DEF InOrder, AtNames
    <3>2. Shapes' /\ Ready(p)'
      BY <1>1, <1>5, <2>5, <3>1, SettledStays DEF Ready, Knows, store
    <3> QED BY <2>4, <2>5, <3>2, Placed
  <2> QED BY <1>1, <2>5, <2>6, TurnEnds
<1>8. CASE Existing # {l.v}
  <2>1. Then(p, l, rest)
    BY <1>3, <1>5, <1>8 DEF CheckNames, Continue
  <2>2. rest # <<>> /\ Head(rest) = "files"
    BY <1>4
  <2>3. /\ Frame(p) /\ at'[p].run = rest /\ Step(p, Head(rest))' /\ at'[p].v = l.v /\ at'[p].todo = l.todo
        /\ at'[p].upd = l.upd /\ at'[p].rem = l.rem /\ at'[p].ent = l.ent
    BY <1>6, <2>1, <2>2, TakesUp
  <2>4. ASSUME ~past.disturbed
        PROVE  Shapes' /\ Active(p)' /\ InOrder(p)'
    <3>1. Shapes /\ Ready(p) /\ RemovesOne(p)
      BY <1>1, <2>4, Turn DEF InOrder, AtNames
    <3>2. Shapes' /\ Ready(p)'
      BY <1>1, <1>5, <2>3, <3>1, SettledStays DEF Ready, Knows, store
    <3>3. RemovesOne(p)' /\ Existing' # {at'[p].v}
      BY <1>1, <1>5, <1>8, <2>3, <3>1 DEF RemovesOne, Existing, store
    <3>4. AtFiles(p)'
      BY <1>4, <2>3, <3>2, <3>3 DEF AtFiles
    <3> QED BY <2>2, <2>3, <3>2, <3>4, Placed
  <2> QED BY <1>1, <2>3, <2>4, TurnEnds
<1> QED BY <1>7, <1>8

LEMMA ListVersionsOrderly ==
  ASSUME IInv, Orderly, NEW p \in Proc, ListVersions(p)
  PROVE  Orderly'
<1>1. Step(p, "list") /\ past' = past /\ UNCHANGED store
  BY DEF ListVersions
<1>2. at[p].run = <<"list", "blankFull", "blankAbbr">>
  BY <1>1, AtOther, Holds
<1>3. PICK l : l = at[p]
  OBVIOUS
<1>4. DOMAIN l = DOMAIN Nothing
  BY <1>3, Holds
<1>5. CASE Existing = {}
  <2>1. Then(p, l, <<>>)
    BY <1>2, <1>3, <1>5, FromNothing DEF ListVersions, Return, Removals
  <2>2. Frame(p) /\ at'[p] = Nothing
    BY <2>1, IsOver
  <2>3. ASSUME ~past.disturbed
        PROVE  Shapes' /\ Settled'
    BY <1>1, <2>3, Turn, SettledStays DEF InOrder, Ready
  <2> QED BY <1>1, <2>2, <2>3, TurnEnds
<1>6. CASE Existing # {}
  <2>1. PICK m : m = [l EXCEPT !.todo = {<<v, rows[v]>> : v \in Existing}]
    OBVIOUS
  <2>2. DOMAIN m = DOMAIN Nothing /\ m.todo = {<<v, rows[v]>> : v \in Existing} /\ m.ent = l.ent
    BY <1>4, <2>1, NoCall
  <2>3. PICK run : run = <<"files", "deleteRow", "blankFull", "blankAbbr">>
    OBVIOUS
  <2>4. Then(p, m, run)
    <3>1. Rest(p) = <<"blankFull", "blankAbbr">>
      BY <1>2 DEF Rest
    <3>2. <<"files", "deleteRow">> \o Rest(p) = run
      BY <2>3, <3>1, JoinedFour
    <3> QED BY <1>3, <1>6, <2>1, <3>2 DEF ListVersions
  <2>5. run # <<>> /\ Head(run) = "files" /\ run # <<"files", "deleteRow", "latest", "refresh">>
    BY <2>3
  <2>6. Frame(p) /\ at'[p].run = run /\ Step(p, Head(run))' /\ at'[p].todo = m.todo /\ at'[p].ent = m.ent
    BY <2>2, <2>4, <2>5, TakesUp
  <2>7. ASSUME ~past.disturbed
        PROVE  Shapes' /\ Active(p)' /\ InOrder(p)'
    <3>1. Shapes /\ Ready(p)
      BY <1>1, <2>7, Turn DEF InOrder
    <3>2. Shapes' /\ Knows(p)' /\ Docs'
      BY <1>1, <1>3, <2>2, <2>6, <3>1, SettledStays DEF Ready, Knows, Settled, Written, Docs, store
    <3>3. RemovesAll(p)'
      BY <1>1, <1>6, <2>2, <2>6, <3>2 DEF RemovesAll, Existing, store
    <3>4. AtFiles(p)'
      BY <2>5, <2>6, <3>3 DEF AtFiles
    <3> QED BY <2>5, <2>6, <3>2, <3>4, Placed
  <2> QED BY <1>1, <2>6, <2>7, TurnEnds
<1> QED BY <1>5, <1>6

\* A removal takes the versions that are left one at a time.
LEMMA TargetAmong ==
  ASSUME NEW p, at[p].todo # {}, \A x \in at[p].todo : \E v \in Existing : x = <<v, rows[v]>>
  PROVE  Target(p) \in at[p].todo
<1> DEFINE numbers == {x[1] : x \in at[p].todo}
<1>1. numbers \subseteq Version /\ numbers # {}
  BY DEF Existing
<1>2. \E n \in numbers : \A m \in numbers : n >= m
  <2> HIDE DEF numbers
  <2>1. numbers \in SUBSET Nat /\ IsFiniteSet(numbers)
    BY <1>1, PackageAssumption, FS_Subset
  <2> QED BY <1>1, <2>1, LastExists
<1>3. \E x \in at[p].todo : \A y \in at[p].todo : x[1] >= y[1]
  BY <1>2
<1> QED BY <1>3 DEF Target

LEMMA DestroyFilesOrderly ==
  ASSUME IInv, Orderly, NEW p \in Proc, DestroyFiles(p)
  PROVE  Orderly'
<1>1. /\ Step(p, "files") /\ UNCHANGED <<pkg, rows, tags, people, full, abbr>>
      /\ file' = [file EXCEPT ![Target(p)[1]] = NoFiles] /\ past' = [past EXCEPT !.removed = @ \cup {Target(p)}]
  BY DEF DestroyFiles
<1>2. past'.disturbed = past.disturbed
  BY <1>1 DEF IInv, Kinds, StoreKinds
<1>3. at[p].run \in {<<"files", "deleteRow", "latest", "refresh">>, <<"files", "deleteRow", "blankFull", "blankAbbr">>}
  BY <1>1, AtOther, Holds
<1>4. PICK l : l = at[p]
  OBVIOUS
<1>5. PICK rest : rest = Rest(p)
  OBVIOUS
<1>6. /\ at[p].run = <<"files", "deleteRow", "latest", "refresh">> => rest = <<"deleteRow", "latest", "refresh">>
      /\ at[p].run = <<"files", "deleteRow", "blankFull", "blankAbbr">> => rest = <<"deleteRow", "blankFull", "blankAbbr">>
  <2>1. Tail(<<"files", "deleteRow", "latest", "refresh">>) = <<"deleteRow", "latest", "refresh">>
    OBVIOUS
  <2>2. Tail(<<"files", "deleteRow", "blankFull", "blankAbbr">>) = <<"deleteRow", "blankFull", "blankAbbr">>
    OBVIOUS
  <2>3. rest = Tail(at[p].run)
    BY <1>5 DEF Rest
  <2> QED BY <2>1, <2>2, <2>3
<1>7. rest # <<>> /\ Head(rest) = "deleteRow"
  <2>1. CASE rest = <<"deleteRow", "latest", "refresh">>
    BY <2>1
  <2>2. CASE rest = <<"deleteRow", "blankFull", "blankAbbr">>
    BY <2>2
  <2> QED BY <1>3, <1>6, <2>1, <2>2
<1>8. Then(p, l, rest) /\ DOMAIN l = DOMAIN Nothing
  BY <1>4, <1>5, Holds DEF DestroyFiles, Continue
<1>9. /\ Frame(p) /\ at'[p].run = rest /\ Step(p, Head(rest))' /\ at'[p].v = l.v /\ at'[p].todo = l.todo
      /\ at'[p].upd = l.upd /\ at'[p].rem = l.rem /\ at'[p].ent = l.ent
  BY <1>7, <1>8, TakesUp
<1>10. ASSUME ~past.disturbed
       PROVE  Shapes' /\ Active(p)' /\ InOrder(p)'
  <2>1. Shapes /\ AtFiles(p)
    BY <1>1, <1>10, Turn DEF InOrder
  <2>2. Shapes'
    BY <1>1, <2>1 DEF Shapes
  <2>3. Existing' = Existing
    BY <1>1 DEF Existing
  <2>4. CASE at[p].run = <<"files", "deleteRow", "latest", "refresh">>
    <3>1. Ready(p) /\ RemovesOne(p) /\ Existing # {at[p].v}
      BY <2>1, <2>4 DEF AtFiles
    <3>2. PICK v \in Existing : v = l.v
      BY <1>4, <3>1 DEF RemovesOne
    <3>3. Target(p) = <<v, rows[v]>>
      <4>1. at[p].todo = {<<v, rows[v]>>}
        BY <1>4, <3>1, <3>2 DEF RemovesOne
      <4>2. Target(p) \in at[p].todo
        BY <3>2, <4>1, TargetAmong
      <4> QED BY <4>1, <4>2
    <3>4. \A w \in Version \ {v} : file'[w] = file[w]
      <4>1. DOMAIN file = Version
        BY DEF IInv, Kinds, StoreKinds
      <4>2. Target(p)[1] = v
        BY <3>3
      <4> QED BY <1>1, <4>1, <4>2
    <3>5. RemovesOne(p)' /\ Existing' # {at'[p].v} /\ Knows(p)'
      BY <1>1, <1>4, <1>9, <2>3, <3>1 DEF RemovesOne, Ready, Knows
    <3>6. Written({v})' /\ Owned' /\ WholeBut({v})'
      <4>1. Docs /\ Says(full, "man", {}) /\ Says(abbr, "abb", {}) /\ Owned /\ WholeBut({})
        BY <3>1 DEF Ready, Settled, Written
      <4>2. Says(full, "man", {} \cup {v})' /\ Says(abbr, "abb", {} \cup {v})'
        BY <1>1, <2>3, <3>4, <4>1, SaysBesides
      <4>3. WholeBut({v})'
        BY <1>1, <2>3, <3>4, <4>1 DEF WholeBut, Whole, Existing
      <4> QED BY <1>1, <4>1, <4>2, <4>3 DEF Written, Docs, Owned
    <3>7. at'[p].v = v /\ at'[p].run = <<"deleteRow", "latest", "refresh">>
      BY <1>6, <1>9, <2>4, <3>2
    <3>8. AtDeleteRow(p)'
      BY <3>5, <3>6, <3>7 DEF AtDeleteRow
    <3> QED BY <1>7, <1>9, <2>2, <3>8, Placed
  <2>5. CASE at[p].run # <<"files", "deleteRow", "latest", "refresh">>
    <3>1. RemovesAll(p)
      BY <2>1, <2>5 DEF AtFiles
    <3>2. RemovesAll(p)'
      BY <1>1, <1>4, <1>9, <2>3, <3>1 DEF RemovesAll, Docs, Knows
    <3>3. at'[p].run # <<"deleteRow", "latest", "refresh">>
      <4>1. at'[p].run = <<"deleteRow", "blankFull", "blankAbbr">>
        BY <1>3, <1>6, <1>9, <2>5
      <4> QED BY <4>1
    <3>4. AtDeleteRow(p)'
      BY <3>2, <3>3 DEF AtDeleteRow
    <3> QED BY <1>7, <1>9, <2>2, <3>4, Placed
  <2> QED BY <2>4, <2>5
<1> QED BY <1>1, <1>2, <1>9, <1>10, TurnEnds

\* Without the row the documents are stale by this version and no other.
LEMMA RemoveRowOrderly ==
  ASSUME IInv, Orderly, NEW p \in Proc, RemoveRow(p)
  PROVE  Orderly'
<1>1. Step(p, "deleteRow") /\ past' = past /\ UNCHANGED <<pkg, tags, people, file, full, abbr>>
  BY DEF RemoveRow
<1>2. Frame(p)
  BY Holds DEF RemoveRow, Then, Frame
<1>3. ASSUME ~past.disturbed
      PROVE  Shapes' /\ Active(p)' /\ InOrder(p)'
  <2>1. Shapes /\ AtDeleteRow(p) /\ rows \in [Version -> Nat \cup {None}]
    BY <1>1, <1>3, Turn DEF InOrder
  <2>2. Shapes'
    BY <1>1, <2>1 DEF Shapes
  <2>3. PICK l : l = at[p]
    OBVIOUS
  <2>4. PICK x : x = Target(p)
    OBVIOUS
  <2>5. PICK left : left = l.todo \ {x}
    OBVIOUS
  <2>6. PICK m : m = [l EXCEPT !.todo = left]
    OBVIOUS
  <2>7. /\ DOMAIN m = DOMAIN Nothing /\ m.v = l.v /\ m.todo = left /\ m.upd = l.upd /\ m.rem = l.rem
        /\ m.ent = l.ent
    BY <2>3, <2>6, Holds, NoCall
  <2>8. PICK rest : rest = Rest(p)
    OBVIOUS
  <2>9. /\ rows' = IF rows[x[1]] = x[2] THEN [rows EXCEPT ![x[1]] = None] ELSE rows
        /\ Then(p, m, (IF left = {} THEN <<>> ELSE <<"files", "deleteRow">>) \o rest)
    BY <2>3, <2>4, <2>5, <2>6, <2>8 DEF RemoveRow
  <2>10. CASE at[p].run = <<"deleteRow", "latest", "refresh">>
    <3>1. /\ RemovesOne(p) /\ Existing # {at[p].v} /\ Knows(p)
          /\ Written({at[p].v}) /\ Owned /\ WholeBut({at[p].v})
      BY <2>1, <2>10 DEF AtDeleteRow
    <3>2. PICK v \in Existing : v = l.v
      BY <2>3, <3>1 DEF RemovesOne
    <3>3. at[p].todo = {<<v, rows[v]>>} /\ at[p].upd = {} /\ at[p].rem = {v}
      BY <2>3, <3>1, <3>2 DEF RemovesOne
    <3>4. Target(p) \in at[p].todo
      BY <3>2, <3>3, TargetAmong
    <3>5. x = <<v, rows[v]>> /\ left = {} /\ v \in Version
      BY <2>3, <2>4, <2>5, <3>2, <3>3, <3>4 DEF Existing
    <3>6. rows'[v] = None /\ \A w \in Version \ {v} : rows'[w] = rows[w]
      <4>1. x[1] = v /\ x[2] = rows[v]
        BY <3>5
      <4>2. rows' = [rows EXCEPT ![v] = None]
        BY <2>9, <4>1
      <4> QED BY <2>1, <3>5, <4>2
    <3>7. Existing' = Existing \ {v} /\ Existing' # {}
      BY <2>3, <3>1, <3>2, <3>6 DEF Existing
    <3>8. PICK run : run = <<"latest", "refresh">>
      OBVIOUS
    <3>9. Then(p, m, run) /\ run # <<>> /\ Head(run) = "latest" /\ Tail(run) = <<"refresh">>
      <4>1. rest = <<"latest", "refresh">>
        BY <2>8, <2>10 DEF Rest
      <4>2. <<>> \o rest = run
        BY <3>8, <4>1
      <4>3. Then(p, m, run)
        BY <2>9, <3>5, <4>2
      <4> QED BY <3>8, <4>3
    <3>10. /\ Step(p, Head(run))' /\ Rest(p)' = Tail(run) /\ at'[p].v = m.v /\ at'[p].todo = m.todo
           /\ at'[p].upd = m.upd /\ at'[p].rem = m.rem /\ at'[p].ent = m.ent
      BY <2>7, <3>9, TakesUp
    <3>11. at'[p].upd = {} /\ at'[p].rem = {v} /\ Due(p)' = {v} /\ ToRefresh(p)' /\ Knows(p)'
      BY <2>3, <2>7, <3>1, <3>3, <3>5, <3>7, <3>10 DEF Due, ToRefresh, Knows
    <3>12. Follows(p, Rest(p))' /\ WholeBut({})'
      <4>1. WholeBut({})'
        BY <1>1, <2>3, <3>1, <3>2, <3>7 DEF WholeBut, Whole
      <4>2. pkg'.exists
        BY <1>1, <3>1 DEF Written, Docs
      <4>3. <<"refresh">> \in Ends /\ <<"refresh">> \notin {<<"tags">>, <<"tags", "unlock">>}
        <5>1. <<"refresh">> # <<"tags">> /\ <<"refresh">> # <<"tags", "unlock">>
          OBVIOUS
        <5> QED BY <5>1 DEF Ends
      <4> QED BY <3>9, <3>10, <3>11, <4>1, <4>2, <4>3 DEF Follows
    <3>13. Written(Due(p))' /\ Owned'
      <4>1. Docs /\ Says(full, "man", {v}) /\ Says(abbr, "abb", {v})
        BY <2>3, <3>1, <3>2 DEF Written
      <4>2. Says(full, "man", {v} \cup {v})' /\ Says(abbr, "abb", {v} \cup {v})'
        BY <1>1, <3>6, <3>7, <4>1, SaysBesides
      <4>3. {v} \cup {v} = {v}
        OBVIOUS
      <4>4. Says(full, "man", {v})' /\ Says(abbr, "abb", {v})'
        BY <4>2, <4>3
      <4> QED BY <1>1, <3>1, <3>11, <4>1, <4>4 DEF Written, Docs, Owned
    <3>14. AtLatest(p)'
      BY <3>7, <3>9, <3>10, <3>11, <3>12, <3>13 DEF AtLatest
    <3> QED BY <2>2, <3>9, <3>10, <3>14, Placed
  <2>11. CASE at[p].run # <<"deleteRow", "latest", "refresh">>
    <3>1. RemovesAll(p)
      BY <2>1, <2>11 DEF AtDeleteRow
    <3>2. Target(p) \in at[p].todo
      BY <3>1, TargetAmong DEF RemovesAll
    <3>3. PICK v \in Existing : x = <<v, rows[v]>>
      BY <2>4, <3>1, <3>2 DEF RemovesAll
    <3>4. rows'[v] = None /\ \A w \in Version \ {v} : rows'[w] = rows[w]
      <4>1. x[1] = v /\ x[2] = rows[v] /\ v \in Version
        BY <3>3 DEF Existing
      <4>2. rows' = [rows EXCEPT ![v] = None]
        BY <2>9, <4>1
      <4> QED BY <2>1, <4>1, <4>2
    <3>5. Existing' = Existing \ {v}
      BY <3>3, <3>4 DEF Existing
    <3>6. left = {<<w, rows'[w]>> : w \in Existing'}
      <4>1. left = {<<w, rows[w]>> : w \in Existing} \ {<<v, rows[v]>>}
        BY <2>3, <2>5, <3>1, <3>3 DEF RemovesAll
      <4>2. \A w \in Existing \ {v} : rows'[w] = rows[w] /\ <<w, rows[w]>> # <<v, rows[v]>>
        BY <3>4 DEF Existing
      <4> QED BY <3>5, <4>1, <4>2
    <3>7. rest = <<"blankFull", "blankAbbr">>
      <4>1. at[p].run = <<"deleteRow", "blankFull", "blankAbbr">>
        BY <1>1, <2>11, AtOther, Holds
      <4> QED BY <2>8, <4>1 DEF Rest
    <3>8. Docs' /\ m.ent = [full |-> TRUE, abbr |-> TRUE]
      BY <1>1, <2>3, <2>7, <3>1 DEF RemovesAll, Docs, Knows
    <3>9. CASE left = {}
      <4>1. Existing' = {}
        BY <3>6, <3>9
      <4>2. PICK run : run = <<"blankFull", "blankAbbr">>
        OBVIOUS
      <4>3. Then(p, m, run) /\ run # <<>> /\ Head(run) = "blankFull" /\ Tail(run) = <<"blankAbbr">>
        <5>1. <<>> \o rest = run
          BY <3>7, <4>2
        <5>2. Then(p, m, run)
          BY <2>9, <3>9, <5>1
        <5> QED BY <4>2, <5>2
      <4>4. Step(p, Head(run))' /\ Rest(p)' = Tail(run) /\ at'[p].ent = m.ent
        BY <2>7, <4>3, TakesUp
      <4>5. AtBlankFull(p)'
        BY <3>8, <4>1, <4>3, <4>4 DEF AtBlankFull, Knows
      <4> QED BY <2>2, <4>3, <4>4, <4>5, Placed
    <3>10. CASE left # {}
      <4>1. PICK run : run = <<"files", "deleteRow", "blankFull", "blankAbbr">>
        OBVIOUS
      <4>2. Then(p, m, run)
        <5>1. <<"files", "deleteRow">> \o rest = run
          BY <3>7, <4>1, JoinedFour
        <5> QED BY <2>9, <3>10, <5>1
      <4>3. run # <<>> /\ Head(run) = "files" /\ run # <<"files", "deleteRow", "latest", "refresh">>
        BY <4>1
      <4>4. Step(p, Head(run))' /\ at'[p].run = run /\ at'[p].todo = m.todo /\ at'[p].ent = m.ent
        BY <2>7, <4>2, <4>3, TakesUp
      <4>5. RemovesAll(p)'
        BY <2>7, <3>6, <3>8, <3>10, <4>4 DEF RemovesAll, Knows
      <4>6. AtFiles(p)'
        BY <4>3, <4>4, <4>5 DEF AtFiles
      <4> QED BY <2>2, <4>3, <4>4, <4>6, Placed
    <3> QED BY <3>9, <3>10
  <2> QED BY <2>10, <2>11
<1> QED BY <1>1, <1>2, <1>3, TurnEnds

-----------------------------------------------------------------------------
(* Requests *)

\* A call that begins to write while nothing is disturbed finds the package settled.
LEMMA BeginsSettled ==
  ASSUME IInv, Orderly, NEW p \in Proc, NEW op, NEW l, Begin(p, op, l), NEW run, l.run = run, run # <<>>,
         Head(run) # "lock"
  PROVE  /\ Frame(p) /\ at'[p] = l /\ UNCHANGED store /\ Active(p)' /\ Step(p, Head(run))' /\ Rest(p)' = Tail(run)
         /\ ~past'.disturbed => /\ ~past.disturbed /\ \A q \in Proc \ {p} : ~Active(q)
                                /\ Shapes /\ Settled /\ Shapes' /\ Settled'
                                /\ pkg.exists => Entity = [full |-> TRUE, abbr |-> TRUE]
                                /\ Existing # {} => pkg.exists
<1>1. Frame(p) /\ at'[p] = l /\ UNCHANGED store /\ ~Running(p) /\ Enter(p)
  BY Holds DEF Begin, Frame
<1>2. Active(p)' /\ Step(p, Head(run))' /\ Rest(p)' = Tail(run)
  BY <1>1 DEF Active, Running, Waiting, Step, Rest
<1>3. ASSUME ~past'.disturbed
      PROVE  /\ ~past.disturbed /\ \A q \in Proc \ {p} : ~Active(q)
             /\ Shapes /\ Settled /\ Shapes' /\ Settled'
             /\ pkg.exists => Entity = [full |-> TRUE, abbr |-> TRUE]
             /\ Existing # {} => pkg.exists
  <2>1. ~past.disturbed /\ \A q \in Proc \ {p} : ~Active(q)
    BY <1>1, <1>3, EntersAlone
  <2>2. ~Active(p)
    BY <1>1 DEF Active
  <2>3. Shapes /\ Settled
    BY <2>1, <2>2 DEF Orderly, OneAtATime
  <2>4. Shapes' /\ Settled'
    BY <1>1, <2>3, SettledStays
  <2>5. pkg.exists => Entity = [full |-> TRUE, abbr |-> TRUE]
    BY <2>3 DEF Settled, Written, Docs, Entity, Shapes
  <2>6. Existing # {} => pkg.exists
    BY <2>3 DEF Settled
  <2> QED BY <2>1, <2>3, <2>4, <2>5, <2>6
<1> QED BY <1>1, <1>2, <1>3

\* ... and is in order.
LEMMA BeginsInOrder ==
  ASSUME IInv, Orderly, NEW p \in Proc, NEW op, NEW l, Begin(p, op, l), NEW run, l.run = run, run # <<>>,
         Head(run) # "lock", ~past'.disturbed => InOrder(p)'
  PROVE  Orderly'
<1>1. Frame(p) /\ Active(p)'
  BY BeginsSettled
<1>2. ~past'.disturbed => ~past.disturbed /\ (\A q \in Proc \ {p} : ~Active(q)) /\ Shapes'
  BY BeginsSettled
<1> QED BY <1>1, <1>2, OrderlyStep

LEMMA RemoveVersionOrderly ==
  ASSUME IInv, Orderly, NEW p \in Proc, NEW v \in Version, RemoveVersion(p, v)
  PROVE  Orderly'
<1>1. PICK run : run = <<"names", "files", "deleteRow", "latest", "refresh">>
  OBVIOUS
<1>2. PICK l : l = [Nothing EXCEPT !.run = run, !.v = v, !.todo = {<<v, rows[v]>>}, !.rem = {v}, !.ent = Entity]
  OBVIOUS
<1>3. l.run = run /\ l.v = v /\ l.todo = {<<v, rows[v]>>} /\ l.upd = {} /\ l.rem = {v} /\ l.ent = Entity
  BY <1>2 DEF Nothing
<1>4. Begin(p, "remove", l) /\ rows[v] # None
  BY <1>1, <1>2 DEF RemoveVersion
<1>5. run # <<>> /\ Head(run) = "names"
  BY <1>1
<1>6. at'[p] = l /\ UNCHANGED store /\ Step(p, Head(run))'
  BY <1>3, <1>4, <1>5, BeginsSettled
<1>7. ASSUME ~past'.disturbed
      PROVE  InOrder(p)'
  <2>1. v \in Existing /\ pkg.exists /\ Settled' /\ Entity = [full |-> TRUE, abbr |-> TRUE]
    <3>1. v \in Existing
      BY <1>4 DEF Existing
    <3> QED BY <1>3, <1>4, <1>5, <1>7, <3>1, BeginsSettled
  <2>2. Ready(p)'
    BY <1>3, <1>6, <2>1 DEF Ready, Knows, store
  <2>3. RemovesOne(p)'
    BY <1>3, <1>6, <2>1 DEF RemovesOne, Existing, store
  <2> QED BY <1>5, <1>6, <2>2, <2>3, Placed DEF AtNames
<1> QED BY <1>3, <1>4, <1>5, <1>7, BeginsInOrder

LEMMA RemoveByPkgUriOrderly ==
  ASSUME IInv, Orderly, NEW p \in Proc, RemoveByPkgUri(p)
  PROVE  Orderly'
<1>1. CASE tags["latest"] \in Existing
  BY <1>1, RemoveVersionOrderly DEF RemoveByPkgUri, Existing
<1>2. CASE tags["latest"] \notin Existing
  <2>1. PICK run : run = <<"list", "blankFull", "blankAbbr">>
    OBVIOUS
  <2>2. PICK l : l = [Nothing EXCEPT !.run = run, !.ent = Entity]
    OBVIOUS
  <2>3. l.run = run /\ l.ent = Entity
    BY <2>2 DEF Nothing
  <2>4. Begin(p, "remove", l) /\ pkg.exists
    BY <1>2, <2>1, <2>2 DEF RemoveByPkgUri
  <2>5. run # <<>> /\ Head(run) = "list"
    BY <2>1
  <2>6. at'[p] = l /\ UNCHANGED store /\ Step(p, Head(run))'
    BY <2>3, <2>4, <2>5, BeginsSettled
  <2>7. ASSUME ~past'.disturbed
        PROVE  InOrder(p)'
    <3>1. Settled' /\ Entity = [full |-> TRUE, abbr |-> TRUE]
      BY <2>3, <2>4, <2>5, <2>7, BeginsSettled
    <3>2. Ready(p)'
      BY <2>3, <2>4, <2>6, <3>1 DEF Ready, Knows, store
    <3> QED BY <2>5, <2>6, <3>2, Placed
  <2> QED BY <2>3, <2>4, <2>5, <2>7, BeginsInOrder
<1> QED BY <1>1, <1>2

LEMMA SaveTagOrderly ==
  ASSUME IInv, Orderly, NEW p \in Proc, NEW t \in Tag, NEW v \in Version, SaveTag(p, t, v)
  PROVE  Orderly'
<1>1. PICK run : run = <<"tags">>
  OBVIOUS
<1>2. PICK l : l = [Nothing EXCEPT !.run = run, !.v = v, !.todo = {t}, !.ent = Entity]
  OBVIOUS
<1>3. l.run = run /\ l.v = v /\ l.todo = {t} /\ l.ent = Entity
  BY <1>2 DEF Nothing
<1>4. Begin(p, "tag", l) /\ rows[v] # None
  BY <1>1, <1>2 DEF SaveTag
<1>5. run # <<>> /\ Head(run) = "tags" /\ Tail(run) = <<>>
  BY <1>1
<1>6. at'[p] = l /\ UNCHANGED store /\ Step(p, Head(run))' /\ Rest(p)' = Tail(run)
  BY <1>3, <1>4, <1>5, BeginsSettled
<1>7. ASSUME ~past'.disturbed
      PROVE  InOrder(p)'
  <2>1. pkg.exists /\ Settled' /\ Entity = [full |-> TRUE, abbr |-> TRUE]
    <3>1. v \in Existing
      BY <1>4 DEF Existing
    <3> QED BY <1>3, <1>4, <1>5, <1>7, <3>1, BeginsSettled
  <2>2. Ready(p)'
    BY <1>3, <1>6, <2>1 DEF Ready, Knows, store
  <2>3. AtTags(p)'
    BY <1>3, <1>5, <1>6, <2>2 DEF AtTags
  <2> QED BY <1>5, <1>6, <2>3, Placed
<1> QED BY <1>3, <1>4, <1>5, <1>7, BeginsInOrder

LEMMA RemoveTagOrderly ==
  ASSUME IInv, Orderly, NEW p \in Proc, NEW t \in Tag, RemoveTag(p, t)
  PROVE  Orderly'
<1>1. PICK run : run = <<"untag">>
  OBVIOUS
<1>2. PICK l : l = [Nothing EXCEPT !.run = run, !.todo = {t}, !.ent = Entity]
  OBVIOUS
<1>3. l.run = run /\ l.todo = {t} /\ l.ent = Entity
  BY <1>2 DEF Nothing
<1>4. Begin(p, "tag", l) /\ pkg.exists
  BY <1>1, <1>2 DEF RemoveTag
<1>5. run # <<>> /\ Head(run) = "untag" /\ Tail(run) = <<>>
  BY <1>1
<1>6. at'[p] = l /\ UNCHANGED store /\ Step(p, Head(run))' /\ Rest(p)' = Tail(run)
  BY <1>3, <1>4, <1>5, BeginsSettled
<1>7. ASSUME ~past'.disturbed
      PROVE  InOrder(p)'
  <2>1. Settled' /\ Entity = [full |-> TRUE, abbr |-> TRUE]
    BY <1>3, <1>4, <1>5, <1>7, BeginsSettled
  <2>2. Ready(p)'
    BY <1>3, <1>4, <1>6, <2>1 DEF Ready, Knows, store
  <2>3. AtUntag(p)'
    BY <1>3, <1>5, <1>6, <2>2 DEF AtUntag
  <2> QED BY <1>5, <1>6, <2>3, Placed
<1> QED BY <1>3, <1>4, <1>5, <1>7, BeginsInOrder

LEMMA DeprecateOrderly ==
  ASSUME IInv, Orderly, NEW p \in Proc, NEW vs \in SUBSET Version, NEW flag, Deprecate(p, vs, flag)
  PROVE  Orderly'
<1>1. PICK run : run = <<"depMan", "depAbb", "refresh">>
  OBVIOUS
<1>2. PICK l : l = [Nothing EXCEPT !.run = run, !.todo = vs, !.flag = flag, !.ent = Entity]
  OBVIOUS
<1>3. l.run = run /\ l.todo = vs /\ l.upd = {} /\ l.rem = {} /\ l.ent = Entity
  BY <1>2 DEF Nothing
<1>4. Begin(p, "deprecate", l) /\ pkg.exists
  BY <1>1, <1>2 DEF Deprecate
<1>5. run # <<>> /\ Head(run) = "depMan"
  BY <1>1
<1>6. at'[p] = l /\ UNCHANGED store /\ Step(p, Head(run))'
  BY <1>3, <1>4, <1>5, BeginsSettled
<1>7. ASSUME ~past'.disturbed
      PROVE  InOrder(p)'
  <2>1. Settled' /\ Entity = [full |-> TRUE, abbr |-> TRUE]
    BY <1>3, <1>4, <1>5, <1>7, BeginsSettled
  <2>2. pkg'.exists
    BY <1>4, <1>6 DEF store
  <2>3. Due(p)' = {} /\ ToRefresh(p)' /\ Knows(p)' /\ (at[p].todo \subseteq Version)'
    BY <1>3, <1>6, <2>1 DEF Due, ToRefresh, Knows
  <2>4. AtDepMan(p)'
    BY <2>1, <2>2, <2>3 DEF AtDepMan, Settled
  <2> QED BY <1>5, <1>6, <2>4, Placed
<1> QED BY <1>3, <1>4, <1>5, <1>7, BeginsInOrder

LEMMA SetMaintainersOrderly ==
  ASSUME IInv, Orderly, NEW p \in Proc, NEW us \in SUBSET User, SetMaintainers(p, us)
  PROVE  Orderly'
<1>1. PICK run : run = <<"people", "docPeople">>
  OBVIOUS
<1>2. PICK l : l = [Nothing EXCEPT !.run = run, !.todo = us, !.ent = Entity]
  OBVIOUS
<1>3. l.run = run /\ l.todo = us /\ l.ent = Entity
  BY <1>2 DEF Nothing
<1>4. Begin(p, "owner", l) /\ pkg.exists
  BY <1>1, <1>2 DEF SetMaintainers
<1>5. run # <<>> /\ Head(run) = "people" /\ Tail(run) = <<"docPeople">>
  BY <1>1
<1>6. at'[p] = l /\ UNCHANGED store /\ Step(p, Head(run))' /\ Rest(p)' = Tail(run)
  BY <1>3, <1>4, <1>5, BeginsSettled
<1>7. ASSUME ~past'.disturbed
      PROVE  InOrder(p)'
  <2>1. Settled' /\ Entity = [full |-> TRUE, abbr |-> TRUE]
    BY <1>3, <1>4, <1>5, <1>7, BeginsSettled
  <2>2. Ready(p)'
    BY <1>3, <1>4, <1>6, <2>1 DEF Ready, Knows, store
  <2>3. AtPeople(p)'
    BY <1>3, <1>5, <1>6, <2>2 DEF AtPeople
  <2> QED BY <1>5, <1>6, <2>3, Placed
<1> QED BY <1>3, <1>4, <1>5, <1>7, BeginsInOrder

LEMMA BlockOrderly ==
  ASSUME IInv, Orderly, NEW p \in Proc, NEW flag, Block(p, flag)
  PROVE  Orderly'
<1>1. PICK run : run = <<"block", "docBlock">>
  OBVIOUS
<1>2. PICK l : l = [Nothing EXCEPT !.run = run, !.flag = flag, !.ent = Entity]
  OBVIOUS
<1>3. l.run = run /\ l.ent = Entity
  BY <1>2 DEF Nothing
<1>4. Begin(p, "block", l) /\ pkg.exists
  BY <1>1, <1>2 DEF Block
<1>5. run # <<>> /\ Head(run) = "block" /\ Tail(run) = <<"docBlock">>
  BY <1>1
<1>6. at'[p] = l /\ UNCHANGED store /\ Step(p, Head(run))' /\ Rest(p)' = Tail(run)
  BY <1>3, <1>4, <1>5, BeginsSettled
<1>7. ASSUME ~past'.disturbed
      PROVE  InOrder(p)'
  <2>1. Settled' /\ Entity = [full |-> TRUE, abbr |-> TRUE]
    BY <1>3, <1>4, <1>5, <1>7, BeginsSettled
  <2>2. Ready(p)'
    BY <1>3, <1>4, <1>6, <2>1 DEF Ready, Knows, store
  <2>3. AtBlock(p)'
    BY <1>5, <1>6, <2>2 DEF AtBlock
  <2> QED BY <1>5, <1>6, <2>3, Placed
<1> QED BY <1>3, <1>4, <1>5, <1>7, BeginsInOrder

\* A package that is settled has both documents: there is none to make on a read.
LEMMA ListOrderly ==
  ASSUME IInv, Orderly, NEW p \in Proc, NEW which \in {"full", "abbr"}, List(p, which)
  PROVE  Orderly'
<1>1. PICK run : run = <<which>>
  OBVIOUS
<1>2. PICK l : l = [Nothing EXCEPT !.run = run, !.ent = Entity,
         !.f = IF which = "full" THEN DocOf("man") ELSE None,
         !.a = IF which = "abbr" THEN DocOf("abb") ELSE None]
  OBVIOUS
<1>3. l.run = run
  BY <1>2 DEF Nothing
<1>4. Begin(p, "list", l) /\ pkg.exists /\ ~pkg[which]
  BY <1>1, <1>2 DEF List
<1>5. run # <<>> /\ Head(run) = which
  BY <1>1
<1>6. ASSUME ~past'.disturbed
      PROVE  InOrder(p)'
  <2>1. Settled
    BY <1>3, <1>4, <1>5, <1>6, BeginsSettled
  <2>2. pkg.full /\ pkg.abbr
    BY <1>4, <2>1 DEF Settled, Written, Docs
  <2> QED BY <1>4, <2>2
<1> QED BY <1>3, <1>4, <1>5, <1>6, BeginsInOrder

LEMMA PublishOrderly ==
  ASSUME IInv, Orderly, NEW p \in Proc, NEW u \in User, NEW v \in Version, NEW ts \in SUBSET Tag,
         Publish(p, u, v, ts)
  PROVE  Orderly'
<1>1. PICK run : run = <<"lock", "save", "tar", "manifests", "row", "refresh", "tags", "unlock">>
  OBVIOUS
<1>2. PICK todo : todo = IF tags["latest"] = None THEN ts \cup {"latest"} ELSE ts
  OBVIOUS
<1>3. PICK l : l = [Nothing EXCEPT !.run = run, !.v = v, !.by = u, !.todo = todo]
  OBVIOUS
<1>4. l.run = run /\ l.v = v /\ l.by = u /\ l.todo = todo /\ l.upd = {} /\ l.rem = {}
  BY <1>3 DEF Nothing
<1>5. Begin(p, "publish", l)
  BY <1>1, <1>2, <1>3 DEF Publish
<1>6. run # <<>> /\ Head(run) = "lock"
  BY <1>1
<1>7. Frame(p) /\ at'[p] = l /\ UNCHANGED store /\ ~Running(p) /\ past' = past
  BY <1>4, <1>5, <1>6, Holds DEF Begin, Frame
<1>8. ~Active(p) /\ ~Active(p)'
  BY <1>4, <1>6, <1>7 DEF Active, Waiting, Running
<1>9. Asks(p)'
  BY <1>2, <1>4, <1>7, PackageAssumption DEF Asks
<1> QED BY <1>7, <1>8, <1>9, AsideStep

-----------------------------------------------------------------------------
(* Every step *)

\* The lock alone, or nothing, changes.
LEMMA OrderlyStays ==
  ASSUME Orderly, UNCHANGED store, at' = at, past'.disturbed = past.disturbed
  PROVE  Orderly'
<1> SUFFICES ASSUME ~past'.disturbed PROVE OneAtATime'
  BY DEF Orderly
<1>1. OneAtATime
  BY DEF Orderly
<1>2. Shapes' /\ (Settled => Settled')
  BY <1>1, SettledStays DEF OneAtATime
<1>3. ASSUME NEW p \in Proc
      PROVE  (Active(p)' <=> Active(p)) /\ (Waiting(p)' <=> Waiting(p)) /\ (Asks(p)' <=> Asks(p))
             /\ (InOrder(p) => InOrder(p)')
  <2>1. at'[p] = at[p]
    OBVIOUS
  <2>2. InOrder(p) => InOrder(p)'
    BY <2>1, InOrderStays
  <2> QED BY <2>2 DEF Active, Waiting, Running, Asks
<1>4. \A p, q \in Proc : Active(p)' /\ Active(q)' => p = q
  BY <1>1, <1>3 DEF OneAtATime
<1>5. \A p \in Proc : (Active(p)' => InOrder(p)') /\ (Waiting(p)' => Asks(p)')
  BY <1>1, <1>3 DEF OneAtATime
<1>6. (\A p \in Proc : ~Active(p)') => Settled'
  BY <1>1, <1>2, <1>3 DEF OneAtATime
<1> QED BY <1>2, <1>4, <1>5, <1>6 DEF OneAtATime

\* A call that breaks off disturbs, unless it still waited.
LEMMA AbortOrderly ==
  ASSUME IInv, Orderly, NEW p \in Proc, Abort(p)
  PROVE  Orderly'
<1>1. UNCHANGED store /\ DOMAIN past = {"disturbed", "raced", "removed"}
  BY DEF Abort, IInv, Kinds, StoreKinds
<1>2. Frame(p) /\ at'[p] = Nothing
  BY Holds DEF Abort, Frame
<1>3. ~Active(p)' /\ ~Waiting(p)'
  BY <1>2, NoCall DEF Active, Waiting, Running
<1>4. CASE Waiting(p)
  <2>1. past' = past /\ ~Active(p)
    BY <1>4 DEF Abort, Active
  <2> QED BY <1>1, <1>2, <1>3, <2>1, AsideStep
<1>5. CASE ~Waiting(p)
  <2>1. past'.disturbed
    BY <1>1, <1>5 DEF Abort
  <2> QED BY <2>1 DEF Orderly
<1> QED BY <1>4, <1>5

LEMMA LockLapsesOrderly ==
  ASSUME IInv, Orderly, LockLapses
  PROVE  Orderly'
<1>1. UNCHANGED store /\ at' = at /\ past'.disturbed = past.disturbed
  BY DEF LockLapses, IInv, Kinds, StoreKinds
<1> QED BY <1>1, OrderlyStays

\* A package that is not there, or as a synchronisation left it, is in order.
LEMMA InitOrderly ==
  Init => Orderly
<1> SUFFICES ASSUME Init PROVE OneAtATime
  BY DEF Orderly
<1>1. \A p \in Proc : ~Active(p) /\ ~Waiting(p)
  BY NoCall DEF Init, Active, Waiting, Running
<1>2. Shapes /\ Settled
  <2>1. CASE Fresh
    <3>1. /\ pkg = [exists |-> FALSE, private |-> TRUE, full |-> FALSE, abbr |-> FALSE, blocked |-> FALSE]
          /\ rows = [v \in Version |-> None] /\ tags = [t \in Tag |-> None] /\ people = {}
          /\ full = None /\ abbr = None
      BY <2>1 DEF Fresh
    <3>2. Shapes /\ Existing = {} /\ ~pkg.exists /\ NoDocs
      BY <3>1 DEF Shapes, Existing, NoDocs
    <3> QED BY <3>2 DEF Settled, WholeBut
  <2>2. CASE Synced
    <3>1. PICK n \in Latest, u \in User :
            LET has(v) == v <= n
                latest == [t \in Tag |-> IF t = "latest" THEN n ELSE None]
                metas == [v \in Version |-> IF has(v) THEN Meta(v) ELSE None]
            IN /\ pkg = [exists |-> TRUE, private |-> FALSE, full |-> TRUE, abbr |-> TRUE, blocked |-> FALSE]
               /\ rows = [v \in Version |-> IF has(v) THEN v ELSE None]
               /\ tags = latest /\ people = {u}
               /\ file = [v \in Version |-> IF has(v) THEN [tar |-> v, man |-> Meta(v), abb |-> Meta(v)] ELSE NoFiles]
               /\ full = Document(metas, latest, {u})
               /\ abbr = Document(metas, latest, {})
      BY <2>2 DEF Synced
    <3>2. n \in Version /\ n \in Nat /\ Version \subseteq Nat /\ None \notin Version
      BY <3>1, PackageAssumption
    <3>5. PICK metas : metas = [v \in Version |-> IF v <= n THEN Meta(v) ELSE None]
      OBVIOUS
    <3>6. \A v \in Version : Meta(v) \in Metas /\ Meta(v) # None
      <4>1. \A v \in Version : Meta(v) \in Metas
        BY <3>2 DEF Meta, Metas
      <4>2. None \notin Metas
        BY PackageAssumption DEF Metas
      <4> QED BY <4>1, <4>2
    <3>7. metas \in Listings
      <4>1. \A v \in Version : (IF v <= n THEN Meta(v) ELSE None) \in Metas \cup {None}
        BY <3>6
      <4> QED BY <3>5, <4>1 DEF Listings
    <3>8. metas # None
      BY <3>7, ObjectAssumption
    <3>16. /\ rows = [v \in Version |-> IF v <= n THEN v ELSE None]
           /\ tags = [t \in Tag |-> IF t = "latest" THEN n ELSE None]
           /\ people = {u}
           /\ pkg = [exists |-> TRUE, private |-> FALSE, full |-> TRUE, abbr |-> TRUE, blocked |-> FALSE]
      BY <3>1
    <3>17. \A v \in Version : /\ rows[v] = (IF v <= n THEN v ELSE None)
                             /\ file[v] = IF v <= n THEN [tar |-> v, man |-> Meta(v), abb |-> Meta(v)] ELSE NoFiles
      BY <3>1
    <3>3. Shapes
      <4>1. tags \in [Tag -> Version \cup {None}]
        BY <3>2, <3>16
      <4>2. \A v \in Version : rows[v] \in Version \cup {None}
        BY <3>2, <3>17
      <4>3. people \in SUBSET User
        BY <3>1, <3>16
      <4> QED BY <3>2, <3>16, <4>1, <4>2, <4>3 DEF Shapes
    <3>4. Existing = {v \in Version : v <= n} /\ Existing # {}
      <4>1. Existing = {v \in Version : v <= n}
        BY <3>2, <3>17 DEF Existing
      <4>2. n <= n
        BY <3>2
      <4> QED BY <3>2, <4>1, <4>2
    <3>9. /\ full = [versions |-> metas, tags |-> tags, block |-> FALSE, people |-> {u}]
          /\ abbr = [versions |-> metas, tags |-> tags, block |-> FALSE, people |-> {}]
      BY <3>1, <3>5 DEF Document
    <3>10. full \in Documents /\ abbr \in Documents
      <4>1. tags \in [Tag -> Version \cup {None}] /\ {u} \in SUBSET User /\ {} \in SUBSET User
        BY <3>1, <3>3 DEF Shapes
      <4> QED BY <3>7, <3>9, <4>1 DEF Documents
    <3>11. \A v \in Version : /\ metas[v] = IF rows[v] # None THEN file[v]["man"] ELSE None
                              /\ metas[v] = IF rows[v] # None THEN file[v]["abb"] ELSE None
      <4>1. ASSUME NEW v \in Version
            PROVE  /\ metas[v] = (IF rows[v] # None THEN file[v]["man"] ELSE None)
                   /\ metas[v] = (IF rows[v] # None THEN file[v]["abb"] ELSE None)
        <5>1. CASE v <= n
          <6>1. PICK meta : meta = Meta(v)
            OBVIOUS
          <6>2. rows[v] = v /\ file[v] = [tar |-> v, man |-> meta, abb |-> meta] /\ metas[v] = meta
            BY <3>5, <3>17, <5>1, <6>1, Zenon
          <6> QED BY <3>2, <6>2
        <5>2. CASE ~(v <= n)
          BY <3>5, <3>17, <5>2
        <5> QED BY <5>1, <5>2
      <4> QED BY <4>1
    <3>12. Lists(metas, "man", {}) /\ Lists(metas, "abb", {})
      BY <3>4, <3>7, <3>8, <3>11 DEF Lists
    <3>13. Written({})
      <4>1. Docs
        BY <3>10, <3>16 DEF Docs
      <4>2. full.versions = metas /\ abbr.versions = metas
        BY <3>9
      <4> QED BY <3>10, <3>12, <4>1, <4>2 DEF Written, Says
    <3>14. Owned /\ Tagged(full) /\ Tagged(abbr) /\ pkg.exists
      BY <3>9, <3>16 DEF Owned, Tagged
    <3>15. WholeBut({})
      <4>1. ASSUME NEW v \in Version, v <= n PROVE Whole(v)
        <5>1. PICK meta : meta = Meta(v)
          OBVIOUS
        <5>2. file[v] = [tar |-> v, man |-> meta, abb |-> meta]
          BY <3>17, <4>1, <5>1, Zenon
        <5> QED BY <3>6, <5>1, <5>2 DEF Whole
      <4> QED BY <3>4, <4>1 DEF WholeBut
    <3> QED BY <3>3, <3>13, <3>14, <3>15 DEF Settled
  <2> QED BY <2>1, <2>2 DEF Init
<1> QED BY <1>1, <1>2 DEF OneAtATime

LEMMA RequestOrderly ==
  ASSUME IInv, Orderly, NEW p \in Proc, Request(p)
  PROVE  Orderly'
<1>1. CASE \E u \in User, v \in Version, ts \in SUBSET Tag \ {{}} : MayPublish(u) /\ Publish(p, u, v, ts)
  BY <1>1, PublishOrderly
<1>2. CASE (\E v \in Version : RemoveVersion(p, v)) \/ RemoveByPkgUri(p)
  BY <1>2, RemoveVersionOrderly, RemoveByPkgUriOrderly
<1>3. CASE (\E v \in Version, t \in Tag : SaveTag(p, t, v)) \/ \E t \in Tag : RemoveTag(p, t)
  BY <1>3, SaveTagOrderly, RemoveTagOrderly
<1>4. CASE \E vs \in SUBSET Version \ {{}}, flag \in BOOLEAN : Deprecate(p, vs, flag)
  BY <1>4, DeprecateOrderly
<1>5. CASE (\E us \in SUBSET User \ {{}} : SetMaintainers(p, us)) \/ \E flag \in BOOLEAN : Block(p, flag)
  BY <1>5, SetMaintainersOrderly, BlockOrderly
<1>6. CASE \E which \in {"full", "abbr"} : List(p, which)
  BY <1>6, ListOrderly
<1> QED BY <1>1, <1>2, <1>3, <1>4, <1>5, <1>6 DEF Request

LEMMA NextOrderly ==
  IInv /\ Orderly /\ [Next]_vars => Orderly'
<1> SUFFICES ASSUME IInv, Orderly, [Next]_vars PROVE Orderly'
  OBVIOUS
<1>1. ASSUME NEW p \in Proc, Request(p)
      PROVE  Orderly'
  BY <1>1, RequestOrderly
<1>2. ASSUME NEW p \in Proc, Write(p)
      PROVE  Orderly'
  <2>1. CASE Refresh(p) \/ RefreshTags(p) \/ RefreshPeople(p) \/ SetDistTags(p) \/ WriteFull(p) \/ WriteAbbr(p)
    BY <2>1, RefreshOrderly, RefreshTagsOrderly, RefreshPeopleOrderly, SetDistTagsOrderly, WriteFullOrderly,
       WriteAbbrOrderly
  <2>2. CASE AcquireLock(p) \/ ReleaseLock(p) \/ SavePackage(p) \/ UploadTar(p) \/ UploadManifests(p)
             \/ CreateVersion(p) \/ SaveTags(p)
    BY <2>2, AcquireLockOrderly, ReleaseLockOrderly, SavePackageOrderly, UploadTarOrderly, UploadManifestsOrderly,
       CreateVersionOrderly, SaveTagsOrderly
  <2>3. CASE CheckNames(p) \/ ListVersions(p) \/ DestroyFiles(p) \/ RemoveRow(p) \/ MoveLatest(p)
             \/ BlankFull(p) \/ BlankAbbr(p)
    BY <2>3, CheckNamesOrderly, ListVersionsOrderly, DestroyFilesOrderly, RemoveRowOrderly, MoveLatestOrderly,
       BlankFullOrderly, BlankAbbrOrderly
  <2>4. CASE DeleteTag(p) \/ DeprecateFull(p) \/ DeprecateAbbr(p) \/ ReplacePeople(p) \/ SaveBlock(p)
             \/ RefreshBlock(p)
    BY <2>4, DeleteTagOrderly, DeprecateFullOrderly, DeprecateAbbrOrderly, ReplacePeopleOrderly, SaveBlockOrderly,
       RefreshBlockOrderly
  <2> QED BY <1>2, <2>1, <2>2, <2>3, <2>4 DEF Write
<1>3. ASSUME NEW p \in Proc, Abort(p)
      PROVE  Orderly'
  BY <1>3, AbortOrderly
<1>4. CASE LockLapses
  BY <1>4, LockLapsesOrderly
<1>5. CASE UNCHANGED vars
  <2>1. UNCHANGED store /\ at' = at /\ past' = past
    BY <1>5 DEF vars
  <2> QED BY <2>1, OrderlyStays
<1> QED BY <1>1, <1>2, <1>3, <1>4, <1>5 DEF Next

\* Between calls in order the documents agree.
LEMMA SettledAgrees ==
  Orderly => DocumentsAgree
<1> SUFFICES ASSUME Orderly, Idle, ~past.disturbed, pkg.exists
             PROVE  IF Existing = {} THEN ~HasVersions(full) /\ ~HasVersions(abbr)
                    ELSE /\ full # None => /\ full.versions = DocOf("man").versions /\ full.tags = tags
                                           /\ full.people \subseteq people
                         /\ abbr # None => abbr.versions = DocOf("abb").versions /\ abbr.tags = tags
                         /\ (full = None) = (abbr = None)
  BY DEF DocumentsAgree
<1>1. Settled
  BY DEF Orderly, OneAtATime, Idle, Active
<1>2. /\ full \in Documents /\ Lists(full.versions, "man", {}) /\ full.people \subseteq people /\ Tagged(full)
      /\ abbr \in Documents /\ Lists(abbr.versions, "abb", {}) /\ Tagged(abbr)
  BY <1>1 DEF Settled, Written, Says, Owned
<1>3. CASE Existing = {}
  BY <1>2, <1>3 DEF Lists, HasVersions
<1>4. CASE Existing # {}
  <2>1. ASSUME NEW doc, NEW which \in {"man", "abb"}, Lists(doc.versions, which, {})
        PROVE  doc.versions = DocOf(which).versions
    <3>1. doc.versions # None
      BY <1>4, <2>1 DEF Lists
    <3>2. /\ doc.versions \in Listings
          /\ \A v \in Version : doc.versions[v] = IF rows[v] # None THEN file[v][which] ELSE None
      BY <2>1, <3>1 DEF Lists
    <3>3. DocOf(which).versions = [v \in Version |-> IF rows[v] # None THEN file[v][which] ELSE None]
      BY DEF DocOf, Document
    <3> QED BY <3>2, <3>3 DEF Listings
  <2>2. full # None /\ abbr # None
    BY <1>2, ObjectAssumption
  <2> QED BY <1>2, <1>4, <2>1, <2>2 DEF Tagged
<1> QED BY <1>3, <1>4

\* With calls one after the other, and none broken off, what the registry
\* serves of a package between them is what its rows, tags and files say,
\* whatever calls came before and however they were refused
\* (PackageManagerService, refreshPackageChangeVersionsToDists and
\* _refreshPackageManifestRootAttributeOnlyToDists after publish, unpublish,
\* tags, deprecation, maintainers and blocks).
THEOREM DocumentsDoAgree ==
  Spec => []DocumentsAgree
<1>1. Init => IInv /\ Orderly
  BY InitHolds, InitOrderly
<1>2. IInv /\ Orderly /\ [Next]_vars => (IInv /\ Orderly)'
  BY NextHolds, NextOrderly
<1>3. IInv /\ Orderly => DocumentsAgree
  BY SettledAgrees
<1> QED BY <1>1, <1>2, <1>3, PTL DEF Spec

=============================================================================
