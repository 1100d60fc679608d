------------------------- MODULE ChangesStreamProofs -------------------------
(***************************************************************************)
(* Theorems of ChangesStream, for every number of executors, registries,   *)
(* scopes and packages: a package keeps the registry it was given, and     *)
(* every package is followed in exactly one registry.                      *)
(*                                                                         *)
(* The inductive invariant Inv is the conjunction of those at the end of   *)
(* ChangesStream.  Most actions are of one executor and leave registries   *)
(* and scopes alone: Frame shows once that they preserve Inv, from what    *)
(* they do to the streams (RowsKeep) and to the executor (Goes).           *)
(***************************************************************************)
EXTENDS ChangesStream, WellFoundedInduction, FiniteSetTheorems, TLAPS

Inv ==
  /\ RowsKnown /\ Shapes /\ StreamsKnown
  /\ SeenFits /\ OwnersFollowed /\ ScopesFollowed

-----------------------------------------------------------------------------
(* What a step keeps *)

\* Streams stay as started as they were; only those wait or are executed.
RowsKeep ==
  /\ DOMAIN row' = Registry /\ queue' \subseteq Registry
  /\ \A r \in Registry :
       /\ DOMAIN row'[r] = DOMAIN NoStream
       /\ row'[r].started = row[r].started
       /\ row'[r].registry \in {r, None}
       /\ row[r].started /\ row'[r].registry = None => r = Default
       /\ row'[r].processing \/ r \in queue' => row[r].started

\* Nothing happened that the properties except.
PastKeeps ==
  /\ DOMAIN past' = DOMAIN past
  /\ past'.removed = past.removed
  /\ past'.stripped = past.stripped /\ past'.orphaned = past.orphaned

\* Only executor e does something.
Only(e) ==
  /\ DOMAIN ex' = Executor /\ DOMAIN ex'[e] = DOMAIN Idle
  /\ \A f \in Executor \ {e} : ex'[f] = ex[f]

\* It rests, or executes a stream that was started.
Goes(e) ==
  \/ ex'[e].step = "idle"
  \/ /\ ex'[e].step = "prepare" /\ ex'[e].t \in Registry /\ row[ex'[e].t].started
     /\ ex'[e].registry \in {ex'[e].t, None}
     /\ ex'[e].registry = None => ex'[e].t = Default
  \/ /\ ex'[e].step \in {"fetch", "change", "create", "save"}
     /\ ex'[e].t \in Registry /\ row[ex'[e].t].started /\ ex'[e].registry = ex'[e].t

\* All executors that do something do that.
Moves ==
  /\ DOMAIN ex' = Executor
  /\ \A f \in Executor : ex'[f] = ex[f] \/ (DOMAIN ex'[f] = DOMAIN Idle /\ Goes(f))

\* A sync is asked for, if at all, for a stream that was started.
SyncsKeep ==
  /\ syncs' \in [Package -> Registry \cup {None, Absent}]
  /\ \A k \in Package : syncs'[k] \notin {None, Absent} => row[syncs'[k]].started

\* The default registry may appear, as nothing but itself.
LEMMA DefaultAppears ==
  ASSUME StreamAssumption, Inv,
         exists' \in {exists, exists \cup {Default}}, past'.removed = past.removed
  PROVE  /\ exists' \subseteq Registry /\ exists \subseteq exists'
         /\ exists' \cap past'.removed = {}
BY DEF StreamAssumption, Inv, RowsKnown

LEMMA Frame ==
  ASSUME StreamAssumption, Inv, RowsKeep, PastKeeps, Moves, SyncsKeep,
         exists' \in {exists, exists \cup {Default}},
         UNCHANGED <<scopes, home, admin>>
  PROVE  Inv'
<1>1. /\ exists' \subseteq Registry /\ exists \subseteq exists'
      /\ exists' \cap past'.removed = {}
  BY DefaultAppears DEF PastKeeps
<1>2. \A r : r \in Registry => row'[r].started = row[r].started
  BY DEF RowsKeep
<1>3. RowsKnown'
  <2>1. \A k \in Package : syncs'[k] \notin {None, Absent} => row'[syncs'[k]].started
    BY <1>2 DEF SyncsKeep
  <2>2. \A a \in admin : \/ a.op = "scope" /\ a.s \in Scope /\ a.r \in Registry
                         \/ a.op = "remove" /\ a.r \in past'.removed
    BY DEF Inv, RowsKnown, PastKeeps
  <2>3. \A r \in Registry :
       /\ row'[r].started \in BOOLEAN
       /\ row'[r].registry \in {r, None}
       /\ row'[r].started /\ row'[r].registry = None => r = Default
       /\ row'[r].processing \/ r \in queue' => row'[r].started
    BY DEF RowsKeep, Inv, RowsKnown
  <2> QED BY <1>1, <2>1, <2>2, <2>3 DEF RowsKnown, Inv, PastKeeps, SyncsKeep
<1>4. Shapes'
  BY DEF Inv, Shapes, RowsKeep, PastKeeps, Moves
<1>5. StreamsKnown'
  <2> SUFFICES ASSUME NEW f \in Executor
               PROVE  /\ Executing(f)' \/ ex'[f].step \in {"idle", "adopt", "publish"}
                      /\ Executing(f)' =>
                           /\ ex'[f].t \in Registry /\ row'[ex'[f].t].started
                           /\ ex'[f].registry \in {ex'[f].t, None}
                           /\ ex'[f].registry = None => ex'[f].step = "prepare" /\ ex'[f].t = Default
    BY DEF StreamsKnown
  <2>1. CASE Goes(f)
    BY <2>1, <1>2 DEF Goes, Executing, StreamAssumption
  <2>2. CASE ex'[f] = ex[f]
    BY <2>2, <1>2 DEF Inv, StreamsKnown, Executing
  <2> QED BY <2>1, <2>2 DEF Moves
<1>6. \A f \in Executor : ex'[f].step \in {"adopt", "publish"} => ex'[f] = ex[f]
  BY DEF Moves, Goes
<1>7. SeenFits'
  BY <1>6 DEF Inv, SeenFits
<1>8. \A r : Owned(r) /\ r \in Registry \cup {Self} => Owned(r)'
  BY <1>2 DEF Owned, Followed, ScopesOf, PastKeeps
<1>9. OwnersFollowed'
  <2>1. ASSUME NEW k \in Package, home[k] \notin {Absent, None}
        PROVE  Owned(home[k])'
    <3>1. PICK r \in Registry \cup {Self} : r = home[k]
      BY <2>1 DEF Inv, RowsKnown
    <3>2. Owned(r)'
      BY <2>1, <3>1, <1>8 DEF Inv, OwnersFollowed
    <3> QED BY <3>1, <3>2
  <2>2. ASSUME NEW f \in Executor, ex'[f].step \in {"adopt", "publish"}
        PROVE  Owned(ex[f].registry)'
    <3>1. PICK r \in Registry \cup {Self} : r = ex[f].registry
      BY <2>2, <1>6 DEF Inv, SeenFits
    <3>2. Owned(r)' /\ r = ex'[f].registry
      BY <2>2, <3>1, <1>6, <1>8 DEF Inv, OwnersFollowed
    <3> QED BY <3>2
  <2> QED BY <2>1, <2>2 DEF OwnersFollowed
<1>10. ScopesFollowed'
  BY <1>1, <1>2 DEF Inv, ScopesFollowed, PastKeeps, ScopesOf
<1> QED BY <1>3, <1>4, <1>5, <1>7, <1>9, <1>10 DEF Inv

LEMMA Onward ==
  ASSUME StreamAssumption, Inv, NEW e \in Executor,
         RowsKeep, PastKeeps, Only(e), Goes(e), SyncsKeep,
         exists' \in {exists, exists \cup {Default}},
         UNCHANGED <<scopes, home, admin>>
  PROVE  Inv'
<1>1. Moves
  BY DEF Only, Moves
<1> QED BY <1>1, Frame

LEMMA AllRest ==
  ASSUME Inv, UNCHANGED ex
  PROVE  Moves
BY DEF Inv, Shapes, Moves

-----------------------------------------------------------------------------
(* What the steps of an executor do *)

LEMMA StreamHas ==
  ASSUME StreamAssumption, Inv, NEW e \in Executor, Executing(e),
         ex[e].registry # None \/ ex[e].step # "prepare"
  PROVE  ex[e].t \in Registry /\ row[ex[e].t].started /\ ex[e].registry = ex[e].t
BY DEF Inv, StreamsKnown

LEMMA RowsStay ==
  ASSUME Inv, UNCHANGED <<row, queue>>
  PROVE  RowsKeep
BY DEF Inv, Shapes, RowsKnown, RowsKeep

LEMMA SyncsStay ==
  ASSUME Inv, UNCHANGED syncs
  PROVE  SyncsKeep
BY DEF Inv, RowsKnown, SyncsKeep

LEMMA PastStays ==
  ASSUME UNCHANGED past
  PROVE  PastKeeps
BY DEF PastKeeps

\* Notes and first positions are not what the invariant speaks of.
LEMMA PastNotes ==
  ASSUME Inv, NEW field \in {"handled", "failed", "late", "first"}, NEW value,
         past' = [past EXCEPT ![field] = value]
  PROVE  PastKeeps
BY DEF Inv, Shapes, PastKeeps

LEMMA SaveKeeps ==
  ASSUME StreamAssumption, Inv, NEW e \in Executor, NEW since,
         ex[e].t \in Registry, row[ex[e].t].started, ex[e].registry = ex[e].t,
         Save(e, since), UNCHANGED queue
  PROVE  RowsKeep
<1> DEFINE copy == [started |-> TRUE, processing |-> TRUE,
                    registry |-> ex[e].registry, since |-> since]
<1>1. row' = [row EXCEPT ![ex[e].t] = copy]
  BY DEF Save, Saved
<1>2. DOMAIN copy = DOMAIN NoStream
  BY DEF NoStream
<1>3. copy.started = TRUE /\ copy.registry = ex[e].t
  OBVIOUS
<1> HIDE DEF copy
<1>4. DOMAIN row' = Registry /\ queue' \subseteq Registry
  BY <1>1 DEF Inv, Shapes
<1>5. ASSUME NEW r \in Registry
      PROVE  /\ DOMAIN row'[r] = DOMAIN NoStream
             /\ row'[r].started = row[r].started
             /\ row'[r].registry \in {r, None}
             /\ row[r].started /\ row'[r].registry = None => r = Default
             /\ row'[r].processing \/ r \in queue' => row[r].started
  <2>1. CASE r = ex[e].t
    <3>1. row'[r] = copy
      BY <1>1, <2>1 DEF Inv, Shapes
    <3>2. row[r].started = TRUE
      BY <2>1 DEF Inv, RowsKnown
    <3> QED BY <3>1, <3>2, <2>1, <1>2, <1>3 DEF StreamAssumption
  <2>2. CASE r # ex[e].t
    BY <2>2, <1>1 DEF Inv, Shapes, RowsKnown
  <2> QED BY <2>1, <2>2
<1> QED BY <1>4, <1>5 DEF RowsKeep

\* The copy is saved, and all rows that are executed are suspended.
Throwing(t, copy, rows) ==
  /\ rows = [row EXCEPT ![t] = copy]
  /\ row' = [r \in Registry |-> [rows[r] EXCEPT !.processing = FALSE]]
  /\ queue' = queue \cup {r \in Registry : rows[r].processing}

LEMMA ThrowSaves ==
  ASSUME NEW e \in Executor, NEW t, t = ex[e].t, Throws(e),
         NEW copy, copy = [started |-> TRUE, processing |-> TRUE,
                           registry |-> ex[e].registry, since |-> ex[e].copy]
  PROVE  \E rows : Throwing(t, copy, rows)
<1>1. PICK rows : /\ rows = Saved(e, ex[e].copy)
                  /\ row' = [r \in Registry |-> [rows[r] EXCEPT !.processing = FALSE]]
                  /\ queue' = queue \cup {r \in Registry : rows[r].processing}
  BY DEF Throws, Suspends, Suspended
<1>2. Saved(e, ex[e].copy) = [row EXCEPT ![t] = copy]
  BY DEF Saved
<1> QED BY <1>1, <1>2 DEF Throwing

\* Whatever copy is saved before, all wait then.
LEMMA SuspendKeeps ==
  ASSUME Inv, NEW t \in Registry, row[t].started,
         NEW copy, NEW rows, Throwing(t, copy, rows),
         DOMAIN copy = DOMAIN NoStream, copy.started = TRUE,
         copy.registry \in {t, None}, copy.registry = None => t = Default
  PROVE  RowsKeep
<1>1. rows = [row EXCEPT ![t] = copy]
  BY DEF Throwing
<1>2. ASSUME NEW r \in Registry
      PROVE  /\ DOMAIN rows[r] = DOMAIN NoStream
             /\ rows[r].started = row[r].started
             /\ rows[r].registry \in {r, None}
             /\ row[r].started /\ rows[r].registry = None => r = Default
             /\ rows[r].processing => row[r].started
  <2>1. CASE r = t
    <3>1. rows[r] = copy /\ row[r].started = TRUE
      BY <1>1, <2>1 DEF Inv, Shapes, RowsKnown
    <3> QED BY <2>1, <3>1
  <2>2. CASE r # t
    BY <1>1, <2>2 DEF Inv, Shapes, RowsKnown
  <2> QED BY <2>1, <2>2
<1>3. /\ row' = [r \in Registry |-> [rows[r] EXCEPT !.processing = FALSE]]
      /\ queue' = queue \cup {r \in Registry : rows[r].processing}
  BY DEF Throwing
<1>4. \A r \in Registry : /\ DOMAIN row'[r] = DOMAIN NoStream
                          /\ row'[r].started = row[r].started
                          /\ row'[r].registry = rows[r].registry
                          /\ ~row'[r].processing
  BY <1>2, <1>3 DEF NoStream
<1>5. DOMAIN row' = Registry /\ queue' \subseteq Registry
  BY <1>3 DEF Inv, Shapes
<1>6. \A r \in Registry : r \in queue' => row[r].started
  BY <1>2, <1>3 DEF Inv, RowsKnown
<1> QED BY <1>2, <1>4, <1>5, <1>6 DEF RowsKeep

LEMMA NoteKeeps ==
  ASSUME Inv, NEW e \in Executor, NEW how \in {"handled", "failed"}, past' = Note(e, how)
  PROVE  PastKeeps
<1>1. PICK value : past' = [past EXCEPT ![how] = value]
  BY DEF Note
<1> QED BY <1>1, PastNotes

LEMMA NextChangeGoes ==
  ASSUME StreamAssumption, Inv, NEW e \in Executor, ex[e].step \in {"change", "create"},
         NEW label \in {"change", "save"}, NEW updated, NextChange(e, label, updated)
  PROVE  /\ Only(e) /\ Goes(e)
         /\ ex[e].t \in Registry /\ row[ex[e].t].started /\ ex[e].registry = ex[e].t
<1>1. ex[e].t \in Registry /\ row[ex[e].t].started /\ ex[e].registry = ex[e].t
  BY StreamHas DEF Executing
<1>0. PICK seq, rest, copy :
        /\ seq = Current(e).seq /\ rest = ex[e].page \ {At(e)}
        /\ copy = IF updated THEN seq ELSE ex[e].copy
  OBVIOUS
<1>2. ex' = [ex EXCEPT ![e].step = label, ![e].last = seq, ![e].page = rest, ![e].copy = copy]
  BY <1>0 DEF NextChange
<1>3. /\ DOMAIN ex' = Executor /\ \A f \in Executor \ {e} : ex'[f] = ex[f]
      /\ ex'[e] = [[[[ex[e] EXCEPT !.step = label] EXCEPT !.last = seq] EXCEPT !.page = rest]
                     EXCEPT !.copy = copy]
  BY <1>2 DEF Inv, Shapes
<1>4. /\ DOMAIN ex'[e] = DOMAIN Idle /\ ex'[e].step = label
      /\ ex'[e].t = ex[e].t /\ ex'[e].registry = ex[e].registry
  BY <1>3 DEF Inv, Shapes, Idle
<1> QED BY <1>1, <1>3, <1>4 DEF Only, Goes

LEMMA Rests ==
  ASSUME Inv, NEW e \in Executor, ex' = [ex EXCEPT ![e] = Idle]
  PROVE  Only(e) /\ Goes(e)
<1>1. ex'[e] = Idle
  BY DEF Inv, Shapes
<1> QED BY <1>1 DEF Inv, Shapes, Only, Goes, Idle

LEMMA StreamSteps ==
  ASSUME StreamAssumption, Inv, NEW e \in Executor,
         Stream(e) \/ CreateFails(e) \/ Die(e) \/ NothingNew(e)
  PROVE  Inv'
<1>1. CASE PrepareDefault(e)
  <2>1. /\ ex[e].step = "prepare" /\ ex[e].t = Default /\ row[Default].started
        /\ ex' = [ex EXCEPT ![e].registry = Default]
    BY <1>1 DEF PrepareDefault, Step, Inv, StreamsKnown, Executing
  <2>2. Only(e) /\ Goes(e)
    BY <2>1 DEF Only, Goes, Inv, Shapes, Idle, StreamAssumption
  <2>3. PICK since : row' = [row EXCEPT ![Default].registry = Default, ![Default].processing = TRUE,
                                        ![Default].since = since]
    BY <1>1, <2>1 DEF PrepareDefault
  <2>4. RowsKeep
    BY <1>1, <2>1, <2>3 DEF PrepareDefault, RowsKeep, Inv, Shapes, RowsKnown, NoStream, StreamAssumption
  <2> QED BY <1>1, <2>2, <2>4, Onward, SyncsStay, PastStays DEF PrepareDefault
<1>2. CASE Prepare(e)
  <2>1. ex[e].step = "prepare" /\ ex[e].registry # None
    BY <1>2 DEF Prepare, Step, StreamAssumption, Inv, RowsKnown
  <2>2. ex[e].t \in Registry /\ row[ex[e].t].started /\ ex[e].registry = ex[e].t
    BY <2>1, StreamHas DEF Executing
  <2>3. PICK since : ex' = [ex EXCEPT ![e].step = "fetch", ![e].since = since]
    BY <1>2 DEF Prepare
  <2>4. Only(e) /\ Goes(e)
    BY <2>2, <2>3 DEF Only, Goes, Inv, Shapes, Idle
  <2>5. PastKeeps
    <3>1. CASE UNCHANGED past
      BY <3>1, PastStays
    <3>2. CASE ~UNCHANGED past
      <4>1. PICK value : past' = [past EXCEPT !["first"] = value]
        BY <1>2, <3>2 DEF Prepare
      <4> QED BY <4>1, PastNotes
    <3> QED BY <3>1, <3>2
  <2> QED BY <1>2, <2>4, <2>5, Onward, SyncsStay, RowsStay DEF Prepare, rowsVars, taskVars
<1>3. CASE Fetch(e)
  <2>1. ex[e].t \in Registry /\ row[ex[e].t].started /\ ex[e].registry = ex[e].t
    BY <1>3, StreamHas DEF Fetch, Step, Executing
  <2>2. PICK page, last : ex' = [ex EXCEPT ![e].step = "change", ![e].page = page,
                                          ![e].last = last, ![e].asked = FALSE]
    BY <1>3 DEF Fetch
  <2>3. Only(e) /\ Goes(e)
    BY <2>1, <2>2 DEF Only, Goes, Inv, Shapes, Idle
  <2> QED BY <1>3, <2>3, Onward, SyncsStay, RowsStay, PastStays DEF Fetch, rowsVars, taskVars
<1>4. CASE Pass(e)
  <2>1. /\ Only(e) /\ Goes(e)
        /\ ex[e].t \in Registry /\ row[ex[e].t].started /\ ex[e].registry = ex[e].t
    BY <1>4, NextChangeGoes DEF Pass, Step
  <2>2. RowsKeep
    BY <1>4, <2>1, SaveKeeps DEF Pass
  <2>3. PastKeeps
    BY <1>4, NoteKeeps DEF Pass
  <2> QED BY <1>4, <2>1, <2>2, <2>3, Onward, SyncsStay DEF Pass, rowsVars
<1>5. CASE Consider(e)
  <2>1. ex[e].t \in Registry /\ row[ex[e].t].started /\ ex[e].registry = ex[e].t
    BY <1>5, StreamHas DEF Consider, Need, Step, Executing
  <2>2. ex' = [ex EXCEPT ![e].step = "create", ![e].asked = TRUE]
    BY <1>5 DEF Consider, Need
  <2>3. Only(e) /\ Goes(e)
    BY <2>1, <2>2 DEF Only, Goes, Inv, Shapes, Idle
  <2> QED BY <1>5, <2>3, Onward, SyncsStay, RowsStay, PastStays DEF Consider, rowsVars, taskVars
<1>6. CASE Create(e)
  <2>1. /\ Only(e) /\ Goes(e)
        /\ ex[e].t \in Registry /\ row[ex[e].t].started /\ ex[e].registry = ex[e].t
    <3>1. PICK label, updated : label \in {"change", "save"} /\ NextChange(e, label, updated)
      BY <1>6 DEF Create
    <3> QED BY <1>6, <3>1, NextChangeGoes DEF Create, Step
  <2>2. PICK k : syncs' \in {syncs, [syncs EXCEPT ![k] = ex[e].t]}
    BY <1>6, <2>1 DEF Create
  <2>3. SyncsKeep
    BY <2>1, <2>2 DEF SyncsKeep, Inv, RowsKnown
  <2>4. PastKeeps
    BY <1>6, NoteKeeps DEF Create
  <2> QED BY <1>6, <2>1, <2>3, <2>4, Onward, RowsStay DEF Create, rowsVars
<1>7. CASE SaveChange(e)
  <2>1. ex[e].t \in Registry /\ row[ex[e].t].started /\ ex[e].registry = ex[e].t
    BY <1>7, StreamHas DEF SaveChange, Step, Executing
  <2>2. Only(e) /\ Goes(e)
    BY <1>7, <2>1 DEF SaveChange, Goto, Only, Goes, Inv, Shapes, Idle
  <2>3. RowsKeep
    BY <1>7, <2>1, SaveKeeps DEF SaveChange
  <2> QED BY <1>7, <2>2, <2>3, Onward, SyncsStay, PastStays DEF SaveChange, rowsVars
<1>8. CASE EndRound(e)
  <2>1. ex[e].t \in Registry /\ row[ex[e].t].started /\ ex[e].registry = ex[e].t
    BY <1>8, StreamHas DEF EndRound, Step, Executing
  <2>2. PICK since, none, copy : ex' = [ex EXCEPT ![e].step = "fetch", ![e].since = since,
                                                 ![e].last = none, ![e].asked = FALSE, ![e].copy = copy]
    BY <1>8 DEF EndRound
  <2>3. Only(e) /\ Goes(e)
    BY <2>1, <2>2 DEF Only, Goes, Inv, Shapes, Idle
  <2>4. RowsKeep
    <3>1. CASE UNCHANGED row
      BY <1>8, <3>1, RowsStay DEF EndRound
    <3>2. CASE Save(e, ex[e].last)
      BY <1>8, <2>1, <3>2, SaveKeeps DEF EndRound
    <3> QED BY <1>8, <3>1, <3>2 DEF EndRound
  <2> QED BY <1>8, <2>3, <2>4, Onward, SyncsStay, PastStays DEF EndRound, rowsVars
<1>9. CASE Throws(e)
  <2>1. Executing(e)
    BY <1>9 DEF Throws, Step, Executing
  <2>2. RowsKeep
    <3>1. PICK t \in Registry : /\ t = ex[e].t /\ row[t].started
                                /\ ex[e].registry \in {t, None}
                                /\ ex[e].registry = None => t = Default
      BY <2>1 DEF Inv, StreamsKnown
    <3>2. PICK copy : copy = [started |-> TRUE, processing |-> TRUE,
                              registry |-> ex[e].registry, since |-> ex[e].copy]
      OBVIOUS
    <3>3. /\ DOMAIN copy = DOMAIN NoStream /\ copy.started = TRUE
          /\ copy.registry \in {t, None} /\ (copy.registry = None => t = Default)
      BY <3>1, <3>2 DEF NoStream
    <3>4. PICK rows : Throwing(t, copy, rows)
      BY <1>9, <3>1, <3>2, ThrowSaves
    <3> QED BY <3>1, <3>3, <3>4, SuspendKeeps
  <2>3. Only(e) /\ Goes(e)
    BY <1>9, Rests DEF Throws
  <2> QED BY <1>9, <2>2, <2>3, Onward, SyncsStay, PastStays DEF Throws, rowsVars
<1>10. CASE CreateFails(e)
  <2>1. Only(e) /\ Goes(e)
    BY <1>10, NextChangeGoes DEF CreateFails, Step
  <2>2. PastKeeps
    BY <1>10, NoteKeeps DEF CreateFails
  <2> QED BY <1>10, <2>1, <2>2, Onward, SyncsStay, RowsStay DEF CreateFails, rowsVars, taskVars
<1>11. CASE Die(e)
  BY <1>11, Rests, Onward, SyncsStay, RowsStay, PastStays DEF Die, rowsVars, taskVars
<1>12. CASE NothingNew(e)
  BY <1>12, Rests, Onward, SyncsStay, RowsStay, PastStays DEF NothingNew, rowsVars, taskVars
<1> QED BY <1>1, <1>2, <1>3, <1>4, <1>5, <1>6, <1>7, <1>8, <1>9, <1>10, <1>11, <1>12 DEF Stream

LEMMA TakeSteps ==
  ASSUME StreamAssumption, Inv, NEW e \in Executor, NEW t \in Registry, Take(e, t)
  PROVE  Inv'
<1>1. row[t].started /\ row[t].registry \in {t, None}
      /\ (row[t].registry = None => t = Default)
  BY DEF Take, Inv, RowsKnown
<1>2. Only(e) /\ Goes(e)
  <2>1. PICK new : new = [Idle EXCEPT !.step = "prepare", !.t = t,
                                    !.registry = row[t].registry, !.copy = row[t].since, !.since = row[t].since]
    OBVIOUS
  <2>2. DOMAIN new = DOMAIN Idle /\ new.step = "prepare" /\ new.t = t /\ new.registry = row[t].registry
    BY <2>1 DEF Idle
  <2>3. ex' = [ex EXCEPT ![e] = new]
    BY <2>1 DEF Take
  <2> QED BY <1>1, <2>2, <2>3 DEF Only, Goes, Inv, Shapes
<1>3. RowsKeep
  <2>1. /\ row' = [row EXCEPT ![t].processing = TRUE] /\ queue' = queue \ {t}
    BY DEF Take
  <2>2. /\ row'[t].started = row[t].started /\ row'[t].registry = row[t].registry
        /\ DOMAIN row'[t] = DOMAIN NoStream
    BY <2>1 DEF Inv, Shapes, NoStream
  <2>3. DOMAIN row' = Registry /\ \A r \in Registry \ {t} : row'[r] = row[r]
    BY <2>1 DEF Inv, Shapes
  <2>4. ASSUME NEW r \in Registry
        PROVE  /\ DOMAIN row'[r] = DOMAIN NoStream
               /\ row'[r].started = row[r].started
               /\ row'[r].registry \in {r, None}
               /\ row[r].started /\ row'[r].registry = None => r = Default
               /\ row'[r].processing \/ r \in queue' => row[r].started
    <3>1. CASE r = t
      BY <1>1, <2>2, <3>1
    <3>2. CASE r # t
      BY <2>1, <2>3, <3>2 DEF Inv, Shapes, RowsKnown
    <3> QED BY <3>1, <3>2
  <2> QED BY <2>1, <2>3, <2>4 DEF RowsKeep, Inv, Shapes
<1> QED BY <1>2, <1>3, Onward, SyncsStay, PastStays DEF Take, rowsVars

-----------------------------------------------------------------------------
(* Streams begin and time out, upstreams change *)

LEMMA UpstreamSteps ==
  ASSUME StreamAssumption, Inv, NEW r \in Registry,
         \/ \E k \in Package : Change(r, k)
         \/ \E i \in 1..MaxEvents : Show(r, i)
         \/ Timeout(r)
  PROVE  Inv'
<1>1. CASE \E k \in Package : Change(r, k)
  BY <1>1, Frame, RowsStay, AllRest, SyncsStay, PastStays DEF Change, rowsVars, taskVars
<1>2. ASSUME NEW i \in 1..MaxEvents, Show(r, i)
      PROVE  Inv'
  <2>1. PastKeeps
    <3>1. CASE UNCHANGED past
      BY <3>1, PastStays
    <3>2. CASE ~UNCHANGED past
      <4>1. PICK value : past' = [past EXCEPT !["late"] = value]
        BY <1>2, <3>2 DEF Show
      <4> QED BY <4>1, PastNotes
    <3> QED BY <3>1, <3>2
  <2> QED BY <1>2, <2>1, Frame, RowsStay, AllRest, SyncsStay DEF Show, rowsVars, taskVars
<1>3. CASE Timeout(r)
  <2>1. RowsKeep
    BY <1>3 DEF Timeout, RowsKeep, Inv, Shapes, RowsKnown, NoStream
  <2> QED BY <1>3, <2>1, Frame, AllRest, SyncsStay, PastStays DEF Timeout, rowsVars
<1> QED BY <1>1, <1>2, <1>3

LEMMA AskSteps ==
  ASSUME StreamAssumption, Inv, NEW k \in Package, AskSync(k)
  PROVE  Inv'
<1>1. SyncsKeep
  BY DEF AskSync, SyncsKeep, Inv, RowsKnown
<1> QED BY <1>1, Frame, RowsStay, AllRest, PastStays DEF AskSync, rowsVars

\* A stream begins: the general one, or one of a registry with scopes.
LEMMA Begins ==
  ASSUME StreamAssumption, Inv, NEW r \in Registry, NEW id \in {r, None},
         id = None => r = Default, r # Default => ScopesOf(r) # {},
         row' = [row EXCEPT ![r] = [started |-> TRUE, processing |-> FALSE, registry |-> id, since |-> None]],
         queue' = queue \cup {r},
         UNCHANGED <<exists, scopes, home, syncs, ex, admin, past>>
  PROVE  Inv'
<1>1. /\ row'[r].started /\ ~row'[r].processing /\ row'[r].registry = id
      /\ DOMAIN row'[r] = DOMAIN NoStream /\ row'[r].started \in BOOLEAN
  BY DEF Inv, Shapes, NoStream
<1>2. \A q \in Registry \ {r} : row'[q] = row[q]
  BY DEF Inv, Shapes
<1>3. \A q \in Registry : row[q].started => row'[q].started
  BY <1>1, <1>2
<1>4. RowsKnown'
  <2>1. ASSUME NEW q \in Registry
        PROVE  /\ row'[q].started \in BOOLEAN
               /\ row'[q].registry \in {q, None}
               /\ row'[q].started /\ row'[q].registry = None => q = Default
               /\ row'[q].processing \/ q \in queue' => row'[q].started
    <3>1. CASE q = r
      BY <1>1, <3>1
    <3>2. CASE q # r
      BY <1>2, <3>2 DEF Inv, RowsKnown
    <3> QED BY <3>1, <3>2
  <2>2. \A k \in Package : syncs'[k] \notin {None, Absent} => row'[syncs'[k]].started
    BY <1>3 DEF Inv, RowsKnown
  <2> QED BY <2>1, <2>2 DEF Inv, RowsKnown
<1>5. Shapes'
  BY <1>1, <1>2 DEF Inv, Shapes
<1>6. StreamsKnown'
  BY <1>3 DEF Inv, StreamsKnown, Executing
<1>7. SeenFits'
  BY DEF Inv, SeenFits
<1>8. \A q \in Registry \cup {Self} : Owned(q) => Owned(q)'
  BY <1>3 DEF Owned, Followed, ScopesOf
<1>9. OwnersFollowed'
  <2>1. ASSUME NEW k \in Package, home[k] \notin {Absent, None}
        PROVE  Owned(home[k])'
    BY <2>1, <1>8 DEF Inv, OwnersFollowed, RowsKnown, Owned
  <2>2. ASSUME NEW f \in Executor, ex[f].step \in {"adopt", "publish"}
        PROVE  Owned(ex[f].registry)'
    BY <2>2, <1>8 DEF Inv, OwnersFollowed, SeenFits, Owned
  <2> QED BY <2>1, <2>2 DEF OwnersFollowed
<1>10. ScopesFollowed'
  BY <1>2 DEF Inv, ScopesFollowed, ScopesOf
<1> QED BY <1>4, <1>5, <1>6, <1>7, <1>9, <1>10 DEF Inv

LEMMA BeginSteps ==
  ASSUME StreamAssumption, Inv, EnsureGlobal \/ \E r \in Registry : StartStream(r)
  PROVE  Inv'
<1>1. CASE EnsureGlobal
  <2>1. row' = [row EXCEPT ![Default] = [started |-> TRUE, processing |-> FALSE,
                                         registry |-> None, since |-> None]]
    <3>1. [NoStream EXCEPT !.started = TRUE] =
            [started |-> TRUE, processing |-> FALSE, registry |-> None, since |-> None]
      <4>1. PICK new : new = [NoStream EXCEPT !.started = TRUE]
        OBVIOUS
      <4>2. new = [started |-> TRUE, processing |-> FALSE, registry |-> None, since |-> None]
        BY <4>1 DEF NoStream
      <4> QED BY <4>1, <4>2
    <3> QED BY <1>1, <3>1 DEF EnsureGlobal
  <2> QED BY <1>1, <2>1, Begins DEF EnsureGlobal, rowsVars, StreamAssumption
<1>2. ASSUME NEW r \in Registry, StartStream(r)
      PROVE  Inv'
  <2>1. row' = [row EXCEPT ![r] = [started |-> TRUE, processing |-> FALSE,
                                   registry |-> r, since |-> None]]
    <3>1. [NoStream EXCEPT !.started = TRUE, !.registry = r] =
            [started |-> TRUE, processing |-> FALSE, registry |-> r, since |-> None]
      <4>1. PICK new : new = [NoStream EXCEPT !.started = TRUE, !.registry = r]
        OBVIOUS
      <4>2. new = [started |-> TRUE, processing |-> FALSE, registry |-> r, since |-> None]
        BY <4>1 DEF NoStream
      <4> QED BY <4>1, <4>2
    <3> QED BY <1>2, <3>1 DEF StartStream
  <2>2. r # None
    BY DEF StreamAssumption
  <2> QED BY <1>2, <2>1, <2>2, Begins DEF StartStream, rowsVars
<1> QED BY <1>1, <1>2

-----------------------------------------------------------------------------
(* Registries and scopes *)

\* What a request of an administrator may do to the history.
PastGrows ==
  /\ DOMAIN past' = DOMAIN past
  /\ past.removed \subseteq past'.removed /\ past'.removed \subseteq Registry \ {Default}
  /\ past'.stripped \in BOOLEAN /\ past'.orphaned \in BOOLEAN
  /\ past.stripped => past'.stripped
  /\ past.orphaned => past'.orphaned

\* What waits to be written is a scope, or the removal of one that is gone.
AdminKnown ==
  \A a \in admin : \/ a.op = "scope" /\ a.s \in Scope /\ a.r \in Registry
                   \/ a.op = "remove" /\ a.r \in past.removed

\* The registries in use stay followed, or gone.
OwnersStay ==
  \A r \in Registry \cup {Self} : Used(r) /\ Owned(r) => Owned(r)'

LEMMA AdminFrame ==
  ASSUME StreamAssumption, Inv, PastGrows, AdminKnown', OwnersStay, ScopesFollowed',
         exists' \subseteq Registry, exists' \cap past'.removed = {},
         scopes' \in [Scope -> Registry \cup {None}],
         UNCHANGED <<home, row, queue, syncs, ex>>
  PROVE  Inv'
<1>1. RowsKnown'
  BY DEF Inv, RowsKnown, PastGrows, AdminKnown
<1>2. Shapes'
  BY DEF Inv, Shapes, PastGrows
<1>3. StreamsKnown' /\ SeenFits'
  BY DEF Inv, StreamsKnown, SeenFits, Executing
<1>4. ASSUME NEW k \in Package, home[k] \notin {Absent, None}
      PROVE  Owned(home[k])'
  <2>1. PICK r \in Registry \cup {Self} : r = home[k]
    BY <1>4 DEF Inv, RowsKnown
  <2>2. Owned(r) /\ Used(r)
    BY <1>4, <2>1 DEF Inv, OwnersFollowed, Used
  <2> QED BY <2>1, <2>2 DEF OwnersStay
<1>5. ASSUME NEW f \in Executor, ex[f].step \in {"adopt", "publish"}
      PROVE  Owned(ex[f].registry)'
  <2>1. PICK r \in Registry \cup {Self} : r = ex[f].registry
    BY <1>5 DEF Inv, SeenFits
  <2>2. Owned(r) /\ Used(r)
    BY <1>5, <2>1 DEF Inv, OwnersFollowed, Used
  <2> QED BY <2>1, <2>2 DEF OwnersStay
<1>6. OwnersFollowed'
  BY <1>4, <1>5 DEF OwnersFollowed
<1> QED BY <1>1, <1>2, <1>3, <1>6 DEF Inv

LEMMA AdminStays ==
  ASSUME Inv
  PROVE  AdminKnown
BY DEF Inv, RowsKnown, AdminKnown

\* Scopes that are added keep a registry followed.
LEMMA ScopesGrow ==
  ASSUME StreamAssumption, PastGrows, UNCHANGED row,
         \A s \in Scope : scopes[s] # None => scopes'[s] = scopes[s]
  PROVE  /\ OwnersStay
         /\ \A r \in Registry : ScopesOf(r) # {} => ScopesOf(r)' # {}
<1>1. ASSUME NEW r \in Registry, ScopesOf(r) # {}
      PROVE  ScopesOf(r)' # {}
  <2>1. PICK s \in Scope : scopes[s] = r
    BY <1>1 DEF ScopesOf
  <2>2. scopes'[s] = r
    BY <2>1 DEF StreamAssumption
  <2> QED BY <2>2 DEF ScopesOf
<1>2. ASSUME NEW r \in Registry \cup {Self}, Owned(r)
      PROVE  Owned(r)'
  <2>1. CASE r = Self
    BY <2>1 DEF Owned
  <2>2. CASE r \in Registry
    BY <1>1, <1>2, <2>2 DEF Owned, Followed, PastGrows
  <2> QED BY <2>1, <2>2
<1> QED BY <1>1, <1>2 DEF OwnersStay

LEMMA AdminSteps ==
  ASSUME StreamAssumption, Inv, Admin
  PROVE  Inv'
<1>1. ASSUME NEW r \in Registry, CreateRegistry(r)
      PROVE  Inv'
  <2>1. PastGrows /\ exists' = exists \cup {r}
    BY <1>1 DEF CreateRegistry, PastGrows, Inv, Shapes, RowsKnown
  <2>2. OwnersStay
    BY <1>1, <2>1, ScopesGrow DEF CreateRegistry, taskVars
  <2>3. ScopesFollowed'
    BY <1>1, <2>1 DEF CreateRegistry, taskVars, Inv, ScopesFollowed, ScopesOf
  <2>4. AdminKnown'
    BY <1>1, AdminStays DEF CreateRegistry, AdminKnown
  <2> QED BY <1>1, <2>1, <2>2, <2>3, <2>4, AdminFrame DEF CreateRegistry, taskVars, Inv, RowsKnown
<1>2. ASSUME NEW r \in Registry, RemoveRegistry(r)
      PROVE  Inv'
  <2>1. PICK removed : removed = past.removed \cup {r}
    OBVIOUS
  <2>2. /\ exists' = exists \ {r} /\ past' = [past EXCEPT !.removed = removed]
        /\ r \in exists /\ r # Default
    BY <1>2, <2>1 DEF RemoveRegistry
  <2>3. /\ PastGrows /\ past'.removed = removed
        /\ past'.stripped = past.stripped /\ past'.orphaned = past.orphaned
    BY <2>1, <2>2 DEF PastGrows, Inv, Shapes, RowsKnown
  <2>4. OwnersStay
    BY <1>2, <2>3, ScopesGrow DEF RemoveRegistry, taskVars
  <2>5. PICK a : a.op = "remove" /\ a.r = r /\ admin' = admin \cup {a}
    BY <1>2 DEF RemoveRegistry
  <2>6. ScopesFollowed'
    <3>1. ASSUME NEW s \in Scope, scopes'[s] # None
          PROVE  \/ scopes'[s] \in exists' \/ past'.orphaned
                 \/ \E b \in admin' : b.op = "remove" /\ b.r = scopes'[s]
      BY <1>2, <2>2, <2>3, <2>5, <3>1 DEF RemoveRegistry, Inv, ScopesFollowed
    <3>2. ASSUME NEW q \in Registry \ {Default}, row'[q].started
          PROVE  ScopesOf(q)' # {} \/ q \in past'.removed \/ past'.stripped
      BY <1>2, <2>1, <2>3, <3>2 DEF RemoveRegistry, taskVars, Inv, ScopesFollowed, ScopesOf
    <3> QED BY <3>1, <3>2 DEF ScopesFollowed
  <2>7. AdminKnown'
    BY <2>1, <2>3, <2>5, AdminStays DEF AdminKnown
  <2>8. exists' \subseteq Registry /\ exists' \cap past'.removed = {}
    BY <2>1, <2>2, <2>3 DEF Inv, RowsKnown
  <2> QED BY <1>2, <2>3, <2>4, <2>6, <2>7, <2>8, AdminFrame DEF RemoveRegistry, taskVars, Inv, RowsKnown
<1>3. ASSUME NEW s \in Scope, RemoveScope(s)
      PROVE  Inv'
  <2>1. PICK stripped : stripped = (past.stripped \/ Used(scopes[s])) /\ stripped \in BOOLEAN
    BY DEF Inv, Shapes
  <2>2. past' = [past EXCEPT !.stripped = stripped] /\ scopes' = [scopes EXCEPT ![s] = None]
    BY <1>3, <2>1 DEF RemoveScope
  <2>3. /\ PastGrows /\ past'.stripped = stripped
        /\ past'.removed = past.removed /\ past'.orphaned = past.orphaned
    BY <2>1, <2>2 DEF PastGrows, Inv, Shapes, RowsKnown
  <2>4. ASSUME NEW r \in Registry, r # scopes[s], ScopesOf(r) # {}
        PROVE  ScopesOf(r)' # {}
    BY <2>2, <2>4 DEF ScopesOf, Inv, RowsKnown
  <2>5. ASSUME NEW r \in Registry \cup {Self}, Used(r), Owned(r)
        PROVE  Owned(r)'
    <3>1. CASE r = scopes[s]
      BY <2>1, <2>3, <2>5, <3>1 DEF Owned
    <3>2. CASE r # scopes[s] /\ r \in Registry
      BY <1>3, <2>3, <2>4, <2>5, <3>2 DEF RemoveScope, taskVars, Owned, Followed, PastGrows
    <3>3. CASE r = Self
      BY <3>3 DEF Owned
    <3> QED BY <3>1, <3>2, <3>3
  <2>6. ScopesFollowed'
    <3>1. ASSUME NEW z \in Scope, scopes'[z] # None
          PROVE  \/ scopes'[z] \in exists' \/ past'.orphaned
                 \/ \E b \in admin' : b.op = "remove" /\ b.r = scopes'[z]
      <4>1. scopes'[z] = scopes[z]
        BY <2>2, <3>1 DEF Inv, RowsKnown
      <4> QED BY <1>3, <2>3, <3>1, <4>1 DEF RemoveScope, Inv, ScopesFollowed
    <3>2. ASSUME NEW q \in Registry \ {Default}, row'[q].started
          PROVE  ScopesOf(q)' # {} \/ q \in past'.removed \/ past'.stripped
      <4>1. row[q].started
        BY <1>3, <3>2 DEF RemoveScope, taskVars
      <4>2. CASE q = scopes[s]
        BY <2>1, <2>3, <4>1, <4>2 DEF Used
      <4>3. CASE q # scopes[s]
        BY <2>1, <2>3, <2>4, <4>1, <4>3 DEF Inv, ScopesFollowed
      <4> QED BY <4>2, <4>3
    <3> QED BY <3>1, <3>2 DEF ScopesFollowed
  <2>7. AdminKnown'
    BY <1>3, <2>3, AdminStays DEF RemoveScope, AdminKnown
  <2>8. OwnersStay
    BY <2>5 DEF OwnersStay
  <2>9. scopes' \in [Scope -> Registry \cup {None}]
    BY <2>2 DEF Inv, RowsKnown
  <2> QED BY <1>3, <2>3, <2>6, <2>7, <2>8, <2>9, AdminFrame DEF RemoveScope, taskVars, Inv, RowsKnown
<1>4. ASSUME NEW s \in Scope, NEW r \in Registry, CreateScope(s, r)
      PROVE  Inv'
  <2>1. PastGrows
    BY <1>4 DEF CreateScope, PastGrows, Inv, Shapes, RowsKnown
  <2>2. OwnersStay
    BY <1>4, <2>1, ScopesGrow DEF CreateScope, taskVars, rowsVars
  <2>3. PICK a : a.op = "scope" /\ a.s = s /\ a.r = r /\ admin' = admin \cup {a}
    BY <1>4 DEF CreateScope
  <2>4. ScopesFollowed'
    BY <1>4, <2>3 DEF CreateScope, taskVars, rowsVars, Inv, ScopesFollowed, ScopesOf
  <2>5. AdminKnown'
    BY <1>4, <2>3, AdminStays DEF CreateScope, AdminKnown
  <2> QED BY <1>4, <2>1, <2>2, <2>4, <2>5, AdminFrame DEF CreateScope, taskVars, rowsVars, Inv, RowsKnown
<1>5. ASSUME NEW a \in admin, InsertScope(a)
      PROVE  Inv'
  <2>1. PICK orphaned : orphaned = (past.orphaned \/ a.r \notin exists) /\ orphaned \in BOOLEAN
    BY DEF Inv, Shapes
  <2>2. past' = [past EXCEPT !.orphaned = orphaned] /\ admin' = admin \ {a} /\ a.op = "scope"
    BY <1>5, <2>1 DEF InsertScope
  <2>3. /\ PastGrows /\ past'.orphaned = orphaned
        /\ past'.removed = past.removed /\ past'.stripped = past.stripped
    BY <2>1, <2>2 DEF PastGrows, Inv, Shapes, RowsKnown
  <2>4. a.s \in Scope /\ a.r \in Registry
    BY <2>2 DEF Inv, RowsKnown
  <2>5. exists' = exists
    BY <1>5 DEF InsertScope
  <2>6. /\ scopes' \in [Scope -> Registry \cup {None}]
        /\ \A s \in Scope : scopes[s] # None => scopes'[s] = scopes[s]
        /\ \A s \in Scope : scopes'[s] \in {scopes[s], a.r}
    BY <1>5, <2>4 DEF InsertScope, Inv, RowsKnown
  <2>7. /\ OwnersStay
        /\ \A r \in Registry : ScopesOf(r) # {} => ScopesOf(r)' # {}
    BY <1>5, <2>3, <2>6, ScopesGrow DEF InsertScope, taskVars
  <2>8. ScopesFollowed'
    <3>1. ASSUME NEW s \in Scope, scopes'[s] # None
          PROVE  \/ scopes'[s] \in exists' \/ past'.orphaned
                 \/ \E b \in admin' : b.op = "remove" /\ b.r = scopes'[s]
      <4>1. CASE scopes'[s] = scopes[s]
        <5>1. past.orphaned => past'.orphaned
          BY <2>3 DEF PastGrows
        <5> QED BY <2>2, <2>5, <3>1, <4>1, <5>1 DEF Inv, ScopesFollowed
      <4>2. CASE scopes'[s] = a.r
        <5>1. a.r \in exists \/ past'.orphaned
          BY <2>1, <2>3
        <5> QED BY <2>5, <4>2, <5>1
      <4> QED BY <2>6, <4>1, <4>2
    <3>2. ASSUME NEW q \in Registry \ {Default}, row'[q].started
          PROVE  ScopesOf(q)' # {} \/ q \in past'.removed \/ past'.stripped
      BY <1>5, <2>3, <2>7, <3>2 DEF InsertScope, taskVars, Inv, ScopesFollowed
    <3> QED BY <3>1, <3>2 DEF ScopesFollowed
  <2>9. AdminKnown'
    BY <2>2, <2>3, AdminStays DEF AdminKnown
  <2> QED BY <1>5, <2>3, <2>6, <2>7, <2>8, <2>9, AdminFrame DEF InsertScope, taskVars, Inv, RowsKnown
<1>6. ASSUME NEW a \in admin, RemoveScopes(a)
      PROVE  Inv'
  <2>1. /\ a.op = "remove" /\ a.r \in past.removed /\ a.r \in Registry
        /\ admin' = admin \ {a}
        /\ scopes' = [s \in Scope |-> IF scopes[s] = a.r THEN None ELSE scopes[s]]
    BY <1>6 DEF RemoveScopes, Inv, RowsKnown
  <2>2. PastGrows
    BY <1>6 DEF RemoveScopes, PastGrows, Inv, Shapes, RowsKnown
  <2>3. ASSUME NEW r \in Registry, r # a.r, ScopesOf(r) # {}
        PROVE  ScopesOf(r)' # {}
    BY <2>1, <2>3 DEF ScopesOf
  <2>4. OwnersStay
    <3>1. ASSUME NEW r \in Registry \cup {Self}, Owned(r)
          PROVE  Owned(r)'
      <4>1. CASE r = Self \/ r = a.r
        BY <2>1, <2>2, <4>1 DEF Owned, PastGrows
      <4>2. CASE r \in Registry /\ r # a.r
        BY <1>6, <2>3, <3>1, <4>2 DEF RemoveScopes, taskVars, Owned, Followed
      <4> QED BY <4>1, <4>2
    <3> QED BY <3>1 DEF OwnersStay
  <2>5. ScopesFollowed'
    <3>1. ASSUME NEW s \in Scope, scopes'[s] # None
          PROVE  \/ scopes'[s] \in exists' \/ past'.orphaned
                 \/ \E b \in admin' : b.op = "remove" /\ b.r = scopes'[s]
      <4>1. scopes'[s] = scopes[s] /\ scopes[s] # a.r
        BY <2>1, <3>1
      <4> QED BY <1>6, <2>1, <3>1, <4>1 DEF RemoveScopes, Inv, ScopesFollowed
    <3>2. ASSUME NEW q \in Registry \ {Default}, row'[q].started
          PROVE  ScopesOf(q)' # {} \/ q \in past'.removed \/ past'.stripped
      BY <1>6, <2>1, <2>3, <3>2 DEF RemoveScopes, taskVars, Inv, ScopesFollowed
    <3> QED BY <3>1, <3>2 DEF ScopesFollowed
  <2>6. AdminKnown'
    BY <1>6, <2>1, AdminStays DEF RemoveScopes, AdminKnown
  <2>7. scopes' \in [Scope -> Registry \cup {None}]
    BY <2>1 DEF Inv, RowsKnown
  <2> QED BY <1>6, <2>2, <2>4, <2>5, <2>6, <2>7, AdminFrame DEF RemoveScopes, taskVars, Inv, RowsKnown
<1>7. ASSUME NEW a \in admin, BreakOff(a)
      PROVE  Inv'
  <2>1. PICK orphaned : orphaned = (past.orphaned \/ a.op = "remove") /\ orphaned \in BOOLEAN
    BY DEF Inv, Shapes
  <2>2. past' = [past EXCEPT !.orphaned = orphaned] /\ admin' = admin \ {a}
    BY <1>7, <2>1 DEF BreakOff
  <2>3. /\ PastGrows /\ past'.orphaned = orphaned
        /\ past'.removed = past.removed /\ past'.stripped = past.stripped
    BY <2>1, <2>2 DEF PastGrows, Inv, Shapes, RowsKnown
  <2>4. OwnersStay
    BY <1>7, <2>3, ScopesGrow DEF BreakOff, taskVars, rowsVars
  <2>5. ScopesFollowed'
    <3>1. ASSUME NEW s \in Scope, scopes'[s] # None
          PROVE  \/ scopes'[s] \in exists' \/ past'.orphaned
                 \/ \E b \in admin' : b.op = "remove" /\ b.r = scopes'[s]
      BY <1>7, <2>1, <2>2, <2>3, <3>1 DEF BreakOff, rowsVars, Inv, ScopesFollowed
    <3>2. ASSUME NEW q \in Registry \ {Default}, row'[q].started
          PROVE  ScopesOf(q)' # {} \/ q \in past'.removed \/ past'.stripped
      BY <1>7, <2>3, <3>2 DEF BreakOff, rowsVars, taskVars, Inv, ScopesFollowed, ScopesOf
    <3> QED BY <3>1, <3>2 DEF ScopesFollowed
  <2>6. AdminKnown'
    BY <2>2, <2>3, AdminStays DEF AdminKnown
  <2> QED BY <1>7, <2>3, <2>4, <2>5, <2>6, AdminFrame DEF BreakOff, rowsVars, taskVars, Inv, RowsKnown
<1> QED
  BY <1>1, <1>2, <1>3, <1>4, <1>5, <1>6, <1>7, BeginSteps DEF Admin

-----------------------------------------------------------------------------
(* Syncs and publications *)

\* The executor begins, or goes on with, writing a package.
LEMMA SyncFrame ==
  ASSUME StreamAssumption, Inv, NEW e \in Executor, Only(e), PastKeeps, SyncsKeep,
         NEW r \in Registry \cup {Self}, Owned(r),
         \/ ex'[e].step = "idle"
         \/ /\ ex'[e].registry = r /\ ex'[e].pkg \in Package
            /\ \/ ex'[e].step = "adopt" /\ ex'[e].seen = None
               \/ ex'[e].step = "publish" /\ (r = Self \/ ex'[e].seen \in {Absent, None, r}),
         exists' \in {exists, exists \cup {Default}},
         UNCHANGED home \/ \E k \in Package : home' = [home EXCEPT ![k] = r],
         UNCHANGED <<scopes, row, queue, admin>>
  PROVE  Inv'
<1>1. /\ exists' \subseteq Registry /\ exists \subseteq exists'
      /\ exists' \cap past'.removed = {}
  BY DefaultAppears DEF PastKeeps
<1>2. home' \in [Package -> Registry \cup {Self, None, Absent}]
  BY DEF Inv, RowsKnown
<1>3. RowsKnown'
  BY <1>1, <1>2 DEF Inv, RowsKnown, PastKeeps, SyncsKeep
<1>4. Shapes'
  BY DEF Inv, Shapes, PastKeeps, Only
<1>5. StreamsKnown'
  BY DEF Inv, StreamsKnown, Only, Executing
<1>6. SeenFits'
  BY DEF Inv, SeenFits, Only
<1>7. \A q : Owned(q) => Owned(q)'
  BY DEF Owned, Followed, ScopesOf, PastKeeps
<1>8. OwnersFollowed'
  <2>1. ASSUME NEW k \in Package, home'[k] \notin {Absent, None}
        PROVE  Owned(home[k])'
    <3>1. PICK q : q = home'[k]
      OBVIOUS
    <3>2. q \in {home[k], r}
      BY <3>1 DEF Inv, RowsKnown
    <3>3. Owned(q)'
      BY <2>1, <3>1, <3>2, <1>7 DEF Inv, OwnersFollowed
    <3> QED BY <3>1, <3>3
  <2>2. ASSUME NEW f \in Executor, ex'[f].step \in {"adopt", "publish"}
        PROVE  Owned(ex[f].registry)'
    <3>1. PICK q : q = ex'[f].registry
      OBVIOUS
    <3>2. Owned(q)'
      BY <2>2, <3>1, <1>7 DEF Inv, OwnersFollowed, Only
    <3> QED BY <3>1, <3>2
  <2> QED BY <2>1, <2>2 DEF OwnersFollowed
<1>9. ScopesFollowed'
  BY <1>1 DEF Inv, ScopesFollowed, PastKeeps, ScopesOf
<1> QED BY <1>3, <1>4, <1>5, <1>6, <1>8, <1>9 DEF Inv

\* initSpecRegistry finds a registry that is followed, or the self registry.
LEMMA SpecOwned ==
  ASSUME StreamAssumption, Inv, NEW k \in Package, syncs[k] # Absent
  PROVE  SpecRegistry(k) \in Registry \cup {Self} /\ Owned(SpecRegistry(k))
<1> DEFINE named == IF home[k] \notin {Absent, None} THEN home[k] ELSE IF syncs[k] # None THEN syncs[k]
                    ELSE IF ScopeOf[k] # None THEN scopes[ScopeOf[k]] ELSE None
<1>1. SpecRegistry(k) = IF named \in exists \cup {Self} THEN named ELSE Default
  BY DEF SpecRegistry
<1>2. CASE named \notin exists \cup {Self}
  <2>1. SpecRegistry(k) = Default
    BY <1>1, <1>2
  <2> QED BY <2>1 DEF Owned, Followed, StreamAssumption
<1>3. CASE named = Self
  BY <1>1, <1>3 DEF Owned
<1>4. CASE named \in exists
  <2>1. PICK r : r = named
    OBVIOUS
  <2>2. SpecRegistry(k) = r /\ r \in Registry /\ r # None
    BY <1>1, <1>4, <2>1 DEF Inv, RowsKnown, StreamAssumption
  <2>3. CASE home[k] \notin {Absent, None}
    BY <2>1, <2>2, <2>3 DEF Inv, OwnersFollowed
  <2>4. CASE home[k] \in {Absent, None} /\ syncs[k] # None
    BY <2>1, <2>2, <2>4 DEF Inv, RowsKnown, Owned, Followed
  <2>5. CASE home[k] \in {Absent, None} /\ syncs[k] = None
    <3>1. ScopeOf[k] # None /\ scopes[ScopeOf[k]] = r
      BY <2>1, <2>2, <2>5
    <3>2. ScopesOf(r) # {}
      BY <3>1 DEF ScopesOf, StreamAssumption
    <3> QED BY <2>2, <3>2 DEF Owned, Followed
  <2> QED BY <2>3, <2>4, <2>5
<1> QED BY <1>2, <1>3, <1>4

LEMMA SyncSteps ==
  ASSUME StreamAssumption, Inv, NEW e \in Executor,
         \/ Adopt(e) \/ Publish(e)
         \/ \E k \in Package : StartSync(e, k) \/ StartPublish(e, k)
  PROVE  Inv'
<1>1. ASSUME NEW k \in Package, StartSync(e, k)
      PROVE  Inv'
  <2>1. PICK r \in Registry \cup {Self} : r = SpecRegistry(k) /\ Owned(r)
    BY <1>1, SpecOwned DEF StartSync, SyncBegins
  <2>2. SyncsKeep
    BY <1>1 DEF StartSync, SyncBegins, SyncsKeep, Inv, RowsKnown
  <2>3. /\ exists' \in {exists, exists \cup {Default}}
        /\ UNCHANGED <<scopes, home, row, queue, admin, past>>
    BY <1>1 DEF StartSync, SyncBegins
  <2>4. CASE UNCHANGED ex
    BY <2>2, <2>3, <2>4, Frame, RowsStay, AllRest, PastStays
  <2>5. CASE ~UNCHANGED ex
    <3>1. ex' = [ex EXCEPT ![e] = SyncFrom(k, r)] /\ home[k] \in {Absent, None, r}
      BY <1>1, <2>1, <2>5 DEF StartSync
    <3>2. PICK new : new = SyncFrom(k, r)
      OBVIOUS
    <3>3. /\ new.step = IF home[k] = None THEN "adopt" ELSE "publish"
          /\ new.registry = r /\ new.pkg = k /\ new.seen = home[k] /\ DOMAIN new = DOMAIN Idle
      BY <3>2 DEF SyncFrom, Idle
    <3>4. Only(e) /\ ex'[e] = new
      BY <3>1, <3>2, <3>3 DEF Only, Inv, Shapes
    <3> QED BY <2>1, <2>2, <2>3, <3>1, <3>3, <3>4, SyncFrame, PastStays
  <2> QED BY <2>4, <2>5
<1>2. ASSUME NEW k \in Package, StartPublish(e, k)
      PROVE  Inv'
  <2>1. PICK new : new = [Idle EXCEPT !.step = "publish", !.registry = Self, !.pkg = k, !.seen = home[k]]
    OBVIOUS
  <2>2. new.step = "publish" /\ new.registry = Self /\ new.pkg = k /\ DOMAIN new = DOMAIN Idle
    BY <2>1 DEF Idle
  <2>3. ex' = [ex EXCEPT ![e] = new]
    BY <1>2, <2>1 DEF StartPublish
  <2>4. Only(e) /\ ex'[e] = new
    BY <2>2, <2>3 DEF Only, Inv, Shapes
  <2>5. Owned(Self)
    BY DEF Owned
  <2> QED BY <1>2, <2>2, <2>4, <2>5, SyncFrame, SyncsStay, PastStays DEF StartPublish, rowsVars, taskVars
<1>3. ASSUME Adopt(e) \/ Publish(e)
      PROVE  Inv'
  <2>1. /\ ex[e].step \in {"adopt", "publish"} /\ Settle(e, ex[e].registry)
        /\ UNCHANGED <<exists, scopes, row, queue, syncs, admin>>
    BY <1>3 DEF Adopt, Publish, Step, taskVars
  <2>2. PICK r \in Registry \cup {Self} : r = ex[e].registry /\ Owned(r)
    BY <2>1 DEF Inv, SeenFits, OwnersFollowed
  <2>3. PICK k \in Package : k = ex[e].pkg
    BY <2>1 DEF Inv, SeenFits
  <2>4. home' = [home EXCEPT ![k] = r]
    BY <2>1, <2>2, <2>3 DEF Settle
  <2>5. PastKeeps
    <3>1. PICK crossed : past' = [past EXCEPT !.crossed = crossed]
      BY <2>1 DEF Settle
    <3> QED BY <3>1 DEF PastKeeps, Inv, Shapes
  <2>6. CASE Adopt(e)
    <3>1. ex' = [ex EXCEPT ![e].step = "publish", ![e].seen = r]
      BY <2>2, <2>6 DEF Adopt
    <3>2. /\ Only(e) /\ ex'[e].step = "publish" /\ ex'[e].seen = r
          /\ ex'[e].registry = r /\ ex'[e].pkg = k
      BY <2>2, <2>3, <3>1 DEF Only, Inv, Shapes, Idle
    <3> QED BY <2>1, <2>2, <2>4, <2>5, <3>2, SyncFrame, SyncsStay
  <2>7. CASE Publish(e)
    <3>1. Only(e) /\ ex'[e].step = "idle"
      BY <2>7 DEF Publish, Only, Inv, Shapes, Idle
    <3> QED BY <2>1, <2>2, <2>4, <2>5, <3>1, SyncFrame, SyncsStay
  <2> QED BY <1>3, <2>6, <2>7
<1> QED BY <1>1, <1>2, <1>3

-----------------------------------------------------------------------------
(* The inductive invariant *)

LEMMA InitInv ==
  ASSUME StreamAssumption, StreamInit
  PROVE  Inv
<1>1. /\ ex = [e \in Executor |-> Idle] /\ syncs = [k \in Package |-> Absent] /\ admin = {}
      /\ past.removed = {} /\ past.stripped = FALSE /\ past.orphaned = FALSE
      /\ {"removed", "stripped", "orphaned", "crossed", "handled", "failed", "late", "first"} \subseteq DOMAIN past
  BY DEF StreamInit
<1>2. /\ \A e \in Executor : DOMAIN ex[e] = DOMAIN Idle /\ ex[e].step = "idle"
      /\ DOMAIN ex = Executor
  BY <1>1 DEF Idle
<1>3. StreamsKnown /\ SeenFits
  BY <1>2 DEF StreamsKnown, SeenFits, Executing
<1>4. /\ home \in [Package -> {Absent, None}]
      /\ exists \subseteq Registry /\ queue \subseteq Registry
      /\ scopes \in [Scope -> Registry \cup {None}]
  <2>1. CASE Fresh
    BY <2>1 DEF Fresh
  <2>2. CASE Configured
    <3>1. \A k \in Package : home[k] \in {Absent, None}
      BY <2>2 DEF Configured
    <3>2. home = [k \in Package |-> home[k]] /\ scopes \in [Scope -> Registry]
      BY <2>2 DEF Configured
    <3>3. exists \subseteq Registry /\ queue \subseteq Registry
      <4>1. queue \in {Registry, {Default}} /\ exists = Registry
        BY <2>2 DEF Configured
      <4> QED BY <4>1 DEF StreamAssumption
    <3> QED BY <3>1, <3>2, <3>3
  <2> QED BY <2>1, <2>2 DEF StreamInit
<1>5. OwnersFollowed
  BY <1>2, <1>4 DEF OwnersFollowed
<1>6. /\ DOMAIN row = Registry
      /\ \A r \in Registry : /\ DOMAIN row[r] = DOMAIN NoStream
                             /\ row[r].started \in BOOLEAN
                             /\ row[r].registry \in {r, None}
                             /\ row[r].started /\ row[r].registry = None => r = Default
                             /\ row[r].processing \/ r \in queue => row[r].started
  <2>1. CASE Fresh
    BY <2>1 DEF Fresh, NoStream
  <2>2. CASE Configured
    <3>1. PICK streams : /\ row = [r \in Registry |-> IF r \in streams
                                      THEN [NoStream EXCEPT !.started = TRUE, !.registry = r] ELSE NoStream]
                         /\ queue = streams
      BY <2>2 DEF Configured
    <3>2. ASSUME NEW r \in Registry
          PROVE  /\ DOMAIN row[r] = DOMAIN NoStream
                 /\ row[r].started \in BOOLEAN
                 /\ row[r].registry \in {r, None}
                 /\ row[r].started /\ row[r].registry = None => r = Default
                 /\ row[r].processing \/ r \in queue => row[r].started
      <4>1. CASE r \in streams
        <5>1. row[r] = [NoStream EXCEPT !.started = TRUE, !.registry = r]
          BY <3>1, <4>1
        <5> QED BY <5>1 DEF NoStream, StreamAssumption
      <4>2. CASE r \notin streams
        BY <3>1, <4>2 DEF NoStream
      <4> QED BY <4>1, <4>2
    <3> QED BY <3>1, <3>2
  <2> QED BY <2>1, <2>2 DEF StreamInit
<1>7. RowsKnown
  <2>1. home \in [Package -> Registry \cup {Self, None, Absent}]
    BY <1>4
  <2> QED BY <2>1, <1>1, <1>4, <1>6 DEF RowsKnown
<1>8. Shapes
  <2>1. past.stripped \in BOOLEAN /\ past.orphaned \in BOOLEAN
    BY <1>1
  <2> QED BY <2>1, <1>1, <1>2, <1>4, <1>6 DEF Shapes
<1>9. ScopesFollowed
  <2>1. CASE Fresh
    BY <2>1 DEF Fresh, ScopesFollowed, NoStream
  <2>2. CASE Configured
    <3>1. \A s \in Scope : scopes[s] \in exists
      BY <2>2 DEF Configured
    <3>2. \A r \in Registry \ {Default} : ScopesOf(r) # {}
      BY <2>2 DEF Configured, ScopesOf
    <3> QED BY <3>1, <3>2 DEF ScopesFollowed
  <2> QED BY <2>1, <2>2 DEF StreamInit
<1> QED BY <1>3, <1>5, <1>7, <1>8, <1>9 DEF Inv

LEMMA NextInv ==
  ASSUME StreamAssumption, Inv, [StreamNext]_streamVars
  PROVE  Inv'
<1>1. CASE StreamNext
  BY <1>1, UpstreamSteps, AdminSteps, BeginSteps, StreamSteps, SyncSteps, TakeSteps, AskSteps
     DEF StreamNext, Sync
<1>2. CASE UNCHANGED streamVars
  BY <1>2, Frame, RowsStay, AllRest, SyncsStay, PastStays DEF streamVars, rowsVars, taskVars
<1> QED BY <1>1, <1>2

LEMMA Inductive ==
  ASSUME StreamAssumption
  PROVE  StreamSpec => []Inv
<1>1. StreamInit => Inv
  BY InitInv
<1>2. Inv /\ [StreamNext]_streamVars => Inv'
  BY NextInv
<1> QED BY <1>1, <1>2, PTL DEF StreamSpec

-----------------------------------------------------------------------------
(* Packages keep their registry *)

\* Only these write a package's row.
LEMMA HomeChanges ==
  ASSUME StreamNext, home' # home
  PROVE  \E e \in Executor : Adopt(e) \/ Publish(e)
<1>1. ASSUME NEW r \in Registry,
             \/ \E k \in Package : Change(r, k)
             \/ \E i \in 1..MaxEvents : Show(r, i)
             \/ Timeout(r)
      PROVE  home' = home
  BY <1>1 DEF Change, Show, Timeout, rowsVars
<1>2. ASSUME Admin
      PROVE  home' = home
  BY <1>2 DEF Admin, CreateRegistry, RemoveRegistry, StartStream, RemoveScope, CreateScope,
     InsertScope, RemoveScopes, BreakOff, rowsVars
<1>3. ASSUME EnsureGlobal \/ \E k \in Package : AskSync(k)
      PROVE  home' = home
  BY <1>3 DEF EnsureGlobal, AskSync, rowsVars
<1>4. ASSUME NEW e \in Executor, Stream(e)
      PROVE  home' = home
  BY <1>4 DEF Stream, PrepareDefault, Prepare, Fetch, Pass, Consider, Create, SaveChange,
     EndRound, Throws, rowsVars
<1>5. ASSUME NEW e \in Executor,
             \/ CreateFails(e) \/ Die(e) \/ NothingNew(e)
             \/ \E r \in Registry : Take(e, r)
             \/ \E k \in Package : StartSync(e, k) \/ StartPublish(e, k)
      PROVE  home' = home
  BY <1>5 DEF CreateFails, Die, NothingNew, Take, StartSync, SyncBegins, StartPublish, rowsVars
<1>6. PICK e \in Executor : \/ Stream(e) \/ CreateFails(e) \/ Die(e) \/ Sync(e)
                            \/ \E r \in Registry : Take(e, r)
                            \/ \E k \in Package : StartSync(e, k) \/ StartPublish(e, k)
  BY <1>1, <1>2, <1>3 DEF StreamNext
<1> QED
  BY <1>4, <1>5, <1>6 DEF Sync

LEMMA SettleKeeps ==
  ASSUME Inv, NEW e \in Executor, Adopt(e) \/ Publish(e), NEW k \in Package, home[k] \notin {Absent, None}
  PROVE  home'[k] \in {home[k], Self} \/ k \in past'.crossed
<1>1. ex[e].step \in {"adopt", "publish"} /\ Settle(e, ex[e].registry)
  BY DEF Adopt, Publish, Step
<1>2. CASE k # ex[e].pkg
  BY <1>1, <1>2 DEF Settle, Inv, RowsKnown
<1>3. CASE k = ex[e].pkg /\ home[k] # ex[e].seen
  <2>1. PICK crossed : crossed = past.crossed \cup {k}
    OBVIOUS
  <2>2. past' = [past EXCEPT !.crossed = crossed]
    BY <1>1, <1>3, <2>1 DEF Settle
  <2> QED BY <2>1, <2>2 DEF Inv, Shapes
<1>4. CASE k = ex[e].pkg /\ home[k] = ex[e].seen
  <2>1. ex[e].registry \in {home[k], Self}
    BY <1>1, <1>4 DEF Inv, SeenFits
  <2> QED BY <1>1, <1>4, <2>1 DEF Settle, Inv, RowsKnown
<1> QED BY <1>2, <1>3, <1>4

\* Whatever streams, syncs and users do, and whatever fails: a package that
\* has a registry keeps it, except that it may move to the self registry, and
\* that two of its syncs and publications overlapped.
THEOREM HomesStay ==
  StreamSpec => HomeStays
<1> USE StreamAssumption
<1>1. ASSUME Inv, [StreamNext]_streamVars
      PROVE  [\A k \in Package : home[k] \notin {Absent, None} =>
               home'[k] \in {home[k], Self} \/ k \in past'.crossed]_streamVars
  <2> SUFFICES ASSUME NEW k \in Package, home[k] \notin {Absent, None}, StreamNext
               PROVE  home'[k] \in {home[k], Self} \/ k \in past'.crossed
    BY <1>1
  <2>1. CASE home' = home
    BY <2>1
  <2>2. CASE home' # home
    BY <1>1, <2>2, HomeChanges, SettleKeeps
  <2> QED BY <2>1, <2>2
<1> QED BY <1>1, Inductive, PTL DEF StreamSpec, HomeStays

-----------------------------------------------------------------------------
(* Packages are followed *)

\* When nobody is at work on registries, a registry that is used is followed,
\* and so is the one of a scope; every other registry has scopes of its own.
LEMMA OneFollows ==
  ASSUME StreamAssumption, Inv
  PROVE  ExactlyOne
<1> SUFFICES ASSUME Default \in exists, ScopesOf(Default) = {}, ~past.stripped, ~past.orphaned, admin = {},
                    NEW k \in Package, home[k] \in {Absent, None} \cup exists
             PROVE  Cardinality({r \in exists : Followed(r) /\ NeedSync(r, k)}) = 1
  BY DEF ExactlyOne
<1>1. exists \subseteq Registry /\ exists \cap past.removed = {} /\ None \notin exists
  BY DEF Inv, RowsKnown, StreamAssumption
<1>2. ASSUME NEW q, {r \in exists : Followed(r) /\ NeedSync(r, k)} = {q}
      PROVE  Cardinality({r \in exists : Followed(r) /\ NeedSync(r, k)}) = 1
  BY <1>2, FS_Singleton
<1>3. CASE home[k] \notin {Absent, None}
  <2>1. PICK q \in exists : q = home[k]
    BY <1>3
  <2>2. Followed(q)
    <3>1. Owned(q)
      BY <1>3, <2>1 DEF Inv, OwnersFollowed
    <3>2. q # Self
      BY <1>1 DEF StreamAssumption
    <3> QED BY <3>1, <3>2, <1>1 DEF Owned
  <2>3. \A r \in exists : NeedSync(r, k) <=> r = q
    BY <1>3, <2>1 DEF NeedSync
  <2>4. {r \in exists : Followed(r) /\ NeedSync(r, k)} = {q}
    BY <2>2, <2>3
  <2> QED BY <1>2, <2>4
<1>4. CASE home[k] \in {Absent, None} /\ ScopeOf[k] # None /\ scopes[ScopeOf[k]] # None
  <2>1. PICK q : q = scopes[ScopeOf[k]]
    OBVIOUS
  <2>2. ScopeOf[k] \in Scope
    BY <1>4 DEF StreamAssumption
  <2>3. q \in exists
    BY <1>4, <2>1, <2>2 DEF Inv, ScopesFollowed
  <2>4. Followed(q)
    BY <2>1, <2>2 DEF Followed, ScopesOf
  <2>5. \A r \in exists : NeedSync(r, k) <=> r = q
    BY <1>4, <2>1 DEF NeedSync
  <2>6. {r \in exists : Followed(r) /\ NeedSync(r, k)} = {q}
    BY <2>3, <2>4, <2>5
  <2> QED BY <1>2, <2>6
<1>5. CASE home[k] \in {Absent, None} /\ (ScopeOf[k] = None \/ scopes[ScopeOf[k]] = None)
  <2>1. \A r \in exists : NeedSync(r, k) <=> ScopesOf(r) = {}
    BY <1>5 DEF NeedSync
  <2>2. \A r \in exists \ {Default} : Followed(r) => ScopesOf(r) # {}
    BY <1>1 DEF Followed, Inv, ScopesFollowed
  <2>3. Followed(Default)
    BY DEF Followed
  <2>4. {r \in exists : Followed(r) /\ NeedSync(r, k)} = {Default}
    BY <2>1, <2>2, <2>3
  <2> QED BY <1>2, <2>4
<1> QED BY <1>3, <1>4, <1>5

\* Every package that is not of the self registry is followed in exactly one
\* registry, however many there are and whatever was created, removed,
\* published or lost; the exceptions are those that ExactlyOne names.
THEOREM OneRegistry ==
  StreamSpec => []ExactlyOne
<1> USE StreamAssumption
<1>1. Inv => ExactlyOne
  BY OneFollows
<1> QED BY <1>1, Inductive, PTL

-----------------------------------------------------------------------------
(* Logs and pages *)

LEMMA LogHas ==
  ASSUME LogsSorted, NEW r \in Registry
  PROVE  /\ DOMAIN log[r] = 1..Len(log[r]) /\ Len(log[r]) \in Nat
         /\ \A i \in DOMAIN log[r] : i \in Nat /\ SeqAt(r, i) \in Int /\ log[r][i].shown \in BOOLEAN
         /\ \A i, j \in DOMAIN log[r] : i <= j => SeqAt(r, i) <= SeqAt(r, j)
<1>1. PICK C : C = [pkg : Package, seq : Int, shown : BOOLEAN]
  OBVIOUS
<1>2. log[r] \in Seq(C)
  BY <1>1 DEF LogsSorted
<1>3. DOMAIN log[r] = 1..Len(log[r]) /\ Len(log[r]) \in Nat
  BY <1>2
<1>4. \A i \in DOMAIN log[r] : log[r][i] \in C
  BY <1>2, <1>3
<1>5. \A i \in DOMAIN log[r] : log[r][i].seq \in Int /\ log[r][i].shown \in BOOLEAN
  BY <1>1, <1>4
<1> QED BY <1>3, <1>5 DEF LogsSorted, SeqAt

LEMMA NewNumbers ==
  ASSUME LogsSorted', NEW r \in Registry
  PROVE  \A i \in DOMAIN log'[r] : SeqAt(r, i)' \in Int
<1>1. PICK C : C = [pkg : Package, seq : Int, shown : BOOLEAN]
  OBVIOUS
<1>2. log'[r] \in Seq(C)
  BY <1>1 DEF LogsSorted
<1>3. DOMAIN log'[r] = 1..Len(log'[r]) /\ Len(log'[r]) \in Nat
  BY <1>2
<1>4. \A i \in DOMAIN log'[r] : log'[r][i] \in C
  BY <1>2, <1>3
<1> QED BY <1>1, <1>4 DEF SeqAt

LEMMA LastIsLast ==
  ASSUME LogsSorted, NEW r \in Registry
  PROVE  /\ LastSeq(r) \in Int
         /\ \A i \in DOMAIN log[r] : SeqAt(r, i) <= LastSeq(r)
         /\ log[r] # <<>> => Len(log[r]) \in DOMAIN log[r] /\ LastSeq(r) = SeqAt(r, Len(log[r]))
<1>1. CASE log[r] = <<>>
  BY <1>1 DEF LastSeq
<1>2. CASE log[r] # <<>>
  <2>1. Len(log[r]) \in DOMAIN log[r]
    BY <1>2 DEF LogsSorted
  <2>2. LastSeq(r) = SeqAt(r, Len(log[r]))
    BY <1>2 DEF LastSeq, Last, SeqAt
  <2> QED BY <1>2, <2>1, <2>2, LogHas
<1> QED BY <1>1, <1>2

\* A page has no gap.
LEMMA FirstDown ==
  ASSUME NEW S \in SUBSET Nat, IsFiniteSet(S), NEW n \in Nat,
         NEW i \in First(S, n), NEW j \in S, j < i
  PROVE  j \in First(S, n)
<1>1. {l \in S : l < j} \subseteq {l \in S : l < i}
  <2>1. i \in Nat /\ j \in Nat
    BY DEF First
  <2>2. ASSUME NEW l \in S, l < j
        PROVE  l < i
    <3>1. l \in Nat
      OBVIOUS
    <3> QED BY <2>1, <2>2, <3>1
  <2> QED BY <2>2
<1>2. IsFiniteSet({l \in S : l < i}) /\ IsFiniteSet({l \in S : l < j})
  BY FS_Subset
<1>3. Cardinality({l \in S : l < j}) <= Cardinality({l \in S : l < i})
  BY <1>1, <1>2, FS_Subset
<1>4. Cardinality({l \in S : l < j}) \in Nat /\ Cardinality({l \in S : l < i}) \in Nat
  BY <1>2, FS_CardinalityType
<1>5. Cardinality({l \in S : l < i}) < n
  BY DEF First
<1> QED BY <1>3, <1>4, <1>5 DEF First

\* A set of numbers that is not empty has a least one.
LEMMA FirstExists ==
  ASSUME NEW S \in SUBSET Nat, S # {}
  PROVE  \E i \in S : \A j \in S : i <= j
<1>1. PICK i \in S : \A j \in S : ~(<<j, i>> \in OpToRel(<, Nat))
  BY WFMin, NatLessThanWellFounded, Zenon
<1>2. ASSUME NEW j \in S
      PROVE  i <= j
  <2>1. ~(<<j, i>> \in OpToRel(<, Nat)) /\ i \in Nat /\ j \in Nat
    BY <1>1
  <2> QED BY <2>1 DEF OpToRel
<1> QED BY <1>2

\* The changes of a page, up to those of the number it was asked from.
LEMMA PageHas ==
  ASSUME StreamAssumption, LogsSorted, NEW r \in Registry, NEW since \in Int, ~Refused(r, since)
  PROVE  \E S \in SUBSET Shown(r, since) :
           /\ Page(r, since) = After(r, S, since) \/ Page(r, since) = {}
           /\ \A i \in S : \A j \in Shown(r, since) : j < i => j \in S
<1> DEFINE shown == Shown(r, since)
<1>1. shown \in SUBSET Nat /\ IsFiniteSet(shown)
  <2>1. shown \subseteq 1..Len(log[r]) /\ Len(log[r]) \in Nat
    BY LogHas DEF Shown
  <2>2. IsFiniteSet(1..Len(log[r]))
    BY <2>1, FS_Interval
  <2> QED BY <2>1, <2>2, FS_Subset
<1>2. ASSUME NEW n \in Nat, Page(r, since) = After(r, First(shown, n), since) \/ Page(r, since) = {}
      PROVE  \E S \in SUBSET Shown(r, since) :
               /\ Page(r, since) = After(r, S, since) \/ Page(r, since) = {}
               /\ \A i \in S : \A j \in Shown(r, since) : j < i => j \in S
  <2>1. First(shown, n) \in SUBSET shown
    BY DEF First
  <2>2. \A i \in First(shown, n) : \A j \in shown : j < i => j \in First(shown, n)
    BY <1>1, FirstDown
  <2> QED BY <1>2, <2>1, <2>2
<1>3. CASE kind[r] = "npm"
  <2>1. Page(r, since) = After(r, shown, since)
    BY <1>3 DEF Page
  <2> QED BY <2>1
<1>4. CASE kind[r] = "cnpmcore"
  <2>1. Page(r, since) = After(r, First(shown, Limit), since) \/ Page(r, since) = {}
    BY <1>4 DEF Page
  <2> QED BY <1>2, <2>1 DEF StreamAssumption
<1>5. CASE kind[r] = "cnpmjsorg"
  <2>1. PageSizes(r, shown) \in SUBSET Nat /\ PageSizes(r, shown) # {}
    BY <1>5 DEF PageSizes, Refused, StreamAssumption
  <2>2. Least(PageSizes(r, shown)) \in Nat
    BY <2>1, FirstExists DEF Least
  <2>3. Page(r, since) = After(r, First(shown, Least(PageSizes(r, shown))), since)
    BY <1>5 DEF Page
  <2> QED BY <1>2, <2>2, <2>3
<1> QED BY <1>3, <1>4, <1>5 DEF LogsSorted

\* What fetchChanges yields leaves nothing out that it should not.
LEMMA PageIsWhole ==
  ASSUME StreamAssumption, LogsSorted, NEW r \in Registry, NEW since \in Int, ~Refused(r, since)
  PROVE  PageWhole(r, Page(r, since), since)
<1>1. PICK S \in SUBSET Shown(r, since) :
        /\ Page(r, since) = After(r, S, since) \/ Page(r, since) = {}
        /\ \A i \in S : \A j \in Shown(r, since) : j < i => j \in S
  BY PageHas
<1>2. CASE Page(r, since) = {}
  BY <1>2 DEF PageWhole
<1>3. CASE Page(r, since) = After(r, S, since)
  <2>1. \A h \in Page(r, since) : /\ h \in S /\ h \in DOMAIN log[r] /\ log[r][h].shown
                                 /\ since <= SeqAt(r, h)
    BY <1>1, <1>3, LogHas DEF After, Shown
  <2>2. ASSUME NEW h \in Page(r, since), NEW i \in DOMAIN log[r] \ Page(r, since),
               since < SeqAt(r, i), SeqAt(r, i) <= SeqAt(r, h)
        PROVE  Settled(r, i)
    <3>1. h \in DOMAIN log[r] /\ h \in Nat /\ i \in Nat /\ i # h
          /\ SeqAt(r, i) \in Int /\ SeqAt(r, h) \in Int
      BY <2>1, LogHas
    <3>2. CASE h < i
      <4>1. SeqAt(r, h) <= SeqAt(r, i)
        BY <3>1, <3>2, LogHas
      <4> QED BY <2>2, <3>1, <4>1 DEF Settled
    <3>3. CASE i < h /\ ~log[r][i].shown
      BY <2>1, <3>1, <3>3 DEF Settled
    <3>4. CASE i < h /\ log[r][i].shown
      <4>1. i \in Shown(r, since)
        BY <2>2, <3>1, <3>4 DEF Shown
      <4>2. i \in S
        BY <1>1, <2>1, <3>4, <4>1
      <4> QED BY <1>3, <2>2, <3>1, <4>2 DEF After
    <3> QED BY <3>1, <3>2, <3>3, <3>4
  <2> QED BY <2>1, <2>2 DEF PageWhole
<1> QED BY <1>1, <1>2, <1>3

-----------------------------------------------------------------------------
(* What is settled stays settled *)

\* Changes are added or shown, and more of them are noted; the first position
\* only rises.
Grows(r) ==
  /\ DOMAIN log[r] \subseteq DOMAIN log'[r]
  /\ \A i \in DOMAIN log[r] :
       /\ log'[r][i].seq = log[r][i].seq
       /\ log[r][i].shown => log'[r][i].shown
       /\ log'[r][i].shown /\ ~log[r][i].shown /\ (\E j \in DOMAIN log[r] : i < j /\ log[r][j].shown)
            => i \in past'.late[r]
  /\ \A i \in DOMAIN log'[r] \ DOMAIN log[r] :
       log'[r][i].seq <= LastSeq(r) => \E j \in DOMAIN log[r] : j # i /\ log'[r][j].seq = log'[r][i].seq
  /\ LastSeq(r) <= LastSeq(r)' /\ LastSeq(r)' \in Int
  /\ past.handled[r] \subseteq past'.handled[r] /\ past.failed[r] \subseteq past'.failed[r]
  /\ past.late[r] \subseteq past'.late[r]
  /\ past.first[r] \in Int => past'.first[r] \in Int /\ past.first[r] <= past'.first[r]

LEMMA SettledStays ==
  ASSUME LogsSorted, NEW r \in Registry, Grows(r), NEW i \in DOMAIN log[r], Settled(r, i)
  PROVE  Settled(r, i)'
<1>1. i \in DOMAIN log'[r] /\ \A j \in DOMAIN log[r] : j \in DOMAIN log'[r] /\ SeqAt(r, j)' = SeqAt(r, j)
  BY DEF Grows, SeqAt
<1>2. CASE \E j \in DOMAIN log[r] : j # i /\ SeqAt(r, j) = SeqAt(r, i)
  BY <1>1, <1>2 DEF Settled
<1>3. CASE log[r][i].shown /\ i \in past.handled[r] \cup past.failed[r] \cup past.late[r]
  BY <1>1, <1>3 DEF Grows, Settled
<1>4. CASE ~log[r][i].shown /\ \E j \in DOMAIN log[r] : i < j /\ log[r][j].shown
  <2>1. PICK j \in DOMAIN log[r] : i < j /\ log[r][j].shown
    BY <1>4
  <2>2. CASE log'[r][i].shown
    BY <1>1, <1>4, <2>2 DEF Grows, Settled
  <2>3. CASE ~log'[r][i].shown
    BY <1>1, <2>1, <2>3 DEF Grows, Settled
  <2> QED BY <2>2, <2>3
<1> QED BY <1>2, <1>3, <1>4 DEF Settled

\* A change that comes later with a number that is past has a twin.
LEMMA NewSettled ==
  ASSUME LogsSorted, NEW r \in Registry, Grows(r),
         NEW i \in DOMAIN log'[r] \ DOMAIN log[r], SeqAt(r, i)' <= LastSeq(r)
  PROVE  Settled(r, i)'
<1>1. PICK j \in DOMAIN log[r] : j # i /\ log'[r][j].seq = log'[r][i].seq
  BY DEF Grows, SeqAt
<1> QED BY <1>1 DEF Grows, Settled, SeqAt

LEMMA PositionStays ==
  ASSUME LogsSorted, LogsSorted', NEW r \in Registry, Grows(r), NEW since, Position(r, since)
  PROVE  Position(r, since)'
<1>1. since \in Int /\ since <= LastSeq(r) /\ past.first[r] \in Int /\ LastSeq(r) \in Int
  BY LastIsLast DEF Position
<1>2. since <= LastSeq(r)' /\ past'.first[r] \in Int /\ past.first[r] <= past'.first[r]
  BY <1>1 DEF Grows
<1>3. ASSUME NEW i \in DOMAIN log'[r], past'.first[r] < SeqAt(r, i)', SeqAt(r, i)' <= since
      PROVE  Settled(r, i)'
  <2>1. SeqAt(r, i)' \in Int
    BY NewNumbers
  <2>2. CASE i \in DOMAIN log[r]
    <3>1. SeqAt(r, i)' = SeqAt(r, i)
      BY <2>2 DEF Grows, SeqAt
    <3>2. Settled(r, i)
      BY <1>1, <1>2, <1>3, <2>1, <2>2, <3>1 DEF Position
    <3> QED BY <2>2, <3>2, SettledStays
  <2>3. CASE i \notin DOMAIN log[r]
    <3>1. SeqAt(r, i)' <= LastSeq(r)
      BY <1>1, <1>3, <2>1
    <3> QED BY <2>3, <3>1, NewSettled
  <2> QED BY <2>2, <2>3
<1> QED BY <1>1, <1>2, <1>3 DEF Position

LEMMA PageStays ==
  ASSUME LogsSorted, LogsSorted', NEW r \in Registry, Grows(r),
         NEW page, NEW last \in Int, PageWhole(r, page, last)
  PROVE  PageWhole(r, page, last)'
<1>1. /\ page \subseteq DOMAIN log[r] /\ page \subseteq DOMAIN log'[r]
      /\ \A i \in DOMAIN log[r] : SeqAt(r, i)' = SeqAt(r, i)
  BY DEF PageWhole, Grows, SeqAt
<1>2. ASSUME NEW h \in page
      PROVE  log'[r][h].shown /\ last <= SeqAt(r, h)'
  BY <1>1 DEF PageWhole, Grows
<1>3. ASSUME NEW h \in page, NEW i \in DOMAIN log'[r] \ page,
             last < SeqAt(r, i)', SeqAt(r, i)' <= SeqAt(r, h)'
      PROVE  Settled(r, i)'
  <2>1. CASE i \in DOMAIN log[r]
    <3>1. Settled(r, i)
      BY <1>1, <1>3, <2>1 DEF PageWhole
    <3> QED BY <2>1, <3>1, SettledStays
  <2>2. CASE i \notin DOMAIN log[r]
    <3>1. SeqAt(r, h) <= LastSeq(r) /\ SeqAt(r, h)' = SeqAt(r, h) /\ SeqAt(r, h) \in Int /\ LastSeq(r) \in Int
      BY <1>1, LastIsLast, LogHas
    <3>2. SeqAt(r, i)' \in Int
      BY NewNumbers
    <3>3. SeqAt(r, i)' <= LastSeq(r)
      BY <1>3, <3>1, <3>2
    <3> QED BY <2>2, <3>3, NewSettled
  <2> QED BY <2>1, <2>2
<1> QED BY <1>1, <1>2, <1>3 DEF PageWhole

\* Rows and executors that do not take a new position keep a good one.
LEMMA ReadFrame ==
  ASSUME StreamAssumption, Inv, LogsSorted, LogsSorted', PositionsSettled,
         \A r \in Registry : Grows(r),
         \A r \in Registry : row'[r].since \in {None, row[r].since} \/ Position(r, row[r].since)',
         \A f \in Executor : ex'[f] = ex[f] \/ Reads(f)'
  PROVE  PositionsSettled'
<1>1. ASSUME NEW r \in Registry, row'[r].since # None
      PROVE  Position(r, row[r].since)'
  <2>1. CASE row'[r].since = row[r].since
    <3>1. PICK since : since = row[r].since
      OBVIOUS
    <3>2. Position(r, since)
      BY <1>1, <2>1, <3>1 DEF PositionsSettled
    <3>3. Position(r, since)'
      BY <3>2, PositionStays
    <3> QED BY <2>1, <3>1, <3>3
  <2> QED BY <1>1, <2>1
<1>2. ASSUME NEW f \in Executor, ex'[f] = ex[f]
      PROVE  Reads(f)'
  <2>1. PICK w : w = ex[f]
    OBVIOUS
  <2>2. w.step \in {"prepare", "fetch", "change", "create", "save"} => w.t \in Registry
    BY <2>1 DEF Inv, StreamsKnown, Executing
  <2>3. Reads(f)
    BY DEF PositionsSettled
  <2>4. w.step \in {"prepare", "fetch"} =>
          IF w.since = None THEN w.step = "prepare" ELSE Position(w.t, w.since)'
    BY <2>1, <2>2, <2>3, PositionStays DEF Reads
  <2>5. w.step \in {"change", "create", "save"} =>
          Position(w.t, w.last)' /\ PageWhole(w.t, w.page, w.last)'
    <3> SUFFICES ASSUME w.step \in {"change", "create", "save"}
                 PROVE  Position(w.t, w.last)' /\ PageWhole(w.t, w.page, w.last)'
      OBVIOUS
    <3>1. Position(w.t, w.last) /\ PageWhole(w.t, w.page, w.last) /\ w.t \in Registry
      BY <2>1, <2>2, <2>3 DEF Reads
    <3>2. w.last \in Int
      BY <3>1 DEF Position
    <3> QED BY <3>1, <3>2, PositionStays, PageStays
  <2>6. w.step = "create" => w.page # {}
    BY <2>1, <2>3 DEF Reads
  <2>7. ASSUME Executing(f), w.copy # None
        PROVE  Position(w.t, w.copy)'
    <3>1. Position(w.t, w.copy) /\ w.t \in Registry
      BY <2>1, <2>2, <2>3, <2>7 DEF Reads, Executing
    <3> QED BY <3>1, PositionStays
  <2> QED BY <1>2, <2>1, <2>4, <2>5, <2>6, <2>7 DEF Reads, Executing
<1> QED BY <1>1, <1>2 DEF PositionsSettled

\* What a step may do to the history of changes.
Notes ==
  /\ past'.first \in [Registry -> Int \cup {None}]
  /\ \A how \in {"handled", "failed", "late"} : past'[how] \in [Registry -> SUBSET Nat]
  /\ \A r \in Registry :
       /\ past.handled[r] \subseteq past'.handled[r] /\ past.failed[r] \subseteq past'.failed[r]
       /\ past.late[r] \subseteq past'.late[r]
       /\ past.first[r] \in Int => past'.first[r] \in Int /\ past.first[r] <= past'.first[r]

LEMMA NotesStay ==
  ASSUME LogsSorted, past'.first = past.first, past'.handled = past.handled,
         past'.failed = past.failed, past'.late = past.late
  PROVE  Notes
BY DEF LogsSorted, Notes

LEMMA Noted ==
  ASSUME LogsSorted, Notes, UNCHANGED <<kind, log>>
  PROVE  LogsSorted' /\ \A r \in Registry : Grows(r)
<1>1. LogsSorted'
  BY DEF LogsSorted, Notes, SeqAt
<1>2. ASSUME NEW r \in Registry
      PROVE  Grows(r)
  <2>1. LastSeq(r)' = LastSeq(r)
    BY DEF LastSeq
  <2>2. LastSeq(r) \in Int
    BY LastIsLast
  <2> QED BY <2>1, <2>2 DEF Notes, Grows
<1> QED BY <1>1, <1>2

\* The least change of a page is dealt with: the position moves to it.
LEMMA TurnPage ==
  ASSUME LogsSorted, NEW t \in Registry, NEW page, NEW last,
         LogsSorted', Grows(t), UNCHANGED log,
         Position(t, last), PageWhole(t, page, last), page # {},
         NEW h, h = Least(page), h \in past'.handled[t] \cup past'.failed[t]
  PROVE  /\ Position(t, SeqAt(t, h))' /\ PageWhole(t, page \ {h}, SeqAt(t, h))'
         /\ h \in DOMAIN log[t]
<1>1. h \in page /\ \A j \in page : h <= j
  <2>1. page \in SUBSET Nat
    BY LogHas DEF PageWhole
  <2> QED BY <2>1, FirstExists DEF Least
<1>2. PICK next : next = SeqAt(t, h) /\ next \in Int
  BY <1>1, LogHas DEF PageWhole
<1>3. SeqAt(t, h)' = next /\ DOMAIN log'[t] = DOMAIN log[t] /\ last \in Int /\ last <= next
      /\ h \in DOMAIN log[t] /\ log'[t][h].shown /\ page \subseteq DOMAIN log[t]
      /\ \A i \in DOMAIN log[t] : SeqAt(t, i)' = SeqAt(t, i)
  BY <1>1, <1>2 DEF PageWhole, Position, SeqAt
<1>4. Settled(t, h)'
  BY <1>3 DEF Settled
<1>5. PageWhole(t, page, last)' /\ Position(t, last)'
  BY <1>3, PageStays, PositionStays
<1>6. Position(t, next)'
  <2>1. next <= LastSeq(t)'
    BY <1>2, <1>3, LastIsLast DEF LastSeq
  <2>2. ASSUME NEW i \in DOMAIN log'[t], past'.first[t] < SeqAt(t, i)', SeqAt(t, i)' <= next
        PROVE  Settled(t, i)'
    <3>1. SeqAt(t, i)' \in Int /\ past'.first[t] \in Int
      BY NewNumbers, <1>5 DEF Position
    <3>2. CASE SeqAt(t, i)' <= last
      BY <1>5, <2>2, <3>2 DEF Position
    <3>3. CASE last < SeqAt(t, i)' /\ i \notin page
      BY <1>1, <1>3, <1>5, <2>2, <3>3 DEF PageWhole
    <3>4. CASE i \in page /\ i # h
      <4>1. SeqAt(t, h) <= SeqAt(t, i)
        BY <1>1, <1>3, <3>4, LogHas
      <4>2. SeqAt(t, i)' = SeqAt(t, h)'
        BY <1>2, <1>3, <2>2, <3>1, <3>4, <4>1
      <4> QED BY <1>3, <3>4, <4>2 DEF Settled
    <3> QED BY <1>3, <1>4, <3>1, <3>2, <3>3, <3>4
  <2> QED BY <1>2, <1>5, <2>1, <2>2 DEF Position
<1>7. PageWhole(t, page \ {h}, next)'
  <2>1. ASSUME NEW g \in page \ {h}
        PROVE  log'[t][g].shown /\ next <= SeqAt(t, g)'
    <3>1. SeqAt(t, h) <= SeqAt(t, g)
      BY <1>1, <1>3, LogHas
    <3> QED BY <1>2, <1>3, <1>5, <3>1 DEF PageWhole
  <2>2. ASSUME NEW g \in page \ {h}, NEW i \in DOMAIN log'[t] \ (page \ {h}),
               next < SeqAt(t, i)', SeqAt(t, i)' <= SeqAt(t, g)'
        PROVE  Settled(t, i)'
    <3>1. SeqAt(t, i)' \in Int
      BY NewNumbers
    <3>2. CASE i = h
      BY <1>4, <3>2
    <3>3. CASE i \notin page
      BY <1>2, <1>3, <1>5, <2>2, <3>1, <3>3 DEF PageWhole
    <3> QED BY <3>2, <3>3
  <2> QED BY <1>3, <2>1, <2>2 DEF PageWhole
<1> QED BY <1>3, <1>6, <1>7

-----------------------------------------------------------------------------
(* The steps, again: positions *)

Reading == LogsSorted /\ PositionsSettled

HistoryStays ==
  /\ past'.first = past.first /\ past'.handled = past.handled
  /\ past'.failed = past.failed /\ past'.late = past.late

\* A step that reads nothing.
LEMMA Quiet ==
  ASSUME StreamAssumption, Inv, Reading, UNCHANGED <<kind, log>>, HistoryStays,
         \A r \in Registry : row'[r].since \in {None, row[r].since},
         \A f \in Executor : ex'[f] = ex[f] \/ ex'[f].step \in {"idle", "adopt", "publish"}
  PROVE  Reading'
<1>1. LogsSorted' /\ \A r \in Registry : Grows(r)
  BY NotesStay, Noted DEF Reading, HistoryStays
<1>2. \A f \in Executor : ex'[f] = ex[f] \/ Reads(f)'
  BY DEF Reads, Executing
<1> QED BY <1>1, <1>2, ReadFrame DEF Reading

LEMMA QuietUpstream ==
  ASSUME StreamAssumption, Inv, Reading,
         \/ \E r \in Registry : Timeout(r) \/ StartStream(r)
         \/ EnsureGlobal \/ \E k \in Package : AskSync(k)
  PROVE  Reading'
<1>1. UNCHANGED <<kind, log, ex, past>>
  BY DEF Timeout, StartStream, EnsureGlobal, AskSync
<1>2. ASSUME NEW t \in Registry, Timeout(t), NEW r \in Registry
      PROVE  row'[r].since \in {None, row[r].since}
  <2>1. row' = [row EXCEPT ![t].processing = FALSE]
    BY <1>2 DEF Timeout
  <2> QED BY <2>1 DEF Inv, Shapes, NoStream
<1>3. ASSUME NEW t \in Registry, StartStream(t), NEW r \in Registry
      PROVE  row'[r].since \in {None, row[r].since}
  <2>1. PICK new : new = [NoStream EXCEPT !.started = TRUE, !.registry = t]
    OBVIOUS
  <2>2. row' = [row EXCEPT ![t] = new] /\ new.since = None
    BY <1>3, <2>1 DEF StartStream, NoStream
  <2> QED BY <2>2 DEF Inv, Shapes
<1>4. ASSUME EnsureGlobal, NEW r \in Registry
      PROVE  row'[r].since \in {None, row[r].since}
  <2>1. PICK new : new = [NoStream EXCEPT !.started = TRUE]
    OBVIOUS
  <2>2. row' = [row EXCEPT ![Default] = new] /\ new.since = None
    BY <1>4, <2>1 DEF EnsureGlobal, NoStream
  <2> QED BY <2>2 DEF Inv, Shapes
<1>5. \A r \in Registry : row'[r].since \in {None, row[r].since}
  BY <1>2, <1>3, <1>4 DEF AskSync
<1> QED BY <1>1, <1>5, Quiet DEF HistoryStays

LEMMA QuietAdmin ==
  ASSUME StreamAssumption, Inv, Reading, Admin
  PROVE  Reading'
<1>1. CASE \E r \in Registry : StartStream(r)
  BY <1>1, QuietUpstream
<1>2. ASSUME UNCHANGED <<kind, log, row, ex>>, HistoryStays
      PROVE  Reading'
  BY <1>2, Quiet
<1>3. ASSUME NEW r \in Registry, CreateRegistry(r) \/ RemoveRegistry(r)
      PROVE  Reading'
  <2>1. UNCHANGED <<kind, log, row, ex>>
    BY <1>3 DEF CreateRegistry, RemoveRegistry, taskVars
  <2>2. PICK v : past' = past \/ past' = [past EXCEPT !.removed = v]
    BY <1>3 DEF CreateRegistry, RemoveRegistry
  <2>3. HistoryStays
    BY <2>2 DEF HistoryStays, Inv, Shapes
  <2> QED BY <1>2, <2>1, <2>3
<1>4. ASSUME NEW s \in Scope, RemoveScope(s) \/ \E r \in Registry : CreateScope(s, r)
      PROVE  Reading'
  <2>1. UNCHANGED <<kind, log, row, ex>>
    BY <1>4 DEF CreateScope, RemoveScope, taskVars
  <2>2. PICK v : past' = past \/ past' = [past EXCEPT !.stripped = v]
    BY <1>4 DEF CreateScope, RemoveScope
  <2>3. HistoryStays
    BY <2>2 DEF HistoryStays, Inv, Shapes
  <2> QED BY <1>2, <2>1, <2>3
<1>5. ASSUME NEW a \in admin, InsertScope(a) \/ RemoveScopes(a) \/ BreakOff(a)
      PROVE  Reading'
  <2>1. UNCHANGED <<kind, log, row, ex>>
    BY <1>5 DEF InsertScope, RemoveScopes, BreakOff, taskVars
  <2>2. PICK v : past' = past \/ past' = [past EXCEPT !.orphaned = v]
    BY <1>5 DEF InsertScope, RemoveScopes, BreakOff
  <2>3. HistoryStays
    BY <2>2 DEF HistoryStays, Inv, Shapes
  <2> QED BY <1>2, <2>1, <2>3
<1> QED BY <1>1, <1>3, <1>4, <1>5 DEF Admin

LEMMA QuietExecutor ==
  ASSUME StreamAssumption, Inv, Reading, NEW e \in Executor,
         \/ Adopt(e) \/ Publish(e) \/ NothingNew(e) \/ Die(e)
         \/ \E k \in Package : StartSync(e, k) \/ StartPublish(e, k)
  PROVE  Reading'
<1>1. UNCHANGED <<kind, log>>
  BY DEF Adopt, Publish, NothingNew, Die, StartSync, SyncBegins, StartPublish
<1>2. HistoryStays
  <2>1. PICK v : past' = past \/ past' = [past EXCEPT !.crossed = v]
    <3>1. CASE Adopt(e) \/ Publish(e)
      BY <3>1 DEF Adopt, Publish, Settle
    <3>2. CASE NothingNew(e) \/ Die(e)
      BY <3>2 DEF NothingNew, Die
    <3>3. CASE \E k \in Package : StartSync(e, k) \/ StartPublish(e, k)
      BY <3>3 DEF StartSync, SyncBegins, StartPublish
    <3> QED BY <3>1, <3>2, <3>3
  <2> QED BY <2>1 DEF HistoryStays, Inv, Shapes
<1>3. \A r \in Registry : row'[r].since \in {None, row[r].since}
  BY DEF Adopt, Publish, NothingNew, Die, StartSync, SyncBegins, StartPublish, taskVars
<1>4. \A f \in Executor : ex'[f] = ex[f] \/ ex'[f].step \in {"idle", "adopt", "publish"}
  <2>1. PICK new : /\ UNCHANGED ex \/ ex' = [ex EXCEPT ![e] = new]
                   /\ new.step \in {"idle", "adopt", "publish"}
    <3>1. CASE Publish(e) \/ NothingNew(e) \/ Die(e)
      <4>1. PICK new : new = Idle
        OBVIOUS
      <4>2. new.step = "idle"
        BY <4>1 DEF Idle
      <4> QED BY <3>1, <4>1, <4>2 DEF Publish, NothingNew, Die
    <3>2. CASE Adopt(e)
      <4>1. PICK new : new = [ex[e] EXCEPT !.step = "publish", !.seen = ex[e].registry]
        OBVIOUS
      <4>2. ex' = [ex EXCEPT ![e] = new] /\ new.step = "publish"
        BY <3>2, <4>1 DEF Adopt, Inv, Shapes, Idle
      <4> QED BY <4>2
    <3>3. ASSUME NEW k \in Package, StartSync(e, k)
          PROVE  \E new : /\ UNCHANGED ex \/ ex' = [ex EXCEPT ![e] = new]
                          /\ new.step \in {"idle", "adopt", "publish"}
      <4>1. PICK new : new = SyncFrom(k, SpecRegistry(k))
        OBVIOUS
      <4>2. new.step \in {"idle", "adopt", "publish"}
        BY <4>1 DEF SyncFrom, Idle
      <4> QED BY <3>3, <4>1, <4>2 DEF StartSync
    <3>4. ASSUME NEW k \in Package, StartPublish(e, k)
          PROVE  \E new : /\ UNCHANGED ex \/ ex' = [ex EXCEPT ![e] = new]
                          /\ new.step \in {"idle", "adopt", "publish"}
      <4>1. PICK new : new = [Idle EXCEPT !.step = "publish", !.registry = Self, !.pkg = k, !.seen = home[k]]
        OBVIOUS
      <4>2. new.step = "publish"
        BY <4>1 DEF Idle
      <4> QED BY <3>4, <4>1, <4>2 DEF StartPublish
    <3> QED BY <3>1, <3>2, <3>3, <3>4
  <2> QED BY <2>1 DEF Inv, Shapes
<1> QED BY <1>1, <1>2, <1>3, <1>4, Quiet

\* Executor e reads on: its new record, and the row it may have saved.
LEMMA ReadsOn ==
  ASSUME StreamAssumption, Inv, Reading, NEW e \in Executor, NEW t \in Registry,
         UNCHANGED <<kind, log>>, Notes, Only(e), Reads(e)',
         \A r \in Registry \ {t} : row'[r] = row[r],
         row'[t].since \in {None, row[t].since} \/ Position(t, row[t].since)'
  PROVE  Reading'
<1>1. LogsSorted' /\ \A r \in Registry : Grows(r)
  BY Noted DEF Reading
<1>2. \A f \in Executor : ex'[f] = ex[f] \/ Reads(f)'
  BY DEF Only
<1>3. ASSUME NEW r \in Registry
      PROVE  row'[r].since \in {None, row[r].since} \/ Position(r, row[r].since)'
  <2>1. CASE r = t
    BY <2>1
  <2>2. CASE r # t
    BY <2>2
  <2> QED BY <2>1, <2>2
<1> QED BY <1>1, <1>2, <1>3, ReadFrame DEF Reading

LEMMA ReadTake ==
  ASSUME StreamAssumption, Inv, Reading, NEW e \in Executor, NEW t \in Registry, Take(e, t)
  PROVE  Reading'
<1>1. PICK since : since = row[t].since
  OBVIOUS
<1>2. PICK new : new = [Idle EXCEPT !.step = "prepare", !.t = t, !.registry = row[t].registry,
                                    !.copy = since, !.since = since]
  OBVIOUS
<1>3. DOMAIN new = DOMAIN Idle /\ new.step = "prepare" /\ new.t = t /\ new.copy = since /\ new.since = since
  BY <1>2 DEF Idle
<1>4. ex' = [ex EXCEPT ![e] = new] /\ row' = [row EXCEPT ![t].processing = TRUE]
  BY <1>1, <1>2 DEF Take
<1>5. Only(e) /\ ex'[e] = new
  BY <1>3, <1>4 DEF Only, Inv, Shapes
<1>6. UNCHANGED <<kind, log>> /\ Notes
  BY NotesStay DEF Take, Reading
<1>7. since # None => Position(t, since)'
  <2>1. since # None => Position(t, since)
    BY <1>1 DEF Reading, PositionsSettled
  <2>2. LogsSorted' /\ Grows(t)
    BY <1>6, Noted DEF Reading
  <2> QED BY <2>1, <2>2, PositionStays DEF Reading
<1>8. Reads(e)'
  BY <1>3, <1>5, <1>7 DEF Reads
<1>9. row'[t].since = row[t].since /\ \A r \in Registry \ {t} : row'[r] = row[r]
  BY <1>4 DEF Inv, Shapes, NoStream
<1> QED BY <1>5, <1>6, <1>8, <1>9, ReadsOn

\* Where an executor is keeps good while it only notes.
LEMMA OwnPosition ==
  ASSUME StreamAssumption, Inv, Reading, NEW e \in Executor, Executing(e),
         UNCHANGED <<kind, log>>, Notes
  PROVE  /\ LogsSorted /\ LogsSorted' /\ Grows(ex[e].t) /\ ex[e].t \in Registry
         /\ ex[e].copy # None =>
              \A p, t : p = ex[e].copy /\ t = ex[e].t => Position(t, p) /\ Position(t, p)'
         /\ ex[e].step \in {"prepare", "fetch"} /\ ex[e].since # None =>
              \A p, t : p = ex[e].since /\ t = ex[e].t => Position(t, p) /\ Position(t, p)'
         /\ ex[e].step \in {"change", "create", "save"} =>
              \A p, t, page : p = ex[e].last /\ t = ex[e].t /\ page = ex[e].page =>
                /\ Position(t, p) /\ PageWhole(t, page, p)
                /\ Position(t, p)' /\ PageWhole(t, page, p)'
<1>1. ex[e].t \in Registry
  BY DEF Inv, StreamsKnown
<1>2. LogsSorted /\ LogsSorted' /\ Grows(ex[e].t)
  BY <1>1, Noted DEF Reading
<1>3. Reads(e)
  BY DEF Reading, PositionsSettled
<1>4. ASSUME ex[e].step \in {"prepare", "fetch"}, ex[e].since # None, NEW p, p = ex[e].since, NEW t, t = ex[e].t
      PROVE  Position(t, p) /\ Position(t, p)'
  BY <1>1, <1>2, <1>3, <1>4, PositionStays DEF Reads
<1>5. ASSUME ex[e].step \in {"change", "create", "save"}, NEW p, NEW t, NEW page,
             p = ex[e].last, t = ex[e].t, page = ex[e].page
      PROVE  /\ Position(t, p) /\ PageWhole(t, page, p)
             /\ Position(t, p)' /\ PageWhole(t, page, p)'
  <2>1. Position(t, p) /\ PageWhole(t, page, p) /\ t \in Registry /\ Grows(t)
    BY <1>1, <1>2, <1>3, <1>5 DEF Reads
  <2>2. p \in Int
    BY <2>1 DEF Position
  <2> QED BY <1>2, <2>1, <2>2, PositionStays, PageStays
<1>6. ASSUME ex[e].copy # None, NEW p, p = ex[e].copy, NEW t, t = ex[e].t
      PROVE  Position(t, p) /\ Position(t, p)'
  BY <1>1, <1>2, <1>3, <1>6, PositionStays DEF Reads
<1> QED BY <1>1, <1>2, <1>4, <1>5, <1>6

\* A stream throws: the copy is saved.
LEMMA ReadThrow ==
  ASSUME StreamAssumption, Inv, Reading, NEW e \in Executor, Throws(e)
  PROVE  Reading'
<1>1. Executing(e) /\ UNCHANGED <<kind, log, past>> /\ ex' = [ex EXCEPT ![e] = Idle]
  BY DEF Throws, Step, Executing
<1>2. Notes
  BY <1>1, NotesStay DEF Reading
<1>3. PICK t \in Registry : t = ex[e].t
  BY <1>1 DEF Inv, StreamsKnown
<1>4. PICK c : c = ex[e].copy
  OBVIOUS
<1>5. c # None => Position(t, c)'
  BY <1>1, <1>2, <1>3, <1>4, OwnPosition
<1>6. \A f \in Executor : ex'[f] = ex[f] \/ Reads(f)'
  <2>1. PICK new : new = Idle
    OBVIOUS
  <2>2. ex' = [ex EXCEPT ![e] = new] /\ new.step = "idle"
    BY <1>1, <2>1 DEF Idle
  <2>3. \A f \in Executor : ex'[f] = ex[f] \/ ex'[f].step = "idle"
    BY <2>2 DEF Inv, Shapes
  <2> QED BY <2>3 DEF Reads, Executing
<1>7. PICK copy : copy = [started |-> TRUE, processing |-> TRUE,
                          registry |-> ex[e].registry, since |-> ex[e].copy]
  OBVIOUS
<1>8. PICK rows : Throwing(t, copy, rows)
  BY <1>3, <1>7, ThrowSaves
<1>9. ASSUME NEW r \in Registry
      PROVE  row'[r].since \in {None, row[r].since} \/ Position(r, row[r].since)'
  <2>1. /\ copy.since = c /\ "since" \in DOMAIN copy
        /\ "since" \in DOMAIN row[r] /\ "since" # "processing"
    BY <1>4, <1>7 DEF Inv, Shapes, NoStream
  <2>2. row'[r].since = IF r = t THEN c ELSE row[r].since
    BY <1>8, <2>1 DEF Throwing, Inv, Shapes
  <2>3. CASE r = t
    BY <1>5, <2>2, <2>3
  <2>4. CASE r # t
    BY <2>2, <2>4
  <2> QED BY <2>3, <2>4
<1>10. LogsSorted' /\ \A r \in Registry : Grows(r)
  BY <1>1, <1>2, Noted DEF Reading
<1> QED BY <1>6, <1>9, <1>10, ReadFrame DEF Reading

LEMMA ReadPrepareDefault ==
  ASSUME StreamAssumption, Inv, Reading, NEW e \in Executor, PrepareDefault(e)
  PROVE  Reading'
<1>1. /\ ex[e].step = "prepare" /\ ex[e].t = Default /\ Executing(e) /\ Default \in Registry
      /\ ex' = [ex EXCEPT ![e].registry = Default]
  BY DEF PrepareDefault, Step, Inv, StreamsKnown, Executing, StreamAssumption
<1>2. UNCHANGED <<kind, log>> /\ Notes
  BY NotesStay DEF PrepareDefault, Reading
<1>3. PICK since : since = ex[e].since
  OBVIOUS
<1>4. since # None => Position(Default, since)'
  BY <1>1, <1>2, <1>3, OwnPosition
<1>5. /\ Only(e) /\ ex'[e].step = "prepare" /\ ex'[e].t = Default /\ ex'[e].since = since
      /\ ex'[e].copy = ex[e].copy
  BY <1>1, <1>3 DEF Only, Inv, Shapes, Idle
<1>10. PICK c : c = ex[e].copy
  OBVIOUS
<1>11. c # None => Position(Default, c)'
  BY <1>1, <1>2, <1>10, OwnPosition
<1>6. Reads(e)'
  BY <1>4, <1>5, <1>10, <1>11 DEF Reads
<1>7. row' = [row EXCEPT ![Default].registry = Default, ![Default].processing = TRUE, ![Default].since = since]
  BY <1>1, <1>3 DEF PrepareDefault
<1>8. row'[Default].since = since /\ \A r \in Registry \ {Default} : row'[r] = row[r]
  BY <1>1, <1>7 DEF Inv, Shapes, NoStream
<1>9. row'[Default].since \in {None, row[Default].since} \/ Position(Default, row[Default].since)'
  BY <1>4, <1>8
<1> QED BY <1>1, <1>2, <1>5, <1>6, <1>8, <1>9, ReadsOn

\* It starts from the latest change, or a little before; first rises to that.
LEMMA ReadPrepare ==
  ASSUME StreamAssumption, Inv, Reading, NEW e \in Executor, Prepare(e)
  PROVE  Reading'
<1>1. ex[e].step = "prepare" /\ ex[e].registry # None /\ Executing(e)
  BY DEF Prepare, Step, StreamAssumption, Inv, RowsKnown, Executing
<1>2. PICK t \in Registry : t = ex[e].t /\ ex[e].registry = t
  BY <1>1, StreamHas
<1>3. PICK since : since = IF ex[e].since = None THEN InitialSince(t) ELSE ex[e].since
  OBVIOUS
<1>4. /\ UNCHANGED <<kind, log, row>>
      /\ ex' = [ex EXCEPT ![e].step = "fetch", ![e].since = since]
      /\ past' = IF ex[e].since = None /\ (past.first[t] = None \/ past.first[t] < since)
                 THEN [past EXCEPT !.first[t] = since] ELSE past
  BY <1>2, <1>3 DEF Prepare, taskVars
<1>5. ex[e].since = None => since \in Int /\ since <= LastSeq(t)
  BY <1>3, LastIsLast DEF InitialSince, StreamAssumption, Reading
<1>6. /\ Notes
      /\ ex[e].since = None => past'.first[t] \in Int /\ since <= past'.first[t]
  <2>1. CASE UNCHANGED past
    <3>1. Notes
      BY <2>1, NotesStay DEF Reading
    <3>2. past.first[t] \in Int \cup {None}
      BY DEF Reading, LogsSorted
    <3>3. ex[e].since = None => past.first[t] \in Int /\ since <= past.first[t]
      <4> SUFFICES ASSUME ex[e].since = None
                   PROVE  past.first[t] \in Int /\ since <= past.first[t]
        OBVIOUS
      <4>1. CASE past.first[t] = None \/ past.first[t] < since
        <5>1. past'.first[t] = since
          BY <1>4, <4>1 DEF Inv, Shapes, Reading, LogsSorted
        <5> QED BY <1>5, <2>1, <5>1
      <4>2. CASE ~(past.first[t] = None \/ past.first[t] < since)
        BY <1>5, <3>2, <4>2
      <4> QED BY <4>1, <4>2
    <3> QED BY <2>1, <3>1, <3>3
  <2>2. CASE ~UNCHANGED past
    <3>1. /\ ex[e].since = None /\ (past.first[t] = None \/ past.first[t] < since)
          /\ past' = [past EXCEPT !.first[t] = since]
      BY <1>4, <2>2
    <3>2. /\ past'.first = [past.first EXCEPT ![t] = since] /\ past'.handled = past.handled
          /\ past'.failed = past.failed /\ past'.late = past.late
      BY <3>1 DEF Inv, Shapes
    <3>3. /\ past'.first \in [Registry -> Int \cup {None}] /\ past'.first[t] = since
          /\ \A r \in Registry : past'.first[r] = IF r = t THEN since ELSE past.first[r]
      BY <1>5, <3>1, <3>2 DEF Reading, LogsSorted
    <3>4. ASSUME NEW r \in Registry, past.first[r] \in Int
          PROVE  past'.first[r] \in Int /\ past.first[r] <= past'.first[r]
      BY <1>5, <3>1, <3>3, <3>4 DEF StreamAssumption
    <3> QED BY <1>5, <3>1, <3>2, <3>3, <3>4 DEF Notes, Reading, LogsSorted
  <2> QED BY <2>1, <2>2
<1>7. Position(t, since)'
  <2>1. CASE ex[e].since = None
    <3>1. since \in Int /\ since <= LastSeq(t)' /\ past'.first[t] \in Int /\ since <= past'.first[t]
      BY <1>4, <1>5, <1>6, <2>1 DEF LastSeq
    <3>2. LogsSorted'
      BY <1>4, <1>6, Noted DEF Reading
    <3>3. ASSUME NEW i \in DOMAIN log'[t], past'.first[t] < SeqAt(t, i)', SeqAt(t, i)' <= since
          PROVE  FALSE
      BY <3>1, <3>2, <3>3, NewNumbers
    <3> QED BY <3>1, <3>3 DEF Position
  <2>2. CASE ex[e].since # None
    BY <1>1, <1>2, <1>3, <1>4, <1>6, <2>2, OwnPosition
  <2> QED BY <2>1, <2>2
<1>8. /\ Only(e) /\ ex'[e].step = "fetch" /\ ex'[e].t = t /\ ex'[e].since = since
      /\ ex'[e].copy = ex[e].copy
  BY <1>2, <1>4 DEF Only, Inv, Shapes, Idle
<1>9. Reads(e)'
  <2>1. since # None
    BY <1>7 DEF Position, StreamAssumption
  <2>2. PICK c : c = ex[e].copy
    OBVIOUS
  <2>3. c # None => Position(t, c)'
    BY <1>1, <1>2, <1>4, <1>6, <2>2, OwnPosition
  <2> QED BY <1>7, <1>8, <2>1, <2>2, <2>3 DEF Reads
<1> QED BY <1>4, <1>6, <1>8, <1>9, ReadsOn

LEMMA ReadFetch ==
  ASSUME StreamAssumption, Inv, Reading, NEW e \in Executor, Fetch(e)
  PROVE  Reading'
<1>1. ex[e].step = "fetch" /\ Executing(e)
  BY DEF Fetch, Step, Executing
<1>2. PICK t \in Registry : t = ex[e].t /\ ex[e].registry = t
  BY <1>1, StreamHas
<1>3. PICK since : since = ex[e].since
  OBVIOUS
<1>4. PICK page : page = Page(t, since)
  OBVIOUS
<1>5. /\ UNCHANGED <<kind, log, row>> /\ ~Refused(t, since)
      /\ ex' = [ex EXCEPT ![e].step = "change", ![e].page = page, ![e].last = since, ![e].asked = FALSE]
  BY <1>2, <1>3, <1>4 DEF Fetch, taskVars
<1>6. Notes
  BY NotesStay DEF Fetch, Reading
<1>7. since # None
  BY <1>1, <1>3 DEF Reading, PositionsSettled, Reads
<1>8. Position(t, since) /\ Position(t, since)' /\ LogsSorted /\ LogsSorted' /\ Grows(t)
  BY <1>1, <1>2, <1>3, <1>5, <1>6, <1>7, OwnPosition
<1>9. PageWhole(t, page, since)'
  <2>1. since \in Int
    BY <1>8 DEF Position
  <2>2. PageWhole(t, page, since)
    BY <1>4, <1>5, <1>8, <2>1, PageIsWhole
  <2> QED BY <1>8, <2>1, <2>2, PageStays
<1>10. /\ Only(e) /\ ex'[e].step = "change" /\ ex'[e].t = t
       /\ ex'[e].last = since /\ ex'[e].page = page /\ ex'[e].copy = ex[e].copy
  BY <1>2, <1>5 DEF Only, Inv, Shapes, Idle
<1>11. Reads(e)'
  <2>1. PICK c : c = ex[e].copy
    OBVIOUS
  <2>2. c # None => Position(t, c)'
    BY <1>1, <1>2, <1>5, <1>6, <2>1, OwnPosition
  <2> QED BY <1>8, <1>9, <1>10, <2>1, <2>2 DEF Reads
<1> QED BY <1>5, <1>6, <1>10, <1>11, ReadsOn

LEMMA SavesAt ==
  ASSUME Inv, NEW e \in Executor, NEW t \in Registry, t = ex[e].t, NEW since, Save(e, since)
  PROVE  row'[t].since = since /\ \A r \in Registry \ {t} : row'[r] = row[r]
<1>1. PICK copy : copy = [started |-> TRUE, processing |-> TRUE, registry |-> ex[e].registry, since |-> since]
  OBVIOUS
<1>2. row' = [row EXCEPT ![t] = copy] /\ copy.since = since
  BY <1>1 DEF Save, Saved
<1> QED BY <1>2 DEF Inv, Shapes

\* The change at hand is noted, and the row is saved with it or not yet.
LEMMA ReadNext ==
  ASSUME StreamAssumption, Inv, Reading, NEW e \in Executor,
         ex[e].step \in {"change", "create"}, ex[e].page # {}, UNCHANGED <<kind, log>>,
         NEW label \in {"change", "save"}, NEW updated \in BOOLEAN, NextChange(e, label, updated),
         NEW how \in {"handled", "failed"}, past' = Note(e, how),
         UNCHANGED row \/ Save(e, Current(e).seq)
  PROVE  Reading'
<1>1. Executing(e)
  BY DEF Executing
<1>2. PICK t \in Registry : t = ex[e].t /\ ex[e].registry = t
  BY <1>1, StreamHas
<1>3. PICK h, page, last : h = At(e) /\ page = ex[e].page /\ last = ex[e].last
  OBVIOUS
<1>4. PICK next : next = SeqAt(t, h) /\ next = Current(e).seq
  BY <1>2, <1>3 DEF Current, SeqAt
<1>5. LogsSorted /\ PositionsSettled
  BY DEF Reading
<1>6. Position(t, last) /\ PageWhole(t, page, last)
  BY <1>2, <1>3, <1>5 DEF PositionsSettled, Reads
<1>7. h \in Nat
  <2>1. page \in SUBSET Nat
    BY <1>5, <1>6, LogHas DEF PageWhole
  <2> QED BY <1>3, <2>1, FirstExists DEF At, Least
<1>8. /\ Notes /\ h \in past'.handled[t] \cup past'.failed[t]
  <2>1. PICK noted : noted = [past[how] EXCEPT ![t] = @ \cup {h}]
    OBVIOUS
  <2>2. past' = [past EXCEPT ![how] = noted]
    BY <1>2, <1>3, <2>1 DEF Note
  <2>3. past[how] \in [Registry -> SUBSET Nat]
    BY <1>5 DEF LogsSorted
  <2>4. /\ noted \in [Registry -> SUBSET Nat] /\ h \in noted[t]
        /\ \A r \in Registry : past[how][r] \subseteq noted[r]
    BY <1>7, <2>1, <2>3
  <2>5. /\ past'.first = past.first /\ past'[how] = noted
        /\ \A other \in {"handled", "failed", "late"} \ {how} : past'[other] = past[other]
    BY <2>2 DEF Inv, Shapes
  <2> QED BY <1>5, <2>3, <2>4, <2>5 DEF Notes, LogsSorted
<1>9. LogsSorted' /\ Grows(t)
  BY <1>5, <1>8, Noted
<1>10. /\ Position(t, next)' /\ PageWhole(t, page \ {h}, next)'
  <2>1. h = Least(page) /\ page # {}
    BY <1>3 DEF At
  <2>2. /\ Position(t, SeqAt(t, h))' /\ PageWhole(t, page \ {h}, SeqAt(t, h))'
    BY <1>5, <1>6, <1>8, <1>9, <2>1, TurnPage
  <2>3. SeqAt(t, h)' = next
    BY <1>4 DEF SeqAt
  <2> QED BY <2>2, <2>3
<1>15. PICK copy : copy = IF updated THEN next ELSE ex[e].copy
  OBVIOUS
<1>11. ex' = [ex EXCEPT ![e].step = label, ![e].last = next, ![e].page = page \ {h}, ![e].copy = copy]
  BY <1>3, <1>4, <1>15 DEF NextChange
<1>12. /\ Only(e) /\ ex'[e].step = label /\ ex'[e].t = t
       /\ ex'[e].last = next /\ ex'[e].page = page \ {h} /\ ex'[e].copy = copy
  BY <1>2, <1>11 DEF Only, Inv, Shapes, Idle
<1>16. copy # None => Position(t, copy)'
  <2>1. CASE updated
    BY <1>10, <1>15, <2>1
  <2>2. CASE ~updated
    BY <1>1, <1>2, <1>8, <1>15, <2>2, OwnPosition
  <2> QED BY <2>1, <2>2
<1>13. Reads(e)'
  BY <1>10, <1>12, <1>16 DEF Reads
<1>14. /\ \A r \in Registry \ {t} : row'[r] = row[r]
       /\ row'[t].since \in {None, row[t].since} \/ Position(t, row[t].since)'
  <2>1. CASE UNCHANGED row
    BY <2>1
  <2>2. CASE Save(e, next)
    BY <1>2, <1>10, <2>2, SavesAt
  <2> QED BY <1>4, <2>1, <2>2
<1> QED BY <1>8, <1>12, <1>13, <1>14, ReadsOn

LEMMA ReadConsider ==
  ASSUME StreamAssumption, Inv, Reading, NEW e \in Executor, Consider(e)
  PROVE  Reading'
<1>1. /\ ex[e].step = "change" /\ Executing(e) /\ ex[e].page # {} /\ UNCHANGED <<kind, log, row>>
      /\ ex' = [ex EXCEPT ![e].step = "create", ![e].asked = TRUE]
  BY DEF Consider, Need, Step, Executing, taskVars
<1>2. Notes
  BY NotesStay DEF Consider, Reading
<1>3. PICK t, last, page : t = ex[e].t /\ last = ex[e].last /\ page = ex[e].page
  OBVIOUS
<1>4. Position(t, last)' /\ PageWhole(t, page, last)' /\ t \in Registry
  BY <1>1, <1>2, <1>3, OwnPosition
<1>5. /\ Only(e) /\ ex'[e].step = "create" /\ ex'[e].t = t /\ ex'[e].last = last /\ ex'[e].page = page
      /\ ex'[e].copy = ex[e].copy
  BY <1>1, <1>3 DEF Only, Inv, Shapes, Idle
<1>6. Reads(e)'
  <2>1. PICK c : c = ex[e].copy
    OBVIOUS
  <2>2. c # None => Position(t, c)'
    BY <1>1, <1>2, <1>3, <2>1, OwnPosition
  <2> QED BY <1>1, <1>3, <1>4, <1>5, <2>1, <2>2 DEF Reads
<1> QED BY <1>1, <1>2, <1>4, <1>5, <1>6, ReadsOn

LEMMA ReadSave ==
  ASSUME StreamAssumption, Inv, Reading, NEW e \in Executor, SaveChange(e)
  PROVE  Reading'
<1>1. /\ ex[e].step = "save" /\ Executing(e) /\ UNCHANGED <<kind, log>> /\ Save(e, ex[e].last)
      /\ ex' = [ex EXCEPT ![e].step = "change"]
  BY DEF SaveChange, Step, Executing, Goto
<1>2. Notes
  BY NotesStay DEF SaveChange, Reading
<1>3. PICK t, last, page : t = ex[e].t /\ last = ex[e].last /\ page = ex[e].page
  OBVIOUS
<1>4. Position(t, last)' /\ PageWhole(t, page, last)' /\ t \in Registry
  BY <1>1, <1>2, <1>3, OwnPosition
<1>5. /\ Only(e) /\ ex'[e].step = "change" /\ ex'[e].t = t /\ ex'[e].last = last /\ ex'[e].page = page
      /\ ex'[e].copy = ex[e].copy
  BY <1>1, <1>3 DEF Only, Inv, Shapes, Idle
<1>6. Reads(e)'
  <2>1. PICK c : c = ex[e].copy
    OBVIOUS
  <2>2. c # None => Position(t, c)'
    BY <1>1, <1>2, <1>3, <2>1, OwnPosition
  <2> QED BY <1>4, <1>5, <2>1, <2>2 DEF Reads
<1>7. row'[t].since = last /\ \A r \in Registry \ {t} : row'[r] = row[r]
  BY <1>1, <1>3, <1>4, SavesAt
<1> QED BY <1>1, <1>2, <1>4, <1>5, <1>6, <1>7, ReadsOn

LEMMA ReadEnd ==
  ASSUME StreamAssumption, Inv, Reading, NEW e \in Executor, EndRound(e)
  PROVE  Reading'
<1>1. PICK t, last, page : t = ex[e].t /\ last = ex[e].last /\ page = ex[e].page
  OBVIOUS
<1>2. /\ ex[e].step = "change" /\ Executing(e) /\ UNCHANGED <<kind, log>>
      /\ UNCHANGED row \/ Save(e, last)
      /\ \E copy \in {last, ex[e].copy} :
           ex' = [ex EXCEPT ![e].step = "fetch", ![e].since = last, ![e].last = None, ![e].asked = FALSE,
                            ![e].copy = copy]
  BY <1>1 DEF EndRound, Step, Executing
<1>10. PICK copy \in {last, ex[e].copy} :
         ex' = [ex EXCEPT ![e].step = "fetch", ![e].since = last, ![e].last = None, ![e].asked = FALSE,
                          ![e].copy = copy]
  BY <1>2
<1>3. Notes
  BY NotesStay DEF EndRound, Reading
<1>4. Position(t, last)' /\ t \in Registry
  BY <1>1, <1>2, <1>3, OwnPosition
<1>5. /\ Only(e) /\ ex'[e].step = "fetch" /\ ex'[e].t = t /\ ex'[e].since = last /\ ex'[e].copy = copy
  BY <1>1, <1>10 DEF Only, Inv, Shapes, Idle
<1>11. copy # None => Position(t, copy)'
  BY <1>1, <1>2, <1>3, <1>4, <1>10, OwnPosition
<1>6. last # None
  BY <1>4 DEF Position, StreamAssumption
<1>7. Reads(e)'
  BY <1>4, <1>5, <1>6, <1>11 DEF Reads
<1>8. /\ \A r \in Registry \ {t} : row'[r] = row[r]
      /\ row'[t].since \in {row[t].since, last}
  BY <1>1, <1>2, <1>4, SavesAt
<1>9. row'[t].since \in {None, row[t].since} \/ Position(t, row[t].since)'
  BY <1>4, <1>8
<1> QED BY <1>2, <1>3, <1>4, <1>5, <1>7, <1>8, <1>9, ReadsOn

\* The log of one registry changes, nothing else but the history.
LEMMA LogMoves ==
  ASSUME StreamAssumption, Inv, Reading, NEW r \in Registry,
         UNCHANGED <<kind, row, ex>>, Notes, Grows(r),
         NEW changes \in Seq([pkg : Package, seq : Int, shown : BOOLEAN]),
         log' = [log EXCEPT ![r] = changes],
         \A i, j \in DOMAIN changes : i <= j => changes[i].seq <= changes[j].seq
  PROVE  Reading'
<1>1. LogsSorted /\ PositionsSettled
  BY DEF Reading
<1>2. /\ log' \in [Registry -> Seq([pkg : Package, seq : Int, shown : BOOLEAN])]
      /\ log'[r] = changes /\ \A q \in Registry \ {r} : log'[q] = log[q]
  BY <1>1 DEF LogsSorted
<1>3. LogsSorted'
  <2>1. ASSUME NEW q \in Registry, NEW i \in DOMAIN log'[q], NEW j \in DOMAIN log'[q], i <= j
        PROVE  log'[q][i].seq <= log'[q][j].seq
    <3>1. CASE q = r
      BY <1>2, <2>1, <3>1
    <3>2. CASE q # r
      BY <1>1, <1>2, <2>1, <3>2 DEF LogsSorted, SeqAt
    <3> QED BY <3>1, <3>2
  <2> QED BY <1>1, <1>2, <2>1 DEF LogsSorted, SeqAt, Notes
<1>4. ASSUME NEW q \in Registry
      PROVE  Grows(q)
  <2>1. CASE q = r
    BY <2>1
  <2>2. CASE q # r
    <3>1. LastSeq(q)' = LastSeq(q) /\ LastSeq(q) \in Int
      BY <1>1, <1>2, <2>2, LastIsLast DEF LastSeq
    <3> QED BY <1>2, <2>2, <3>1 DEF Notes, Grows
  <2> QED BY <2>1, <2>2
<1> QED BY <1>1, <1>3, <1>4, ReadFrame DEF Reading

\* A change upstream: its number is new, or that of the last change.
LEMMA ReadChange ==
  ASSUME StreamAssumption, Inv, Reading, NEW r \in Registry, NEW k \in Package, Change(r, k)
  PROVE  Reading'
<1>1. PICK step \in {0, 1} :
        /\ step = 0 => log[r] # <<>>
        /\ log' = [log EXCEPT ![r] = Append(@, [pkg |-> k, seq |-> LastSeq(r) + step,
                                                shown |-> kind[r] # "cnpmcore"])]
  <2>1. PICK step \in IF kind[r] = "cnpmjsorg" /\ log[r] # <<>> THEN {0, 1} ELSE {1} :
          log' = [log EXCEPT ![r] = Append(@, [pkg |-> k, seq |-> LastSeq(r) + step,
                                               shown |-> kind[r] # "cnpmcore"])]
    BY DEF Change
  <2>2. step \in {0, 1} /\ (step = 0 => log[r] # <<>>)
    OBVIOUS
  <2> QED BY <2>1, <2>2
<1>2. PICK new : new = [pkg |-> k, seq |-> LastSeq(r) + step, shown |-> kind[r] # "cnpmcore"]
  OBVIOUS
<1>3. PICK changes : changes = Append(log[r], new)
  OBVIOUS
<1>4. LogsSorted /\ LastSeq(r) \in Int
  BY LastIsLast DEF Reading
<1>5. new \in [pkg : Package, seq : Int, shown : BOOLEAN] /\ new.seq = LastSeq(r) + step
  BY <1>2, <1>4
<1>6. PICK n \in Nat : n = Len(log[r]) /\ DOMAIN log[r] = 1..n
  BY <1>4, LogHas
<1>7. /\ changes \in Seq([pkg : Package, seq : Int, shown : BOOLEAN])
      /\ DOMAIN changes = 1..(n + 1) /\ Len(changes) = n + 1
      /\ changes[n + 1] = new /\ \A i \in 1..n : changes[i] = log[r][i]
  <2>1. log[r] \in Seq([pkg : Package, seq : Int, shown : BOOLEAN])
    BY <1>4 DEF LogsSorted
  <2> QED BY <1>3, <1>5, <1>6, <2>1
<1>8. log' = [log EXCEPT ![r] = changes] /\ log'[r] = changes
  BY <1>1, <1>2, <1>3, <1>4 DEF LogsSorted
<1>9. \A i \in 1..n : log[r][i].seq \in Int /\ log[r][i].seq <= LastSeq(r)
  BY <1>4, <1>6, LogHas, LastIsLast DEF SeqAt
<1>10. \A i, j \in DOMAIN changes : i <= j => changes[i].seq <= changes[j].seq
  <2> SUFFICES ASSUME NEW i \in 1..(n + 1), NEW j \in 1..(n + 1), i <= j
               PROVE  changes[i].seq <= changes[j].seq
    BY <1>7
  <2>1. CASE j \in 1..n
    <3>1. i \in 1..n /\ changes[i] = log[r][i] /\ changes[j] = log[r][j]
      BY <1>7, <2>1
    <3> QED BY <1>4, <1>6, <2>1, <3>1, LogHas DEF SeqAt
  <2>2. CASE j = n + 1 /\ i \in 1..n
    <3>1. changes[i] = log[r][i] /\ changes[j] = new
      BY <1>7, <2>2
    <3> QED BY <1>4, <1>5, <1>9, <2>2, <3>1
  <2>3. CASE i = n + 1 /\ j = n + 1
    BY <1>4, <1>5, <1>7, <2>3
  <2> QED BY <2>1, <2>2, <2>3
<1>11. UNCHANGED <<kind, row, ex, past>> /\ Notes
  BY <1>4, NotesStay DEF Change, taskVars
<1>12. Grows(r)
  <2>1. LastSeq(r)' = LastSeq(r) + step
    <3>1. log'[r] # <<>> /\ Last(log'[r]) = log'[r][n + 1]
      BY <1>7, <1>8 DEF Last
    <3> QED BY <1>5, <1>7, <1>8, <3>1 DEF LastSeq
  <2>2. \A i \in 1..n : log'[r][i] = log[r][i]
    BY <1>7, <1>8
  <2>3. ASSUME NEW i \in DOMAIN log'[r] \ DOMAIN log[r], log'[r][i].seq <= LastSeq(r)
        PROVE  \E j \in DOMAIN log[r] : j # i /\ log'[r][j].seq = log'[r][i].seq
    <3>1. i = n + 1 /\ log'[r][i].seq = LastSeq(r) + step
      BY <1>5, <1>6, <1>7, <1>8, <2>3
    <3>2. step = 0
      BY <1>4, <2>3, <3>1
    <3>3. log[r] # <<>> /\ log'[r][i].seq = LastSeq(r)
      BY <1>1, <1>4, <3>1, <3>2
    <3>4. n \in DOMAIN log[r] /\ log[r][n].seq = LastSeq(r)
      BY <1>4, <1>6, <3>3, LastIsLast DEF SeqAt
    <3> QED BY <1>6, <2>2, <3>1, <3>3, <3>4
  <2> QED BY <1>4, <1>6, <1>7, <1>8, <1>11, <2>1, <2>2, <2>3 DEF Grows
<1> QED BY <1>7, <1>8, <1>10, <1>11, <1>12, LogMoves

\* A change that is shown after a later one is noted as late.
LEMMA ReadShow ==
  ASSUME StreamAssumption, Inv, Reading, NEW r \in Registry, NEW n, Show(r, n)
  PROVE  Reading'
<1>1. LogsSorted /\ LastSeq(r) \in Int
  BY LastIsLast DEF Reading
<1>2. /\ n \in DOMAIN log[r] /\ n \in Nat /\ log' = [log EXCEPT ![r][n].shown = TRUE]
      /\ ~log[r][n].shown /\ UNCHANGED <<kind, row, ex>>
  BY <1>1, LogHas DEF Show, taskVars
<1>3. PICK shown : shown = [log[r][n] EXCEPT !.shown = TRUE]
  OBVIOUS
<1>4. PICK changes : changes = [log[r] EXCEPT ![n] = shown]
  OBVIOUS
<1>5. log[r] \in Seq([pkg : Package, seq : Int, shown : BOOLEAN])
  BY <1>1 DEF LogsSorted
<1>6. /\ shown \in [pkg : Package, seq : Int, shown : BOOLEAN]
      /\ shown.seq = log[r][n].seq /\ shown.shown
  <2>1. PICK C : C = [pkg : Package, seq : Int, shown : BOOLEAN]
    OBVIOUS
  <2>2. log[r] \in Seq(C) /\ n \in 1..Len(log[r])
    BY <1>1, <1>2, <1>5, <2>1, LogHas
  <2>3. log[r][n] \in C
    BY <2>2
  <2> QED BY <1>3, <2>1, <2>3
<1>7. /\ changes \in Seq([pkg : Package, seq : Int, shown : BOOLEAN])
      /\ DOMAIN changes = DOMAIN log[r] /\ Len(changes) = Len(log[r])
      /\ \A i \in DOMAIN log[r] : changes[i] = IF i = n THEN shown ELSE log[r][i]
  BY <1>2, <1>4, <1>5, <1>6
<1>8. log' = [log EXCEPT ![r] = changes] /\ log'[r] = changes
  BY <1>1, <1>2, <1>3, <1>4 DEF LogsSorted
<1>9. \A i \in DOMAIN log[r] : changes[i].seq = log[r][i].seq
  BY <1>6, <1>7
<1>10. \A i, j \in DOMAIN changes : i <= j => changes[i].seq <= changes[j].seq
  BY <1>1, <1>7, <1>9, LogHas DEF SeqAt
<1>11. /\ Notes
       /\ (\E j \in DOMAIN log[r] : n < j /\ log[r][j].shown) => n \in past'.late[r]
  <2>1. CASE \E j \in DOMAIN log[r] : j > n /\ log[r][j].shown
    <3>1. past' = [past EXCEPT !.late[r] = @ \cup {n}]
      BY <2>1 DEF Show
    <3>2. /\ past'.late = [past.late EXCEPT ![r] = @ \cup {n}] /\ past'.first = past.first
          /\ past'.handled = past.handled /\ past'.failed = past.failed
      BY <3>1 DEF Inv, Shapes
    <3>3. past.late \in [Registry -> SUBSET Nat]
      BY <1>1 DEF LogsSorted
    <3>4. /\ past'.late \in [Registry -> SUBSET Nat] /\ n \in past'.late[r]
          /\ \A q \in Registry : past.late[q] \subseteq past'.late[q]
      BY <1>2, <3>2, <3>3
    <3>5. \A how \in {"handled", "failed"} : past'[how] = past[how]
      BY <3>2
    <3>6. \A how \in {"handled", "failed", "late"} : past'[how] \in [Registry -> SUBSET Nat]
      BY <1>1, <3>4, <3>5 DEF LogsSorted
    <3> QED BY <1>1, <3>2, <3>4, <3>6 DEF Notes, LogsSorted
  <2>2. CASE ~ \E j \in DOMAIN log[r] : j > n /\ log[r][j].shown
    <3>1. UNCHANGED past
      BY <2>2 DEF Show
    <3>2. ~ \E j \in DOMAIN log[r] : n < j /\ log[r][j].shown
      BY <1>1, <1>2, <2>2, LogHas
    <3> QED BY <1>1, <3>1, <3>2, NotesStay
  <2> QED BY <2>1, <2>2
<1>12. Grows(r)
  <2>1. LastSeq(r)' = LastSeq(r)
    <3>1. CASE log[r] = <<>>
      BY <1>2, <3>1
    <3>2. CASE log[r] # <<>>
      <4>1. Len(log[r]) \in DOMAIN log[r] /\ log'[r] # <<>>
        BY <1>1, <1>7, <1>8, <3>2, LastIsLast
      <4> QED BY <1>7, <1>8, <1>9, <3>2, <4>1 DEF LastSeq, Last
    <3> QED BY <3>1, <3>2
  <2>2. ASSUME NEW i \in DOMAIN log[r]
        PROVE  /\ log'[r][i].seq = log[r][i].seq
               /\ log[r][i].shown => log'[r][i].shown
               /\ log'[r][i].shown /\ ~log[r][i].shown /\ (\E j \in DOMAIN log[r] : i < j /\ log[r][j].shown)
                    => i \in past'.late[r]
    BY <1>6, <1>7, <1>8, <1>9, <1>11
  <2> QED BY <1>1, <1>7, <1>8, <1>11, <2>1, <2>2 DEF Notes, Grows
<1> QED BY <1>2, <1>7, <1>8, <1>10, <1>11, <1>12, LogMoves

LEMMA ReadSteps ==
  ASSUME StreamAssumption, Inv, Reading, [StreamNext]_streamVars
  PROVE  Reading'
<1>1. ASSUME NEW e \in Executor, Pass(e)
      PROVE  Reading'
  <2>1. PICK label, how, updated : label = "change" /\ how = "handled" /\ updated = TRUE
    OBVIOUS
  <2>2. /\ ex[e].step = "change" /\ ex[e].page # {} /\ UNCHANGED <<kind, log>>
        /\ NextChange(e, label, updated) /\ past' = Note(e, how) /\ Save(e, Current(e).seq)
    BY <1>1, <2>1 DEF Pass, Step
  <2> QED BY <2>1, <2>2, ReadNext
<1>2. ASSUME NEW e \in Executor, Create(e)
      PROVE  Reading'
  <2>1. PICK label \in {"change", "save"}, updated \in BOOLEAN : NextChange(e, label, updated)
    <3>1. CASE home[Current(e).pkg] \in {Absent, None, ex[e].registry}
      <4>1. NextChange(e, "save", TRUE)
        BY <1>2, <3>1 DEF Create, NextChange
      <4> QED BY <4>1
    <3>2. CASE home[Current(e).pkg] \notin {Absent, None, ex[e].registry}
      <4>1. NextChange(e, "change", FALSE)
        BY <1>2, <3>2 DEF Create, NextChange
      <4> QED BY <4>1
    <3> QED BY <3>1, <3>2
  <2>2. /\ ex[e].step = "create" /\ UNCHANGED <<kind, log, row>> /\ past' = Note(e, "handled")
    BY <1>2 DEF Create, Step
  <2>3. ex[e].page # {}
    BY <2>2 DEF Reading, PositionsSettled, Reads
  <2> QED BY <2>1, <2>2, <2>3, ReadNext
<1>3. ASSUME NEW e \in Executor, CreateFails(e)
      PROVE  Reading'
  <2>1. /\ ex[e].step = "create" /\ UNCHANGED <<kind, log, row>> /\ past' = Note(e, "failed")
        /\ NextChange(e, "change", FALSE)
    BY <1>3 DEF CreateFails, Step, taskVars
  <2>2. ex[e].page # {}
    BY <2>1 DEF Reading, PositionsSettled, Reads
  <2> QED BY <2>1, <2>2, ReadNext
<1>4. ASSUME NEW e \in Executor, Stream(e)
      PROVE  Reading'
  BY <1>1, <1>2, <1>4, ReadPrepareDefault, ReadPrepare, ReadFetch, ReadConsider, ReadSave,
     ReadEnd, ReadThrow DEF Stream
<1>5. CASE UNCHANGED streamVars
  <2>1. UNCHANGED <<kind, log, row, ex, past>>
    BY <1>5 DEF streamVars, taskVars
  <2> QED BY <2>1, Quiet DEF HistoryStays
<1>6. CASE StreamNext
  BY <1>3, <1>4, <1>6, ReadChange, ReadShow, ReadTake, QuietUpstream, QuietAdmin, QuietExecutor
     DEF StreamNext, Sync
<1> QED BY <1>5, <1>6

LEMMA InitReading ==
  ASSUME StreamAssumption, StreamInit
  PROVE  Reading
<1>1. \A r \in Registry : log[r] = <<>> /\ row[r].since = None
  <2>1. ASSUME NEW r \in Registry
        PROVE  row[r].since = None
    <3>1. PICK new : new = [NoStream EXCEPT !.started = TRUE, !.registry = r]
      OBVIOUS
    <3>2. row[r] \in {NoStream, new}
      <4>1. CASE Fresh
        BY <4>1 DEF Fresh
      <4>2. CASE Configured
        <5>1. PICK streams :
                row = [q \in Registry |-> IF q \in streams THEN [NoStream EXCEPT !.started = TRUE, !.registry = q]
                                          ELSE NoStream]
          BY <4>2 DEF Configured
        <5> QED BY <3>1, <5>1
      <4> QED BY <4>1, <4>2 DEF StreamInit
    <3>3. new.since = None /\ NoStream.since = None
      BY <3>1 DEF NoStream
    <3> QED BY <3>2, <3>3
  <2> QED BY <2>1 DEF StreamInit
<1>2. LogsSorted
  <2>1. log \in [Registry -> Seq([pkg : Package, seq : Int, shown : BOOLEAN])]
    BY DEF StreamInit
  <2>2. kind \in [Registry -> {"npm", "cnpmcore", "cnpmjsorg"}]
    BY DEF StreamInit, StreamAssumption
  <2>3. /\ past.first = [r \in Registry |-> None]
        /\ \A how \in {"handled", "failed", "late"} : past[how] = [r \in Registry |-> {}]
    BY DEF StreamInit
  <2> QED BY <1>1, <2>1, <2>2, <2>3 DEF LogsSorted
<1>3. \A e \in Executor : ex[e].step = "idle"
  BY DEF StreamInit, Idle
<1>4. PositionsSettled
  BY <1>1, <1>3 DEF PositionsSettled, Reads, Executing
<1> QED BY <1>2, <1>4 DEF Reading

\* What lies behind the saved position of any stream has been considered, was
\* lost with a task that could not be created, came late or has a twin:
\* whichever executors hold old copies of the stream, and whenever they save.
THEOREM NoneSkipped ==
  StreamSpec => []NothingSkipped
<1> USE StreamAssumption
<1>1. StreamInit => Inv /\ Reading
  BY InitInv, InitReading
<1>2. (Inv /\ Reading) /\ [StreamNext]_streamVars => (Inv /\ Reading)'
  BY NextInv, ReadSteps
<1>3. Reading => NothingSkipped
  <2> SUFFICES ASSUME Reading, NEW r \in Registry, row[r].since # None,
                      NEW i \in DOMAIN log[r], log[r][i].shown,
                      past.first[r] < SeqAt(r, i), SeqAt(r, i) <= row[r].since
               PROVE  \/ i \in past.handled[r] \cup past.failed[r] \cup past.late[r]
                      \/ \E j \in DOMAIN log[r] : j # i /\ log[r][j].seq = log[r][i].seq
    BY DEF NothingSkipped, SeqAt
  <2>1. Settled(r, i)
    BY DEF Reading, PositionsSettled, Position
  <2> QED BY <2>1 DEF Settled, SeqAt
<1> QED BY <1>1, <1>2, <1>3, PTL DEF StreamSpec
=============================================================================
