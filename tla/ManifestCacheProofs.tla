------------------------- MODULE ManifestCacheProofs -------------------------
(***************************************************************************)
(* CacheFresh, ServedWhole and RefreshReaches of ManifestCache, for any    *)
(* number of processes, revisions and faults.                              *)
(*                                                                         *)
(* The first part says what the steps make of a process's record; the      *)
(* frame lemmas after it say which moves leave an invariant alone, so that *)
(* each action needs an argument only where it disturbs one.               *)
(***************************************************************************)
EXTENDS ManifestCache, TLAPS

-----------------------------------------------------------------------------
(* Processes and their moves *)

\* The work of one process, field by field.
Entry(op, step, r, todo, seen) ==
  [op |-> op, step |-> step, rev |-> r, todo |-> todo, seen |-> seen]

LEMMA EntryIs ==
  ASSUME NEW w \in Work
  PROVE  w = Entry(w.op, w.step, w.rev, w.todo, w.seen)
BY DEF Work, Entry

LEMMA ExceptStep ==
  ASSUME NEW w \in Work, NEW step
  PROVE  [w EXCEPT !.step = step] = Entry(w.op, step, w.rev, w.todo, w.seen)
BY EntryIs DEF Entry

LEMMA ExceptTodo ==
  ASSUME NEW w \in Work, NEW todo
  PROVE  [w EXCEPT !.todo = todo] = Entry(w.op, w.step, w.rev, todo, w.seen)
BY EntryIs DEF Entry

LEMMA ExceptTodoStep ==
  ASSUME NEW w \in Work, NEW todo, NEW step
  PROVE  [w EXCEPT !.todo = todo, !.step = step] = Entry(w.op, step, w.rev, todo, w.seen)
<1>1. PICK v : v = [w EXCEPT !.todo = todo]
  OBVIOUS
<1>2. v = Entry(w.op, w.step, w.rev, todo, w.seen)
  BY <1>1, ExceptTodo
<1>3. [v EXCEPT !.step = step] = Entry(w.op, step, w.rev, todo, w.seen)
  BY <1>2 DEF Entry
<1>4. [w EXCEPT !.todo = todo, !.step = step] = [v EXCEPT !.step = step]
  BY <1>1
<1> QED BY <1>3, <1>4

LEMMA ExceptStepTodo ==
  ASSUME NEW w \in Work, NEW todo, NEW step
  PROVE  [w EXCEPT !.step = step, !.todo = todo] = Entry(w.op, step, w.rev, todo, w.seen)
<1>1. PICK v : v = [w EXCEPT !.step = step]
  OBVIOUS
<1>2. v = Entry(w.op, step, w.rev, w.todo, w.seen)
  BY <1>1, ExceptStep
<1>3. [v EXCEPT !.todo = todo] = Entry(w.op, step, w.rev, todo, w.seen)
  BY <1>2 DEF Entry
<1>4. [w EXCEPT !.step = step, !.todo = todo] = [v EXCEPT !.todo = todo]
  BY <1>1
<1> QED BY <1>3, <1>4

LEMMA ExceptStepRev ==
  ASSUME NEW w \in Work, NEW step, NEW r
  PROVE  [w EXCEPT !.step = step, !.rev = r] = Entry(w.op, step, r, w.todo, w.seen)
<1>1. PICK v : v = [w EXCEPT !.step = step]
  OBVIOUS
<1>2. v = Entry(w.op, step, w.rev, w.todo, w.seen)
  BY <1>1, ExceptStep
<1>3. [v EXCEPT !.rev = r] = Entry(w.op, step, r, w.todo, w.seen)
  BY <1>2 DEF Entry
<1>4. [w EXCEPT !.step = step, !.rev = r] = [v EXCEPT !.rev = r]
  BY <1>1
<1> QED BY <1>3, <1>4

LEMMA ExceptStepRevTodo ==
  ASSUME NEW w \in Work, NEW step, NEW r, NEW todo
  PROVE  [w EXCEPT !.step = step, !.rev = r, !.todo = todo] = Entry(w.op, step, r, todo, w.seen)
<1>1. PICK v : v = [w EXCEPT !.step = step, !.rev = r]
  OBVIOUS
<1>2. v = Entry(w.op, step, r, w.todo, w.seen)
  BY <1>1, ExceptStepRev
<1>3. [v EXCEPT !.todo = todo] = Entry(w.op, step, r, todo, w.seen)
  BY <1>2 DEF Entry
<1>4. [w EXCEPT !.step = step, !.rev = r, !.todo = todo] = [v EXCEPT !.todo = todo]
  BY <1>1
<1> QED BY <1>3, <1>4

\* p goes on as this; the others stay as they are.
Moved(p, op, step, r, todo, seen) ==
  /\ work' \in [Process -> {Entry(op, step, r, todo, seen)} \cup Work]
  /\ work'[p] = Entry(op, step, r, todo, seen)
  /\ \A q \in Process : q # p => work'[q] = work[q]

LEMMA MovesTo ==
  ASSUME Carried, NEW p \in Process, NEW op, NEW step, NEW r, NEW todo, NEW seen,
         work' = [work EXCEPT ![p] = Entry(op, step, r, todo, seen)]
  PROVE  Moved(p, op, step, r, todo, seen)
BY DEF Carried, Moved

LEMMA FieldsMoved ==
  ASSUME NEW p \in Process, NEW op, NEW step, NEW r, NEW todo, NEW seen,
         Moved(p, op, step, r, todo, seen)
  PROVE  /\ work'[p].op = op /\ work'[p].step = step /\ work'[p].rev = r
         /\ work'[p].todo = todo /\ work'[p].seen = seen
BY DEF Moved, Entry

LEMMA IdleIs ==
  Idle = Entry("idle", "", 0, {}, 0)
BY DEF Idle, Entry

LEMMA GotoMoves ==
  ASSUME Carried, NEW p \in Process, NEW step, Goto(p, step)
  PROVE  Moved(p, work[p].op, step, work[p].rev, work[p].todo, work[p].seen)
<1>1. work[p] \in Work /\ work' = [work EXCEPT ![p] = [work[p] EXCEPT !.step = step]]
  BY DEF Carried, Goto
<1> QED BY <1>1, ExceptStep, MovesTo

LEMMA DoneMoves ==
  ASSUME Carried, NEW p \in Process, Done(p)
  PROVE  Moved(p, "idle", "", 0, {}, 0)
BY IdleIs, MovesTo DEF Done

\* What is begun from rest.
LEMMA IdleBegun ==
  ASSUME NEW op, NEW step
  PROVE  [Idle EXCEPT !.op = op, !.step = step] = Entry(op, step, 0, {}, 0)
<1>1. PICK none, zero, empty : none = "" /\ zero = 0 /\ empty = {}
  OBVIOUS
<1>2. PICK i : i = Idle
  OBVIOUS
<1>3. i = Entry("idle", none, zero, empty, zero)
  BY <1>1, <1>2, IdleIs
<1>4. PICK u : u = [i EXCEPT !.op = op]
  OBVIOUS
<1>5. PICK idle : idle = "idle"
  OBVIOUS
<1>6. i = Entry(idle, none, zero, empty, zero)
  BY <1>3, <1>5
<1>7. u = Entry(op, none, zero, empty, zero)
  BY <1>4, <1>6 DEF Entry
<1>8. [u EXCEPT !.step = step] = Entry(op, step, zero, empty, zero)
  BY <1>7 DEF Entry
<1>9. [Idle EXCEPT !.op = op, !.step = step] = [u EXCEPT !.step = step]
  BY <1>2, <1>4
<1> QED BY <1>1, <1>8, <1>9

LEMMA IdleDeleting ==
  ASSUME NEW op, NEW step, NEW todo
  PROVE  [Idle EXCEPT !.op = op, !.step = step, !.todo = todo] = Entry(op, step, 0, todo, 0)
<1>1. PICK zero, empty : zero = 0 /\ empty = {}
  OBVIOUS
<1>2. PICK v : v = [Idle EXCEPT !.op = op, !.step = step]
  OBVIOUS
<1>3. v = Entry(op, step, zero, empty, zero)
  BY <1>1, <1>2, IdleBegun
<1>4. [v EXCEPT !.todo = todo] = Entry(op, step, zero, todo, zero)
  BY <1>3 DEF Entry
<1>5. [Idle EXCEPT !.op = op, !.step = step, !.todo = todo] = [v EXCEPT !.todo = todo]
  BY <1>2
<1> QED BY <1>1, <1>4, <1>5

LEMMA IdleReading ==
  ASSUME NEW op, NEW step, NEW seen
  PROVE  [Idle EXCEPT !.op = op, !.seen = seen, !.step = step] = Entry(op, step, 0, {}, seen)
<1>1. PICK idle, none, zero, empty : idle = "idle" /\ none = "" /\ zero = 0 /\ empty = {}
  OBVIOUS
<1>2. PICK i : i = Idle
  OBVIOUS
<1>3. i = Entry(idle, none, zero, empty, zero)
  BY <1>1, <1>2, IdleIs
<1>4. PICK u : u = [i EXCEPT !.op = op]
  OBVIOUS
<1>5. PICK v : v = [u EXCEPT !.seen = seen]
  OBVIOUS
<1>6. u = Entry(op, none, zero, empty, zero)
  BY <1>3, <1>4 DEF Entry
<1>7. v = Entry(op, none, zero, empty, seen)
  BY <1>5, <1>6 DEF Entry
<1>8. [v EXCEPT !.step = step] = Entry(op, step, zero, empty, seen)
  BY <1>7 DEF Entry
<1>9. [Idle EXCEPT !.op = op, !.seen = seen, !.step = step] = [v EXCEPT !.step = step]
  BY <1>2, <1>4, <1>5
<1> QED BY <1>1, <1>8, <1>9

LEMMA BeginMoves ==
  ASSUME Carried, NEW p \in Process, NEW op, NEW step, Begin(p, op, step)
  PROVE  Moved(p, op, step, 0, {}, 0)
BY IdleBegun, MovesTo DEF Begin

LEMMA ListingMoves ==
  ASSUME Carried, NEW p \in Process, Listing(p)
  PROVE  Moved(p, "show", "list", 0, {}, 0)
BY IdleBegun, MovesTo DEF Listing

\* Going on with the next key, or to the next step.
GoesOn(p, key, next) ==
  LET rest == work[p].todo \ {key}
  IN \/ /\ rest # {}
        /\ Moved(p, work[p].op, work[p].step, work[p].rev, rest, work[p].seen)
     \/ rest = {} /\ next = "" /\ Moved(p, "idle", "", 0, {}, 0)
     \/ /\ rest = {} /\ next # ""
        /\ Moved(p, work[p].op, next, work[p].rev, {}, work[p].seen)

LEMMA KeyMoves ==
  ASSUME Carried, NEW p \in Process, NEW key, NEW next,
         DeleteKey(p, key, next) \/ SetKey(p, key, next)
  PROVE  GoesOn(p, key, next)
<1>0. PICK rest : rest = work[p].todo \ {key}
  OBVIOUS
<1>1. /\ work[p] \in Work
      /\ \/ rest # {} /\ work' = [work EXCEPT ![p] = [work[p] EXCEPT !.todo = rest]]
         \/ rest = {} /\ next = "" /\ work' = [work EXCEPT ![p] = Idle]
         \/ /\ rest = {} /\ next # ""
            /\ work' = [work EXCEPT ![p] = [work[p] EXCEPT !.todo = {}, !.step = next]]
  BY <1>0 DEF Carried, DeleteKey, SetKey
<1>2. CASE rest # {} /\ work' = [work EXCEPT ![p] = [work[p] EXCEPT !.todo = rest]]
  <2>1. [work[p] EXCEPT !.todo = rest] =
          Entry(work[p].op, work[p].step, work[p].rev, rest, work[p].seen)
    BY <1>1, ExceptTodo
  <2> QED BY <1>0, <1>2, <2>1, MovesTo DEF GoesOn
<1>3. CASE rest = {} /\ next = "" /\ work' = [work EXCEPT ![p] = Idle]
  BY <1>0, <1>3, IdleIs, MovesTo DEF GoesOn
<1>4. CASE /\ rest = {} /\ next # ""
           /\ work' = [work EXCEPT ![p] = [work[p] EXCEPT !.todo = {}, !.step = next]]
  <2>1. [work[p] EXCEPT !.todo = {}, !.step = next] =
          Entry(work[p].op, next, work[p].rev, {}, work[p].seen)
    BY <1>1, ExceptTodoStep
  <2> QED BY <1>0, <1>4, <2>1, MovesTo DEF GoesOn
<1> QED BY <1>1, <1>2, <1>3, <1>4

LEMMA FillMoves ==
  ASSUME Carried, NEW p \in Process, NEW r,
         work' = [work EXCEPT ![p].step = "fill", ![p].rev = r, ![p].todo = Keys]
  PROVE  Moved(p, work[p].op, "fill", r, Keys, work[p].seen)
<1>0. PICK w, step, todo : w = work[p] /\ step = "fill" /\ todo = Keys
  OBVIOUS
<1>1. work' = [work EXCEPT ![p] = [w EXCEPT !.step = step, !.rev = r, !.todo = todo]]
  BY <1>0
<1>4. w \in Work
  BY <1>0 DEF Carried
<1>2. [w EXCEPT !.step = step, !.rev = r, !.todo = todo] = Entry(w.op, step, r, todo, w.seen)
  BY <1>4, ExceptStepRevTodo
<1>3. Moved(p, w.op, step, r, todo, w.seen)
  BY <1>1, <1>2, MovesTo
<1> QED BY <1>0, <1>3

LEMMA FetchMoves ==
  ASSUME Carried, NEW p \in Process, Fetch(p)
  PROVE  Moved(p, work[p].op, "store", rev, work[p].todo, work[p].seen)
<1>1. work' = [work EXCEPT ![p] = [work[p] EXCEPT !.step = "store", !.rev = rev]]
  BY DEF Fetch
<1>2. [work[p] EXCEPT !.step = "store", !.rev = rev] =
        Entry(work[p].op, "store", rev, work[p].todo, work[p].seen)
  BY ExceptStepRev DEF Carried
<1> QED BY <1>1, <1>2, MovesTo

LEMMA CheckMoves ==
  ASSUME Carried, NEW p \in Process, CheckEtag(p)
  PROVE  \/ etag # 0 /\ Moved(p, work[p].op, "fill", work[p].rev, Keys, work[p].seen)
         \/ etag = 0 /\ Moved(p, work[p].op, "finish", work[p].rev, {}, work[p].seen)
<1>0. PICK step, todo : /\ step = IF etag # 0 THEN "fill" ELSE "finish"
                        /\ todo = IF etag # 0 THEN Keys ELSE {}
  OBVIOUS
<1>1. work' = [work EXCEPT ![p] = [work[p] EXCEPT !.step = step, !.todo = todo]]
  BY <1>0 DEF CheckEtag
<1>3. [work[p] EXCEPT !.step = step, !.todo = todo] =
        Entry(work[p].op, step, work[p].rev, todo, work[p].seen)
  BY ExceptStepTodo DEF Carried
<1>2. Moved(p, work[p].op, step, work[p].rev, todo, work[p].seen)
  BY <1>1, <1>3, MovesTo
<1> QED BY <1>0, <1>2

LEMMA ShowMoves ==
  ASSUME Carried, NEW p \in Process, Show(p)
  PROVE  \/ etag = 0 /\ Moved(p, "show", "list", 0, {}, 0)
         \/ etag # 0 /\ Moved(p, "show", "bytes", 0, {}, etag)
<1>1. PICK op, step, seen :
        /\ op = "show" /\ step = (IF etag = 0 THEN "list" ELSE "bytes") /\ seen = etag
        /\ work' = [work EXCEPT ![p] = [Idle EXCEPT !.op = op, !.seen = seen, !.step = step]]
  BY DEF Show
<1>3. [Idle EXCEPT !.op = op, !.seen = seen, !.step = step] = Entry(op, step, 0, {}, seen)
  BY IdleReading
<1>2. Moved(p, op, step, 0, {}, seen)
  BY <1>1, <1>3, MovesTo
<1> QED BY <1>1, <1>2

\* Those who start to delete the keys.
LEMMA DeletersMove ==
  ASSUME Carried, NEW p \in Process
  PROVE  /\ HandleEvent(p) \/ EndSync(p) => Moved(p, "clean", "delete", 0, Keys, 0)
         /\ Refresh(p) => Moved(p, "refresh", "delete", 0, Keys, 0)
         /\ Remove(p) => Moved(p, "remove", "delete", 0, Keys, 0)
<1>1. \A op : work' = [work EXCEPT ![p] = [Idle EXCEPT !.op = op, !.step = "delete", !.todo = Keys]]
                 => Moved(p, op, "delete", 0, Keys, 0)
  <2> SUFFICES ASSUME NEW op,
                      work' = [work EXCEPT ![p] = [Idle EXCEPT !.op = op, !.step = "delete", !.todo = Keys]]
               PROVE  Moved(p, op, "delete", 0, Keys, 0)
    OBVIOUS
  <2>1. [Idle EXCEPT !.op = op, !.step = "delete", !.todo = Keys] = Entry(op, "delete", 0, Keys, 0)
    BY IdleDeleting
  <2> QED BY <2>1, MovesTo
<1> QED BY <1>1 DEF HandleEvent, EndSync, StartCleaning, Refresh, Remove

LEMMA WriteMoves ==
  ASSUME Carried, NEW p \in Process, WriteSilently(p)
  PROVE  Moved(p, "sync", "write", 0, {}, 0)
<1>1. PICK op, step : /\ op = "sync" /\ step = "write"
                      /\ work' = [work EXCEPT ![p] = [Idle EXCEPT !.op = op, !.step = step]]
  BY DEF WriteSilently
<1>2. [Idle EXCEPT !.op = op, !.step = step] = Entry(op, step, 0, {}, 0)
  BY IdleBegun
<1>3. Moved(p, op, step, 0, {}, 0)
  BY <1>1, <1>2, MovesTo
<1> QED BY <1>1, <1>3

-----------------------------------------------------------------------------
(* Carried *)

LEMMA StandsAt ==
  ASSUME Carried, NEW p \in Process
  PROVE  /\ Fits(work[p].op, work[p].step)
         /\ work[p].rev \in 0..rev /\ work[p].seen \in 0..rev /\ work[p].todo \subseteq Keys
         /\ work[p].rev # 0 <=> Holds(work[p].step)
         /\ mode = "sync" => work[p].op \in {"idle", "clean", "sync", "show"}
BY DEF Carried, Work

\* What a process may be doing, and what is left alone while processes go on.
Legal(op, step, r, todo, seen) ==
  /\ todo \in SUBSET Keys
  /\ Fits(op, step)
  /\ r \in 0..rev /\ seen \in 0..rev
  /\ r # 0 <=> Holds(step)
  /\ mode = "sync" => op \in {"idle", "clean", "sync", "show"}
InRange ==
  /\ mode' = mode /\ rev' \in {rev, rev + 1}
  /\ events' \in Nat /\ asked' \in 0..rev
  /\ etag' \in 0..rev /\ bytes' \in 0..rev /\ blob' \in 0..rev
  /\ mode = "sync" => task' = task

LEMMA CarriedMoves ==
  ASSUME Carried, InRange, NEW p \in Process,
         NEW op, NEW step, NEW r, NEW todo, NEW seen,
         Legal(op, step, r, todo, seen), Moved(p, op, step, r, todo, seen)
  PROVE  Carried'
<1>0. rev \in Nat
  BY DEF Carried
<1>1. Entry(op, step, r, todo, seen) \in Work
  <2>1. op \in Ops /\ step \in Steps
    BY DEF Legal, Fits, Ops, Steps
  <2> QED BY <1>0, <2>1 DEF Work, Entry, Legal
<1>2. work' \in [Process -> Work]
  BY <1>1 DEF Moved
<1>3. ASSUME NEW q \in Process
      PROVE  /\ Fits(work'[q].op, work'[q].step)
             /\ work'[q].rev <= rev /\ work'[q].seen <= rev
             /\ work'[q].rev # 0 <=> Holds(work'[q].step)
             /\ mode = "sync" => work'[q].op \in {"idle", "clean", "sync", "show"}
  <2>1. CASE q = p
    BY <1>0, <2>1, FieldsMoved DEF Legal
  <2>2. CASE q # p
    BY <2>2 DEF Moved, Carried
  <2> QED BY <2>1, <2>2
<1>4. rev' \in Nat \ {0} /\ rev <= rev'
  BY DEF Carried, InRange
<1>5. \A n \in 0..rev : n \in 0..rev'
  BY <1>0, <1>4
<1>6. ASSUME NEW q \in Process
      PROVE  work'[q].rev <= rev' /\ work'[q].seen <= rev'
  <2>1. work'[q].rev \in Nat /\ work'[q].seen \in Nat
    BY <1>2 DEF Work
  <2> QED BY <2>1, <1>0, <1>3, <1>4
<1> QED BY <1>2, <1>3, <1>4, <1>5, <1>6 DEF Carried, InRange

LEMMA Ranges ==
  ASSUME Carried
  PROVE  /\ rev \in Nat \ {0} /\ events \in Nat /\ asked \in 0..rev /\ 0 \in 0..rev
         /\ etag \in 0..rev /\ bytes \in 0..rev /\ blob \in 0..rev
         /\ rev \in 0..rev
BY DEF Carried

\* Ending, and going on with what one has.
LEMMA IdleLegal ==
  ASSUME Carried
  PROVE  Legal("idle", "", 0, {}, 0)
<1>1. Fits("idle", "")
  BY DEF Fits
<1>2. ~Holds("")
  BY DEF Holds
<1> QED BY <1>1, <1>2, Ranges DEF Legal

LEMMA GotoLegal ==
  ASSUME Carried, NEW p \in Process, NEW step,
         Fits(work[p].op, step), Holds(step) <=> Holds(work[p].step)
  PROVE  Legal(work[p].op, step, work[p].rev, work[p].todo, work[p].seen)
BY StandsAt DEF Legal, Carried, Work

\* Nobody goes on: the documents, the keys or the queue of events change.
LEMMA CarriedStays ==
  ASSUME Carried, UNCHANGED <<mode, work>>, rev' \in {rev, rev + 1}, events' \in Nat,
         asked' \in 0..rev', etag' \in 0..rev', bytes' \in 0..rev', blob' \in 0..rev',
         mode = "sync" => task' = task
  PROVE  Carried'
<1>1. rev \in Nat \ {0} /\ rev' \in Nat \ {0} /\ rev <= rev'
  BY DEF Carried
<1>2. ASSUME NEW q \in Process
      PROVE  /\ Fits(work[q].op, work[q].step)
             /\ work[q].rev <= rev' /\ work[q].seen <= rev'
             /\ work[q].rev # 0 <=> Holds(work[q].step)
  <2>1. work[q] \in Work /\ work[q].rev <= rev /\ work[q].seen <= rev
    BY DEF Carried
  <2>2. work[q].rev \in Nat /\ work[q].seen \in Nat
    BY <2>1 DEF Work
  <2> QED BY <1>1, <2>1, <2>2 DEF Carried
<1> QED BY <1>1, <1>2 DEF Carried

\* One key is written; then the next, or what comes after.
LEMMA CarriedKey ==
  ASSUME Carried, InRange, NEW p \in Process, NEW key, NEW next, GoesOn(p, key, next),
         next # "" => /\ Fits(work[p].op, next)
                      /\ Holds(next) <=> Holds(work[p].step)
  PROVE  Carried'
<1>1. work[p].todo \ {key} \in SUBSET Keys /\ {} \in SUBSET Keys
  BY StandsAt
<1>2. Legal(work[p].op, work[p].step, work[p].rev, work[p].todo \ {key}, work[p].seen)
  BY <1>1, StandsAt DEF Legal
<1>3. next # "" => Legal(work[p].op, next, work[p].rev, {}, work[p].seen)
  BY <1>1, StandsAt DEF Legal
<1> QED BY <1>2, <1>3, IdleLegal, CarriedMoves DEF GoesOn

LEMMA CarriedServe ==
  ASSUME Carried, NEW p \in Process, Serve(p)
  PROVE  Carried'
<1>1. CASE Show(p)
  <2>1. InRange
    BY <1>1, Ranges DEF Show, InRange, written, redis, proxy, notes
  <2>2. Legal("show", "list", 0, {}, 0) /\ Legal("show", "bytes", 0, {}, etag)
    BY Ranges DEF Legal, Fits, Holds
  <2> QED BY <1>1, <2>1, <2>2, ShowMoves, CarriedMoves
<1>2. CASE GetBytes(p)
  <2>1. InRange
    BY <1>2, Ranges DEF GetBytes, InRange, written, redis, proxy, notes
  <2>2. Legal("show", "list", 0, {}, 0)
    BY Ranges DEF Legal, Fits, Holds
  <2>3. Moved(p, "show", "list", 0, {}, 0) \/ Moved(p, "idle", "", 0, {}, 0)
    BY <1>2, ListingMoves, DoneMoves DEF GetBytes
  <2> QED BY <2>1, <2>2, <2>3, IdleLegal, CarriedMoves
<1>3. CASE RedisFails(p)
  <2>1. InRange
    BY <1>3, Ranges DEF RedisFails, InRange, written, redis, proxy, notes
  <2>2. Legal(work[p].op, "list", work[p].rev, work[p].todo, work[p].seen)
    BY <1>3, GotoLegal DEF RedisFails, At, Fits, Holds
  <2>3. Moved(p, work[p].op, "list", work[p].rev, work[p].todo, work[p].seen)
    BY <1>3, GotoMoves DEF RedisFails
  <2> QED BY <2>1, <2>2, <2>3, CarriedMoves
<1>4. CASE List(p)
  <2>1. InRange
    BY <1>4, Ranges DEF List, InRange, written, redis, proxy, notes
  <2>2. Legal(work[p].op, "fill", rev, Keys, work[p].seen)
    BY <1>4, Ranges, StandsAt DEF List, At, Legal, Fits, Holds
  <2>3. Moved(p, work[p].op, "fill", rev, Keys, work[p].seen)
    BY <1>4, FillMoves DEF List
  <2> QED BY <2>1, <2>2, <2>3, CarriedMoves
<1>5. CASE Refuse(p)
  <2>1. InRange
    BY <1>5, Ranges DEF Refuse, InRange, written, redis, proxy, notes
  <2> QED BY <1>5, <2>1, DoneMoves, IdleLegal, CarriedMoves DEF Refuse
<1>6. CASE Fill(p)
  <2>1. PICK key, next :
          /\ SetKey(p, key, next)
          /\ next = IF work[p].op = "update" THEN "finish" ELSE ""
    BY <1>6 DEF Fill
  <2>2. InRange
    BY <1>6, <2>1, Ranges, StandsAt DEF SetKey, InRange, written, proxy, notes
  <2>3. work[p].step = "fill"
    BY <1>6 DEF Fill
  <2>4. next # "" => Fits(work[p].op, next) /\ (Holds(next) <=> Holds(work[p].step))
    BY <2>1, <2>3 DEF Fits, Holds
  <2> QED BY <2>1, <2>2, <2>4, KeyMoves, CarriedKey
<1> QED BY <1>1, <1>2, <1>3, <1>4, <1>5, <1>6 DEF Serve

LEMMA CarriedFetching ==
  ASSUME Carried, NEW p \in Process,
         ShowTag(p) \/ ReadFile(p) \/ ForgetRow(p) \/ RemoveRow(p) \/ Fetch(p) \/ Store(p) \/ SaveRow(p)
  PROVE  Carried'
<1>1. CASE ShowTag(p)
  <2>1. InRange
    BY <1>1, Ranges DEF ShowTag, InRange, written, redis, proxy, notes
  <2>2. mode # "sync" /\ (Begin(p, "tag", "read") \/ Begin(p, "tag", "fetch"))
    BY <1>1 DEF ShowTag
  <2>3. Legal("tag", "read", 0, {}, 0) /\ Legal("tag", "fetch", 0, {}, 0)
    BY <2>2, Ranges DEF Legal, Fits, Holds
  <2> QED BY <2>1, <2>2, <2>3, BeginMoves, CarriedMoves
<1>2. CASE ReadFile(p)
  <2>1. InRange
    BY <1>2, Ranges DEF ReadFile, InRange, written, redis, proxy, notes
  <2>2. Legal(work[p].op, "fill", blob, Keys, work[p].seen)
    BY <1>2, Ranges, StandsAt DEF ReadFile, At, Legal, Fits, Holds
  <2>3. Moved(p, work[p].op, "fill", blob, Keys, work[p].seen)
    BY <1>2, FillMoves DEF ReadFile
  <2> QED BY <2>1, <2>2, <2>3, CarriedMoves
<1>3. CASE ForgetRow(p)
  <2>1. InRange
    BY <1>3, Ranges DEF ForgetRow, InRange, written, redis, proxy, notes
  <2>2. Legal(work[p].op, "file", work[p].rev, work[p].todo, work[p].seen)
    BY <1>3, GotoLegal DEF ForgetRow, At, Fits, Holds
  <2> QED BY <1>3, <2>1, <2>2, GotoMoves, CarriedMoves DEF ForgetRow
<1>4. CASE RemoveRow(p)
  <2>1. InRange
    BY <1>4, Ranges DEF RemoveRow, InRange, written, redis, notes
  <2> QED BY <1>4, <2>1, DoneMoves, IdleLegal, CarriedMoves DEF RemoveRow
<1>5. CASE Fetch(p)
  <2>1. InRange
    BY <1>5, Ranges DEF Fetch, InRange, written, redis, proxy, notes
  <2>2. Legal(work[p].op, "store", rev, work[p].todo, work[p].seen)
    BY <1>5, Ranges, StandsAt DEF Fetch, At, Legal, Fits, Holds
  <2> QED BY <1>5, <2>1, <2>2, FetchMoves, CarriedMoves
<1>6. CASE Store(p)
  <2>1. InRange
    BY <1>6, Ranges, StandsAt DEF Store, InRange, written, redis
  <2>2. Legal(work[p].op, "save", work[p].rev, work[p].todo, work[p].seen)
    BY <1>6, GotoLegal DEF Store, Fits, Holds
  <2> QED BY <1>6, <2>1, <2>2, GotoMoves, CarriedMoves DEF Store
<1>7. CASE SaveRow(p)
  <2>1. InRange
    BY <1>7, Ranges DEF SaveRow, InRange, written, redis, notes
  <2>2. work[p].op = "update" => Legal(work[p].op, "check", work[p].rev, work[p].todo, work[p].seen)
    BY <1>7, GotoLegal DEF SaveRow, Fits, Holds
  <2>3. \/ Done(p)
        \/ work[p].op = "update" /\ Goto(p, "check")
    BY <1>7 DEF SaveRow
  <2> QED BY <2>1, <2>2, <2>3, GotoMoves, DoneMoves, IdleLegal, CarriedMoves
<1> QED BY <1>1, <1>2, <1>3, <1>4, <1>5, <1>6, <1>7

LEMMA CarriedManaging ==
  ASSUME Carried, NEW p \in Process,
         \/ Refresh(p) \/ RefreshDelete(p) \/ RefreshTask(p) \/ Remove(p) \/ RemoveDelete(p)
         \/ RemoveFile(p) \/ HandleEvent(p) \/ EndSync(p) \/ WriteSilently(p) \/ Delete(p)
  PROVE  Carried'
<1>0. \A op : Fits(op, "delete") /\ (mode = "sync" => op = "clean") => Legal(op, "delete", 0, Keys, 0)
  BY Ranges DEF Legal, Holds
<1>1. CASE Refresh(p)
  <2>1. InRange /\ mode # "sync"
    BY <1>1, Ranges DEF Refresh, InRange, written, redis, proxy, notes
  <2>2. Legal("refresh", "delete", 0, Keys, 0)
    BY <1>0, <2>1 DEF Fits
  <2> QED BY <1>1, <2>1, <2>2, DeletersMove, CarriedMoves
<1>2. CASE RefreshDelete(p)
  <2>1. PICK key : DeleteKey(p, key, "task")
    BY <1>2 DEF RefreshDelete
  <2>2. InRange
    BY <2>1, Ranges DEF DeleteKey, InRange, written, proxy, notes
  <2>3. Fits(work[p].op, "task") /\ (Holds("task") <=> Holds(work[p].step))
    BY <1>2 DEF RefreshDelete, At, Fits, Holds
  <2> QED BY <2>1, <2>2, <2>3, KeyMoves, CarriedKey
<1>3. CASE RefreshTask(p)
  <2>1. work[p].op = "refresh"
    BY <1>3 DEF RefreshTask, At
  <2>2. InRange
    BY <1>3, <2>1, Ranges, StandsAt DEF RefreshTask, CreateTask, InRange, written, redis
  <2> QED BY <1>3, <2>2, DoneMoves, IdleLegal, CarriedMoves DEF RefreshTask
<1>4. CASE Remove(p)
  <2>1. InRange /\ mode # "sync"
    BY <1>4, Ranges DEF Remove, InRange, written, redis, proxy, notes
  <2>2. Legal("remove", "delete", 0, Keys, 0)
    BY <1>0, <2>1 DEF Fits
  <2> QED BY <1>4, <2>1, <2>2, DeletersMove, CarriedMoves
<1>5. CASE RemoveDelete(p)
  <2>1. PICK key : DeleteKey(p, key, "file")
    BY <1>5 DEF RemoveDelete
  <2>2. InRange
    BY <2>1, Ranges DEF DeleteKey, InRange, written, proxy, notes
  <2>3. Fits(work[p].op, "file") /\ (Holds("file") <=> Holds(work[p].step))
    BY <1>5 DEF RemoveDelete, At, Fits, Holds
  <2> QED BY <2>1, <2>2, <2>3, KeyMoves, CarriedKey
<1>6. CASE RemoveFile(p)
  <2>1. InRange
    BY <1>6, Ranges DEF RemoveFile, InRange, written, redis
  <2>2. Legal(work[p].op, "row", work[p].rev, work[p].todo, work[p].seen)
    BY <1>6, GotoLegal DEF RemoveFile, At, Fits, Holds
  <2> QED BY <1>6, <2>1, <2>2, GotoMoves, CarriedMoves DEF RemoveFile
<1>7. CASE HandleEvent(p) \/ EndSync(p)
  <2>1. InRange
    <3>1. events' \in Nat
      BY <1>7, Ranges DEF HandleEvent, EndSync
    <3>2. StartCleaning(p)
      BY <1>7 DEF HandleEvent, EndSync
    <3> QED BY <3>1, <3>2, Ranges DEF StartCleaning, InRange, written, redis, proxy
  <2>2. Legal("clean", "delete", 0, Keys, 0)
    BY <1>0 DEF Fits
  <2> QED BY <1>7, <2>1, <2>2, DeletersMove, CarriedMoves
<1>8. CASE Delete(p)
  <2>1. PICK key : DeleteKey(p, key, "")
    BY <1>8 DEF Delete
  <2>2. InRange
    BY <2>1, Ranges DEF DeleteKey, InRange, written, proxy, notes
  <2> QED BY <2>1, <2>2, KeyMoves, CarriedKey
<1>9. CASE WriteSilently(p)
  <2>1. InRange
    BY <1>9, Ranges DEF WriteSilently, NewRev, InRange, redis, proxy, notes
  <2>2. Legal("sync", "write", 0, {}, 0)
    BY Ranges DEF Legal, Fits, Holds
  <2> QED BY <1>9, <2>1, <2>2, WriteMoves, CarriedMoves
<1> QED BY <1>1, <1>2, <1>3, <1>4, <1>5, <1>6, <1>7, <1>8, <1>9

LEMMA CarriedUpdating ==
  ASSUME Carried, NEW p \in Process,
         StartUpdate(p) \/ FailUpdate(p) \/ CheckEtag(p) \/ FinishUpdate(p) \/ Die(p)
  PROVE  Carried'
<1>1. CASE StartUpdate(p)
  <2>1. InRange /\ mode # "sync"
    BY <1>1, Ranges, StandsAt DEF StartUpdate, InRange, Carried, written, redis, notes
  <2>2. Begin(p, "update", "fetch") \/ Begin(p, "update", "fail")
    BY <1>1 DEF StartUpdate
  <2>3. Legal("update", "fetch", 0, {}, 0) /\ Legal("update", "fail", 0, {}, 0)
    BY <2>1, Ranges DEF Legal, Fits, Holds
  <2> QED BY <2>1, <2>2, <2>3, BeginMoves, CarriedMoves
<1>2. CASE FailUpdate(p)
  <2>1. InRange
    BY <1>2, Ranges, StandsAt DEF FailUpdate, At, InRange, written, redis
  <2> QED BY <1>2, <2>1, DoneMoves, IdleLegal, CarriedMoves DEF FailUpdate
<1>3. CASE CheckEtag(p)
  <2>1. InRange
    BY <1>3, Ranges DEF CheckEtag, InRange, written, redis, proxy
  <2>2. /\ Legal(work[p].op, "fill", work[p].rev, Keys, work[p].seen)
        /\ Legal(work[p].op, "finish", work[p].rev, {}, work[p].seen)
    BY <1>3, StandsAt DEF CheckEtag, At, Legal, Fits, Holds
  <2> QED BY <1>3, <2>1, <2>2, CheckMoves, CarriedMoves
<1>4. CASE FinishUpdate(p)
  <2>1. InRange
    BY <1>4, Ranges, StandsAt DEF FinishUpdate, At, InRange, written, redis, notes
  <2> QED BY <1>4, <2>1, DoneMoves, IdleLegal, CarriedMoves DEF FinishUpdate
<1>5. CASE Die(p)
  <2>1. InRange
    BY <1>5, Ranges, StandsAt DEF Die, InRange, written, redis
  <2> QED BY <1>5, <2>1, DoneMoves, IdleLegal, CarriedMoves DEF Die
<1> QED BY <1>1, <1>2, <1>3, <1>4, <1>5

LEMMA CarriedStep ==
  ASSUME Carried, [CacheNext]_cacheVars
  PROVE  Carried'
<1>1. CASE \/ Write \/ Block \/ BugVersions \/ LoseEvent \/ Upstream \/ Synced
           \/ Expire \/ CheckUpdate \/ UNCHANGED cacheVars
  <2>1. /\ UNCHANGED <<mode, work>> /\ rev' \in {rev, rev + 1} /\ events' \in Nat
        /\ mode = "sync" => task' = task
    BY <1>1, Ranges
       DEF Write, Block, BugVersions, LoseEvent, Upstream, Synced, Expire,
           CheckUpdate, CreateTask, NewRev, NothingElse, cacheVars, written, redis, proxy, notes
  <2>2. asked' \in {asked, 0, rev} /\ etag' \in {0, etag} /\ bytes' \in {0, bytes} /\ blob' = blob
    BY <1>1
       DEF Write, Block, BugVersions, LoseEvent, Upstream, Synced, Expire,
           CheckUpdate, CreateTask, NothingElse, cacheVars, written, redis, proxy, notes
  <2>3. /\ asked' \in 0..rev' /\ etag' \in 0..rev' /\ bytes' \in 0..rev' /\ blob' \in 0..rev'
    BY <2>1, <2>2, Ranges
  <2> QED BY <2>1, <2>3, CarriedStays
<1>2. ASSUME NEW p \in Process,
             \/ WriteSilently(p) \/ EndSync(p) \/ HandleEvent(p) \/ Delete(p)
             \/ Serve(p) \/ Proxy(p) \/ Die(p)
      PROVE  Carried'
  BY <1>2, CarriedServe, CarriedFetching, CarriedManaging, CarriedUpdating DEF Proxy
<1> QED BY <1>1, <1>2 DEF CacheNext

LEMMA CarriedInit ==
  ASSUME CacheInit
  PROVE  Carried
<1>1. PICK i : i = Idle
  OBVIOUS
<1>2. i.op = "idle" /\ i.step = "" /\ i.rev = 0 /\ i.todo = {} /\ i.seen = 0
  BY <1>1 DEF Idle
<1>3. i \in Work
  BY <1>1 DEF Idle, Work, Ops, Steps
<1>4. work = [p \in Process |-> i]
  BY <1>1 DEF CacheInit
<1>5. Fits("idle", "") /\ ~Holds("")
  BY DEF Fits, Holds
<1>6. work \in [Process -> Work] /\ \A p \in Process : work[p] = i
  BY <1>3, <1>4
<1>7. /\ rev = 1 /\ events = 0 /\ asked = 0 /\ etag = 0 /\ bytes = 0 /\ blob = 0 /\ task = "none"
  BY DEF CacheInit
<1>8. \A p \in Process : /\ Fits(work[p].op, work[p].step)
                         /\ work[p].rev <= rev /\ work[p].seen <= rev
                         /\ work[p].rev # 0 <=> Holds(work[p].step)
                         /\ work[p].op \in {"idle", "clean", "sync", "show"}
  <2> TAKE p \in Process
  <2>1. work[p].op = "idle" /\ work[p].step = "" /\ work[p].rev = 0 /\ work[p].seen = 0
    BY <1>2, <1>6
  <2>2. Fits(work[p].op, work[p].step)
    BY <2>1 DEF Fits
  <2>3. ~Holds(work[p].step)
    BY <2>1 DEF Holds
  <2>5. 0 <= 1
    OBVIOUS
  <2>6. work[p].rev = 0 /\ work[p].seen = 0 /\ rev = 1
    BY <2>1, <1>7
  <2>4. work[p].rev <= rev /\ work[p].seen <= rev
    BY <2>5, <2>6, Zenon
  <2> QED BY <2>1, <2>2, <2>3, <2>4
<1>9. /\ rev \in Nat \ {0} /\ events \in Nat /\ asked \in 0..rev
      /\ etag \in 0..rev /\ bytes \in 0..rev /\ blob \in 0..rev
  BY <1>7
<1> QED BY <1>6, <1>7, <1>8, <1>9 DEF Carried

-----------------------------------------------------------------------------
(* CacheFresh *)

\* Without proxy mode nothing of ProxyCacheService runs.
LEMMA NoProxy ==
  ASSUME Carried, mode = "sync", NEW p \in Process, Proxy(p)
  PROVE  FALSE
<1>1. work[p].op \in {"idle", "clean", "sync", "show"} /\ task = "none"
  BY StandsAt DEF Carried
<1> QED BY <1>1 DEF Proxy, ShowTag, ReadFile, ForgetRow, RemoveRow, Fetch, Store, SaveRow, Refresh,
          RefreshDelete, RefreshTask, Remove, RemoveDelete, RemoveFile, StartUpdate, FailUpdate,
          CheckEtag, FinishUpdate, At

\* p takes nothing old, writes nothing old, and was not a cleaner.
LEMMA SweptMoves ==
  ASSUME Carried, Swept, mode = "sync", ~stale, events = 0, UNCHANGED <<mode, rev, blocked>>,
         NEW p \in Process, work[p].op # "clean", Syncing = {},
         \A q \in Process : q # p => work'[q] = work[q],
         work'[p].rev \in {0, Current},
         etag' \in {etag, 0, Current}, bytes' \in {bytes, 0, Current}
  PROVE  Swept'
<1>1. Current' = Current
  BY DEF Current
<1>2. \A q \in Process : work'[q].rev \in {0, Current}
  BY DEF Swept
<1>3. \A key \in Keys : Sweeps(key) => Sweeps(key)'
  BY DEF Sweeps, Cleaning, At
<1>4. Sweeps("etag") => Sweeps("etag")'
  BY <1>3 DEF Keys
<1>5. Sweeps("bytes") => Sweeps("bytes")'
  BY <1>3 DEF Keys
<1>6. etag' \in {0, Current} \/ Sweeps("etag")'
  BY <1>4 DEF Swept
<1>7. bytes' \in {0, Current} \/ Sweeps("bytes")'
  BY <1>5 DEF Swept
<1> QED BY <1>1, <1>2, <1>6, <1>7 DEF Swept

\* A sync that has written goes on being one.
LEMMA SyncsOn ==
  ASSUME NEW p \in Process, \A q \in Process : q # p => work'[q] = work[q],
         work[p].op # "sync", Syncing' = {}
  PROVE  Syncing = {}
BY DEF Syncing, At

\* The process that moves, and the others.
LEMMA MovedFields ==
  ASSUME NEW p \in Process, NEW op, NEW step, NEW r, NEW todo, NEW seen,
         Moved(p, op, step, r, todo, seen)
  PROVE  /\ work'[p].op = op /\ work'[p].step = step /\ work'[p].rev = r
         /\ work'[p].todo = todo /\ work'[p].seen = seen
         /\ \A q \in Process : q # p => work'[q] = work[q]
BY FieldsMoved DEF Moved

LEMMA GoesOnFields ==
  ASSUME Carried, NEW p \in Process, NEW key, NEW next, GoesOn(p, key, next)
  PROVE  /\ \A q \in Process : q # p => work'[q] = work[q]
         /\ work'[p].rev \in {0, work[p].rev}
         /\ work[p].todo \ {key} # {} =>
              /\ work'[p].op = work[p].op /\ work'[p].step = work[p].step
              /\ work'[p].todo = work[p].todo \ {key} /\ work'[p].rev = work[p].rev
         /\ work[p].todo \ {key} = {} /\ next = "" =>
              work'[p].op = "idle" /\ work'[p].step = "" /\ work'[p].rev = 0
         /\ work[p].todo \ {key} = {} /\ next # "" =>
              /\ work'[p].op = work[p].op /\ work'[p].step = next
              /\ work'[p].todo = {} /\ work'[p].rev = work[p].rev
<1>1. CASE /\ work[p].todo \ {key} # {}
           /\ Moved(p, work[p].op, work[p].step, work[p].rev, work[p].todo \ {key}, work[p].seen)
  <2>1. /\ work'[p].op = work[p].op /\ work'[p].step = work[p].step /\ work'[p].rev = work[p].rev
        /\ work'[p].todo = work[p].todo \ {key}
        /\ \A q \in Process : q # p => work'[q] = work[q]
    BY <1>1, MovedFields
  <2> QED BY <1>1, <2>1
<1>2. CASE work[p].todo \ {key} = {} /\ next = "" /\ Moved(p, "idle", "", 0, {}, 0)
  BY <1>2, MovedFields
<1>3. CASE /\ work[p].todo \ {key} = {} /\ next # ""
           /\ Moved(p, work[p].op, next, work[p].rev, {}, work[p].seen)
  <2>1. /\ work'[p].op = work[p].op /\ work'[p].step = next /\ work'[p].rev = work[p].rev
        /\ work'[p].todo = {}
        /\ \A q \in Process : q # p => work'[q] = work[q]
    <3>1. PICK empty : empty = {}
      OBVIOUS
    <3>2. Moved(p, work[p].op, next, work[p].rev, empty, work[p].seen)
      BY <1>3, <3>1
    <3>3. /\ work'[p].op = work[p].op /\ work'[p].step = next /\ work'[p].rev = work[p].rev
          /\ work'[p].todo = empty
          /\ \A q \in Process : q # p => work'[q] = work[q]
      BY <3>2, MovedFields
    <3> QED BY <3>1, <3>3
  <2> QED BY <1>3, <2>1
<1> QED BY <1>1, <1>2, <1>3 DEF GoesOn

LEMMA IdleFields ==
  /\ Idle.op = "idle" /\ Idle.step = "" /\ Idle.rev = 0 /\ Idle.todo = {} /\ Idle.seen = 0
BY DEF Idle

LEMMA DoneFields ==
  ASSUME Carried, NEW p \in Process, Done(p)
  PROVE  /\ \A q \in Process : q # p => work'[q] = work[q]
         /\ work'[p].op = "idle" /\ work'[p].step = "" /\ work'[p].rev = 0
<1>1. work'[p] = Idle /\ \A q \in Process : q # p => work'[q] = work[q]
  BY DEF Done, Carried
<1> QED BY <1>1, IdleFields

\* Readers who go on without a document.
LEMMA ReaderMoves ==
  ASSUME Carried, NEW p \in Process, Show(p) \/ GetBytes(p) \/ RedisFails(p) \/ Refuse(p) \/ Die(p)
  PROVE  /\ \A q \in Process : q # p => work'[q] = work[q]
         /\ work'[p].rev \in {0, work[p].rev}
         /\ work'[p].op \in {"show", "idle"} /\ work'[p].step \in {"list", "bytes", ""}
         /\ work'[p].step = "bytes" => work'[p].seen = etag
<1>1. CASE Show(p)
  <2>1. PICK step, seen :
          /\ step \in {"list", "bytes"} /\ (step = "bytes" => seen = etag)
          /\ Moved(p, "show", step, 0, {}, seen)
    BY <1>1, ShowMoves
  <2>2. /\ work'[p].op = "show" /\ work'[p].step = step /\ work'[p].rev = 0 /\ work'[p].seen = seen
        /\ \A q \in Process : q # p => work'[q] = work[q]
    BY <2>1, MovedFields
  <2> QED BY <2>1, <2>2
<1>2. CASE GetBytes(p)
  <2>1. Listing(p) \/ Done(p)
    BY <1>2 DEF GetBytes
  <2>2. PICK op \in {"show", "idle"}, step \in {"list", ""} : Moved(p, op, step, 0, {}, 0)
    BY <2>1, ListingMoves, DoneMoves
  <2>3. /\ work'[p].op = op /\ work'[p].step = step /\ work'[p].rev = 0
        /\ \A q \in Process : q # p => work'[q] = work[q]
    BY <2>2, MovedFields
  <2> QED BY <2>3
<1>3. CASE RedisFails(p)
  <2>1. Moved(p, work[p].op, "list", work[p].rev, work[p].todo, work[p].seen)
    BY <1>3, GotoMoves DEF RedisFails
  <2>2. work[p].op = "show"
    BY <1>3 DEF RedisFails, At
  <2>3. /\ work'[p].op = work[p].op /\ work'[p].step = "list" /\ work'[p].rev = work[p].rev
        /\ \A q \in Process : q # p => work'[q] = work[q]
    BY <2>1, MovedFields
  <2> QED BY <2>2, <2>3
<1>4. CASE Refuse(p) \/ Die(p)
  BY <1>4, DoneFields DEF Refuse, Die
<1> QED BY <1>1, <1>2, <1>3, <1>4

LEMMA ListFields ==
  ASSUME Carried, NEW p \in Process, List(p)
  PROVE  /\ \A q \in Process : q # p => work'[q] = work[q]
         /\ work'[p].op = work[p].op /\ work'[p].step = "fill" /\ work'[p].rev = rev
         /\ work'[p].todo = Keys
<1>1. Moved(p, work[p].op, "fill", rev, Keys, work[p].seen)
  BY FillMoves DEF List
<1> QED BY <1>1, MovedFields

LEMMA FillsOthers ==
  ASSUME Carried, NEW p \in Process, Fill(p)
  PROVE  \A q \in Process : q # p => work'[q] = work[q]
<1>1. PICK key, next : SetKey(p, key, next)
  BY DEF Fill
<1> QED BY <1>1, KeyMoves, GoesOnFields

LEMMA SweptServe ==
  ASSUME Carried, Swept, NEW p \in Process, Serve(p) \/ Die(p),
         mode' = "sync", ~stale', events' = 0, Syncing' = {}
  PROVE  Swept'
<1>1. /\ mode = "sync" /\ ~stale /\ events = 0 /\ Syncing = {}
      /\ UNCHANGED <<mode, rev, blocked>> /\ work[p].op # "clean"
  <2>1. mode' = mode /\ rev' = rev /\ blocked' = blocked /\ events' = events /\ (stale => stale')
    <3>1. CASE Fill(p)
      BY <3>1 DEF Fill, SetKey, written, notes
    <3>2. CASE Serve(p) /\ ~Fill(p)
      BY <3>2 DEF Serve, Show, GetBytes, RedisFails, List, Refuse, written, notes
    <3>3. CASE Die(p)
      BY <3>3 DEF Die, written
    <3> QED BY <3>1, <3>2, <3>3
  <2>2. work[p].op \notin {"clean", "sync"}
    BY IdleFields DEF Serve, Show, GetBytes, RedisFails, List, Refuse, Fill, Die, At
  <2>3. \A q \in Process : q # p => work'[q] = work[q]
    <3>1. CASE Fill(p)
      BY <3>1, FillsOthers
    <3>2. CASE ~Fill(p)
      BY <3>2, ReaderMoves, ListFields DEF Serve
    <3> QED BY <3>1, <3>2
  <2> QED BY <2>1, <2>2, <2>3, SyncsOn
<1>2. work[p].rev \in {0, Current}
  BY <1>1 DEF Swept
<1>3. CASE Show(p) \/ GetBytes(p) \/ RedisFails(p) \/ Refuse(p) \/ Die(p)
  <2>1. etag' = etag /\ bytes' = bytes
    BY <1>3 DEF Show, GetBytes, RedisFails, Refuse, Die, redis
  <2>2. (\A q \in Process : q # p => work'[q] = work[q]) /\ work'[p].rev \in {0, work[p].rev}
    BY <1>3, ReaderMoves
  <2> QED BY <1>1, <1>2, <2>1, <2>2, SweptMoves
<1>4. CASE List(p)
  <2>1. etag' = etag /\ bytes' = bytes /\ Current = rev
    BY <1>4 DEF List, redis, Current
  <2>2. (\A q \in Process : q # p => work'[q] = work[q]) /\ work'[p].rev = rev
    BY <1>4, ListFields
  <2> QED BY <1>1, <2>1, <2>2, SweptMoves
<1>5. CASE Fill(p)
  <2>1. PICK key, next : SetKey(p, key, next)
    BY <1>5 DEF Fill
  <2>2. (\A q \in Process : q # p => work'[q] = work[q]) /\ work'[p].rev \in {0, work[p].rev}
    BY <2>1, KeyMoves, GoesOnFields
  <2>3. etag' \in {etag, 0, Current} /\ bytes' \in {bytes, 0, Current}
    BY <1>2, <2>1 DEF SetKey
  <2> QED BY <1>1, <1>2, <2>2, <2>3, SweptMoves
<1> QED BY <1>3, <1>4, <1>5 DEF Serve

LEMMA SweptClean ==
  ASSUME Carried, Swept, NEW p \in Process, HandleEvent(p) \/ EndSync(p) \/ Delete(p),
         mode' = "sync", ~stale', events' = 0, Syncing' = {}
  PROVE  Swept'
<1>1. mode = "sync" /\ UNCHANGED <<rev, blocked>> /\ Current' = Current
  <2>1. mode' = mode /\ rev' = rev /\ blocked' = blocked
    BY DEF HandleEvent, EndSync, StartCleaning, Delete, DeleteKey, written
  <2> QED BY <2>1 DEF Current
<1>2. CASE HandleEvent(p) \/ EndSync(p)
  <2>1. \A q \in Process : work[q].rev \in {0, Current}
    BY <1>2 DEF HandleEvent, EndSync, StartCleaning
  <2>2. /\ \A q \in Process : q # p => work'[q] = work[q]
        /\ work'[p].op = "clean" /\ work'[p].step = "delete" /\ work'[p].rev = 0 /\ work'[p].todo = Keys
    BY <1>2, DeletersMove, MovedFields
  <2>3. p \in Cleaning' /\ "etag" \in work'[p].todo /\ "bytes" \in work'[p].todo
    BY <2>2 DEF Cleaning, At, Keys
  <2>4. Sweeps("etag")' /\ Sweeps("bytes")'
    BY <2>3 DEF Sweeps
  <2> QED BY <1>1, <2>1, <2>2, <2>4 DEF Swept
<1>3. CASE Delete(p)
  <2>0. ~stale /\ events = 0
    BY <1>3 DEF Delete, DeleteKey, notes
  <2>1. PICK key \in Keys : DeleteKey(p, key, "")
    BY <1>3 DEF Delete
  <2>2. GoesOn(p, key, "")
    BY <2>1, KeyMoves
  <2>7. Syncing = {}
    BY <1>3, <2>2, GoesOnFields, SyncsOn DEF Delete, At
  <2>3. \A q \in Process : work'[q].rev \in {0, Current}
    BY <1>1, <2>0, <2>2, <2>7, GoesOnFields DEF Swept
  <2>4. \A other \in Keys : other # key /\ Sweeps(other) => Sweeps(other)'
    <3> SUFFICES ASSUME NEW other \in Keys, other # key, NEW q \in Cleaning, other \in work[q].todo
                 PROVE  Sweeps(other)'
      BY DEF Sweeps
    <3>1. CASE q # p
      BY <3>1, <2>2, GoesOnFields DEF Sweeps, Cleaning, At
    <3>2. CASE q = p
      <4>1. work[p].todo \ {key} # {} /\ other \in work[p].todo \ {key}
        BY <3>2
      <4>2. p \in Cleaning' /\ other \in work'[p].todo
        BY <3>2, <4>1, <2>2, GoesOnFields DEF Cleaning, At
      <4> QED BY <4>2 DEF Sweeps
    <3> QED BY <3>1, <3>2
  <2>5. etag' \in {0, Current} \/ Sweeps("etag")'
    <3>1. CASE key = "etag"
      BY <3>1, <2>1 DEF DeleteKey
    <3>2. CASE key # "etag"
      <4>1. etag' = etag
        BY <3>2, <2>1 DEF DeleteKey
      <4>2. Sweeps("etag") => Sweeps("etag")'
        BY <3>2, <2>4 DEF Keys
      <4> QED BY <1>1, <2>0, <2>7, <4>1, <4>2 DEF Swept
    <3> QED BY <3>1, <3>2
  <2>6. bytes' \in {0, Current} \/ Sweeps("bytes")'
    <3>1. CASE key = "bytes"
      BY <3>1, <2>1 DEF DeleteKey
    <3>2. CASE key # "bytes"
      <4>1. bytes' = bytes
        BY <3>2, <2>1 DEF DeleteKey
      <4>2. Sweeps("bytes") => Sweeps("bytes")'
        BY <3>2, <2>4 DEF Keys
      <4> QED BY <1>1, <2>0, <2>7, <4>1, <4>2 DEF Swept
    <3> QED BY <3>1, <3>2
  <2> QED BY <1>1, <2>3, <2>5, <2>6 DEF Swept
<1> QED BY <1>2, <1>3

LEMMA SweptStep ==
  ASSUME Carried, Swept, [CacheNext]_cacheVars
  PROVE  Swept'
<1> SUFFICES ASSUME mode' = "sync", ~stale', events' = 0, Syncing' = {}
             PROVE  Swept'
  BY DEF Swept
<1>1. mode = "sync"
  BY DEF CacheNext, Write, Block, BugVersions, LoseEvent, Upstream, Synced, Expire,
     CheckUpdate, NothingElse, cacheVars, Serve, Show, GetBytes, RedisFails, List, Refuse, Fill, SetKey,
     WriteSilently, EndSync, HandleEvent, StartCleaning, Delete, DeleteKey, Die, Proxy, ShowTag, ReadFile, ForgetRow, RemoveRow, Fetch, Store,
     SaveRow, Refresh, RefreshDelete, RefreshTask, Remove, RemoveDelete, RemoveFile, StartUpdate,
     FailUpdate, CheckEtag, FinishUpdate
<1>2. CASE Expire \/ UNCHANGED cacheVars
  <2>1. /\ UNCHANGED <<work, rev, blocked, stale, events>>
        /\ etag' \in {0, etag} /\ bytes' \in {0, bytes}
    BY <1>2 DEF Expire, cacheVars, written, notes, redis
  <2>2. Current' = Current /\ Cleaning' = Cleaning /\ Syncing' = Syncing
    BY <2>1 DEF Current, Cleaning, Syncing, At
  <2>3. \A key \in Keys : Sweeps(key)' <=> Sweeps(key)
    BY <2>1, <2>2 DEF Sweeps
  <2> QED BY <1>1, <2>1, <2>2, <2>3 DEF Swept, Keys
<1>3. CASE Write \/ Block \/ BugVersions \/ LoseEvent \/ Upstream \/ Synced \/ CheckUpdate
  <2>1. events \in Nat /\ events + 1 # 0
    BY Ranges
  <2>2. CASE Write \/ Block \/ Upstream \/ Synced \/ CheckUpdate
    BY <1>1, <2>1, <2>2 DEF Write, Block, Upstream, Synced, CheckUpdate
  <2>3. CASE BugVersions
    BY <2>1, <2>3 DEF BugVersions
  <2>4. CASE LoseEvent
    BY <2>4 DEF LoseEvent
  <2> QED BY <1>3, <2>2, <2>3, <2>4
<1>4. ASSUME NEW p \in Process,
             \/ WriteSilently(p) \/ EndSync(p) \/ HandleEvent(p) \/ Delete(p)
             \/ Serve(p) \/ Proxy(p) \/ Die(p)
      PROVE  Swept'
  <2>1. ~WriteSilently(p)
    BY WriteMoves, MovedFields DEF Syncing, At
  <2> QED BY <1>1, <1>4, <2>1, NoProxy, SweptServe, SweptClean
<1> QED BY <1>2, <1>3, <1>4 DEF CacheNext

-----------------------------------------------------------------------------
(* ServedWhole *)

LEMMA Numbers ==
  ASSUME Carried, NEW p \in Process
  PROVE  /\ work[p].rev \in Nat /\ work[p].rev <= rev /\ work[p].seen \in Nat /\ work[p].seen <= rev
         /\ rev \in Nat /\ etag \in Nat /\ bytes \in Nat /\ blob \in Nat /\ asked \in Nat
         /\ etag <= rev /\ bytes <= rev
BY DEF Carried, Work

\* Keys are at most deleted, nothing is taken, and who begins to read has read the etag.
LEMMA FilledAlikeMoves ==
  ASSUME Carried, FilledAlike, mode = "sync", ~crossed,
         NEW p \in Process,
         \A q \in Process : q # p => work'[q] = work[q],
         work'[p].rev \in {0, work[p].rev},
         work'[p].step = "bytes" => work'[p].seen = etag,
         etag' \in {etag, 0}, bytes' \in {bytes, 0}
  PROVE  FilledAlike'
<1>1. /\ etag \in Nat /\ bytes \in Nat
      /\ \A q \in Process : work[q].rev \in Nat /\ work[q].seen \in Nat
  BY Numbers
<1>2. ASSUME NEW q \in Process, work'[q].rev # 0
      PROVE  /\ etag' \in {0, work'[q].rev} /\ bytes' \in {0, work'[q].rev}
             /\ \A o \in Process : work'[o].rev \in {0, work'[q].rev}
             /\ \A o \in Process : At(o, "show", "bytes")' => work'[o].seen <= work'[q].rev
  <2>1. work[q].rev # 0 /\ work'[q].rev = work[q].rev
    BY <1>2
  <2>2. /\ etag \in {0, work[q].rev} /\ bytes \in {0, work[q].rev}
        /\ \A o \in Process : work[o].rev \in {0, work[q].rev}
        /\ \A o \in Process : At(o, "show", "bytes") => work[o].seen <= work[q].rev
    BY <2>1 DEF FilledAlike, Reading
  <2>3. \A o \in Process : work'[o].rev \in {0, work[q].rev}
    BY <2>2
  <2>4. ASSUME NEW o \in Process, At(o, "show", "bytes")'
        PROVE  work'[o].seen <= work[q].rev
    <3>1. CASE o = p
      <4>1. work'[o].seen = etag
        BY <2>4, <3>1 DEF At
      <4>2. etag <= work[q].rev
        BY <1>1, <2>2
      <4> QED BY <4>1, <4>2
    <3>2. CASE o # p
      BY <2>2, <2>4, <3>2 DEF At
    <3> QED BY <3>1, <3>2
  <2> QED BY <2>1, <2>2, <2>3, <2>4
<1>3. ASSUME bytes' # 0
      PROVE  /\ etag' <= bytes'
             /\ \A o \in Process : At(o, "show", "bytes")' => work'[o].seen <= bytes'
  <2>1. bytes' = bytes /\ etag <= bytes /\ \A o \in Process : At(o, "show", "bytes") => work[o].seen <= bytes
    BY <1>3 DEF FilledAlike, Reading
  <2>2. etag' <= bytes'
    BY <1>1, <2>1
  <2>3. ASSUME NEW o \in Process, At(o, "show", "bytes")'
        PROVE  work'[o].seen <= bytes
    BY <2>1, <2>3 DEF At
  <2> QED BY <2>1, <2>2, <2>3
<1> QED BY <1>2, <1>3 DEF FilledAlike, Reading

LEMMA FillFields ==
  ASSUME Carried, NEW p \in Process, Fill(p)
  PROVE  \E key \in Keys :
           /\ key \in work[p].todo
           /\ etag' = IF key = "etag" THEN work[p].rev ELSE etag
           /\ bytes' = IF key = "bytes" THEN work[p].rev ELSE bytes
           /\ \A q \in Process : q # p => work'[q] = work[q]
           /\ work'[p].rev \in {0, work[p].rev}
           /\ work'[p].op \in {work[p].op, "idle"} /\ work'[p].step \in {"fill", "finish", ""}
           /\ work'[p].step = "fill" => /\ work'[p].todo = work[p].todo \ {key}
                                        /\ work'[p].rev = work[p].rev
           /\ work'[p].step = "finish" =>
                /\ work'[p].rev = work[p].rev /\ work[p].todo \ {key} = {} /\ work[p].op = "update"
           /\ work[p].todo \ {key} # {} => work'[p].step = "fill"
<1>1. PICK key, next :
        /\ key \in Keys /\ SetKey(p, key, next)
        /\ next = IF work[p].op = "update" THEN "finish" ELSE ""
  BY DEF Fill
<1>9. next = "" \/ (next = "finish" /\ work[p].op = "update")
  BY <1>1
<1>2. GoesOn(p, key, next)
  BY <1>1, KeyMoves
<1>3. work[p].step = "fill"
  BY DEF Fill
<1>4. /\ key \in Keys /\ key \in work[p].todo
      /\ etag' = IF key = "etag" THEN work[p].rev ELSE etag
      /\ bytes' = IF key = "bytes" THEN work[p].rev ELSE bytes
  BY <1>1 DEF SetKey
<1>5. /\ \A q \in Process : q # p => work'[q] = work[q]
      /\ work'[p].rev \in {0, work[p].rev}
  BY <1>2, GoesOnFields
<1>6. CASE work[p].todo \ {key} # {}
  <2>1. /\ work'[p].op = work[p].op /\ work'[p].step = "fill"
        /\ work'[p].todo = work[p].todo \ {key} /\ work'[p].rev = work[p].rev
    BY <1>2, <1>3, <1>6, GoesOnFields
  <2> QED BY <1>4, <1>5, <2>1
<1>7. CASE work[p].todo \ {key} = {} /\ next = ""
  <2>1. work'[p].op = "idle" /\ work'[p].step = ""
    BY <1>2, <1>7, GoesOnFields
  <2> QED BY <1>4, <1>5, <1>7, <2>1
<1>8. CASE work[p].todo \ {key} = {} /\ next = "finish"
  <2>1. /\ work'[p].op = work[p].op /\ work'[p].step = "finish" /\ work'[p].rev = work[p].rev
        /\ work[p].op = "update"
    BY <1>2, <1>8, <1>9, GoesOnFields
  <2> QED BY <1>4, <1>5, <1>8, <2>1
<1> QED BY <1>6, <1>7, <1>8, <1>9

LEMMA DeleteFields ==
  ASSUME Carried, NEW p \in Process, NEW key, NEW next, DeleteKey(p, key, next), work[p].step = "delete",
         next \in {"", "task", "file"}
  PROVE  /\ etag' \in {etag, 0} /\ bytes' \in {bytes, 0}
         /\ \A q \in Process : q # p => work'[q] = work[q]
         /\ work'[p].rev = 0 /\ work[p].rev = 0
         /\ work'[p].op \in {work[p].op, "idle"} /\ work'[p].step \in {"delete", next}
<1>1. GoesOn(p, key, next)
  BY KeyMoves
<1>2. work[p].rev = 0
  BY StandsAt DEF Holds
<1>3. etag' \in {etag, 0} /\ bytes' \in {bytes, 0}
  BY DEF DeleteKey
<1>4. (\A q \in Process : q # p => work'[q] = work[q]) /\ work'[p].rev = 0
  BY <1>1, <1>2, GoesOnFields
<1>5. work'[p].op \in {work[p].op, "idle"} /\ work'[p].step \in {"delete", next}
  <2>1. CASE work[p].todo \ {key} # {}
    BY <1>1, <2>1, GoesOnFields
  <2>2. CASE work[p].todo \ {key} = {} /\ next = ""
    BY <1>1, <2>2, GoesOnFields
  <2>3. CASE work[p].todo \ {key} = {} /\ next # ""
    BY <1>1, <2>3, GoesOnFields
  <2> QED BY <2>1, <2>2, <2>3
<1> QED BY <1>2, <1>3, <1>4, <1>5

\* One revision in everybody's hands and in the keys.
LEMMA AllOne ==
  ASSUME Carried, NEW r \in Nat \ {0},
         \A q \in Process : work'[q].rev \in {0, r},
         \A q \in Process : At(q, "show", "bytes")' => work'[q].seen <= r,
         etag' \in {0, r}, bytes' \in {0, r}
  PROVE  FilledAlike'
<1>1. ASSUME NEW q \in Process, work'[q].rev # 0
      PROVE  work'[q].rev = r
  BY <1>1
<1>2. bytes' # 0 => bytes' = r /\ etag' <= bytes'
  OBVIOUS
<1> QED BY <1>1, <1>2 DEF FilledAlike, Reading

LEMMA FilledAlikeServe ==
  ASSUME Carried, Swept, FilledAlike, NEW p \in Process, Serve(p) \/ Die(p), mode' = "sync", ~crossed'
  PROVE  FilledAlike'
<1>1. mode = "sync" /\ ~crossed
  <2>1. CASE Fill(p)
    BY <2>1 DEF Fill, SetKey, notes
  <2>2. CASE Show(p) \/ GetBytes(p) \/ RedisFails(p) \/ Refuse(p)
    BY <2>2 DEF Show, GetBytes, RedisFails, Refuse, notes
  <2>3. CASE Die(p)
    BY <2>3 DEF Die
  <2>4. CASE List(p)
    BY <2>4 DEF List
  <2> QED BY <2>1, <2>2, <2>3, <2>4 DEF Serve
<1>2. CASE Show(p) \/ GetBytes(p) \/ RedisFails(p) \/ Refuse(p) \/ Die(p)
  <2>1. etag' = etag /\ bytes' = bytes
    BY <1>2 DEF Show, GetBytes, RedisFails, Refuse, Die, redis
  <2> QED BY <1>1, <1>2, <2>1, ReaderMoves, FilledAlikeMoves
<1>3. CASE List(p)
  <2>1. /\ etag' = etag /\ bytes' = bytes /\ Current = rev
        /\ ~stale /\ events = 0 /\ Cleaning = {} /\ Syncing = {} /\ ~Mixed(p, rev)
    BY <1>3 DEF List, Unclean, redis, Current
  <2>2. /\ \A q \in Process : q # p => work'[q] = work[q]
        /\ work'[p].step = "fill" /\ work'[p].rev = rev
    BY <1>3, ListFields
  <2>3. ~Sweeps("etag") /\ ~Sweeps("bytes")
    BY <2>1 DEF Sweeps
  <2>4. etag \in {0, rev} /\ bytes \in {0, rev}
    BY <1>1, <2>1, <2>3 DEF Swept
  <2>5. \A q \in Process : work'[q].rev \in {0, rev}
    BY <2>1, <2>2 DEF Mixed
  <2>6. \A q \in Process : At(q, "show", "bytes")' => work'[q].seen <= rev
    BY <2>2, Numbers DEF At
  <2> QED BY <2>1, <2>4, <2>5, <2>6, Ranges, AllOne
<1>4. CASE Fill(p)
  <2>1. PICK key \in Keys :
           /\ etag' = IF key = "etag" THEN work[p].rev ELSE etag
           /\ bytes' = IF key = "bytes" THEN work[p].rev ELSE bytes
           /\ \A q \in Process : q # p => work'[q] = work[q]
           /\ work'[p].rev \in {0, work[p].rev}
           /\ work'[p].step \in {"fill", "finish", ""}
    BY <1>4, FillFields
  <2>2. work[p].rev # 0 /\ work[p].rev \in Nat
    BY <1>4, StandsAt, Numbers DEF Fill, Holds
  <2>3. /\ etag \in {0, work[p].rev} /\ bytes \in {0, work[p].rev}
        /\ \A q \in Process : work[q].rev \in {0, work[p].rev}
        /\ \A q \in Process : At(q, "show", "bytes") => work[q].seen <= work[p].rev
    BY <1>1, <2>2 DEF FilledAlike, Reading
  <2>4. etag' \in {0, work[p].rev} /\ bytes' \in {0, work[p].rev}
    BY <2>1, <2>3
  <2>5. \A q \in Process : work'[q].rev \in {0, work[p].rev}
    BY <2>1, <2>3
  <2>6. \A q \in Process : At(q, "show", "bytes")' => work'[q].seen <= work[p].rev
    BY <2>1, <2>3 DEF At
  <2> QED BY <2>2, <2>4, <2>5, <2>6, AllOne
<1> QED BY <1>2, <1>3, <1>4 DEF Serve

LEMMA FilledAlikeClean ==
  ASSUME Carried, FilledAlike, NEW p \in Process,
         WriteSilently(p) \/ EndSync(p) \/ HandleEvent(p) \/ Delete(p), mode' = "sync", ~crossed'
  PROVE  FilledAlike'
<1>3. CASE WriteSilently(p)
  <2>1. mode = "sync" /\ ~crossed /\ etag' = etag /\ bytes' = bytes
    BY <1>3 DEF WriteSilently, redis, notes
  <2>2. /\ \A q \in Process : q # p => work'[q] = work[q]
        /\ work'[p].step = "write" /\ work'[p].rev = 0
    BY <1>3, WriteMoves, MovedFields
  <2> QED BY <2>1, <2>2, FilledAlikeMoves
<1>1. CASE HandleEvent(p) \/ EndSync(p)
  <2>1. mode = "sync" /\ ~crossed /\ etag' = etag /\ bytes' = bytes
    BY <1>1 DEF HandleEvent, EndSync, StartCleaning, redis
  <2>2. /\ \A q \in Process : q # p => work'[q] = work[q]
        /\ work'[p].step = "delete" /\ work'[p].rev = 0
    BY <1>1, DeletersMove, MovedFields
  <2> QED BY <2>1, <2>2, FilledAlikeMoves
<1>2. CASE Delete(p)
  <2>1. PICK key : DeleteKey(p, key, "") /\ work[p].step = "delete"
    BY <1>2 DEF Delete, At
  <2>2. mode = "sync" /\ ~crossed
    BY <2>1 DEF DeleteKey, notes
  <2>3. PICK none : none = ""
    OBVIOUS
  <2>4. /\ etag' \in {etag, 0} /\ bytes' \in {bytes, 0}
        /\ \A q \in Process : q # p => work'[q] = work[q]
        /\ work'[p].rev = 0 /\ work'[p].step \in {"delete", none}
    BY <2>1, <2>3, DeleteFields
  <2>5. work'[p].step # "bytes"
    BY <2>3, <2>4
  <2> QED BY <2>2, <2>4, <2>5, FilledAlikeMoves
<1> QED BY <1>1, <1>2, <1>3

LEMMA FilledAlikeStep ==
  ASSUME Carried, Swept, FilledAlike, [CacheNext]_cacheVars
  PROVE  FilledAlike'
<1> SUFFICES ASSUME mode' = "sync", ~crossed'
             PROVE  FilledAlike'
  BY DEF FilledAlike
<1>1. mode = "sync"
  BY DEF CacheNext, Write, Block, BugVersions, LoseEvent, Upstream, Synced, Expire,
     CheckUpdate, NothingElse, cacheVars, Serve, Show, GetBytes, RedisFails, List, Refuse, Fill, SetKey,
     WriteSilently, EndSync, HandleEvent, StartCleaning, Delete, DeleteKey, Die, Proxy, ShowTag, ReadFile, ForgetRow, RemoveRow, Fetch, Store,
     SaveRow, Refresh, RefreshDelete, RefreshTask, Remove, RemoveDelete, RemoveFile, StartUpdate,
     FailUpdate, CheckEtag, FinishUpdate
<1>2. CASE \/ Write \/ Block \/ BugVersions \/ LoseEvent \/ Upstream \/ Synced \/ CheckUpdate
           \/ UNCHANGED cacheVars
  <2>1. UNCHANGED <<work, etag, bytes, crossed>>
    BY <1>2 DEF Write, Block, BugVersions, LoseEvent, Upstream, Synced, CheckUpdate,
       NothingElse, cacheVars, redis, notes
  <2> QED BY <1>1, <2>1 DEF FilledAlike, Reading, At
<1>3. CASE Expire
  <2>1. UNCHANGED <<work, crossed>> /\ etag' \in {0, etag} /\ bytes' \in {0, bytes}
    BY <1>3 DEF Expire, notes
  <2>2. bytes' # 0 => bytes # 0 /\ bytes' = bytes /\ (etag <= bytes => etag' <= bytes)
    BY <2>1, Ranges
  <2> QED BY <1>1, <2>1, <2>2 DEF FilledAlike, Reading, At
<1>4. ASSUME NEW p \in Process,
             \/ WriteSilently(p) \/ EndSync(p) \/ HandleEvent(p) \/ Delete(p)
             \/ Serve(p) \/ Proxy(p) \/ Die(p)
      PROVE  FilledAlike'
  BY <1>1, <1>4, NoProxy, FilledAlikeServe, FilledAlikeClean
<1> QED BY <1>2, <1>3, <1>4 DEF CacheNext

LEMMA RestInit ==
  ASSUME CacheInit
  PROVE  Swept /\ FilledAlike /\ OneUpdate /\ FillsAlike /\ Reaches
<1>1. /\ etag = 0 /\ bytes = 0 /\ asked = 0
      /\ \A p \in Process : work[p].op = "idle" /\ work[p].step = "" /\ work[p].rev = 0
  BY IdleFields DEF CacheInit
<1>2. Swept /\ FilledAlike
  BY <1>1 DEF Swept, FilledAlike, Reading, At
<1>3. OneUpdate /\ FillsAlike /\ Reaches
  BY <1>1 DEF OneUpdate, Updating, FillsAlike, Reaches
<1> QED BY <1>2, <1>3

-----------------------------------------------------------------------------
(* RefreshReaches *)

LEMMA BeginFields ==
  ASSUME Carried, NEW p \in Process, NEW op, NEW step, Begin(p, op, step)
  PROVE  /\ \A q \in Process : q # p => work'[q] = work[q]
         /\ work'[p].op = op /\ work'[p].step = step /\ work'[p].rev = 0
         /\ work[p].op = "idle" /\ work[p].step = ""
<1>1. PICK zero, empty : zero = 0 /\ empty = {}
  OBVIOUS
<1>2. Moved(p, op, step, zero, empty, zero)
  BY <1>1, BeginMoves
<1>3. /\ \A q \in Process : q # p => work'[q] = work[q]
      /\ work'[p].op = op /\ work'[p].step = step /\ work'[p].rev = zero
  BY <1>2, MovedFields
<1> QED BY <1>1, <1>3, IdleFields DEF Begin

LEMMA GotoFields ==
  ASSUME Carried, NEW p \in Process, NEW step, Goto(p, step)
  PROVE  /\ \A q \in Process : q # p => work'[q] = work[q]
         /\ work'[p].op = work[p].op /\ work'[p].step = step /\ work'[p].rev = work[p].rev
<1>1. Moved(p, work[p].op, step, work[p].rev, work[p].todo, work[p].seen)
  BY GotoMoves
<1> QED BY <1>1, MovedFields

LEMMA StartFields ==
  ASSUME Carried, NEW p \in Process, HandleEvent(p) \/ EndSync(p) \/ Refresh(p) \/ Remove(p)
  PROVE  /\ \A q \in Process : q # p => work'[q] = work[q]
         /\ work'[p].op \in {"clean", "refresh", "remove"} /\ work'[p].step = "delete"
         /\ work'[p].rev = 0
         /\ work[p].op \in {"idle", "sync"} /\ work[p].step \in {"", "write"}
<1>1. PICK op, zero, todo :
        /\ op \in {"clean", "refresh", "remove"} /\ zero = 0
        /\ Moved(p, op, "delete", zero, todo, zero)
  BY DeletersMove
<1>2. /\ \A q \in Process : q # p => work'[q] = work[q]
      /\ work'[p].op = op /\ work'[p].step = "delete" /\ work'[p].rev = zero
  BY <1>1, MovedFields
<1>3. work[p] = Idle \/ At(p, "sync", "write")
  BY DEF HandleEvent, EndSync, Refresh, Remove
<1> QED BY <1>1, <1>2, <1>3, IdleFields DEF At

\* Taking a revision to put it somewhere.
LEMMA TakeFields ==
  ASSUME Carried, NEW p \in Process, List(p) \/ ReadFile(p) \/ (CheckEtag(p) /\ etag # 0)
  PROVE  /\ \A q \in Process : q # p => work'[q] = work[q]
         /\ work'[p].op = work[p].op /\ work'[p].step = "fill" /\ work'[p].todo = Keys
         /\ List(p) => work'[p].rev = rev
         /\ ReadFile(p) => work'[p].rev = blob
         /\ CheckEtag(p) => work'[p].rev = work[p].rev
<1>1. PICK r : /\ Moved(p, work[p].op, "fill", r, Keys, work[p].seen)
               /\ List(p) => r = rev
               /\ ReadFile(p) => r = blob
               /\ CheckEtag(p) => r = work[p].rev
  <2>1. CASE List(p)
    <3>1. ~ReadFile(p) /\ ~CheckEtag(p)
      BY <2>1 DEF List, ReadFile, CheckEtag, At
    <3> QED BY <2>1, <3>1, FillMoves DEF List
  <2>2. CASE ReadFile(p)
    <3>1. ~List(p) /\ ~CheckEtag(p)
      BY <2>2 DEF List, ReadFile, CheckEtag, At
    <3> QED BY <2>2, <3>1, FillMoves DEF ReadFile
  <2>3. CASE CheckEtag(p) /\ etag # 0
    <3>1. ~List(p) /\ ~ReadFile(p)
      BY <2>3 DEF List, ReadFile, CheckEtag, At
    <3> QED BY <2>3, <3>1, CheckMoves
  <2> QED BY <2>1, <2>2, <2>3
<1> QED BY <1>1, MovedFields

LEMMA FetchFields ==
  ASSUME Carried, NEW p \in Process, Fetch(p)
  PROVE  /\ \A q \in Process : q # p => work'[q] = work[q]
         /\ work'[p].op = work[p].op /\ work'[p].step = "store" /\ work'[p].rev = rev
BY FetchMoves, MovedFields

LEMMA CheckedFields ==
  ASSUME Carried, NEW p \in Process, CheckEtag(p), etag = 0
  PROVE  /\ \A q \in Process : q # p => work'[q] = work[q]
         /\ work'[p].op = work[p].op /\ work'[p].step = "finish" /\ work'[p].rev = work[p].rev
<1>1. PICK empty : Moved(p, work[p].op, "finish", work[p].rev, empty, work[p].seen)
  BY CheckMoves
<1> QED BY <1>1, MovedFields

\* Only an update task starts to be one, and only it or a request changes its state.
LEMMA OneUpdateMoves ==
  ASSUME OneUpdate, NEW p \in Process,
         \A q \in Process : q # p => work'[q] = work[q],
         work'[p].op = "update" => work[p].op = "update",
         \/ task' = task \/ (task = "processing" => task' = "processing")
         \/ (work[p].op = "update" /\ work'[p].op # "update")
  PROVE  OneUpdate'
<1>1. ASSUME NEW q \in Process, work'[q].op = "update"
      PROVE  task' = "processing" /\ \A o \in Process : work'[o].op = "update" => o = q
  <2>1. work[q].op = "update"
    BY <1>1
  <2>2. task = "processing" /\ \A o \in Process : work[o].op = "update" => o = q
    BY <2>1 DEF OneUpdate, Updating
  <2>3. work[p].op = "update" /\ work'[p].op # "update" => p = q
    BY <2>2
  <2> QED BY <1>1, <2>2, <2>3
<1> QED BY <1>1 DEF OneUpdate, Updating

\* No fill begins and none goes on.
LEMMA FillsAlikeMoves ==
  ASSUME FillsAlike, crossed => crossed', NEW p \in Process,
         \A q \in Process : q # p => work'[q] = work[q],
         work'[p].step # "fill", bytes' \in {bytes, 0}
  PROVE  FillsAlike'
<1>1. ASSUME ~crossed', NEW q \in Process, work'[q].step = "fill"
      PROVE  /\ \A o \in Process : work'[o].step = "fill" => work'[o].rev = work'[q].rev
             /\ "bytes" \in work'[q].todo \/ bytes' \in {0, work'[q].rev}
  <2>1. ~crossed /\ q # p /\ work[q].step = "fill" /\ work'[q] = work[q]
    BY <1>1
  <2>2. /\ \A o \in Process : work[o].step = "fill" => work[o].rev = work[q].rev
        /\ "bytes" \in work[q].todo \/ bytes \in {0, work[q].rev}
    BY <2>1 DEF FillsAlike
  <2>3. \A o \in Process : work'[o].step = "fill" => work'[o].rev = work[q].rev
    BY <2>2
  <2> QED BY <2>1, <2>2, <2>3
<1> QED BY <1>1 DEF FillsAlike

\* Somebody takes a revision to fill in.
LEMMA FillsAlikeTake ==
  ASSUME Carried, FillsAlike, NEW p \in Process, NEW r,
         crossed \/ Mixed(p, r) => crossed',
         \A q \in Process : q # p => work'[q] = work[q],
         work'[p].rev = r, work'[p].todo = Keys, bytes' = bytes
  PROVE  FillsAlike'
<1>0. \A q \in Process : work[q].step = "fill" => work[q].rev # 0
  BY StandsAt DEF Holds
<1>1. ASSUME ~crossed', NEW q \in Process, work'[q].step = "fill"
      PROVE  work'[q].rev = r /\ ("bytes" \in work'[q].todo \/ bytes' \in {0, r})
  <2>1. CASE q = p
    BY <2>1 DEF Keys
  <2>2. CASE q # p
    <3>1. ~crossed /\ ~Mixed(p, r) /\ work'[q] = work[q]
      BY <1>1, <2>2
    <3>2. work[q].rev = r
      BY <1>0, <1>1, <2>2, <3>1 DEF Mixed
    <3>3. "bytes" \in work[q].todo \/ bytes \in {0, work[q].rev}
      BY <1>1, <3>1 DEF FillsAlike
    <3> QED BY <3>1, <3>2, <3>3
  <2> QED BY <2>1, <2>2
<1> QED BY <1>1 DEF FillsAlike

\* A key is set.
LEMMA FillsAlikeFill ==
  ASSUME Carried, FillsAlike, NEW p \in Process, Fill(p)
  PROVE  FillsAlike'
<1>1. PICK key \in Keys :
           /\ bytes' = IF key = "bytes" THEN work[p].rev ELSE bytes
           /\ \A q \in Process : q # p => work'[q] = work[q]
           /\ work'[p].step = "fill" => /\ work'[p].todo = work[p].todo \ {key}
                                        /\ work'[p].rev = work[p].rev
  BY FillFields
<1>2. crossed' = crossed /\ work[p].step = "fill"
  BY DEF Fill, SetKey, notes
<1>3. ASSUME ~crossed', NEW q \in Process, work'[q].step = "fill"
      PROVE  work'[q].rev = work[p].rev /\ ("bytes" \in work'[q].todo \/ bytes' \in {0, work[p].rev})
  <2>1. work[q].step = "fill" /\ work'[q].rev = work[q].rev
    BY <1>1, <1>2, <1>3
  <2>2. work[q].rev = work[p].rev /\ ("bytes" \in work[q].todo \/ bytes \in {0, work[q].rev})
    BY <1>2, <1>3, <2>1 DEF FillsAlike
  <2>3. key # "bytes" /\ "bytes" \in work[q].todo => "bytes" \in work'[q].todo
    BY <1>1, <1>3
  <2> QED BY <1>1, <2>1, <2>2, <2>3
<1> QED BY <1>3 DEF FillsAlike

\* What neither takes nor stores a revision, and leaves the proxy cache alone.
Quiet(p) ==
  \/ Show(p) \/ GetBytes(p) \/ RedisFails(p) \/ Refuse(p)
  \/ WriteSilently(p) \/ EndSync(p) \/ HandleEvent(p) \/ Delete(p)
  \/ ShowTag(p) \/ ForgetRow(p) \/ Refresh(p) \/ RefreshDelete(p) \/ Remove(p) \/ RemoveDelete(p)

LEMMA QuietFields ==
  ASSUME Carried, NEW p \in Process, Quiet(p)
  PROVE  /\ \A q \in Process : q # p => work'[q] = work[q]
         /\ work[p].op \notin {"update"} /\ work'[p].op \notin {"update"}
         /\ work[p].rev = 0 /\ work'[p].rev = 0
         /\ work[p].step \notin {"fill", "save", "row"}
         /\ work'[p].step \notin {"fill", "save"}
         /\ etag' \in {etag, 0} /\ bytes' \in {bytes, 0}
         /\ UNCHANGED <<blob, row, task, asked>>
         /\ crossed => crossed'
         /\ behind' = behind
<1>1. CASE Show(p) \/ GetBytes(p) \/ RedisFails(p) \/ Refuse(p)
  <2>1. /\ \A q \in Process : q # p => work'[q] = work[q]
        /\ work'[p].rev \in {0, work[p].rev}
        /\ work'[p].op \in {"show", "idle"} /\ work'[p].step \in {"list", "bytes", ""}
    BY <1>1, ReaderMoves
  <2>2. /\ work[p].op \in {"show", "idle"} /\ work[p].step \in {"list", "bytes", ""}
    BY <1>1, IdleFields DEF Show, GetBytes, RedisFails, Refuse, At
  <2>3. work[p].rev = 0
    BY <2>2, StandsAt DEF Holds
  <2>4. UNCHANGED <<etag, bytes, blob, row, task, asked, rev, crossed, behind>>
    BY <1>1 DEF Show, GetBytes, RedisFails, Refuse, written, redis, proxy, notes
  <2> QED BY <2>1, <2>2, <2>3, <2>4
<1>6. CASE WriteSilently(p)
  <2>1. /\ \A q \in Process : q # p => work'[q] = work[q]
        /\ work'[p].op = "sync" /\ work'[p].step = "write" /\ work'[p].rev = 0
    BY <1>6, WriteMoves, MovedFields
  <2>2. work[p].op \in {"idle", "sync"} /\ work[p].step \in {"", "write"}
    BY <1>6, IdleFields DEF WriteSilently, At
  <2>3. work[p].rev = 0
    BY <2>2, StandsAt DEF Holds
  <2>4. UNCHANGED <<etag, bytes, blob, row, task, asked, crossed, behind>>
    BY <1>6 DEF WriteSilently, redis, proxy, notes
  <2> QED BY <2>1, <2>2, <2>3, <2>4
<1>2. CASE HandleEvent(p) \/ EndSync(p) \/ Refresh(p) \/ Remove(p)
  <2>1. /\ \A q \in Process : q # p => work'[q] = work[q]
        /\ work'[p].op \in {"clean", "refresh", "remove"} /\ work'[p].step = "delete"
        /\ work'[p].rev = 0
        /\ work[p].op \in {"idle", "sync"} /\ work[p].step \in {"", "write"}
    BY <1>2, StartFields
  <2>2. work[p].rev = 0
    BY <2>1, StandsAt DEF Holds
  <2>3. /\ UNCHANGED <<etag, bytes, blob, row, task, asked, behind>>
        /\ crossed => crossed'
    <3>1. CASE HandleEvent(p) \/ EndSync(p)
      BY <3>1 DEF HandleEvent, EndSync, StartCleaning, redis, proxy
    <3>2. CASE Refresh(p) \/ Remove(p)
      BY <3>2 DEF Refresh, Remove, written, redis, proxy, notes
    <3> QED BY <1>2, <3>1, <3>2
  <2> QED BY <2>1, <2>2, <2>3
<1>3. CASE Delete(p) \/ RefreshDelete(p) \/ RemoveDelete(p)
  <2>1. PICK key, next :
          /\ next \in {"", "task", "file"}
          /\ DeleteKey(p, key, next) /\ work[p].step = "delete"
          /\ work[p].op \in {"clean", "refresh", "remove"}
    <3>1. CASE Delete(p)
      <4>1. PICK key : DeleteKey(p, key, "")
        BY <3>1 DEF Delete
      <4>2. PICK next : next = ""
        OBVIOUS
      <4>3. DeleteKey(p, key, next) /\ next \in {"", "task", "file"}
        BY <4>1, <4>2
      <4>4. work[p].step = "delete" /\ work[p].op \in {"clean", "refresh", "remove"}
        BY <3>1 DEF Delete, At
      <4> QED BY <4>3, <4>4
    <3>2. CASE RefreshDelete(p)
      <4>1. PICK key : DeleteKey(p, key, "task")
        BY <3>2 DEF RefreshDelete
      <4>2. PICK next : next = "task"
        OBVIOUS
      <4>3. DeleteKey(p, key, next) /\ next \in {"", "task", "file"}
        BY <4>1, <4>2
      <4>4. work[p].step = "delete" /\ work[p].op \in {"clean", "refresh", "remove"}
        BY <3>2 DEF RefreshDelete, At
      <4> QED BY <4>3, <4>4
    <3>3. CASE RemoveDelete(p)
      <4>1. PICK key : DeleteKey(p, key, "file")
        BY <3>3 DEF RemoveDelete
      <4>2. PICK next : next = "file"
        OBVIOUS
      <4>3. DeleteKey(p, key, next) /\ next \in {"", "task", "file"}
        BY <4>1, <4>2
      <4>4. work[p].step = "delete" /\ work[p].op \in {"clean", "refresh", "remove"}
        BY <3>3 DEF RemoveDelete, At
      <4> QED BY <4>3, <4>4
    <3> QED BY <1>3, <3>1, <3>2, <3>3
  <2>2. /\ etag' \in {etag, 0} /\ bytes' \in {bytes, 0}
        /\ \A q \in Process : q # p => work'[q] = work[q]
        /\ work'[p].rev = 0 /\ work[p].rev = 0
        /\ work'[p].op \in {work[p].op, "idle"} /\ work'[p].step \in {"delete", next}
    BY <2>1, DeleteFields
  <2>3. UNCHANGED <<blob, row, task, asked, rev, crossed, behind>>
    BY <2>1 DEF DeleteKey, written, proxy, notes
  <2>4. work'[p].op \in {"clean", "refresh", "remove", "idle"} /\ work'[p].step \in {"delete", "", "task", "file"}
    BY <2>1, <2>2
  <2> QED BY <2>1, <2>2, <2>3, <2>4
<1>4. CASE ShowTag(p)
  <2>1. PICK step \in {"read", "fetch"} : Begin(p, "tag", step)
    BY <1>4 DEF ShowTag
  <2>2. /\ \A q \in Process : q # p => work'[q] = work[q]
        /\ work'[p].op = "tag" /\ work'[p].step = step /\ work'[p].rev = 0
        /\ work[p].op = "idle" /\ work[p].step = ""
    BY <2>1, BeginFields
  <2>3. work[p].rev = 0
    BY <2>2, StandsAt DEF Holds
  <2>4. UNCHANGED <<etag, bytes, blob, row, task, asked, rev, crossed, behind>>
    BY <1>4 DEF ShowTag, written, redis, proxy, notes
  <2> QED BY <2>2, <2>3, <2>4
<1>5. CASE ForgetRow(p)
  <2>1. /\ \A q \in Process : q # p => work'[q] = work[q]
        /\ work'[p].op = work[p].op /\ work'[p].step = "file" /\ work'[p].rev = work[p].rev
    BY <1>5, GotoFields DEF ForgetRow
  <2>2. work[p].op = "tag" /\ work[p].step = "read"
    BY <1>5 DEF ForgetRow, At
  <2>3. work[p].rev = 0
    BY <2>2, StandsAt DEF Holds
  <2>4. UNCHANGED <<etag, bytes, blob, row, task, asked, rev, crossed, behind>>
    BY <1>5 DEF ForgetRow, written, redis, proxy, notes
  <2> QED BY <2>1, <2>2, <2>3, <2>4
<1> QED BY <1>1, <1>2, <1>3, <1>4, <1>5, <1>6 DEF Quiet

LEMMA OneUpdateStep ==
  ASSUME Carried, OneUpdate, [CacheNext]_cacheVars
  PROVE  OneUpdate'
<1>1. CASE \/ Write \/ Block \/ BugVersions \/ LoseEvent \/ Upstream \/ Synced \/ Expire
           \/ CheckUpdate \/ UNCHANGED cacheVars
  <2>1. work' = work /\ (task = "processing" => task' = "processing")
    BY <1>1 DEF Write, Block, BugVersions, LoseEvent, Upstream, Synced, Expire, CheckUpdate,
       CreateTask, NothingElse, cacheVars, proxy
  <2> QED BY <2>1 DEF OneUpdate, Updating
<1>2. ASSUME NEW p \in Process, Quiet(p)
      PROVE  OneUpdate'
  BY <1>2, QuietFields, OneUpdateMoves
<1>3. ASSUME NEW p \in Process, List(p) \/ ReadFile(p) \/ CheckEtag(p) \/ Fetch(p)
      PROVE  OneUpdate'
  <2>1. (\A q \in Process : q # p => work'[q] = work[q]) /\ work'[p].op = work[p].op
    BY <1>3, TakeFields, FetchFields, CheckedFields
  <2>2. task' = task
    BY <1>3 DEF List, ReadFile, CheckEtag, Fetch, proxy
  <2> QED BY <2>1, <2>2, OneUpdateMoves
<1>4. ASSUME NEW p \in Process, Fill(p)
      PROVE  OneUpdate'
  <2>1. (\A q \in Process : q # p => work'[q] = work[q]) /\ work'[p].op \in {work[p].op, "idle"}
    BY <1>4, FillFields
  <2>2. task' = task
    BY <1>4 DEF Fill, SetKey, proxy
  <2> QED BY <2>1, <2>2, OneUpdateMoves
<1>5. ASSUME NEW p \in Process, RemoveRow(p) \/ RefreshTask(p) \/ FailUpdate(p) \/ FinishUpdate(p) \/ Die(p)
      PROVE  OneUpdate'
  <2>1. (\A q \in Process : q # p => work'[q] = work[q]) /\ work'[p].op = "idle"
    BY <1>5, DoneFields DEF RemoveRow, RefreshTask, FailUpdate, FinishUpdate, Die
  <2>2. work[p].op = "update" \/ task' = task \/ (task = "processing" => task' = "processing")
    BY <1>5 DEF RemoveRow, RefreshTask, CreateTask, FailUpdate, FinishUpdate, Die, At
  <2> QED BY <2>1, <2>2, OneUpdateMoves
<1>6. ASSUME NEW p \in Process, Store(p) \/ SaveRow(p) \/ RemoveFile(p)
      PROVE  OneUpdate'
  <2>1. (\A q \in Process : q # p => work'[q] = work[q]) /\ work'[p].op \in {work[p].op, "idle"}
    <3>1. Done(p) \/ Goto(p, "save") \/ Goto(p, "check") \/ Goto(p, "row")
      BY <1>6 DEF Store, SaveRow, RemoveFile
    <3> QED BY <3>1, GotoFields, DoneFields
  <2>2. task' = task
    BY <1>6 DEF Store, SaveRow, RemoveFile
  <2> QED BY <2>1, <2>2, OneUpdateMoves
<1>7. ASSUME NEW p \in Process, StartUpdate(p)
      PROVE  OneUpdate'
  <2>1. PICK step : Begin(p, "update", step)
    BY <1>7 DEF StartUpdate
  <2>2. \A q \in Process : q # p => work'[q] = work[q]
    BY <2>1, BeginFields
  <2>3. \A q \in Process : work[q].op # "update"
    BY <1>7 DEF StartUpdate, OneUpdate, Updating
  <2>4. \A q \in Process : work'[q].op = "update" => q = p
    BY <2>2, <2>3
  <2> QED BY <1>7, <2>4 DEF StartUpdate, OneUpdate, Updating
<1> QED BY <1>1, <1>2, <1>3, <1>4, <1>5, <1>6, <1>7 DEF CacheNext, Serve, Proxy, Quiet

LEMMA FillsAlikeStep ==
  ASSUME Carried, FillsAlike, [CacheNext]_cacheVars
  PROVE  FillsAlike'
<1>1. CASE \/ Write \/ Block \/ BugVersions \/ LoseEvent \/ Upstream \/ Synced \/ Expire
           \/ CheckUpdate \/ UNCHANGED cacheVars
  <2>1. work' = work /\ crossed' = crossed /\ bytes' \in {bytes, 0}
    BY <1>1 DEF Write, Block, BugVersions, LoseEvent, Upstream, Synced, Expire, CheckUpdate,
       NothingElse, cacheVars, redis, notes
  <2> QED BY <2>1 DEF FillsAlike
<1>2. ASSUME NEW p \in Process, Quiet(p)
      PROVE  FillsAlike'
  BY <1>2, QuietFields, FillsAlikeMoves
<1>3. ASSUME NEW p \in Process, List(p) \/ ReadFile(p) \/ (CheckEtag(p) /\ etag # 0)
      PROVE  FillsAlike'
  <2>1. /\ \A q \in Process : q # p => work'[q] = work[q]
        /\ work'[p].todo = Keys /\ bytes' = bytes
    BY <1>3, TakeFields DEF List, ReadFile, CheckEtag, redis
  <2>2. CASE List(p)
    <3>1. work'[p].rev = rev /\ (crossed \/ Mixed(p, rev) => crossed')
      BY <2>2, TakeFields DEF List
    <3> QED BY <2>1, <3>1, FillsAlikeTake
  <2>3. CASE ReadFile(p)
    <3>1. work'[p].rev = blob /\ (crossed \/ Mixed(p, blob) => crossed')
      BY <2>3, TakeFields DEF ReadFile
    <3> QED BY <2>1, <3>1, FillsAlikeTake
  <2>4. CASE CheckEtag(p) /\ etag # 0
    <3>1. work'[p].rev = work[p].rev /\ (crossed \/ Mixed(p, work[p].rev) => crossed')
      BY <2>4, TakeFields DEF CheckEtag
    <3> QED BY <2>1, <3>1, FillsAlikeTake
  <2> QED BY <1>3, <2>2, <2>3, <2>4
<1>4. ASSUME NEW p \in Process, Fill(p)
      PROVE  FillsAlike'
  BY <1>4, FillsAlikeFill
<1>5. ASSUME NEW p \in Process, RemoveRow(p) \/ RefreshTask(p) \/ FailUpdate(p) \/ FinishUpdate(p) \/ Die(p)
      PROVE  FillsAlike'
  <2>1. (\A q \in Process : q # p => work'[q] = work[q]) /\ work'[p].step = ""
    BY <1>5, DoneFields DEF RemoveRow, RefreshTask, FailUpdate, FinishUpdate, Die
  <2>2. bytes' = bytes /\ (crossed => crossed')
    <3>1. CASE Die(p)
      BY <3>1 DEF Die, redis
    <3>2. CASE RemoveRow(p) \/ RefreshTask(p) \/ FailUpdate(p) \/ FinishUpdate(p)
      BY <3>2 DEF RemoveRow, RefreshTask, FailUpdate, FinishUpdate, redis, notes
    <3> QED BY <1>5, <3>1, <3>2
  <2> QED BY <2>1, <2>2, FillsAlikeMoves
<1>6. ASSUME NEW p \in Process, Store(p) \/ SaveRow(p) \/ RemoveFile(p)
      PROVE  FillsAlike'
  <2>1. (\A q \in Process : q # p => work'[q] = work[q]) /\ work'[p].step # "fill"
    <3>1. Done(p) \/ \E step \in {"save", "check", "row"} : Goto(p, step)
      BY <1>6 DEF Store, SaveRow, RemoveFile
    <3>2. CASE Done(p)
      BY <3>2, DoneFields
    <3>3. ASSUME NEW step \in {"save", "check", "row"}, Goto(p, step)
          PROVE  (\A q \in Process : q # p => work'[q] = work[q]) /\ work'[p].step # "fill"
      <4>1. (\A q \in Process : q # p => work'[q] = work[q]) /\ work'[p].step = step
        BY <3>3, GotoFields
      <4> QED BY <4>1
    <3> QED BY <3>1, <3>2, <3>3
  <2>2. bytes' = bytes /\ crossed' = crossed
    BY <1>6 DEF Store, SaveRow, RemoveFile, redis, notes
  <2> QED BY <2>1, <2>2, FillsAlikeMoves
<1>7. ASSUME NEW p \in Process, StartUpdate(p) \/ Fetch(p) \/ (CheckEtag(p) /\ etag = 0)
      PROVE  FillsAlike'
  <2>1. (\A q \in Process : q # p => work'[q] = work[q]) /\ work'[p].step # "fill"
    <3>1. CASE StartUpdate(p)
      <4>1. PICK step \in {"fetch", "fail"} : Begin(p, "update", step)
        BY <3>1 DEF StartUpdate
      <4> QED BY <4>1, BeginFields
    <3>2. CASE Fetch(p) \/ (CheckEtag(p) /\ etag = 0)
      BY <3>2, FetchFields, CheckedFields
    <3> QED BY <1>7, <3>1, <3>2
  <2>2. bytes' = bytes /\ (crossed => crossed')
    <3>1. CASE StartUpdate(p) \/ Fetch(p)
      BY <3>1 DEF StartUpdate, Fetch, redis, notes
    <3>2. CASE CheckEtag(p)
      BY <3>2 DEF CheckEtag, redis
    <3> QED BY <1>7, <3>1, <3>2
  <2> QED BY <2>1, <2>2, FillsAlikeMoves
<1> QED BY <1>1, <1>2, <1>3, <1>4, <1>5, <1>6, <1>7 DEF CacheNext, Serve, Proxy, Quiet

\* What neither stores the file nor is the update task; what it takes is new.
LEMMA ReachesMoves ==
  ASSUME Carried, Reaches, UNCHANGED <<asked, task, blob>>, behind => behind', crossed => crossed',
         row' => row,
         etag' \in {etag, 0}, bytes' \in {bytes, 0},
         NEW p \in Process,
         \A q \in Process : q # p => work'[q] = work[q],
         work[p].op # "update", work'[p].op # "update",
         work[p].step # "fill", work'[p].step # "save",
         work[p].step = "row" => ~row',
         asked # 0 /\ ~behind /\ Stored => New(work'[p].rev)
  PROVE  Reaches'
<1> SUFFICES ASSUME asked # 0, ~behind
             PROVE  Reaches'
  BY DEF Reaches
<1>1. \A r : New(r)' <=> New(r)
  BY DEF New
<1>2. ASSUME NEW q \in Process, Updating(q)'
      PROVE  Updating(q) /\ work'[q] = work[q]
  BY <1>2 DEF Updating
<1>3. Stored' => Stored
  BY <1>2 DEF Stored
<1>4. Through' => Through
  BY <1>2 DEF Through
<1>5. WillFill("bytes") => WillFill("bytes")'
  BY DEF WillFill
<1>6. ASSUME NEW q \in Process, Updating(q)'
      PROVE  asked' = 0 \/ work'[q].rev = 0 \/ work'[q].rev >= asked'
  BY <1>2, <1>6 DEF Reaches, New
<1>7. ASSUME Stored
      PROVE  /\ \A q \in Process : work'[q].rev = 0 \/ work'[q].rev >= asked
             /\ blob' = 0 \/ blob' >= asked
             /\ blob' = 0 => \A q \in Process : work'[q].step # "save"
             /\ row' => blob' # 0 \/ \E q \in Process : work'[q].step = "row"
  <2>1. /\ \A q \in Process : New(work[q].rev)
        /\ New(blob)
        /\ blob = 0 => \A q \in Process : work[q].step # "save"
        /\ row => blob # 0 \/ \E q \in Process : work[q].step = "row"
    BY <1>7 DEF Reaches
  <2>2. New(work'[p].rev)
    BY <1>7
  <2>3. \A q \in Process : work'[q].rev = 0 \/ work'[q].rev >= asked
    BY <2>1, <2>2 DEF New
  <2>4. blob' = 0 => \A q \in Process : work'[q].step # "save"
    BY <2>1
  <2>5. ASSUME row', blob' = 0
        PROVE  \E q \in Process : work'[q].step = "row"
    <3>1. PICK q \in Process : work[q].step = "row"
      BY <2>1, <2>5
    <3>2. q # p
      BY <2>5, <3>1
    <3> QED BY <3>1, <3>2 DEF At
  <2> QED BY <2>1, <2>3, <2>4, <2>5 DEF New
<1>8. ASSUME NEW q \in Process, Updating(q)', work'[q].step = "fill"
      PROVE  /\ (etag' = 0 \/ etag' >= asked) \/ "etag" \in work'[q].todo
             /\ (bytes' = 0 \/ bytes' >= asked) \/ "bytes" \in work'[q].todo
  <2>1. Updating(q) /\ work'[q] = work[q]
    BY <1>2, <1>8
  <2>2. /\ New(etag) \/ "etag" \in work[q].todo
        /\ New(bytes) \/ "bytes" \in work[q].todo
    BY <1>8, <2>1 DEF Reaches
  <2> QED BY <2>1, <2>2 DEF New
<1>9. ASSUME Through
      PROVE  /\ etag' = 0 \/ etag' >= asked
             /\ etag' = 0 \/ crossed' \/ (bytes' = 0 \/ bytes' >= asked) \/ WillFill("bytes")'
  <2>1. New(etag) /\ (etag = 0 \/ crossed \/ New(bytes) \/ WillFill("bytes"))
    BY <1>9 DEF Reaches
  <2> QED BY <2>1, <1>5 DEF New
<1> QED BY <1>3, <1>4, <1>6, <1>7, <1>8, <1>9 DEF Reaches, New

\* What the invariant says of one state, part by part.
LEMMA ReachesIs ==
  ASSUME asked # 0, ~behind, Reaches
  PROVE  /\ \A q \in Process : Updating(q) => New(work[q].rev)
         /\ Stored => /\ \A q \in Process : New(work[q].rev)
                      /\ New(blob)
                      /\ blob = 0 => \A q \in Process : work[q].step # "save"
                      /\ row => blob # 0 \/ \E q \in Process : work[q].step = "row"
         /\ \A q \in Process : Updating(q) /\ work[q].step = "fill" =>
              /\ New(etag) \/ "etag" \in work[q].todo
              /\ New(bytes) \/ "bytes" \in work[q].todo
         /\ Through => New(etag) /\ (etag = 0 \/ crossed \/ New(bytes) \/ WillFill("bytes"))
BY DEF Reaches

\* While no task is being executed and one is to be, nothing is claimed.
LEMMA ReachesNothing ==
  ASSUME task' # "none", \A q \in Process : ~Updating(q)'
  PROVE  Reaches'
<1>1. ~Stored' /\ ~Through'
  BY DEF Stored, Through
<1> QED BY <1>1 DEF Reaches

LEMMA ReachesAsked ==
  ASSUME OneUpdate, CreateTask, \A q \in Process : work'[q].op = "update" => work[q].op = "update"
  PROVE  Reaches'
<1>1. CASE task = "processing"
  BY <1>1 DEF CreateTask, Reaches
<1>2. CASE task # "processing"
  <2>1. \A q \in Process : work[q].op # "update"
    BY <1>2 DEF OneUpdate, Updating
  <2>2. task' # "none"
    BY DEF CreateTask
  <2> QED BY <2>1, <2>2, ReachesNothing DEF Updating
<1> QED BY <1>1, <1>2

LEMMA ReachesTask ==
  ASSUME Carried, OneUpdate, Reaches, NEW p \in Process,
         RefreshTask(p) \/ StartUpdate(p) \/ FailUpdate(p) \/ (Die(p) /\ Updating(p))
  PROVE  Reaches'
<1>1. CASE FailUpdate(p)
  BY <1>1 DEF FailUpdate, Reaches
<1>2. CASE Die(p) /\ Updating(p)
  <2>1. (\A q \in Process : q # p => work'[q] = work[q]) /\ work'[p].op = "idle"
    BY <1>2, DoneFields DEF Die
  <2>2. \A q \in Process : ~Updating(q)'
    BY <1>2, <2>1 DEF OneUpdate, Updating
  <2>3. task' = "waiting"
    BY <1>2 DEF Die, Updating
  <2> QED BY <2>2, <2>3, ReachesNothing
<1>3. CASE RefreshTask(p)
  <2>1. \A q \in Process : work'[q].op = "update" => work[q].op = "update"
    BY <1>3, DoneFields DEF RefreshTask
  <2> QED BY <1>3, <2>1, ReachesAsked DEF RefreshTask
<1>4. CASE StartUpdate(p)
  <2>1. PICK step : step \in {"fetch", "fail"} /\ Begin(p, "update", step)
    BY <1>4 DEF StartUpdate
  <2>2. /\ \A q \in Process : q # p => work'[q] = work[q]
        /\ work'[p].op = "update" /\ work'[p].step = step /\ work'[p].rev = 0
    BY <2>1, BeginFields
  <2>3. \A q \in Process : work[q].op # "update"
    BY <1>4 DEF StartUpdate, OneUpdate, Updating
  <2>4. \A q \in Process : Updating(q)' => q = p
    BY <2>2, <2>3 DEF Updating
  <2>5. ~Stored' /\ ~Through'
    BY <1>4, <2>1, <2>2, <2>4 DEF StartUpdate, Stored, Through
  <2>6. \A q \in Process : Updating(q)' => work'[q].rev = 0 /\ work'[q].step # "fill"
    BY <2>1, <2>2, <2>4
  <2> QED BY <2>5, <2>6 DEF Reaches, New
<1> QED BY <1>1, <1>2, <1>3, <1>4

LEMMA ReachesReaders ==
  ASSUME Carried, Reaches, NEW p \in Process,
         \/ Quiet(p) \/ List(p) \/ ReadFile(p) \/ RemoveRow(p)
         \/ (Fetch(p) /\ ~Updating(p)) \/ (Die(p) /\ ~Updating(p))
  PROVE  Reaches'
<1>0. asked \in 0..rev /\ rev \in Nat
  BY Ranges
<1>1. CASE Quiet(p)
  <2>1. work[p].step # "row"
    BY <1>1, QuietFields DEF At
  <2> QED BY <1>1, <2>1, QuietFields, ReachesMoves DEF New
<1>2. CASE List(p)
  <2>1. /\ \A q \in Process : q # p => work'[q] = work[q]
        /\ work'[p].op = "show" /\ work'[p].step = "fill" /\ work'[p].rev = rev
        /\ work[p].op = "show" /\ work[p].step = "list"
    BY <1>2, ListFields DEF List, At
  <2>2. UNCHANGED <<asked, task, blob, row, etag, bytes, behind>> /\ (crossed => crossed')
    BY <1>2 DEF List, redis, proxy
  <2> QED BY <1>0, <2>1, <2>2, ReachesMoves DEF New, At
<1>3. CASE ReadFile(p)
  <2>1. /\ \A q \in Process : q # p => work'[q] = work[q]
        /\ work'[p].op = "tag" /\ work'[p].step = "fill" /\ work'[p].rev = blob
        /\ work[p].op = "tag" /\ work[p].step = "read"
    BY <1>3, TakeFields DEF ReadFile, At
  <2>2. UNCHANGED <<asked, task, blob, row, etag, bytes, behind>> /\ (crossed => crossed')
    BY <1>3 DEF ReadFile, redis, proxy
  <2>3. asked # 0 /\ ~behind /\ Stored => New(work'[p].rev)
    BY <2>1, ReachesIs
  <2> QED BY <2>1, <2>2, <2>3, ReachesMoves DEF At
<1>4. CASE RemoveRow(p)
  <2>1. /\ \A q \in Process : q # p => work'[q] = work[q]
        /\ work'[p].op = "idle" /\ work'[p].step = "" /\ work'[p].rev = 0
    BY <1>4, DoneFields DEF RemoveRow
  <2>2. UNCHANGED <<asked, task, blob, etag, bytes, behind, crossed>> /\ ~row'
    BY <1>4 DEF RemoveRow, redis, notes
  <2>3. work[p].op # "update" /\ work[p].step # "fill"
    BY <1>4 DEF RemoveRow, At
  <2> QED BY <2>1, <2>2, <2>3, ReachesMoves DEF New
<1>5. CASE Fetch(p) /\ ~Updating(p)
  <2>1. /\ \A q \in Process : q # p => work'[q] = work[q]
        /\ work'[p].op = work[p].op /\ work'[p].step = "store" /\ work'[p].rev = rev
    BY <1>5, FetchFields
  <2>2. work[p].op = "tag" /\ work[p].step = "fetch"
    BY <1>5 DEF Fetch, At, Updating
  <2>3. UNCHANGED <<asked, task, blob, row, etag, bytes, behind, crossed>>
    BY <1>5 DEF Fetch, redis, proxy, notes
  <2> QED BY <1>0, <2>1, <2>2, <2>3, ReachesMoves DEF New, At
<1>6. CASE Die(p) /\ ~Updating(p)
  <2>1. /\ \A q \in Process : q # p => work'[q] = work[q]
        /\ work'[p].op = "idle" /\ work'[p].step = "" /\ work'[p].rev = 0
    BY <1>6, DoneFields DEF Die
  <2>2. UNCHANGED <<asked, task, blob, row, etag, bytes>>
    BY <1>6 DEF Die, Updating, redis
  <2>3. (behind => behind') /\ (crossed => crossed') /\ (work[p].op \in {"remove", "show", "tag"} => behind')
    BY <1>6 DEF Die
  <2>4. CASE work[p].op \in {"remove", "show", "tag"}
    BY <2>3, <2>4 DEF Reaches
  <2>5. CASE work[p].op \notin {"remove", "show", "tag"}
    <3>1. work[p].op # "update" /\ work[p].step # "fill" /\ work[p].step # "row"
      BY <1>6, <2>5, StandsAt DEF Fits, Updating, At
    <3> QED BY <2>1, <2>2, <2>3, <3>1, ReachesMoves DEF New
  <2> QED BY <2>4, <2>5
<1> QED BY <1>1, <1>2, <1>3, <1>4, <1>5, <1>6

LEMMA ReachesStore ==
  ASSUME Carried, OneUpdate, Reaches, NEW p \in Process, Store(p)
  PROVE  Reaches'
<1> SUFFICES ASSUME asked' # 0, ~behind'
             PROVE  Reaches'
  BY DEF Reaches
<1>1. /\ UNCHANGED <<asked, task, row, etag, bytes, crossed>> /\ blob' = work[p].rev
      /\ work[p].op \in {"tag", "update"} /\ work[p].step = "store"
  BY DEF Store, redis
<1>2. asked # 0 /\ ~behind /\ Holding(work[p].rev - 1) = {}
  BY <1>1 DEF Store
<1>3. /\ \A q \in Process : q # p => work'[q] = work[q]
      /\ work'[p].op = work[p].op /\ work'[p].step = "save" /\ work'[p].rev = work[p].rev
  BY GotoFields DEF Store
<1>4. work[p].rev # 0 /\ \A q \in Process : work[q].rev \in Nat
  BY <1>1, StandsAt, Numbers DEF Holds
<1>5. \A q \in Process : work[q].rev = 0 \/ work[q].rev >= work[p].rev
  BY <1>2, <1>4 DEF Holding
<1>6. /\ \A q \in Process : Updating(q)' <=> Updating(q)
      /\ \A q \in Process : work'[q].rev = work[q].rev
      /\ \A q \in Process : work'[q].step = "fill" <=> work[q].step = "fill"
      /\ \A q \in Process : work'[q].step = "finish" <=> work[q].step = "finish"
      /\ \A q \in Process : work'[q].step = "fill" => work'[q] = work[q]
      /\ \A q \in Process : work[q].step = "row" => work'[q].step = "row"
  BY <1>1, <1>3 DEF Updating, At
<1>7. (Through' <=> Through) /\ (WillFill("bytes") => WillFill("bytes")')
  BY <1>1, <1>6 DEF Through, WillFill
<1>8. asked \in Nat
  BY Numbers
<1>9. \A q \in Process : Updating(q)' => New(work'[q].rev)
  BY <1>1, <1>2, <1>6, ReachesIs DEF New
<1>10. ASSUME Stored'
       PROVE  /\ \A q \in Process : New(work'[q].rev)
              /\ New(blob') /\ blob' # 0
  <2>1. New(work[p].rev)
    <3>1. CASE Updating(p)
      BY <3>1, <1>2, ReachesIs
    <3>2. CASE ~Updating(p)
      <4>1. Stored
        BY <1>1, <1>3, <1>6, <1>10, <3>2 DEF Stored, Updating
      <4> QED BY <4>1, <1>2, ReachesIs
    <3> QED BY <3>1, <3>2
  <2>2. work[p].rev >= asked
    BY <2>1, <1>4 DEF New
  <2>3. \A q \in Process : work[q].rev = 0 \/ work[q].rev >= asked
    BY <2>2, <1>4, <1>5, <1>8
  <2> QED BY <2>2, <2>3, <1>1, <1>4, <1>6 DEF New
<1>11. \A q \in Process : Updating(q)' /\ work'[q].step = "fill" =>
         /\ New(etag') \/ "etag" \in work'[q].todo
         /\ New(bytes') \/ "bytes" \in work'[q].todo
  BY <1>1, <1>2, <1>6, ReachesIs DEF New
<1>12. Through' => New(etag') /\ (etag' = 0 \/ crossed' \/ New(bytes') \/ WillFill("bytes")')
  BY <1>1, <1>2, <1>7, ReachesIs DEF New
<1> QED BY <1>1, <1>9, <1>10, <1>11, <1>12 DEF Reaches, New

LEMMA ReachesRow ==
  ASSUME Carried, OneUpdate, Reaches, NEW p \in Process, SaveRow(p) \/ RemoveFile(p)
  PROVE  Reaches'
<1> SUFFICES ASSUME asked' # 0, ~behind'
             PROVE  Reaches'
  BY DEF Reaches
<1>1. /\ UNCHANGED <<asked, task, etag, bytes, crossed>>
      /\ SaveRow(p) => /\ behind' = behind /\ blob' = blob /\ work[p].step = "save"
                       /\ work[p].op \in {"tag", "update"}
      /\ RemoveFile(p) => /\ blob' = 0 /\ ~behind /\ row' = row
                          /\ work[p].op \in {"remove", "tag"} /\ work[p].step = "file"
                          /\ \A q \in Process : work[q].step # "save"
  BY DEF SaveRow, RemoveFile, redis, notes, At
<1>2. asked # 0 /\ ~behind
  BY <1>1
<1>3. /\ \A q \in Process : q # p => work'[q] = work[q]
      /\ \/ work'[p].op = "idle" /\ work'[p].step = "" /\ work'[p].rev = 0 /\ work[p].op = "tag" /\ SaveRow(p)
         \/ /\ work'[p].op = work[p].op /\ work'[p].step = "check" /\ work'[p].rev = work[p].rev
            /\ work[p].op = "update" /\ SaveRow(p)
         \/ /\ work'[p].op = work[p].op /\ work'[p].step = "row" /\ work'[p].rev = work[p].rev
            /\ RemoveFile(p)
  <2>1. CASE SaveRow(p) /\ work[p].op = "tag"
    BY <2>1, DoneFields DEF SaveRow
  <2>2. CASE SaveRow(p) /\ work[p].op # "tag"
    BY <1>1, <2>2, GotoFields DEF SaveRow
  <2>3. CASE RemoveFile(p)
    BY <1>1, <2>3, GotoFields DEF RemoveFile
  <2> QED BY <2>1, <2>2, <2>3
<1>4. /\ \A q \in Process : Updating(q)' <=> Updating(q)
      /\ \A q \in Process : work'[q].rev \in {0, work[q].rev}
      /\ \A q \in Process : work'[q].step = "fill" <=> work[q].step = "fill"
      /\ \A q \in Process : work'[q].step = "finish" <=> work[q].step = "finish"
      /\ \A q \in Process : work'[q].step = "fill" => work'[q] = work[q]
      /\ \A q \in Process : work'[q].step = "save" => work[q].step = "save"
      /\ \A q \in Process : work[q].step = "row" => work'[q].step = "row"
  BY <1>1, <1>3 DEF Updating, At
<1>5. (Through' <=> Through) /\ (WillFill("bytes") => WillFill("bytes")')
  BY <1>1, <1>4 DEF Through, WillFill
<1>6. Stored' => Stored
  <2>1. ASSUME NEW q \in Process, Updating(q)', work'[q].step \in {"save", "check", "fill", "finish"}
        PROVE  Updating(q) /\ work[q].step \in {"save", "check", "fill", "finish"}
    <3>1. CASE q = p
      BY <1>1, <1>3, <2>1, <3>1 DEF Updating
    <3>2. CASE q # p
      BY <1>3, <2>1, <3>2 DEF Updating
    <3> QED BY <3>1, <3>2
  <2> QED BY <1>1, <2>1 DEF Stored
<1>7. \A q \in Process : Updating(q)' => New(work'[q].rev)
  BY <1>2, <1>4, ReachesIs DEF New
<1>8. ASSUME Stored'
      PROVE  /\ \A q \in Process : New(work'[q].rev)
             /\ New(blob')
             /\ blob' = 0 => \A q \in Process : work'[q].step # "save"
             /\ row' => blob' # 0 \/ \E q \in Process : work'[q].step = "row"
  <2>1. /\ \A q \in Process : New(work[q].rev)
        /\ New(blob)
        /\ blob = 0 => \A q \in Process : work[q].step # "save"
        /\ row => blob # 0 \/ \E q \in Process : work[q].step = "row"
    BY <1>2, <1>6, <1>8, ReachesIs
  <2>2. CASE SaveRow(p)
    BY <1>1, <1>4, <2>1, <2>2 DEF New
  <2>3. CASE RemoveFile(p)
    <3>1. work'[p].step = "row"
      BY <1>1, <1>3, <2>3 DEF At
    <3> QED BY <1>1, <1>4, <2>1, <2>3, <3>1 DEF New
  <2> QED BY <2>2, <2>3
<1>9. \A q \in Process : Updating(q)' /\ work'[q].step = "fill" =>
         /\ New(etag') \/ "etag" \in work'[q].todo
         /\ New(bytes') \/ "bytes" \in work'[q].todo
  BY <1>1, <1>2, <1>4, ReachesIs DEF New
<1>10. Through' => New(etag') /\ (etag' = 0 \/ crossed' \/ New(bytes') \/ WillFill("bytes")')
  BY <1>1, <1>2, <1>5, ReachesIs DEF New
<1> QED BY <1>1, <1>7, <1>8, <1>9, <1>10 DEF Reaches, New

\* The one update task fetches, looks at the keys, ends.
LEMMA ReachesUpdate ==
  ASSUME Carried, OneUpdate, Reaches, NEW p \in Process,
         (Fetch(p) /\ Updating(p)) \/ CheckEtag(p) \/ FinishUpdate(p)
  PROVE  Reaches'
<1> SUFFICES ASSUME asked' # 0, ~behind'
             PROVE  Reaches'
  BY DEF Reaches
<1>1. UNCHANGED <<asked, etag, bytes, blob, row, behind>> /\ (crossed => crossed') /\ Updating(p)
  <2>1. CASE Fetch(p) /\ Updating(p)
    BY <2>1 DEF Fetch, redis, proxy, notes
  <2>2. CASE CheckEtag(p)
    BY <2>2 DEF CheckEtag, redis, proxy, At, Updating
  <2>3. CASE FinishUpdate(p)
    BY <2>3 DEF FinishUpdate, redis, notes, At, Updating
  <2> QED BY <2>1, <2>2, <2>3
<1>2. asked # 0 /\ ~behind /\ task = "processing" /\ \A q \in Process : Updating(q) => q = p
  BY <1>1 DEF OneUpdate
<1>3. \A q \in Process : q # p => work'[q] = work[q]
  BY FetchFields, TakeFields, CheckedFields, DoneFields DEF FinishUpdate
<1>4. \A q \in Process : Updating(q)' => q = p
  BY <1>2, <1>3 DEF Updating
<1>5. CASE Fetch(p) /\ Updating(p)
  <2>1. work'[p].step = "store" /\ work'[p].rev = rev /\ task' = task
    BY <1>5, FetchFields DEF Fetch, proxy
  <2>2. ~Stored' /\ ~Through'
    BY <1>2, <1>4, <2>1 DEF Stored, Through
  <2>3. New(work'[p].rev)
    BY <2>1, Ranges DEF New
  <2>4. \A q \in Process : Updating(q)' => work'[q].step # "fill" /\ New(work'[q].rev)
    BY <1>4, <2>1, <2>3
  <2> QED BY <1>1, <2>2, <2>4 DEF Reaches, New
<1>6. CASE CheckEtag(p) \/ FinishUpdate(p)
  <2>1. work[p].step \in {"check", "finish"}
    BY <1>6 DEF CheckEtag, FinishUpdate, At
  <2>2. Stored
    BY <1>1, <2>1 DEF Stored
  <2>3. /\ \A q \in Process : New(work[q].rev)
        /\ New(blob)
        /\ blob = 0 => \A q \in Process : work[q].step # "save"
        /\ row => blob # 0 \/ \E q \in Process : work[q].step = "row"
    BY <1>2, <2>2, ReachesIs
  <2>4. work'[p].rev \in {0, work[p].rev} /\ work'[p].step # "save"
    BY <1>6, TakeFields, CheckedFields, DoneFields DEF FinishUpdate
  <2>5. /\ \A q \in Process : New(work'[q].rev)
        /\ blob' = 0 => \A q \in Process : work'[q].step # "save"
    BY <1>1, <1>3, <2>3, <2>4 DEF New
  <2>6. row' => blob' # 0 \/ \E q \in Process : work'[q].step = "row"
    <3>1. work[p].step # "row"
      BY <2>1 DEF At
    <3>2. \A q \in Process : work[q].step = "row" => work'[q].step = "row"
      BY <1>3, <3>1 DEF At
    <3> QED BY <1>1, <2>3, <3>2
  <2>7. \A q \in Process : Updating(q)' /\ work'[q].step = "fill" =>
           /\ New(etag') \/ "etag" \in work'[q].todo
           /\ New(bytes') \/ "bytes" \in work'[q].todo
    <3>1. work'[p].step = "fill" => work'[p].todo = Keys
      BY <1>6, TakeFields, CheckedFields, DoneFields DEF FinishUpdate
    <3> QED BY <1>4, <3>1 DEF Keys
  <2>8. Through' => New(etag') /\ (etag' = 0 \/ crossed' \/ New(bytes') \/ WillFill("bytes")')
    <3>1. CASE CheckEtag(p)
      <4>1. etag # 0 => ~Through'
        BY <1>2, <1>4, <3>1, TakeFields DEF Through, CheckEtag, proxy
      <4> QED BY <1>1, <4>1 DEF New
    <3>2. CASE FinishUpdate(p)
      <4>1. work[p].step = "finish"
        BY <3>2 DEF FinishUpdate, At
      <4>2. Through
        BY <1>1, <4>1 DEF Through
      <4>3. WillFill("bytes") => WillFill("bytes")'
        BY <1>3, <4>1 DEF WillFill
      <4> QED BY <1>1, <1>2, <4>2, <4>3, ReachesIs DEF New
    <3> QED BY <1>6, <3>1, <3>2
  <2> QED BY <1>1, <2>3, <2>5, <2>6, <2>7, <2>8 DEF Reaches, New
<1> QED BY <1>5, <1>6

\* A key is set, by the update task or by a request.
LEMMA ReachesFill ==
  ASSUME Carried, OneUpdate, FillsAlike, Reaches, NEW p \in Process, Fill(p)
  PROVE  Reaches'
<1> SUFFICES ASSUME asked' # 0, ~behind'
             PROVE  Reaches'
  BY DEF Reaches
<1>1. PICK key \in Keys :
        /\ key \in work[p].todo
        /\ etag' = IF key = "etag" THEN work[p].rev ELSE etag
        /\ bytes' = IF key = "bytes" THEN work[p].rev ELSE bytes
        /\ \A q \in Process : q # p => work'[q] = work[q]
        /\ work'[p].rev \in {0, work[p].rev}
        /\ work'[p].op \in {work[p].op, "idle"} /\ work'[p].step \in {"fill", "finish", ""}
        /\ work'[p].step = "fill" => /\ work'[p].todo = work[p].todo \ {key}
                                     /\ work'[p].rev = work[p].rev
        /\ work'[p].step = "finish" =>
             /\ work'[p].rev = work[p].rev /\ work[p].todo \ {key} = {} /\ work[p].op = "update"
        /\ work[p].todo \ {key} # {} => work'[p].step = "fill"
  BY FillFields
<1>2. UNCHANGED <<asked, behind, crossed, task, blob, row>> /\ work[p].step = "fill"
  BY DEF Fill, SetKey, proxy, notes
<1>3. asked # 0 /\ ~behind
  BY <1>2
<1>4. key = "etag" \/ key = "bytes"
  BY DEF Keys
<1>5. /\ \A q \in Process : Updating(q)' => Updating(q)
      /\ \A q \in Process : work'[q].rev \in {0, work[q].rev}
      /\ \A q \in Process : work'[q].step = "save" => work[q].step = "save"
      /\ \A q \in Process : work[q].step = "row" => work'[q].step = "row"
  BY <1>1, <1>2 DEF Updating, At
<1>6. Stored' => Stored
  <2>1. ASSUME NEW q \in Process, Updating(q)', work'[q].step \in {"save", "check", "fill", "finish"}
        PROVE  Updating(q) /\ work[q].step \in {"save", "check", "fill", "finish"}
    BY <1>1, <1>2, <1>5, <2>1
  <2> QED BY <1>2, <2>1 DEF Stored
<1>7. \A q \in Process : Updating(q)' => New(work'[q].rev)
  BY <1>3, <1>5, ReachesIs DEF New
<1>8. ASSUME Stored'
      PROVE  /\ \A q \in Process : New(work'[q].rev)
             /\ New(blob')
             /\ blob' = 0 => \A q \in Process : work'[q].step # "save"
             /\ row' => blob' # 0 \/ \E q \in Process : work'[q].step = "row"
  <2>1. /\ \A q \in Process : New(work[q].rev)
        /\ New(blob)
        /\ blob = 0 => \A q \in Process : work[q].step # "save"
        /\ row => blob # 0 \/ \E q \in Process : work[q].step = "row"
    BY <1>3, <1>6, <1>8, ReachesIs
  <2> QED BY <1>2, <1>5, <2>1 DEF New
\* Whoever fills while the task does puts nothing old.
<1>9. ASSUME Stored
      PROVE  New(work[p].rev)
  BY <1>3, <1>9, ReachesIs
<1>10. ASSUME NEW q \in Process, Updating(q)', work'[q].step = "fill"
       PROVE  /\ New(etag') \/ "etag" \in work'[q].todo
              /\ New(bytes') \/ "bytes" \in work'[q].todo
  <2>1. Updating(q) /\ work[q].step = "fill"
    BY <1>1, <1>2, <1>5, <1>10
  <2>2. Stored
    BY <2>1 DEF Stored
  <2>3. New(work[p].rev)
    BY <2>2, <1>9
  <2>4. /\ New(etag) \/ "etag" \in work[q].todo
        /\ New(bytes) \/ "bytes" \in work[q].todo
    BY <1>3, <2>1, ReachesIs
  <2>5. work'[q].todo = work[q].todo \/ work'[q].todo = work[q].todo \ {key}
    BY <1>1, <1>10
  <2> QED BY <1>1, <1>4, <2>3, <2>4, <2>5
<1>11. ASSUME Through'
       PROVE  New(etag') /\ (etag' = 0 \/ crossed' \/ New(bytes') \/ WillFill("bytes")')
  <2>1. CASE Through
    <3>1. Stored
      BY <2>1 DEF Through, Stored
    <3>2. New(work[p].rev)
      BY <3>1, <1>9
    <3>3. New(etag) /\ (etag = 0 \/ crossed \/ New(bytes) \/ WillFill("bytes"))
      BY <1>3, <2>1, ReachesIs
    <3>4. CASE key = "bytes"
      BY <1>1, <3>2, <3>3, <3>4
    <3>5. CASE key = "etag"
      <4>1. New(etag') /\ bytes' = bytes
        BY <1>1, <3>2, <3>5
      <4>2. CASE "bytes" \in work[p].todo
        <5>1. work[p].todo \ {key} # {} /\ "bytes" \in work[p].todo \ {key}
          BY <3>5, <4>2
        <5>2. work'[p].step = "fill" /\ "bytes" \in work'[p].todo
          BY <1>1, <5>1
        <5>3. WillFill("bytes")'
          BY <5>2 DEF WillFill
        <5> QED BY <4>1, <5>3
      <4>3. CASE "bytes" \notin work[p].todo
        <5>1. crossed \/ bytes \in {0, work[p].rev}
          BY <1>2, <4>3 DEF FillsAlike
        <5>2. crossed' \/ New(bytes')
          BY <1>2, <3>2, <4>1, <5>1 DEF New
        <5> QED BY <4>1, <5>2
      <4> QED BY <4>2, <4>3
    <3> QED BY <1>4, <3>4, <3>5
  <2>2. CASE ~Through
    <3>1. PICK q \in Process : Updating(q)' /\ work'[q].step = "finish"
      BY <1>2, <1>11, <2>2 DEF Through
    <3>2. q = p
      BY <1>1, <2>2, <3>1 DEF Through, Updating
    <3>3. Updating(p) /\ work[p].todo \ {key} = {}
      BY <1>1, <3>1, <3>2 DEF Updating
    <3>4. Stored
      BY <1>2, <3>3 DEF Stored
    <3>5. New(work[p].rev)
      BY <3>4, <1>9
    <3>6. /\ New(etag) \/ "etag" \in work[p].todo
          /\ New(bytes) \/ "bytes" \in work[p].todo
      BY <1>2, <1>3, <3>3, ReachesIs
    <3>7. New(etag') /\ New(bytes')
      <4>1. CASE key = "etag"
        <5>1. "bytes" \notin work[p].todo
          BY <3>3, <4>1
        <5> QED BY <1>1, <3>5, <3>6, <4>1, <5>1
      <4>2. CASE key = "bytes"
        <5>1. "etag" \notin work[p].todo
          BY <3>3, <4>2
        <5> QED BY <1>1, <3>5, <3>6, <4>2, <5>1
      <4> QED BY <1>4, <4>1, <4>2
    <3> QED BY <3>7
  <2> QED BY <2>1, <2>2
<1> QED BY <1>2, <1>7, <1>8, <1>10, <1>11 DEF Reaches, New

LEMMA ReachesStep ==
  ASSUME Carried, OneUpdate, FillsAlike, Reaches, [CacheNext]_cacheVars
  PROVE  Reaches'
<1>1. CASE \/ Write \/ Block \/ BugVersions \/ LoseEvent \/ Upstream \/ Synced \/ Expire
           \/ UNCHANGED cacheVars
  <2>1. /\ UNCHANGED <<work, task, blob, row, asked, behind, crossed>>
        /\ etag' \in {etag, 0} /\ bytes' \in {bytes, 0}
    BY <1>1 DEF Write, Block, BugVersions, LoseEvent, Upstream, Synced, Expire,
       NothingElse, cacheVars, redis, proxy, notes
  <2>2. /\ (Stored' <=> Stored) /\ (Through' <=> Through) /\ (WillFill("bytes")' <=> WillFill("bytes"))
        /\ \A q \in Process : Updating(q)' <=> Updating(q)
        /\ \A q \in Process : work'[q].step = "row" <=> work[q].step = "row"
    BY <2>1 DEF Stored, Through, WillFill, Updating, At
  <2> QED BY <2>1, <2>2 DEF Reaches, New
<1>2. CASE CheckUpdate
  BY <1>2, ReachesAsked DEF CheckUpdate
<1>3. ASSUME NEW p \in Process,
             \/ WriteSilently(p) \/ EndSync(p) \/ HandleEvent(p) \/ Delete(p)
             \/ Serve(p) \/ Proxy(p) \/ Die(p)
      PROVE  Reaches'
  BY <1>3, ReachesReaders, ReachesTask, ReachesStore, ReachesRow, ReachesUpdate, ReachesFill
     DEF Serve, Proxy, Quiet
<1> QED BY <1>1, <1>2, <1>3 DEF CacheNext

-----------------------------------------------------------------------------
(* The theorems *)

\* The five invariants go together.
IInv == Carried /\ Swept /\ FilledAlike /\ OneUpdate /\ FillsAlike /\ Reaches

LEMMA Inductive ==
  CacheSpec => []IInv
<1>1. CacheInit => IInv
  BY CarriedInit, RestInit DEF IInv
<1>2. IInv /\ [CacheNext]_cacheVars => IInv'
  BY CarriedStep, SweptStep, FilledAlikeStep, OneUpdateStep, FillsAlikeStep, ReachesStep DEF IInv
<1> QED BY <1>1, <1>2, PTL DEF CacheSpec

\* CacheFresh for any number of processes, revisions and faults: once its events
\* are handled the cache holds the current document or none.
THEOREM StaleGoes ==
  CacheSpec => []CacheFresh
<1>1. IInv => CacheFresh
  BY DEF IInv, Swept, CacheFresh, Unclean, Sweeps
<1> QED BY <1>1, Inductive, PTL

\* ServedWhole for any number of processes, revisions and faults: no older
\* document under a newer etag.
THEOREM EtagsMatch ==
  CacheSpec => []ServedWhole
<1>1. IInv => ServedWhole
  BY DEF IInv, FilledAlike, Reading, ServedWhole
<1> QED BY <1>1, Inductive, PTL

\* RefreshReaches for any number of processes, revisions and faults: what a
\* refresh asked for is what is served when its task is done.
THEOREM RefreshDone ==
  CacheSpec => []RefreshReaches
<1>1. IInv => RefreshReaches
  <2> SUFFICES ASSUME IInv, asked # 0, task = "none", ~behind,
                      \A p \in Process : work[p].step # "row"
               PROVE  /\ etag # 0 => /\ etag >= asked
                                     /\ \/ crossed \/ bytes = 0 \/ bytes >= asked
                                        \/ \E p \in Process : work[p].step = "fill"
                      /\ row => blob >= asked
    BY DEF RefreshReaches
  <2>1. Stored /\ Through
    BY DEF Stored, Through
  <2>2. /\ New(blob)
        /\ row => blob # 0 \/ \E q \in Process : work[q].step = "row"
        /\ New(etag) /\ (etag = 0 \/ crossed \/ New(bytes) \/ WillFill("bytes"))
    BY <2>1, ReachesIs DEF IInv
  <2> QED BY <2>2 DEF New, WillFill
<1> QED BY <1>1, Inductive, PTL
=============================================================================
