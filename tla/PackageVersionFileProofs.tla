---------------------- MODULE PackageVersionFileProofs ----------------------
(***************************************************************************)
(* The lock keeps its promises to those who unpack files, and what was     *)
(* unpacked is whole and the right version's: for any processes, files,    *)
(* publications and faults.                                                *)
(***************************************************************************)
EXTENDS PackageVersionFile, WellFoundedInduction, TLAPS

-----------------------------------------------------------------------------
(* The lock: for any processes, leases and delays that satisfy             *)
(* LeaseAssumption, and without bounds on time and faults.                 *)

Quiet == CallsPrompt /\ KeyOfLease /\ KeyEnds

LEMMA TypesKept ==
  ASSUME LockTypes, [Next]_vars
  PROVE  LockTypes'
<1> USE LeaseAssumption DEF LockTypes, Goto
<1>1. ASSUME NEW p \in Process, Get(p)
      PROVE  LockTypes'
  BY <1>1 DEF Get
<1>2. ASSUME NEW p \in Process, Refuse(p)
      PROVE  LockTypes'
  BY <1>2 DEF Refuse, Leave
<1>3. ASSUME NEW p \in Process, DeleteExpired(p)
      PROVE  LockTypes'
  BY <1>3 DEF DeleteExpired
<1>4. ASSUME NEW p \in Process, SetNx(p)
      PROVE  LockTypes'
  BY <1>4 DEF SetNx, Leave
<1>5. ASSUME NEW p \in Process, Expire(p)
      PROVE  LockTypes'
  BY <1>5 DEF Expire
<1>6. ASSUME NEW p \in Process, Finish(p)
      PROVE  LockTypes'
  BY <1>6 DEF Finish, Leave
<1>7. ASSUME NEW p \in Process, Release(p)
      PROVE  LockTypes'
  BY <1>7 DEF Release, Leave
<1>8. ASSUME NEW p \in Process, Fail(p)
      PROVE  LockTypes'
  BY <1>8 DEF Fail, Leave
<1>9. CASE Tick
  BY <1>9 DEF Tick
<1>10. CASE UNCHANGED vars
  BY <1>10 DEF vars
<1> QED
  BY <1>1, <1>2, <1>3, <1>4, <1>5, <1>6, <1>7, <1>8, <1>9, <1>10 DEF Next

\* A key that is present is not yet Delay past the end of its lease: either its
\* owner is about to set the time to live, or redis will delete it by then.
LEMMA KeyIsFresh ==
  ASSUME LockTypes, Quiet, key # 0
  PROVE  now < key + Delay
<1>1. CASE ttl # 0
  BY <1>1, LeaseAssumption DEF LockTypes, Quiet, KeyEnds
<1>2. CASE ttl = 0
  <2>1. PICK p \in Process : pc[p] = "expire" /\ stamp[p] = key
    BY <1>2 DEF Quiet, KeyEnds
  <2>2. now <= began[p] + Delay /\ began[p] + Seconds <= key
    BY <2>1 DEF Quiet, CallsPrompt, InCall
  <2> QED  BY <2>2, LeaseAssumption DEF LockTypes
<1> QED  BY <1>1, <1>2

LEMMA GetQuiet ==
  ASSUME LockTypes, Quiet, NEW p \in Process, Get(p)
  PROVE  Quiet'
<1>1. /\ pc[p] = "idle" /\ UNCHANGED <<now, key, ttl>>
      /\ began' = [began EXCEPT ![p] = now]
      /\ seen' = [seen EXCEPT ![p] = key]
      /\ pc' = [pc EXCEPT ![p] = IF key = 0 THEN "set" ELSE "compare"]
      /\ stamp' = [stamp EXCEPT ![p] = IF key = 0 THEN now + Seconds ELSE @]
  BY DEF Get, Goto, LockTypes
<1>2. CallsPrompt'
  BY <1>1, KeyIsFresh, LeaseAssumption DEF Quiet, CallsPrompt, InCall, LockTypes
<1>3. KeyOfLease'
  BY <1>1 DEF Quiet, KeyOfLease, Leased, LockTypes
<1>4. KeyEnds'
  BY <1>1 DEF Quiet, KeyEnds, LockTypes
<1> QED  BY <1>2, <1>3, <1>4 DEF Quiet

\* A process that stops being in a call or under a lease disturbs nothing, unless
\* it leaves a key without time to live.
LEMMA LeaveQuiet ==
  ASSUME LockTypes, Quiet, NEW p \in Process, pc[p] # "expire", Leave(p),
         seen' \in [Process -> Nat], \A q \in Process \ {p} : seen'[q] = seen[q],
         UNCHANGED <<now, key, ttl>>
  PROVE  Quiet'
<1>1. /\ pc' = [pc EXCEPT ![p] = "idle"]
      /\ began' = [began EXCEPT ![p] = 0]
      /\ stamp' = [stamp EXCEPT ![p] = 0]
  BY DEF Leave, Goto
<1>2. CallsPrompt'
  BY <1>1 DEF Quiet, CallsPrompt, InCall, LockTypes
<1>3. KeyOfLease'
  BY <1>1 DEF Quiet, KeyOfLease, Leased, LockTypes
<1>4. KeyEnds'
  BY <1>1 DEF Quiet, KeyEnds, LockTypes
<1> QED  BY <1>2, <1>3, <1>4 DEF Quiet

\* What a prompt call has read is too young to be taken for expired.
LEMMA NothingExpired ==
  ASSUME LockTypes, Quiet, NEW p \in Process
  PROVE  ~DeleteExpired(p)
<1> SUFFICES ASSUME pc[p] = "compare" PROVE now < seen[p] + Seconds
  BY LeaseAssumption DEF DeleteExpired, LockTypes
<1>1. now <= began[p] + Delay /\ began[p] < seen[p] + Delay
  BY DEF Quiet, CallsPrompt, InCall
<1> QED  BY <1>1, LeaseAssumption DEF LockTypes

LEMMA SetNxQuiet ==
  ASSUME LockTypes, Quiet, NEW p \in Process, SetNx(p), key = 0
  PROVE  Quiet'
<1>1. /\ pc[p] = "set" /\ UNCHANGED <<now, ttl, began, seen, stamp>>
      /\ key' = stamp[p] /\ pc' = [pc EXCEPT ![p] = "expire"]
  BY DEF SetNx, Goto
<1>2. CallsPrompt'
  BY <1>1 DEF Quiet, CallsPrompt, InCall, LockTypes
<1>3. stamp[p] # 0 /\ stamp[p] <= now + Seconds /\ ttl = 0
  BY <1>1, LeaseAssumption DEF Quiet, CallsPrompt, KeyEnds, LockTypes
<1>4. \A q \in Process : ~Leased(q)
  <2> SUFFICES ASSUME NEW q \in Process, Leased(q) PROVE FALSE
    OBVIOUS
  <2>1. stamp[q] = 0 /\ now < stamp[q]
    BY DEF Quiet, KeyOfLease, Leased
  <2> QED  BY <2>1 DEF LockTypes
<1>5. KeyOfLease'
  <2>1. \A q \in Process : Leased(q)' => q = p
    BY <1>1, <1>4 DEF Leased, LockTypes
  <2> QED  BY <1>1, <1>3, <2>1 DEF KeyOfLease, LockTypes
<1>6. KeyEnds'
  BY <1>1, <1>3 DEF KeyEnds, LockTypes
<1> QED  BY <1>2, <1>5, <1>6 DEF Quiet

LEMMA ExpireQuiet ==
  ASSUME LockTypes, Quiet, NEW p \in Process, Expire(p)
  PROVE  Quiet'
<1>1. /\ pc[p] = "expire" /\ UNCHANGED <<now, key, seen, stamp>>
      /\ began' = [began EXCEPT ![p] = 0]
      /\ ttl' = IF key = 0 THEN 0 ELSE now + Seconds
      /\ pc' = [pc EXCEPT ![p] = "run"]
  BY DEF Expire, Goto
<1>2. CallsPrompt'
  BY <1>1 DEF Quiet, CallsPrompt, InCall, LockTypes
<1>3. now <= began[p] + Delay /\ began[p] + Seconds <= stamp[p]
  BY <1>1 DEF Quiet, CallsPrompt, InCall
<1>4. Leased(p) /\ key = stamp[p]
  BY <1>1, <1>3, LeaseAssumption DEF Quiet, KeyOfLease, Leased, LockTypes
<1>5. key # 0 /\ ttl' = now + Seconds /\ ttl' <= key + Delay /\ now < ttl'
  BY <1>1, <1>3, <1>4, LeaseAssumption DEF LockTypes
<1>6. KeyOfLease'
  <2>1. \A q \in Process : Leased(q)' => q = p
    BY <1>1, <1>4 DEF Quiet, KeyOfLease, Leased, LockTypes
  <2>2. key <= now + Seconds
    BY <1>4 DEF Quiet, KeyOfLease
  <2> QED  BY <1>1, <1>4, <1>5, <2>1, <2>2 DEF KeyOfLease, LockTypes
<1>7. KeyEnds'
  BY <1>1, <1>5 DEF KeyEnds, LockTypes
<1> QED  BY <1>2, <1>6, <1>7 DEF Quiet

LEMMA FinishQuiet ==
  ASSUME LockTypes, Quiet, NEW p \in Process, Finish(p), key = stamp[p]
  PROVE  Quiet'
<1>1. /\ pc[p] = "run" /\ UNCHANGED <<now, key, ttl, seen, stamp>>
      /\ began' = [began EXCEPT ![p] = now]
      /\ pc' = [pc EXCEPT ![p] = "release"]
  BY DEF Finish, Goto
<1>2. CallsPrompt'
  BY <1>1, LeaseAssumption DEF Quiet, CallsPrompt, InCall, LockTypes
<1>3. \A q \in Process : Leased(q)' <=> Leased(q)
  BY <1>1 DEF Leased, LockTypes
<1>4. KeyOfLease'
  BY <1>1, <1>3 DEF Quiet, KeyOfLease, LockTypes
<1>5. KeyEnds'
  BY <1>1 DEF Quiet, KeyEnds, LockTypes
<1> QED  BY <1>2, <1>4, <1>5 DEF Quiet

\* A release in time removes its own key.
LEMMA ReleaseQuiet ==
  ASSUME LockTypes, Quiet, NEW p \in Process, Release(p), ~trouble'
  PROVE  Quiet'
<1>0. ~(now >= stamp[p])
  BY Zenon DEF Release
<1>1. /\ pc[p] = "release" /\ UNCHANGED <<now, seen>>
      /\ key' = 0 /\ ttl' = 0 /\ now < stamp[p]
      /\ began' = [began EXCEPT ![p] = 0]
      /\ stamp' = [stamp EXCEPT ![p] = 0]
      /\ pc' = [pc EXCEPT ![p] = "idle"]
  BY <1>0 DEF Release, Leave, Goto, LockTypes
<1>2. CallsPrompt'
  BY <1>1 DEF Quiet, CallsPrompt, InCall, LockTypes
<1>3. Leased(p)
  BY <1>1 DEF Leased
<1>4. \A q \in Process : ~Leased(q)'
  <2> SUFFICES ASSUME NEW q \in Process, Leased(q)' PROVE FALSE
    OBVIOUS
  <2>1. q # p /\ Leased(q)
    BY <1>1 DEF Leased, LockTypes
  <2> QED  BY <1>3, <2>1 DEF Quiet, KeyOfLease
<1>5. KeyOfLease' /\ KeyEnds'
  BY <1>1, <1>4 DEF KeyOfLease, KeyEnds
<1> QED  BY <1>2, <1>5 DEF Quiet

LEMMA TickQuiet ==
  ASSUME LockTypes, Quiet, Tick, ~trouble'
  PROVE  Quiet'
<1>0. \A p \in Process : InCall(p) => ~(began[p] + Delay <= now)
  BY Zenon DEF Tick
<1>1. /\ now' = now + 1 /\ UNCHANGED <<pc, began, seen, stamp>>
      /\ \A p \in Process : InCall(p) => now < began[p] + Delay
  BY <1>0, LeaseAssumption DEF Tick, LockTypes
<1>2. CallsPrompt'
  BY <1>1, LeaseAssumption DEF Quiet, CallsPrompt, InCall, LockTypes
<1>3. \A p \in Process : Leased(p)' => Leased(p) /\ now + 1 < stamp[p]
  BY <1>1 DEF Leased, LockTypes
<1>4. CASE ttl # 0 /\ ttl <= now + 1
  <2>1. key' = 0 /\ ttl' = 0
    BY <1>4 DEF Tick
  <2>2. \A p \in Process : ~Leased(p)'
    <3> SUFFICES ASSUME NEW p \in Process, Leased(p)' PROVE FALSE
      OBVIOUS
    <3>1. Leased(p) /\ now + 1 < stamp[p] /\ key = stamp[p]
      BY <1>3 DEF Quiet, KeyOfLease
    <3>2. ttl >= stamp[p]
      BY <1>4, <3>1 DEF Quiet, KeyOfLease
    <3> QED  BY <1>4, <3>1, <3>2 DEF LockTypes
  <2> QED  BY <1>2, <2>1, <2>2 DEF Quiet, KeyOfLease, KeyEnds
<1>5. CASE ~(ttl # 0 /\ ttl <= now + 1)
  <2>1. UNCHANGED <<key, ttl>>
    BY <1>5 DEF Tick
  <2>2. KeyOfLease'
    BY <1>1, <1>3, <2>1, LeaseAssumption DEF Quiet, KeyOfLease, LockTypes
  <2>3. KeyEnds'
    BY <1>1, <1>5, <2>1 DEF Quiet, KeyEnds, LockTypes
  <2> QED  BY <1>2, <2>2, <2>3 DEF Quiet
<1> QED  BY <1>4, <1>5

LEMMA LockStep ==
  ASSUME LockInductive, [Next]_vars
  PROVE  LockInductive'
<1>1. LockTypes /\ LockTypes'
  BY TypesKept DEF LockInductive
<1>2. SUFFICES ASSUME ~trouble' PROVE Quiet'
  BY <1>1 DEF LockInductive, Quiet
<1>3. ~trouble
  <2>1. CASE Tick \/ \E p \in Process : Release(p) \/ Fail(p)
    BY <1>1, <1>2, <2>1, Zenon DEF Tick, Release, Fail
  <2>2. CASE UNCHANGED trouble
    BY <1>2, <2>2
  <2>3. CASE \E p \in Process : \/ Get(p) \/ Refuse(p) \/ DeleteExpired(p)
                                \/ SetNx(p) \/ Expire(p) \/ Finish(p)
    BY <1>2, <2>3 DEF Get, Refuse, DeleteExpired, SetNx, Expire, Finish
  <2> QED  BY <2>1, <2>2, <2>3 DEF Next, vars
<1>4. Quiet
  BY <1>3 DEF LockInductive, Quiet
<1>5. ASSUME NEW p \in Process, Refuse(p)
      PROVE  Quiet'
  BY <1>1, <1>4, <1>5, LeaveQuiet DEF Refuse, LockTypes
<1>6. ASSUME NEW p \in Process, SetNx(p)
      PROVE  Quiet'
  <2>1. CASE key # 0
    BY <1>1, <1>4, <1>6, <2>1, LeaveQuiet DEF SetNx, LockTypes
  <2> QED  BY <1>1, <1>4, <1>6, <2>1, SetNxQuiet
<1>7. ASSUME NEW p \in Process, Finish(p)
      PROVE  Quiet'
  <2>1. CASE key # stamp[p]
    BY <1>1, <1>4, <1>7, <2>1, LeaveQuiet DEF Finish, LockTypes
  <2> QED  BY <1>1, <1>4, <1>7, <2>1, FinishQuiet
<1>8. ASSUME NEW p \in Process, Fail(p)
      PROVE  Quiet'
  <2>1. pc[p] # "expire"
    BY <1>2, <1>8, Zenon DEF Fail
  <2> QED  BY <1>1, <1>4, <1>8, <2>1, LeaveQuiet DEF Fail, LockTypes
<1>9. CASE UNCHANGED vars
  BY <1>4, <1>9
     DEF vars, Quiet, CallsPrompt, KeyOfLease, KeyEnds, Leased, InCall
<1> QED
  BY <1>1, <1>2, <1>4, <1>5, <1>6, <1>7, <1>8, <1>9, GetQuiet, NothingExpired,
     ExpireQuiet, ReleaseQuiet, TickQuiet DEF Next

LEMMA LockBegins ==
  Init => LockInductive
<1> SUFFICES ASSUME Init PROVE LockInductive
  OBVIOUS
<1>1. LockTypes
  BY DEF Init, LockTypes
<1>2. CallsPrompt /\ KeyOfLease
  BY DEF Init, CallsPrompt, InCall, KeyOfLease, Leased
<1>3. KeyEnds
  BY DEF Init, KeyEnds
<1> QED  BY <1>1, <1>2, <1>3 DEF LockInductive

-----------------------------------------------------------------------------
(* The theorems *)

\* What lock, unlock and redis keep true of the key and of every process's
\* lease, for any number of processes and faults: see LockInductive.
THEOREM LockInvariant == Spec => []LockInductive
<1>1. Init => LockInductive
  BY LockBegins
<1>2. LockInductive /\ [Next]_vars => LockInductive'
  BY LockStep
<1> QED  BY <1>1, <1>2, PTL DEF Spec

\* Two leases of one lock (CacheAdapter.usingLock) never run at the same time,
\* as long as no call of the lock itself went wrong.
THEOREM LeasesAreExclusive == Spec => []LeasesExclusive
<1>1. LockInductive => LeasesExclusive
  <2> SUFFICES ASSUME LockInductive, ~trouble,
                      NEW p \in Process, NEW q \in Process,
                      Running(p), Running(q)
               PROVE  p = q
    BY DEF LeasesExclusive
  <2>1. KeyOfLease /\ Leased(p) /\ Leased(q)
    BY DEF LockInductive, Running, Leased
  <2> QED  BY <2>1 DEF KeyOfLease
<1> QED  BY <1>1, LockInvariant, PTL

\* A key is deleted at the latest one Delay after the end of its lease, whether
\* its holder unlocks, works on or is dead.
THEOREM LocksExpire == Spec => []LockExpires
<1>1. LockInductive => LockExpires
  BY KeyIsFresh DEF LockInductive, LockExpires, Quiet
<1> QED  BY <1>1, LockInvariant, PTL

-----------------------------------------------------------------------------
(* The files *)

Steps == {"idle", "lock", "check", "save", "insert", "unlock"}

FilesTypes ==
  /\ cur \in Pubs
  /\ file \in [Path -> Nat]
  /\ rows \in [Pubs -> SUBSET Path]
  /\ work \in [Process -> [step : Steps, id : Nat, path : Nat, locked : BOOLEAN]]
  /\ unpacked \in SUBSET Pubs
  /\ mixed \in BOOLEAN

\* Everyone works on a version that was published, and has passed only files
\* that have a row; the file of the next row is in place.
WorkOrdered ==
  \A p \in Process :
    LET w == work[p]
    IN /\ w.step # "idle" => w.id \in 1..cur
       /\ w.step \in {"save", "insert"} =>
            w.path \in Path /\ \A y \in Path : y < w.path => y \in rows[w.id]
       /\ w.step = "insert" /\ w.id = cur /\ ~mixed => file[w.path] = cur

\* Nothing is there of a version to come.
NothingAhead == \A n \in Pubs : n > cur => rows[n] = {}

FilesInductive ==
  /\ FilesTypes /\ WorkOrdered /\ NothingAhead
  /\ UnpackedWhole /\ FilesServed

-----------------------------------------------------------------------------
(* The lock *)

LEMMA LockKept ==
  ASSUME LockInductive, [FilesNext]_filesVars
  PROVE  LockInductive'
<1>1. CASE Next
  BY <1>1, LockStep
<1>2. CASE UNCHANGED <<now, key, ttl, pc, began, seen, stamp, trouble>>
  BY <1>2 DEF LockInductive, LockTypes, CallsPrompt, InCall, KeyOfLease, KeyEnds, Leased
<1>3. ASSUME NEW p \in Process,
             Read(p) \/ TakeLock(p) \/ Unlock(p)
      PROVE  Next
  BY <1>3 DEF Read, TakeLock, Unlock, Next
<1>4. ASSUME NEW p \in Process, Die(p)
      PROVE  Next \/ UNCHANGED <<now, key, ttl, pc, began, seen, stamp, trouble>>
  BY <1>4 DEF Die, Next
<1>5. ASSUME NEW p \in Process,
             \/ SyncFiles(p) \/ Extract(p) \/ NotExtracted(p) \/ KeepFile(p)
             \/ SaveFile(p) \/ InsertRow(p) \/ Throw(p)
      PROVE  UNCHANGED <<now, key, ttl, pc, began, seen, stamp, trouble>>
  BY <1>5
     DEF SyncFiles, Extract, NotExtracted, KeepFile, SaveFile, InsertRow, Throw, lockVars
<1>6. CASE Passes
  BY <1>1, <1>6 DEF Passes, Next
<1>7. CASE Republish \/ UNCHANGED filesVars
  BY <1>2, <1>7 DEF Republish, filesVars, lockVars
<1> QED BY <1>1, <1>2, <1>3, <1>4, <1>5, <1>6, <1>7 DEF FilesNext

-----------------------------------------------------------------------------
(* Files *)

\* A set of numbers that is not empty has a least one.
LEMMA FirstExists ==
  ASSUME NEW S \in SUBSET Nat, S # {}
  PROVE  \E i \in S : \A j \in S : i <= j
<1>1. PICK i \in S : \A j \in S : ~(<<j, i>> \in OpToRel(<, Nat))
  BY WFMin, NatLessThanWellFounded, Zenon
<1>2. ASSUME NEW j \in S
      PROVE  i <= j
  <2>1. ~(<<j, i>> \in OpToRel(<, Nat)) /\ i \in Nat /\ j \in Nat
    BY <1>1
  <2> QED BY <2>1 DEF OpToRel
<1> QED BY <1>2

LEMMA FirstPathIsFirst ==
  FirstPath \in Path /\ \A y \in Path : FirstPath <= y
<1>1. \E x \in Path : \A y \in Path : x <= y
  BY FirstExists, FilesAssumption
<1> QED BY <1>1 DEF FirstPath

LEMMA LeastIsLeast ==
  ASSUME NEW S \in SUBSET Path, S # {}
  PROVE  Least(S) \in S /\ \A y \in S : Least(S) <= y
<1>1. \E x \in S : \A y \in S : x <= y
  BY FirstExists, FilesAssumption
<1> QED BY <1>1 DEF Least

\* A process that stops unpacking leaves files and rows as they are.
LEMMA Stops ==
  ASSUME FilesInductive, NEW p \in Process,
         \/ Leaves(p)
         \/ work' = [work EXCEPT ![p] = Idle],
         UNCHANGED <<cur, file, rows, unpacked, mixed>>,
         Unpacking(p) \/ work' = [work EXCEPT ![p] = Idle]
  PROVE  FilesInductive'
<1>1. CASE work' = [work EXCEPT ![p] = Idle]
  BY <1>1 DEF FilesInductive, FilesTypes, WorkOrdered, NothingAhead, UnpackedWhole,
              FilesServed, Idle, Steps
<1>2. CASE /\ Unpacking(p)
           /\ work' = [work EXCEPT ![p] = [@ EXCEPT !.step = "unlock", !.path = 0]]
  <2>1. /\ work' \in [Process -> [step : Steps, id : Nat, path : Nat, locked : BOOLEAN]]
        /\ \A q \in Process \ {p} : work'[q] = work[q]
        /\ work'[p].step = "unlock" /\ work'[p].id = work[p].id
    <3> DEFINE w == [work[p] EXCEPT !.step = "unlock", !.path = 0]
    <3>1. work[p] \in [step : Steps, id : Nat, path : Nat, locked : BOOLEAN]
      BY DEF FilesInductive, FilesTypes
    <3>2. /\ w \in [step : Steps, id : Nat, path : Nat, locked : BOOLEAN]
          /\ w.step = "unlock" /\ w.id = work[p].id
      BY <3>1 DEF Steps
    <3>3. work' = [work EXCEPT ![p] = w]
      BY <1>2
    <3> HIDE DEF w
    <3> QED BY <3>2, <3>3 DEF FilesInductive, FilesTypes
  <2>2. WorkOrdered'
    BY <1>2, <2>1 DEF FilesInductive, WorkOrdered, Unpacking
  <2> QED
    BY <2>1, <2>2 DEF FilesInductive, FilesTypes, NothingAhead, UnpackedWhole, FilesServed
<1> QED BY <1>1, <1>2 DEF Leaves

\* A process that goes on with nothing stored yet.
LEMMA Begins ==
  ASSUME FilesInductive, NEW p \in Process, NEW w,
         w \in [step : Steps, id : Nat, path : Nat, locked : BOOLEAN],
         w.step \notin {"save", "insert"},
         w.step # "idle" => w.id \in 1..cur,
         work' = [work EXCEPT ![p] = w],
         UNCHANGED <<cur, file, rows, unpacked, mixed>>
  PROVE  FilesInductive'
  BY DEF FilesInductive, FilesTypes, WorkOrdered, NothingAhead, UnpackedWhole, FilesServed

LEMMA ReadStep ==
  ASSUME FilesInductive, NEW p \in Process, Read(p)
  PROVE  FilesInductive'
<1> DEFINE w == [step |-> "lock", id |-> cur, path |-> 0, locked |-> TRUE]
<1>1. cur \in Nat /\ cur \in 1..cur
  BY FilesAssumption DEF FilesInductive, FilesTypes, Pubs
<1>2. /\ w \in [step : Steps, id : Nat, path : Nat, locked : BOOLEAN]
      /\ w.step = "lock" /\ w.id \in 1..cur
  BY <1>1 DEF Steps
<1>3. work' = [work EXCEPT ![p] = w] /\ UNCHANGED <<cur, file, rows, unpacked, mixed>>
  BY DEF Read, Begun
<1> HIDE DEF w
<1> QED BY <1>2, <1>3, Begins

LEMMA SyncFilesStep ==
  ASSUME FilesInductive, NEW p \in Process, SyncFiles(p)
  PROVE  FilesInductive'
<1> DEFINE w == [step |-> "check", id |-> cur, path |-> 0, locked |-> FALSE]
<1>1. cur \in Nat /\ cur \in 1..cur
  BY FilesAssumption DEF FilesInductive, FilesTypes, Pubs
<1>2. /\ w \in [step : Steps, id : Nat, path : Nat, locked : BOOLEAN]
      /\ w.step = "check" /\ w.id \in 1..cur
  BY <1>1 DEF Steps
<1>3. work' = [work EXCEPT ![p] = w] /\ UNCHANGED <<cur, file, rows, unpacked, mixed>>
  BY DEF SyncFiles, Begun
<1> HIDE DEF w
<1> QED BY <1>2, <1>3, Begins

LEMMA TakeLockStep ==
  ASSUME FilesInductive, NEW p \in Process, TakeLock(p)
  PROVE  FilesInductive'
<1> DEFINE w == IF pc'[p] = "idle" THEN Idle
                ELSE IF pc'[p] = "run" THEN [work[p] EXCEPT !.step = "check"]
                ELSE work[p]
<1>1. /\ w \in [step : Steps, id : Nat, path : Nat, locked : BOOLEAN]
      /\ w.step \notin {"save", "insert"}
      /\ w.step # "idle" => w.id \in 1..cur
  BY DEF TakeLock, Idle, Steps, FilesInductive, FilesTypes, WorkOrdered
<1>2. work' = [work EXCEPT ![p] = w] /\ UNCHANGED <<cur, file, rows, unpacked, mixed>>
  BY DEF TakeLock
<1> HIDE DEF w
<1> QED BY <1>1, <1>2, Begins

LEMMA UnlockStep ==
  ASSUME FilesInductive, NEW p \in Process, Unlock(p)
  PROVE  FilesInductive'
<1> DEFINE w == IF pc'[p] = "idle" THEN Idle ELSE work[p]
<1>1. /\ w \in [step : Steps, id : Nat, path : Nat, locked : BOOLEAN]
      /\ w.step \notin {"save", "insert"}
      /\ w.step # "idle" => w.id \in 1..cur
  BY DEF Unlock, Idle, Steps, FilesInductive, FilesTypes, WorkOrdered
<1>2. work' = [work EXCEPT ![p] = w] /\ UNCHANGED <<cur, file, rows, unpacked, mixed>>
  BY DEF Unlock
<1> HIDE DEF w
<1> QED BY <1>1, <1>2, Begins

LEMMA ExtractStep ==
  ASSUME FilesInductive, NEW p \in Process, Extract(p)
  PROVE  FilesInductive'
<1>1. /\ work' = [work EXCEPT ![p].step = "save", ![p].path = FirstPath]
      /\ work[p].step = "check" /\ UNCHANGED <<cur, file, rows, unpacked, mixed>>
  BY DEF Extract
<1>2. FirstPath \in Path /\ FirstPath \in Nat /\ \A y \in Path : ~(y < FirstPath)
  BY FirstPathIsFirst, FilesAssumption
<1>3. FilesTypes' /\ NothingAhead' /\ UnpackedWhole' /\ FilesServed'
  BY <1>1, <1>2 DEF FilesInductive, FilesTypes, NothingAhead, UnpackedWhole, FilesServed, Steps
<1>4. WorkOrdered'
  BY <1>1, <1>2 DEF FilesInductive, FilesTypes, WorkOrdered, Steps
<1> QED BY <1>3, <1>4 DEF FilesInductive

\* Onwards from a path that has its row, with all before it.
LEMMA OnwardsStep ==
  ASSUME FilesInductive, NEW p \in Process, Onwards(p),
         work[p].step \in {"save", "insert"},
         rows' = [rows EXCEPT ![work[p].id] = @ \cup {work[p].path}],
         work[p].path \in rows[work[p].id] \/ work[p].step = "insert",
         UNCHANGED <<cur, file, mixed>>
  PROVE  FilesInductive'
<1> DEFINE w == work[p]
           rest == After(w.path)
<1>1. /\ w \in [step : Steps, id : Nat, path : Nat, locked : BOOLEAN]
      /\ w.id \in 1..cur /\ w.id \in Pubs /\ cur \in Nat
      /\ w.path \in Path /\ Path \subseteq Nat
      /\ \A y \in Path : y < w.path => y \in rows[w.id]
  BY FilesAssumption DEF FilesInductive, FilesTypes, WorkOrdered, Steps, Pubs
<1>2. rows' \in [Pubs -> SUBSET Path] /\ \A n \in Pubs : rows[n] \subseteq rows'[n]
  BY <1>1 DEF FilesInductive, FilesTypes
<1>3. w.path \in rows'[w.id] /\ \A y \in Path : y <= w.path => y \in rows'[w.id]
  BY <1>1 DEF FilesInductive, FilesTypes
<1>4. NothingAhead'
  BY <1>1 DEF FilesInductive, FilesTypes, NothingAhead
<1>5. FilesServed'
  BY <1>1 DEF FilesInductive, FilesTypes, FilesServed, WorkOrdered
<1>6. CASE rest = {}
  <2>1. Leaves(p) /\ unpacked' = unpacked \cup {w.id}
    BY <1>6 DEF Onwards
  <2>2. rows'[w.id] = Path
    BY <1>1, <1>2, <1>3, <1>6 DEF After
  <2>3. UnpackedWhole'
    BY <1>1, <1>2, <2>1, <2>2 DEF FilesInductive, UnpackedWhole, FilesTypes
  <2>4. /\ work' \in [Process -> [step : Steps, id : Nat, path : Nat, locked : BOOLEAN]]
        /\ \A q \in Process \ {p} : work'[q] = work[q]
        /\ work'[p].step \in {"idle", "unlock"}
        /\ work'[p].step = "unlock" => work'[p].id = w.id
    BY <1>1, <2>1 DEF FilesInductive, FilesTypes, Leaves, Idle, Steps
  <2>5. WorkOrdered'
    BY <1>1, <1>2, <2>4 DEF FilesInductive, FilesTypes, WorkOrdered
  <2>6. FilesTypes'
    BY <1>1, <1>2, <2>1, <2>4 DEF FilesInductive, FilesTypes
  <2> QED BY <1>4, <1>5, <2>3, <2>5, <2>6 DEF FilesInductive
<1>7. CASE rest # {}
  <2> DEFINE next == Least(rest)
  <2>1. /\ work' = [work EXCEPT ![p].step = "save", ![p].path = next]
        /\ UNCHANGED unpacked
    BY <1>7 DEF Onwards
  <2>2. next \in rest /\ \A y \in rest : next <= y
    BY <1>7, LeastIsLeast DEF After
  <2>3. next \in Path /\ \A y \in Path : y < next => y <= w.path
    <3>1. next \in Path
      BY <2>2 DEF After
    <3>2. ASSUME NEW y \in Path, y < next, ~(y <= w.path) PROVE FALSE
      <4>1. y \in Nat /\ w.path \in Nat /\ next \in Nat
        BY <1>1, <3>1
      <4>2. y \in rest
        BY <3>2, <4>1 DEF After
      <4>3. next <= y
        BY <2>2, <4>2
      <4> QED BY <3>2, <4>1, <4>3
    <3> QED BY <3>1, <3>2
  <2>4. /\ work' \in [Process -> [step : Steps, id : Nat, path : Nat, locked : BOOLEAN]]
        /\ \A q \in Process \ {p} : work'[q] = work[q]
        /\ work'[p].step = "save" /\ work'[p].path = next /\ work'[p].id = w.id
    BY <1>1, <2>1, <2>3 DEF FilesInductive, FilesTypes, Steps
  <2> HIDE DEF next
  <2>5. WorkOrdered'
    BY <1>1, <1>2, <1>3, <2>3, <2>4 DEF FilesInductive, FilesTypes, WorkOrdered
  <2>6. FilesTypes'
    BY <1>1, <1>2, <2>1, <2>4 DEF FilesInductive, FilesTypes
  <2>7. UnpackedWhole'
    BY <1>1, <1>2, <2>1 DEF FilesInductive, UnpackedWhole, FilesTypes
  <2> QED BY <1>4, <1>5, <2>5, <2>6, <2>7 DEF FilesInductive
<1> QED BY <1>6, <1>7

LEMMA KeepFileStep ==
  ASSUME FilesInductive, NEW p \in Process, KeepFile(p)
  PROVE  FilesInductive'
<1>1. rows' = [rows EXCEPT ![work[p].id] = @ \cup {work[p].path}]
  BY DEF KeepFile, FilesInductive, FilesTypes
<1> QED BY <1>1, OnwardsStep DEF KeepFile

LEMMA InsertRowStep ==
  ASSUME FilesInductive, NEW p \in Process, InsertRow(p)
  PROVE  FilesInductive'
  BY OnwardsStep DEF InsertRow

LEMMA SaveFileStep ==
  ASSUME FilesInductive, NEW p \in Process, SaveFile(p)
  PROVE  FilesInductive'
<1> DEFINE w == work[p]
<1>1. /\ w.step = "save" /\ UNCHANGED <<cur, rows, unpacked>>
      /\ file' = [file EXCEPT ![w.path] = w.id]
      /\ mixed' = (mixed \/ w.id # cur)
      /\ work' = [work EXCEPT ![p].step = "insert"]
  BY DEF SaveFile
<1>2. w.id \in 1..cur /\ w.path \in Path /\ w.id \in Nat
  BY <1>1 DEF FilesInductive, FilesTypes, WorkOrdered
<1>3. FilesTypes' /\ NothingAhead' /\ UnpackedWhole'
  BY <1>1, <1>2 DEF FilesInductive, FilesTypes, NothingAhead, UnpackedWhole, Steps
<1>4. ~mixed' => ~mixed /\ w.id = cur
  BY <1>1 DEF FilesInductive, FilesTypes
<1>5. FilesServed'
  BY <1>1, <1>2, <1>4 DEF FilesInductive, FilesTypes, FilesServed
<1>6. WorkOrdered'
  BY <1>1, <1>2, <1>4 DEF FilesInductive, FilesTypes, WorkOrdered
<1> QED BY <1>3, <1>5, <1>6 DEF FilesInductive

LEMMA RepublishStep ==
  ASSUME FilesInductive, Republish
  PROVE  FilesInductive'
<1>1. cur' = cur + 1 /\ cur < MaxPubs /\ UNCHANGED <<file, rows, work, unpacked, mixed>>
  BY DEF Republish
<1>2. cur \in Nat /\ MaxPubs \in Nat /\ cur + 1 \in Pubs
  BY <1>1, FilesAssumption DEF FilesInductive, FilesTypes, Pubs
<1>3. FilesTypes' /\ NothingAhead' /\ UnpackedWhole'
  BY <1>1, <1>2, FilesAssumption
     DEF FilesInductive, FilesTypes, NothingAhead, UnpackedWhole, Pubs
<1>4. rows[cur + 1] = {}
  BY <1>2 DEF FilesInductive, NothingAhead
<1>5. FilesServed'
  BY <1>1, <1>4 DEF FilesServed
<1>6. WorkOrdered'
  BY <1>1, <1>2 DEF FilesInductive, FilesTypes, WorkOrdered
<1> QED BY <1>3, <1>5, <1>6 DEF FilesInductive

LEMMA FilesStep ==
  ASSUME FilesInductive, [FilesNext]_filesVars
  PROVE  FilesInductive'
<1>1. CASE UNCHANGED <<cur, file, rows, work, unpacked, mixed>>
  BY <1>1 DEF FilesInductive, FilesTypes, WorkOrdered, NothingAhead, UnpackedWhole, FilesServed
<1>2. ASSUME NEW p \in Process, NotExtracted(p) \/ Throw(p) \/ Die(p)
      PROVE  FilesInductive'
  BY <1>2, Stops DEF NotExtracted, Throw, Die, Unpacking
<1>3. CASE Passes \/ UNCHANGED filesVars
  BY <1>1, <1>3 DEF Passes, filesVars
<1> QED
  BY <1>2, <1>3, ReadStep, TakeLockStep, SyncFilesStep, ExtractStep, KeepFileStep,
     SaveFileStep, InsertRowStep, UnlockStep, RepublishStep DEF FilesNext

-----------------------------------------------------------------------------
(* The theorems *)

\* What CacheAdapter's lock keeps true while files are unpacked under it.
THEOREM LockWhileUnpacking == FilesSpec => []LockInductive
<1>1. FilesInit => LockInductive
  BY LockBegins DEF FilesInit
<1> QED BY <1>1, LockKept, PTL DEF FilesSpec

\* The invariant that the theorems on files follow from: see FilesInductive.
THEOREM FilesInvariant == FilesSpec => []FilesInductive
<1>1. FilesInit => FilesInductive
  <2> SUFFICES ASSUME FilesInit PROVE FilesInductive
    OBVIOUS
  <2>1. cur = 1 /\ 1 \in Pubs /\ \A n \in Pubs : rows[n] = {}
    BY FilesAssumption DEF FilesInit, Pubs
  <2>2. FilesTypes
    BY <2>1 DEF FilesInit, FilesTypes, Idle, Steps
  <2>3. \A p \in Process : work[p].step = "idle"
    BY DEF FilesInit, Idle
  <2>4. WorkOrdered
    BY <2>3 DEF WorkOrdered
  <2>5. NothingAhead /\ UnpackedWhole /\ FilesServed
    BY <2>1 DEF FilesInit, NothingAhead, UnpackedWhole, FilesServed
  <2> QED BY <2>2, <2>4, <2>5 DEF FilesInductive
<1> QED BY <1>1, FilesStep, PTL DEF FilesSpec

\* A version that syncPackageVersionFiles has gone through to the end has a row
\* for each of its files, whoever else was unpacking it and broke off.
THEOREM UnpackedIsWhole == FilesSpec => []UnpackedWhole
<1>1. FilesInductive => UnpackedWhole
  BY DEF FilesInductive
<1> QED BY <1>1, FilesInvariant, PTL

\* A row (#savePackageVersionFile) is never there before its file, and the file
\* is that of the version, unless an older one was still unpacked over it.
THEOREM FilesAreServed == FilesSpec => []FilesServed
<1>1. FilesInductive => FilesServed
  BY DEF FilesInductive
<1> QED BY <1>1, FilesInvariant, PTL
=============================================================================
