------------------------------ MODULE UsingLock ------------------------------
(***************************************************************************)
(* CacheAdapter.lock, unlock and usingLock: a lease on a redis key, whose  *)
(* value says when the lease ends.  A publication, the unpacking of files  *)
(* and the sweep of timed-out tasks run under such a lock.                 *)
(*                                                                         *)
(* Every redis command is a step, and time may pass between any two.  All  *)
(* hosts and redis have one clock here.  The lock promises nothing while a *)
(* call of it takes longer than Delay, breaks off half way, or ends after  *)
(* the lease is over; `trouble' records that such a thing happened.        *)
(***************************************************************************)
EXTENDS Naturals

CONSTANTS
  Process,    \* those who use one lock
  Seconds,    \* the lease: 60 in the source
  Delay,      \* the time a call of lock or unlock may take
  MaxTime,    \* bound: the clock
  MaxFaults   \* bound: processes that die and redis commands that fail

ASSUME LeaseAssumption ==
  /\ Seconds \in Nat \ {0} /\ Delay \in Nat
  /\ 2 * Delay <= Seconds
  /\ MaxTime \in Nat /\ MaxFaults \in Nat

VARIABLES
  now,      \* Date.now(), and redis' clock
  key,      \* the value of the redis key, 0 when there is none
  ttl,      \* when redis will delete it, 0 when never
  pc,       \* where each process is
  began,    \* when its lock() or unlock() began
  seen,     \* existsTimestamp, as lock() read it
  stamp,    \* the timestamp of its own lease
  faults,   \* faults so far
  trouble   \* history: see above

vars == <<now, key, ttl, pc, began, seen, stamp, faults, trouble>>

\* Calls of lock and unlock under way.
InCall(p) == pc[p] \in {"compare", "set", "expire", "release"}

Init ==
  /\ now = 0 /\ key = 0 /\ ttl = 0
  /\ pc = [p \in Process |-> "idle"]
  /\ began = [p \in Process |-> 0]
  /\ seen = [p \in Process |-> 0]
  /\ stamp = [p \in Process |-> 0]
  /\ faults = 0
  /\ trouble = FALSE

Goto(p, label) == pc' = [pc EXCEPT ![p] = label]

Leave(p) ==
  /\ Goto(p, "idle")
  /\ began' = [began EXCEPT ![p] = 0]
  /\ stamp' = [stamp EXCEPT ![p] = 0]

-----------------------------------------------------------------------------
(* lock *)

\* GET.  Without a key the timestamp of the new lease is taken at once.
Get(p) ==
  /\ pc[p] = "idle"
  /\ began' = [began EXCEPT ![p] = now]
  /\ seen' = [seen EXCEPT ![p] = key]
  /\ IF key = 0
     THEN Goto(p, "set") /\ stamp' = [stamp EXCEPT ![p] = now + Seconds]
     ELSE Goto(p, "compare") /\ UNCHANGED stamp
  /\ UNCHANGED <<now, key, ttl, faults, trouble>>

\* The key's timestamp is less than `seconds' in the past, or still to come.
Refuse(p) ==
  /\ pc[p] = "compare" /\ now < seen[p] + Seconds
  /\ Leave(p)
  /\ seen' = [seen EXCEPT ![p] = 0]
  /\ UNCHANGED <<now, key, ttl, faults, trouble>>

\* "lock timeout, delete it": DEL of whatever is there by now.
DeleteExpired(p) ==
  /\ pc[p] = "compare" /\ now >= seen[p] + Seconds
  /\ key' = 0 /\ ttl' = 0
  /\ stamp' = [stamp EXCEPT ![p] = now + Seconds]
  /\ seen' = [seen EXCEPT ![p] = 0]
  /\ Goto(p, "set")
  /\ UNCHANGED <<now, began, faults, trouble>>

\* Mutant: SET instead of SETNX.
SetAnyway(p) ==
  /\ pc[p] = "set"
  /\ key' = stamp[p] /\ ttl' = 0
  /\ Goto(p, "expire")
  /\ UNCHANGED <<now, began, seen, stamp, faults, trouble>>

SetNx(p) ==
  /\ pc[p] = "set"
  /\ IF key = 0
     THEN key' = stamp[p] /\ Goto(p, "expire") /\ UNCHANGED <<began, stamp>>
     ELSE UNCHANGED key /\ Leave(p)
  /\ UNCHANGED <<now, ttl, seen, faults, trouble>>

\* Mutant: the key is to stay until it is deleted.
NeverExpire(p) ==
  /\ pc[p] = "expire"
  /\ Goto(p, "run")
  /\ UNCHANGED <<now, key, ttl, began, seen, stamp, faults, trouble>>

\* EXPIRE, of whatever key is there.
Expire(p) ==
  /\ pc[p] = "expire"
  /\ ttl' = IF key = 0 THEN 0 ELSE now + Seconds
  /\ began' = [began EXCEPT ![p] = 0]
  /\ Goto(p, "run")
  /\ UNCHANGED <<now, key, seen, stamp, faults, trouble>>

-----------------------------------------------------------------------------
(* usingLock: func, then unlock *)

\* func returns or throws; unlock begins with a GET.
Finish(p) ==
  /\ pc[p] = "run"
  /\ IF key = stamp[p]
     THEN /\ Goto(p, "release")
          /\ began' = [began EXCEPT ![p] = now]
          /\ UNCHANGED stamp
     ELSE Leave(p)
  /\ UNCHANGED <<now, key, ttl, seen, faults, trouble>>

\* DEL, of whatever key is there.
Release(p) ==
  /\ pc[p] = "release"
  /\ key' = 0 /\ ttl' = 0
  /\ Leave(p)
  /\ trouble' = (trouble \/ now >= stamp[p])
  /\ UNCHANGED <<now, seen, faults>>

-----------------------------------------------------------------------------
(* Time and faults *)

Tick ==
  /\ now < MaxTime
  /\ now' = now + 1
  /\ IF ttl # 0 /\ ttl <= now + 1
     THEN key' = 0 /\ ttl' = 0
     ELSE UNCHANGED <<key, ttl>>
  /\ trouble' = (trouble \/ \E p \in Process : InCall(p) /\ began[p] + Delay <= now)
  /\ UNCHANGED <<pc, began, seen, stamp, faults>>

\* The process dies, or a redis command throws.  Between SETNX and EXPIRE this
\* leaves a key that redis will never delete.
Fail(p) ==
  /\ pc[p] # "idle" /\ faults < MaxFaults
  /\ Leave(p)
  /\ seen' = [seen EXCEPT ![p] = 0]
  /\ faults' = faults + 1
  /\ trouble' = (trouble \/ pc[p] = "expire")
  /\ UNCHANGED <<now, key, ttl>>

Next ==
  \/ \E p \in Process :
       \/ Get(p) \/ Refuse(p) \/ DeleteExpired(p) \/ SetNx(p) \/ Expire(p)
       \/ Finish(p) \/ Release(p) \/ Fail(p)
  \/ Tick

Spec == Init /\ [][Next]_vars

-----------------------------------------------------------------------------
(* Properties *)

\* func runs, and the lease it runs under is not over.
Running(p) == pc[p] = "run" /\ now < stamp[p]

\* Whatever crashes, waits or overlaps, two leases on one lock never run at the
\* same time, as long as no call of the lock itself went wrong.
LeasesExclusive ==
  ~trouble => \A p, q \in Process : Running(p) /\ Running(q) => p = q

\* A lock is free again when its lease and one call's delay are over, also when
\* its holder died or works on: nobody is locked out for longer.
LockExpires == ~trouble /\ key # 0 => now < key + Delay

-----------------------------------------------------------------------------
(* The inductive invariant *)

LockTypes ==
  /\ now \in Nat /\ key \in Nat /\ ttl \in Nat /\ trouble \in BOOLEAN
  /\ pc \in [Process -> {"idle", "compare", "set", "expire", "run", "release"}]
  /\ began \in [Process -> Nat] /\ seen \in [Process -> Nat]
  /\ stamp \in [Process -> Nat]

\* A lease from its creation in redis to the end of unlock, or of its time.
Leased(p) == pc[p] \in {"expire", "run", "release"} /\ now < stamp[p]

\* Calls are as prompt as Delay says; what they read and wrote is as old.
CallsPrompt ==
  \A p \in Process :
    /\ InCall(p) => began[p] <= now /\ now <= began[p] + Delay
    /\ pc[p] \in {"set", "expire"} => began[p] + Seconds <= stamp[p]
    /\ pc[p] = "set" => stamp[p] <= now + Seconds
    /\ pc[p] = "compare" => began[p] < seen[p] + Delay

\* The key is the lease's, and stays at least as long.
KeyOfLease ==
  \A p \in Process : Leased(p) =>
    /\ key = stamp[p] /\ key <= now + Seconds
    /\ pc[p] # "expire" => ttl # 0
    /\ ttl # 0 => ttl >= stamp[p]
    /\ \A q \in Process : Leased(q) => p = q

\* The key does not stay much longer than its lease.
KeyEnds ==
  /\ ttl # 0 => now < ttl /\ ttl <= key + Delay
  /\ key # 0 /\ ttl = 0 =>
       \E p \in Process : pc[p] = "expire" /\ stamp[p] = key
  /\ key = 0 => ttl = 0

LockInductive ==
  /\ LockTypes
  /\ ~trouble => CallsPrompt /\ KeyOfLease /\ KeyEnds
=============================================================================
