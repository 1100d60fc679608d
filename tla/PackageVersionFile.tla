-------------------------- MODULE PackageVersionFile --------------------------
(***************************************************************************)
(* PackageVersionFileService on one version of one package: its tarball is *)
(* unpacked into the object store, a row for every file.  Whoever reads    *)
(* files of a version without rows unpacks it first, under a lock of       *)
(* CacheAdapter (UsingLock, whose processes and clock these are); the      *)
(* event of a published version and an administrator's PUT unpack it       *)
(* without the lock and whatever rows there are.                           *)
(*                                                                         *)
(* The version can be removed and published again: the new one has another *)
(* packageVersionId, here a number, but stores its files at the same paths.*)
(* The lock is one per packageVersionId; its key here is the key of        *)
(* whichever ids are read under it.  That an older id's lock keeps no      *)
(* reader of a newer id waiting is in SyncFiles: what such a reader does   *)
(* to files and rows is what one without the lock does.                    *)
(*                                                                         *)
(* Reading rows and streams changes nothing and is left out, and so are    *)
(* the readme, what lies in subdirectories, and types and sizes.           *)
(***************************************************************************)
EXTENDS UsingLock, FiniteSets

CONSTANTS
  Path,       \* the files of the tarball, numbers in its order
  MaxPubs     \* bound: publications of the version

ASSUME FilesAssumption == Path \subseteq Nat \ {0} /\ Path # {} /\ MaxPubs \in Nat \ {0}

VARIABLES
  cur,       \* packageVersionId of the version
  file,      \* path -> whose content is in the object store, 0 when nothing is
  rows,      \* packageVersionId -> paths with a row
  work,      \* what each process is doing: see Idle
  unpacked,  \* history: the ids some process has unpacked to the end
  mixed      \* history: an older version was still unpacked after the next was published

lockVars == <<now, key, ttl, pc, began, seen, stamp, faults, trouble>>
filesVars == <<lockVars, cur, file, rows, work, unpacked, mixed>>

Pubs == 1..MaxPubs

\* At rest: the step, the version being unpacked, the path it has come to, and
\* whether for a reader, under the lock.
Idle == [step |-> "idle", id |-> 0, path |-> 0, locked |-> FALSE]
Begun(step, locked) == [step |-> step, id |-> cur, path |-> 0, locked |-> locked]

FilesInit ==
  /\ Init
  /\ cur = 1
  /\ file = [x \in Path |-> 0]
  /\ rows = [n \in Pubs |-> {}]
  /\ work = [p \in Process |-> Idle]
  /\ unpacked = {} /\ mixed = FALSE

Unpacking(p) == work[p].step \in {"check", "save", "insert"}

\* The version is removed and published again.
Republish ==
  /\ cur < MaxPubs
  /\ cur' = cur + 1
  /\ UNCHANGED <<lockVars, file, rows, work, unpacked, mixed>>

-----------------------------------------------------------------------------
(* Who unpacks *)

\* A reader finds no row and goes for the lock.
Read(p) ==
  /\ work[p].step = "idle" /\ rows[cur] = {}
  /\ Get(p)
  /\ work' = [work EXCEPT ![p] = Begun("lock", TRUE)]
  /\ UNCHANGED <<cur, file, rows, unpacked, mixed>>

\* lock() goes on.  Who does not get it answers with a ConflictError.
TakeLock(p) ==
  /\ work[p].step = "lock"
  /\ Refuse(p) \/ DeleteExpired(p) \/ SetNx(p) \/ Expire(p)
  /\ work' = [work EXCEPT ![p] = IF pc'[p] = "idle" THEN Idle
                                 ELSE IF pc'[p] = "run" THEN [@ EXCEPT !.step = "check"]
                                 ELSE @]
  /\ UNCHANGED <<cur, file, rows, unpacked, mixed>>

\* PACKAGE_VERSION_ADDED, or PUT /:fullname/:versionSpec/files; or a reader
\* who has the lock of its id while another id's is held.
SyncFiles(p) ==
  /\ work[p].step = "idle"
  /\ work' = [work EXCEPT ![p] = Begun("check", FALSE)]
  /\ UNCHANGED <<lockVars, cur, file, rows, unpacked, mixed>>

-----------------------------------------------------------------------------
(* syncPackageVersionFiles *)

\* The function returns or throws: the lock, if any, is given back next.
Leaves(p) ==
  work' = [work EXCEPT ![p] = IF @.locked THEN [@ EXCEPT !.step = "unlock", !.path = 0] ELSE Idle]

FirstPath == CHOOSE x \in Path : \A y \in Path : x <= y
After(x) == {y \in Path : y > x}
Least(S) == CHOOSE y \in S : \A z \in S : y <= z

\* The white list allows the version, its tarball is downloaded and extracted.
Extract(p) ==
  /\ work[p].step = "check"
  /\ work' = [work EXCEPT ![p].step = "save", ![p].path = FirstPath]
  /\ UNCHANGED <<lockVars, cur, file, rows, unpacked, mixed>>

\* The white list does not allow it, or the tarball is no archive.
NotExtracted(p) ==
  /\ work[p].step = "check"
  /\ Leaves(p)
  /\ UNCHANGED <<lockVars, cur, file, rows, unpacked, mixed>>

\* The path is done; on to the next one, or to the end.
Onwards(p) ==
  LET rest == After(work[p].path)
  IN IF rest = {}
     THEN Leaves(p) /\ unpacked' = unpacked \cup {work[p].id}
     ELSE /\ work' = [work EXCEPT ![p].step = "save", ![p].path = Least(rest)]
          /\ UNCHANGED unpacked

\* Mutant: a file that has a row means the version is unpacked already.
KeepFileDone(p) ==
  /\ work[p].step = "save" /\ work[p].path \in rows[work[p].id]
  /\ Leaves(p) /\ unpacked' = unpacked \cup {work[p].id}
  /\ UNCHANGED <<lockVars, cur, file, rows, mixed>>

\* A file with a row is kept as it is.
KeepFile(p) ==
  /\ work[p].step = "save" /\ work[p].path \in rows[work[p].id]
  /\ Onwards(p)
  /\ UNCHANGED <<lockVars, cur, file, rows, mixed>>

\* Mutant: the row first.
SaveFileRow(p) ==
  LET w == work[p]
  IN /\ w.step = "save" /\ w.path \notin rows[w.id]
     /\ rows' = [rows EXCEPT ![w.id] = @ \cup {w.path}]
     /\ work' = [work EXCEPT ![p].step = "insert"]
     /\ UNCHANGED <<lockVars, cur, file, unpacked, mixed>>

SaveFile(p) ==
  LET w == work[p]
  IN /\ w.step = "save" /\ w.path \notin rows[w.id]
     /\ file' = [file EXCEPT ![w.path] = w.id]
     /\ mixed' = (mixed \/ w.id # cur)
     /\ work' = [work EXCEPT ![p].step = "insert"]
     /\ UNCHANGED <<lockVars, cur, rows, unpacked>>

\* A row that was inserted meanwhile is a duplicate, and ignored.
InsertRow(p) ==
  LET w == work[p]
  IN /\ w.step = "insert"
     /\ rows' = [rows EXCEPT ![w.id] = @ \cup {w.path}]
     /\ Onwards(p)
     /\ UNCHANGED <<lockVars, cur, file, mixed>>

\* A download, an upload or an insert throws.
Throw(p) ==
  /\ Unpacking(p) /\ faults < MaxFaults
  /\ Leaves(p)
  /\ faults' = faults + 1
  /\ UNCHANGED <<now, key, ttl, pc, began, seen, stamp, trouble, cur, file, rows, unpacked, mixed>>

\* unlock, in usingLock's finally.
Unlock(p) ==
  /\ work[p].step = "unlock"
  /\ Finish(p) \/ Release(p)
  /\ work' = [work EXCEPT ![p] = IF pc'[p] = "idle" THEN Idle ELSE @]
  /\ UNCHANGED <<cur, file, rows, unpacked, mixed>>

\* The process dies anywhere, or redis fails in lock or unlock.
Die(p) ==
  /\ \/ Fail(p)
     \/ /\ pc[p] = "idle" /\ work[p].step # "idle" /\ faults < MaxFaults
        /\ faults' = faults + 1
        /\ UNCHANGED <<now, key, ttl, pc, began, seen, stamp, trouble>>
  /\ work' = [work EXCEPT ![p] = Idle]
  /\ UNCHANGED <<cur, file, rows, unpacked, mixed>>

Passes == Tick /\ UNCHANGED <<cur, file, rows, work, unpacked, mixed>>

FilesNext ==
  \/ \E p \in Process :
       \/ Read(p) \/ TakeLock(p) \/ SyncFiles(p) \/ Extract(p) \/ NotExtracted(p)
       \/ KeepFile(p) \/ SaveFile(p) \/ InsertRow(p) \/ Throw(p) \/ Unlock(p) \/ Die(p)
  \/ Passes \/ Republish

FilesSpec == FilesInit /\ [][FilesNext]_filesVars

-----------------------------------------------------------------------------
(* Properties *)

\* A version that someone has unpacked to the end has all its files, whoever
\* else was unpacking it and broke off.
UnpackedWhole == \A n \in unpacked : rows[n] = Path

\* A row is never there before its file, and the file is that of the version:
\* a reader is served what it asked for, unless an older version of the same
\* number was still unpacked over it.
FilesServed == ~mixed => \A x \in rows[cur] : file[x] = cur
=============================================================================
