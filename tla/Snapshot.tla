------------------------------ MODULE Snapshot ------------------------------
(***************************************************************************)
(* Cold backups (src/microverse/world/snapshot.py): taking an archive of   *)
(* the data directory from the run loop, with its circuit breaker and its  *)
(* retention, and an operator restoring one while the process is down.     *)
(* Each step is one operation on the file system, so that any of them can  *)
(* raise, those that clean up after another one too, and a kill can come   *)
(* between any two.                                                        *)
(*                                                                         *)
(* The contents of the data directory are abstracted to the number of      *)
(* writes they hold. Archive names sort by time (a UTC second and a        *)
(* counter), so the archives are a sequence, oldest first.                 *)
(***************************************************************************)
EXTENDS Integers, Sequences, SequencesExt

CONSTANTS
  InsideData,     \* snapshots_dir is in data_dir, where run() puts it
  Sizes,          \* the sizes an archive can have
  RetentionCount, \* SNAPSHOT_RETENTION_COUNT
  RetentionBytes, \* SNAPSHOT_RETENTION_BYTES
  MaxFailures,    \* SnapshotGuard.max_consecutive_failures
  NoDir,          \* the contents of a directory that does not exist
  Partial,        \* the contents of one that is half written
  MaxWrites,      \* bound: writes to the data directory
  MaxAttempts,    \* bound: snapshots that fall due
  MaxRestores,    \* bound: restores an operator starts
  MaxFaults,      \* bound: operations that raise
  MaxKills        \* bound: processes killed or stopped

ASSUME SnapshotAssumption ==
  /\ InsideData \in BOOLEAN /\ Sizes \subseteq Nat
  /\ RetentionCount \in Nat /\ RetentionBytes \in Nat
  /\ MaxFailures \in Nat \ {0}
  /\ NoDir \notin Nat /\ Partial \notin Nat /\ NoDir # Partial
  /\ MaxWrites \in Nat /\ MaxAttempts \in Nat /\ MaxRestores \in Nat
  /\ MaxFaults \in Nat /\ MaxKills \in Nat

VARIABLES
  pc,        \* what the process, or the operator, is in the middle of
  data,      \* contents of data_dir
  archives,  \* the *.tar.gz files of snapshots_dir
  tmps,      \* how many *.tar.gz.tmp files there are
  staging,   \* contents of <data_dir>.restore.tmp
  backup,    \* <data_dir>.restore.bak: contents and the archives in it
  restoring, \* the archive being restored
  moved,     \* restore_snapshot's `backup is not None`
  failures, disabled, \* SnapshotGuard
  attempts, restores, faults, kills, \* bounds
  torn,      \* history: a restore ended between its renames, and left no data_dir
  precious   \* history: the contents that a failing restore must keep

vars == <<pc, data, archives, tmps, staging, backup, restoring, moved,
          failures, disabled, attempts, restores, faults, kills, torn, precious>>
guard  == <<failures, disabled>>
bounds == <<attempts, restores, faults, kills>>
restoreVars == <<staging, backup, restoring, moved, torn>>

NoBackup == [contents |-> NoDir, archives |-> <<>>]

Init ==
  /\ pc = "run"
  /\ data = 0 /\ archives = <<>> /\ tmps = 0
  /\ staging = NoDir /\ backup = NoBackup /\ restoring = NoDir /\ moved = FALSE
  /\ failures = 0 /\ disabled = FALSE
  /\ attempts = 0 /\ restores = 0 /\ faults = 0 /\ kills = 0
  /\ torn = FALSE /\ precious = 0

Raises == faults < MaxFaults /\ faults' = faults + 1

-----------------------------------------------------------------------------
(* The run loop: _run_periodic_maintenance. *)

Write ==
  /\ pc = "run"
  /\ data < MaxWrites
  /\ data' = data + 1
  /\ precious' = data'
  /\ UNCHANGED <<pc, archives, tmps, restoreVars, guard, bounds>>

Due == pc = "run" /\ ~disabled /\ attempts < MaxAttempts /\ attempts' = attempts + 1

(* A competing reader or writer keeps the checkpoint from truncating the   *)
(* WAL: SnapshotBusyError, which the breaker does not count.               *)
CheckpointBusy ==
  /\ Due
  /\ UNCHANGED <<pc, data, archives, tmps, restoreVars, guard, restores, faults, kills,
                 precious>>

(* record_failure *)
RecordFailure ==
  /\ failures' = failures + 1
  /\ disabled' = (failures + 1 >= MaxFailures)

CheckpointRaises ==
  /\ Due
  /\ Raises
  /\ RecordFailure
  /\ UNCHANGED <<pc, data, archives, tmps, restoreVars, restores, kills, precious>>

(* The archive written under its final name from the start. *)
BeginArchiveInPlace ==
  /\ Due
  /\ pc' = "archive"
  /\ tmps' = tmps + 1
  /\ archives' = Append(archives, [contents |-> Partial, size |-> 0])
  /\ UNCHANGED <<data, restoreVars, guard, restores, faults, kills, precious>>

(* The WAL is truncated; the archive is built in a .tmp file. *)
BeginArchive ==
  /\ Due
  /\ pc' = "archive"
  /\ tmps' = tmps + 1
  /\ UNCHANGED <<data, archives, restoreVars, guard, restores, faults, kills, precious>>

(* tar.add or the rename raises: the .tmp file is unlinked. *)
ArchiveRaises ==
  /\ pc = "archive"
  /\ Raises
  /\ tmps' = tmps - 1
  /\ RecordFailure
  /\ pc' = "run"
  /\ UNCHANGED <<data, archives, restoreVars, attempts, restores, kills, precious>>

(* And the unlink raises in its turn: the .tmp file stays. *)
UnlinkRaises ==
  /\ pc = "archive"
  /\ faults + 2 <= MaxFaults
  /\ faults' = faults + 2
  /\ RecordFailure
  /\ pc' = "run"
  /\ UNCHANGED <<data, archives, tmps, restoreVars, attempts, restores, kills, precious>>

(* tmp.replace(archive), then record_success. *)
Publish ==
  /\ pc = "archive"
  /\ tmps' = tmps - 1
  /\ \E size \in Sizes :
       archives' = Append(archives, [contents |-> data, size |-> size])
  /\ failures' = 0
  /\ pc' = "prune"
  /\ UNCHANGED <<data, restoreVars, disabled, bounds, precious>>

Bytes(as) == FoldLeft(LAMBDA total, a : total + a.size, 0, as)

(* A count cap that is off by one. *)
FitsOneMore(as) == Len(as) <= RetentionCount + 1 /\ Bytes(as) <= RetentionBytes

(* Both bounds of prune_snapshots hold. *)
Fits(as) == Len(as) <= RetentionCount /\ Bytes(as) <= RetentionBytes

Without(k, as) == SubSeq(as, k + 1, Len(as))

(* Retention that also gives up the newest archive. *)
ToDropAll ==
  CHOOSE k \in 0 .. Len(archives) :
    /\ k = Len(archives) \/ Fits(Without(k, archives))
    /\ \A j \in 0 .. k - 1 : ~Fits(Without(j, archives))

(* How many of the oldest archives prune_snapshots deletes: until both     *)
(* bounds hold or only the newest is left.                                 *)
ToDrop ==
  CHOOSE k \in 0 .. Len(archives) - 1 :
    /\ k = Len(archives) - 1 \/ Fits(Without(k, archives))
    /\ \A j \in 0 .. k - 1 : ~Fits(Without(j, archives))

Prune ==
  /\ pc = "prune"
  /\ archives' = Without(ToDrop, archives)
  /\ pc' = "run"
  /\ UNCHANGED <<data, tmps, restoreVars, guard, bounds, precious>>

(* The glob, a stat or an unlink raises: the archives deleted before it are*)
(* gone, and the caller goes on.                                           *)
PruneRaises ==
  /\ pc = "prune"
  /\ Raises
  /\ \E k \in 0 .. ToDrop : archives' = Without(k, archives)
  /\ pc' = "run"
  /\ UNCHANGED <<data, tmps, restoreVars, guard, attempts, restores, kills, precious>>

-----------------------------------------------------------------------------
(* The process ends; another one starts. *)

Kill ==
  /\ pc \in {"run", "archive", "prune"}
  /\ kills < MaxKills
  /\ kills' = kills + 1
  /\ pc' = "down"
  /\ UNCHANGED <<data, archives, tmps, restoreVars, guard, attempts, restores, faults, precious>>

(* run() creates a missing data_dir, and a SnapshotGuard of its own.       *)
Start ==
  /\ pc = "down"
  /\ pc' = "run"
  /\ data' = IF data = NoDir THEN 0 ELSE data
  /\ precious' = data'
  /\ failures' = 0 /\ disabled' = FALSE
  /\ torn' = FALSE
  /\ UNCHANGED <<archives, tmps, staging, backup, restoring, moved, bounds>>

-----------------------------------------------------------------------------
(* restore_snapshot, run by an operator. *)

Restoring == pc = "down" /\ restores < MaxRestores /\ restores' = restores + 1

(* The archive is chosen; an old staging is removed and a new one made. *)
BeginRestore ==
  /\ Restoring
  /\ \E a \in ToSet(archives \o backup.archives) : restoring' = a.contents
  /\ staging' = Partial
  /\ pc' = "extract"
  /\ UNCHANGED <<data, archives, tmps, backup, moved, torn, guard, attempts, faults, kills, precious>>

(* The rmtree of an old staging, or the mkdir of the new one, raises. *)
StageRaises ==
  /\ Restoring
  /\ archives \o backup.archives # <<>>
  /\ Raises
  /\ staging' \in {NoDir} \cup (IF staging = NoDir THEN {} ELSE {staging, Partial})
  /\ UNCHANGED <<pc, data, archives, tmps, backup, restoring, moved, torn, guard, attempts, kills,
                 precious>>

Extract ==
  /\ pc = "extract"
  /\ staging' = restoring
  /\ pc' = "aside"
  /\ UNCHANGED <<data, archives, tmps, backup, restoring, moved, torn, guard, bounds, precious>>

(* rmtree with ignore_errors may leave something of the staging.           *)
ExtractRaises ==
  /\ pc = "extract"
  /\ Raises
  /\ staging' \in {NoDir, Partial}
  /\ pc' = "down"
  /\ UNCHANGED <<data, archives, tmps, backup, restoring, moved, torn, guard, attempts, restores,
                 kills, precious>>

SubSequences(as) ==
  UNION {{[i \in 1 .. n |-> as[at[i]]] :
            at \in {f \in [1 .. n -> DOMAIN as] : \A i \in 2 .. n : f[i - 1] < f[i]}} :
         n \in 0 .. Len(as)}

(* What an rmtree of a backup can leave when it fails or is killed: all of *)
(* it, or any of its files.                                                *)
Remains(b) ==
  {b} \cup (IF b.contents = NoDir THEN {}
           ELSE {[contents |-> Partial, archives |-> as] : as \in SubSequences(b.archives)})

(* The backup of an earlier restore removed whether or not there is a      *)
(* data_dir to take its place.                                             *)
DropOldBackupAlways ==
  /\ pc = "aside"
  /\ backup.contents # NoDir
  /\ backup' = NoBackup
  /\ UNCHANGED <<pc, data, archives, tmps, staging, restoring, moved, torn, guard, bounds, precious>>

(* Where there is a data_dir, the backup of an earlier restore is removed. *)
DropOldBackup ==
  /\ pc = "aside"
  /\ data # NoDir
  /\ backup.contents # NoDir
  /\ backup' = NoBackup
  /\ UNCHANGED <<pc, data, archives, tmps, staging, restoring, moved, torn, guard, bounds, precious>>

(* Then data_dir becomes the backup, and takes the archives in it along.   *)
MoveAside ==
  /\ pc = "aside"
  /\ data # NoDir => backup.contents = NoDir
  /\ moved' = (data # NoDir)
  /\ IF data = NoDir THEN UNCHANGED <<backup, archives>>
     ELSE IF InsideData
     THEN backup' = [contents |-> data, archives |-> archives] /\ archives' = <<>>
     ELSE backup' = [NoBackup EXCEPT !.contents = data] /\ UNCHANGED archives
  /\ data' = NoDir
  /\ pc' = "replace"
  /\ UNCHANGED <<tmps, staging, restoring, torn, guard, bounds, precious>>

(* The rmtree or the rename raises, outside any try: the staging is left.  *)
AsideRaises ==
  /\ pc = "aside"
  /\ data # NoDir
  /\ Raises
  /\ backup' \in Remains(backup)
  /\ pc' = "down"
  /\ UNCHANGED <<data, archives, tmps, staging, restoring, moved, torn, guard, attempts, restores,
                 kills, precious>>

Replace ==
  /\ pc = "replace"
  /\ data' = staging
  /\ staging' = NoDir
  /\ precious' = restoring
  /\ torn' = FALSE
  /\ pc' = "drop"
  /\ UNCHANGED <<archives, tmps, backup, restoring, moved, guard, bounds>>

(* staging.replace raises and nothing is rolled back.                      *)
ReplaceRaisesNoRollback ==
  /\ pc = "replace"
  /\ Raises
  /\ staging' \in {NoDir, Partial}
  /\ pc' = "down"
  /\ UNCHANGED <<data, archives, tmps, backup, restoring, moved, torn, guard, attempts, restores,
                 kills, precious>>

(* staging.replace raises: if there is a backup, it is rolled back first.  *)
ReplaceRaises ==
  /\ pc = "replace"
  /\ Raises
  /\ IF moved THEN pc' = "rollback" /\ UNCHANGED staging
     ELSE pc' = "down" /\ staging' \in {NoDir, Partial}
  /\ UNCHANGED <<data, archives, tmps, backup, restoring, moved, torn, guard, attempts, restores,
                 kills, precious>>

(* The backup becomes data_dir again.                                      *)
Rollback ==
  /\ pc = "rollback"
  /\ data' = backup.contents
  /\ archives' = archives \o backup.archives
  /\ backup' = NoBackup
  /\ staging' \in {NoDir, Partial}
  /\ pc' = "down"
  /\ UNCHANGED <<tmps, restoring, moved, torn, guard, bounds, precious>>

(* That rename raises too: there is a backup and a staging, and no         *)
(* data_dir.                                                               *)
RollbackRaises ==
  /\ pc = "rollback"
  /\ Raises
  /\ torn' = TRUE
  /\ pc' = "down"
  /\ UNCHANGED <<data, archives, tmps, staging, backup, restoring, moved, guard, attempts, restores,
                 kills, precious>>

(* The backup goes, with the archives that were in data_dir, or as much of *)
(* it as rmtree with ignore_errors can remove.                             *)
DropBackup ==
  /\ pc = "drop"
  /\ backup' \in IF moved THEN {NoBackup} \cup Remains(backup) ELSE {backup}
  /\ pc' = "down"
  /\ UNCHANGED <<data, archives, tmps, staging, restoring, moved, torn, guard, bounds, precious>>

(* An rmtree of a backup may be under way.                                 *)
Deleting == (pc = "aside" /\ data # NoDir) \/ (pc = "drop" /\ moved)

(* The operator's process is killed between two of these steps, or in the  *)
(* middle of an rmtree.                                                    *)
KillRestore ==
  /\ pc \in {"extract", "aside", "replace", "rollback", "drop"}
  /\ kills < MaxKills
  /\ kills' = kills + 1
  /\ backup' \in IF Deleting THEN Remains(backup) ELSE {backup}
  /\ torn' = (data = NoDir)
  /\ pc' = "down"
  /\ UNCHANGED <<data, archives, tmps, staging, restoring, moved, guard, attempts, restores, faults,
                 precious>>

Next ==
  \/ Write
  \/ CheckpointBusy \/ CheckpointRaises
  \/ BeginArchive \/ ArchiveRaises \/ UnlinkRaises \/ Publish
  \/ Prune \/ PruneRaises
  \/ Kill \/ Start
  \/ BeginRestore \/ StageRaises \/ Extract \/ ExtractRaises
  \/ DropOldBackup \/ MoveAside \/ AsideRaises
  \/ Replace \/ ReplaceRaises \/ Rollback \/ RollbackRaises
  \/ DropBackup
  \/ KillRestore

Spec == Init /\ [][Next]_vars

-----------------------------------------------------------------------------

Contents == 0 .. MaxWrites

(* Every variable has its type; a directory is only ever incomplete as     *)
(* the staging or the backup of a restore, and a published archive never   *)
(* is.                                                                     *)
SnapshotTypeOK ==
  /\ pc \in {"run", "archive", "prune", "down", "extract", "aside", "replace", "rollback",
            "drop"}
  /\ data \in Contents \cup {NoDir}
  /\ archives \in Seq([contents : Contents, size : Sizes])
  /\ backup.contents \in Contents \cup {NoDir, Partial}
  /\ backup.archives \in Seq([contents : Contents, size : Sizes])
  /\ staging \in Contents \cup {NoDir, Partial} /\ restoring \in Contents \cup {NoDir}
  /\ tmps \in Nat /\ moved \in BOOLEAN
  /\ failures \in 0 .. MaxFailures /\ disabled \in BOOLEAN
  /\ precious \in Contents /\ torn \in BOOLEAN

(* Disk use is bounded (config.py:152-160): beyond the retention there is  *)
(* the archive just taken, and one archive or .tmp file for each kill and  *)
(* each failed prune.                                                      *)
DiskBounded ==
  Len(archives) + tmps <= (IF RetentionCount = 0 THEN 1 ELSE RetentionCount) + 1 + kills + faults

(* Retention never costs the newest archive, whatever its size, and what   *)
(* is left after a prune that raises nothing fits or is that one archive.  *)
PruneKeepsNewest ==
  [][pc = "prune" =>
       /\ archives' # <<>> /\ Last(archives') = Last(archives)
       /\ pc' = "run" /\ faults' = faults => Fits(archives') \/ Len(archives') = 1]_vars

(* A restore that raised left data_dir as it was, and one that returned    *)
(* left what the archive held; never a half-extracted tree, nor no tree at *)
(* all, but for a kill between the renames or a rollback that raises like  *)
(* the rename it undoes, until the next restore (snapshot.py:230-232).     *)
RestoreIsAtomic == pc \in {"run", "down"} /\ ~torn => data = precious

(* A restore cut short loses nothing while no process is started on what it*)
(* left: the contents are in data_dir or in the backup beside it, also when*)
(* the operator restores again over it, and whatever that one leaves.      *)
BackupHoldsContents == data = precious \/ backup.contents = precious

(* Snapshot keeps the promise of module Vault: whatever raises or is killed*)
(* between two file operations, the directory an operator finds changes by *)
(* a write of the program or by the archive of a restore and in one step,  *)
(* but for a process that is started where a restore left no data_dir.     *)
Vaults == INSTANCE Vault WITH
  visible     <- IF data # NoDir THEN data ELSE backup.contents,
  shelf       <- {a.contents : a \in ToSet(archives \o backup.archives)},
  chosen      <- IF pc \in {"extract", "aside", "replace", "rollback"} THEN restoring ELSE NoDir,
  interrupted <- torn,
  None        <- NoDir

KeepsVaultPromise == Vaults!Spec

(* Why it holds. While a restore has data_dir moved aside, or ended there, *)
(* the backup is what must be kept; otherwise data_dir is.                 *)
DataInv ==
  /\ data \in {precious, NoDir}
  /\ data = NoDir => backup.contents = precious
  /\ torn => data = NoDir
  /\ pc \in {"run", "archive", "prune", "drop"} => data # NoDir
  /\ pc \in {"replace", "rollback"} => data = NoDir
  /\ pc \in {"replace", "rollback"} /\ moved => ~torn
  /\ pc = "rollback" => moved
  /\ data = NoDir /\ ~torn => pc \in {"replace", "rollback"} /\ moved
  /\ pc \in {"extract", "aside", "replace", "rollback"} => restoring # NoDir
  /\ pc \in {"aside", "replace"} => staging = restoring

(* The breaker is open once it has counted MaxFailures.                    *)
BreakerInv ==
  /\ failures < MaxFailures \/ disabled
  /\ pc \in {"archive", "prune"} => ~disabled

Kept == IF RetentionCount = 0 THEN 1 ELSE RetentionCount

(* A .tmp file is one being written, or was left by a kill; an archive too *)
(* many is one just taken, or left by a kill or a failed prune. The        *)
(* archives a rollback brings back from the backup are not more.           *)
DiskInv ==
  /\ faults \in Nat /\ kills \in Nat
  /\ tmps <= kills + faults + (IF pc = "archive" THEN 1 ELSE 0)
  /\ pc = "archive" => tmps > 0
  /\ pc = "prune" => archives # <<>>
  /\ Len(archives) + tmps <=
       Kept + kills + faults + (IF pc \in {"archive", "prune"} THEN 1 ELSE 0)
  /\ pc \in {"replace", "rollback"} /\ moved =>
       /\ IF InsideData THEN archives = <<>> ELSE backup.archives = <<>>
       /\ Len(backup.archives) + tmps <= Kept + kills + faults

(* The inductive invariant. *)
SnapshotInv == SnapshotTypeOK /\ DataInv /\ BreakerInv /\ DiskInv

(* The comment of snapshot.py:251-253: if the rename of the staging fails, *)
(* the backup is restored, so that the user is never left with no data_dir.*)
(* A rollback that raises, without any kill, refutes it.                   *)
NeverWithoutDataDir == [][pc = "rollback" /\ kills' = kills => data' # NoDir]_vars
=============================================================================
