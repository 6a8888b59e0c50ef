--------------------------- MODULE SnapshotProofs ---------------------------
(***************************************************************************)
(* The invariants of Snapshot, for every retention, breaker limit and      *)
(* number of faults and kills, and the refinement of Vault. SnapshotInv of *)
(* Snapshot is inductive: a lemma for each of its parts, with a step for   *)
(* each action that touches the part.                                      *)
(***************************************************************************)
EXTENDS Snapshot, SequenceTheorems, WellFoundedInduction, TLAPS

USE SnapshotAssumption

Archive == [contents : Contents, size : Sizes]

-----------------------------------------------------------------------------
(* Retention. *)

(* A set of naturals has a least element.                                  *)
LEMMA LeastNatural ==
  ASSUME NEW T \in SUBSET Nat, T # {}
  PROVE  \E n \in T : \A m \in T : n <= m
<1> DEFINE Less == OpToRel(<, Nat)
<1>1. IsWellFoundedOn(Less, Nat)
  BY NatLessThanWellFounded
<1>2. \A m, n \in Nat : m < n => <<m, n>> \in Less
  BY DEF OpToRel
<1> HIDE DEF Less
<1>3. PICK n \in T : \A m \in T : ~ (<<m, n>> \in Less)
  BY <1>1, WFMin
<1>4. \A m \in T : ~ (m < n)
  BY <1>2, <1>3
<1> QED BY <1>4

(* prune_snapshots keeps the newest archive, and stops where both bounds   *)
(* hold or nothing else is left.                                           *)
LEMMA DropIs ==
  ASSUME archives \in Seq(Archive), archives # <<>>
  PROVE  /\ ToDrop \in 0 .. Len(archives) - 1
         /\ ToDrop = Len(archives) - 1 \/ Fits(Without(ToDrop, archives))
<1> DEFINE enough(k) == k = Len(archives) - 1 \/ Fits(Without(k, archives))
           T == {k \in 0 .. Len(archives) - 1 : enough(k)}
<1> HIDE DEF enough
<1>1. enough(Len(archives) - 1)
  BY DEF enough
<1>0. T \in SUBSET Nat /\ T # {}
  BY <1>1
<1>2. PICK k \in T : \A j \in T : k <= j
  <2> HIDE DEF T
  <2> QED BY <1>0, LeastNatural
<1>3. \A j \in 0 .. k - 1 : ~Fits(Without(j, archives))
  BY <1>2 DEF enough
<1>4. \E i \in 0 .. Len(archives) - 1 :
        enough(i) /\ \A j \in 0 .. i - 1 : ~Fits(Without(j, archives))
  BY <1>2, <1>3
<1>5. ToDrop \in 0 .. Len(archives) - 1 /\ enough(ToDrop)
  BY <1>4 DEF ToDrop, enough
<1> QED BY <1>5 DEF enough

(* What is left of the archives without the oldest k of them.              *)
LEMMA WithoutOldest ==
  ASSUME archives \in Seq(Archive), archives # <<>>, NEW k \in 0 .. Len(archives) - 1
  PROVE  /\ Without(k, archives) \in Seq(Archive)
         /\ Len(Without(k, archives)) = Len(archives) - k
         /\ Without(k, archives) # <<>>
         /\ Last(Without(k, archives)) = Last(archives)
         /\ ToSet(Without(k, archives)) \subseteq ToSet(archives)
<1> DEFINE rest == Without(k, archives)
<1>1. /\ rest \in Seq(Archive) /\ Len(rest) = Len(archives) - k
      /\ \A i \in 1 .. Len(rest) : rest[i] = archives[i + k]
  BY DEF Without
<1>2. rest # <<>> /\ DOMAIN rest = 1 .. Len(archives) - k
  BY <1>1
<1>3. Last(rest) = Last(archives)
  BY <1>1, <1>2 DEF Last
<1>4. ToSet(rest) \subseteq ToSet(archives)
  <2> SUFFICES ASSUME NEW i \in 1 .. Len(rest) PROVE rest[i] \in ToSet(archives)
    BY <1>1, <1>2 DEF ToSet
  <2>1. i + k \in DOMAIN archives /\ rest[i] = archives[i + k]
    BY <1>1
  <2> QED BY <2>1 DEF ToSet
<1> QED BY <1>1, <1>2, <1>3, <1>4

(* What a prune that raises nothing leaves fits, or is one archive.        *)
LEMMA PruneEffect ==
  ASSUME SnapshotInv, Prune
  PROVE  /\ archives' \in Seq(Archive) /\ archives' # <<>>
         /\ Len(archives') <= Len(archives) /\ Len(archives') <= Kept
         /\ Last(archives') = Last(archives)
         /\ ToSet(archives') \subseteq ToSet(archives)
         /\ Fits(archives') \/ Len(archives') = 1
<1>1. archives \in Seq(Archive) /\ archives # <<>>
  BY DEF SnapshotInv, SnapshotTypeOK, DiskInv, Archive, Prune
<1>2. archives' = Without(ToDrop, archives)
  BY DEF Prune
<1>3. /\ archives' \in Seq(Archive) /\ archives' # <<>>
      /\ Len(archives') = Len(archives) - ToDrop
      /\ Last(archives') = Last(archives)
      /\ ToSet(archives') \subseteq ToSet(archives)
  BY <1>1, <1>2, DropIs, WithoutOldest
<1>4. Fits(archives') \/ Len(archives') = 1
  BY <1>1, <1>2, <1>3, DropIs
<1>5. Len(archives') <= Kept
  BY <1>3, <1>4 DEF Fits, Kept
<1>6. Len(archives') <= Len(archives)
  BY <1>1, <1>3, DropIs
<1> QED BY <1>3, <1>4, <1>5, <1>6

(* A prune that raises has deleted some of what it would have.             *)
LEMMA PruneRaisesEffect ==
  ASSUME SnapshotInv, PruneRaises
  PROVE  /\ archives' \in Seq(Archive) /\ archives' # <<>>
         /\ Len(archives') <= Len(archives)
         /\ Last(archives') = Last(archives)
         /\ ToSet(archives') \subseteq ToSet(archives)
<1>1. archives \in Seq(Archive) /\ archives # <<>>
  BY DEF SnapshotInv, SnapshotTypeOK, DiskInv, Archive, PruneRaises
<1>2. PICK k \in 0 .. ToDrop : archives' = Without(k, archives)
  BY DEF PruneRaises
<1>3. k \in 0 .. Len(archives) - 1
  BY <1>1, <1>2, DropIs
<1> QED BY <1>1, <1>2, <1>3, WithoutOldest

(* Some of the archives of a directory, in their order.                    *)
LEMMA SubSequencesOf ==
  ASSUME NEW as \in Seq(Archive), NEW bs \in SubSequences(as)
  PROVE  bs \in Seq(Archive) /\ ToSet(bs) \subseteq ToSet(as)
<1> DEFINE rising(n) == {f \in [1 .. n -> DOMAIN as] : \A i \in 2 .. n : f[i - 1] < f[i]}
           picked(n) == {[i \in 1 .. n |-> as[at[i]]] : at \in rising(n)}
<1>1. PICK n \in 0 .. Len(as) : bs \in picked(n)
  BY Zenon DEF SubSequences
<1>2. PICK at \in rising(n) : bs = [i \in 1 .. n |-> as[at[i]]]
  BY <1>1, Zenon
<1>3. at \in [1 .. n -> DOMAIN as]
  BY <1>2, Zenon
<1>4. n \in Nat
  BY LenProperties
<1>5. \A k \in DOMAIN as : as[k] \in Archive
  BY LenProperties
<1> HIDE DEF rising, picked
<1>6. \A i \in 1 .. n : at[i] \in DOMAIN as
  BY <1>3
<1>7. DOMAIN bs = 1 .. n /\ \A i \in 1 .. n : bs[i] = as[at[i]]
  BY <1>2
<1>8. bs \in [1 .. n -> Archive]
  BY <1>2, <1>5, <1>6
<1>9. bs \in Seq(Archive)
  BY <1>4, <1>8, SeqDef
<1>10. ASSUME NEW i \in DOMAIN bs PROVE bs[i] \in ToSet(as)
  BY <1>6, <1>7, Zenon DEF ToSet
<1>11. ToSet(bs) \subseteq ToSet(as)
  BY <1>10, Zenon DEF ToSet
<1> QED BY <1>9, <1>11

(* What an rmtree leaves of a backup holds nothing new.                    *)
LEMMA RemainsOf ==
  ASSUME SnapshotTypeOK, backup' \in Remains(backup) \/ backup' = backup \/ backup' = NoBackup
  PROVE  /\ backup'.contents \in Contents \cup {NoDir, Partial}
         /\ backup'.archives \in Seq(Archive)
         /\ ToSet(backup'.archives) \subseteq ToSet(backup.archives)
<1>1. backup.archives \in Seq(Archive) /\ backup.contents \in Contents \cup {NoDir, Partial}
  BY DEF SnapshotTypeOK, Archive
<1>2. CASE backup' = backup
  BY <1>1, <1>2
<1>3. CASE backup' = NoBackup
  <2>1. ToSet(<<>>) = {} /\ <<>> \in Seq(Archive)
    BY DEF ToSet
  <2> QED BY <1>3, <2>1 DEF NoBackup
<1>4. CASE \E as \in SubSequences(backup.archives) :
             backup' = [contents |-> Partial, archives |-> as]
  <2>1. PICK as \in SubSequences(backup.archives) :
               backup' = [contents |-> Partial, archives |-> as]
    BY <1>4
  <2>2. backup'.contents = Partial /\ backup'.archives = as
    BY <2>1
  <2> QED BY <1>1, <2>2, SubSequencesOf
<1> QED BY <1>2, <1>3, <1>4 DEF Remains

(* A roll-back, which has a backup to go back to.                          *)
LEMMA RollbackEffect ==
  ASSUME SnapshotInv, Rollback
  PROVE  /\ data' = precious
         /\ archives' = archives \o backup.archives /\ archives' \in Seq(Archive)
         /\ backup'.contents = NoDir /\ backup'.archives = <<>>
<1>1. archives \in Seq(Archive) /\ backup.archives \in Seq(Archive)
  BY DEF SnapshotInv, SnapshotTypeOK, Archive
<1>2. archives' = archives \o backup.archives
  BY DEF Rollback
<1>3. archives' \in Seq(Archive)
  BY <1>1, <1>2
<1>4. data' = precious
  BY DEF Rollback, SnapshotInv, DataInv
<1> QED BY <1>2, <1>3, <1>4 DEF Rollback, NoBackup

(* A failure counts, and the last one that may be counted opens the breaker. *)
LEMMA FailureRecorded ==
  ASSUME RecordFailure, failures \in 0 .. MaxFailures, failures < MaxFailures
  PROVE  /\ failures' \in 0 .. MaxFailures /\ disabled' \in BOOLEAN
         /\ failures' < MaxFailures \/ disabled'
<1> DEFINE open == failures + 1 >= MaxFailures
<1>1. failures' = failures + 1 /\ failures' \in 0 .. MaxFailures
  BY DEF RecordFailure
<1>2. failures' < MaxFailures \/ open
  BY <1>1
<1>3. open \in BOOLEAN
  OBVIOUS
<1>4. disabled' = open
  BY DEF RecordFailure
<1> HIDE DEF open
<1>5. disabled' \in BOOLEAN /\ (failures' < MaxFailures \/ disabled')
  BY <1>2, <1>3, <1>4, Zenon
<1> QED BY <1>1, <1>5

(* What renaming data_dir does, as far as there was one.                   *)
LEMMA AsideEffect ==
  ASSUME SnapshotInv, MoveAside
  PROVE  /\ moved' \in BOOLEAN
         /\ archives' \in Seq(Archive) /\ backup'.archives \in Seq(Archive)
         /\ data = NoDir => ~moved' /\ UNCHANGED <<backup, archives>>
         /\ data # NoDir =>
              /\ moved' /\ backup'.contents = data
              /\ InsideData => backup'.archives = archives /\ archives' = <<>>
              /\ ~InsideData => backup'.archives = <<>> /\ archives' = archives
<1>0. archives \in Seq(Archive) /\ backup.archives \in Seq(Archive) /\ <<>> \in Seq(Archive)
  BY DEF SnapshotInv, SnapshotTypeOK, Archive
<1>1. CASE data = NoDir
  <2>1. moved' = FALSE /\ UNCHANGED <<backup, archives>>
    BY <1>1 DEF MoveAside
  <2> QED BY <1>0, <1>1, <2>1
<1>2. CASE data # NoDir
  <2>1. moved' = TRUE
    BY <1>2 DEF MoveAside
  <2>2. /\ backup'.contents = data
        /\ InsideData => backup'.archives = archives /\ archives' = <<>>
        /\ ~InsideData => backup'.archives = <<>> /\ archives' = archives
    BY <1>2 DEF MoveAside, NoBackup
  <2>3. archives' \in Seq(Archive) /\ backup'.archives \in Seq(Archive)
    BY <1>0, <2>2, SnapshotAssumption
  <2> QED BY <1>2, <2>1, <2>2, <2>3
<1> QED BY <1>1, <1>2

-----------------------------------------------------------------------------
(* The inductive invariant. *)

LEMMA SnapshotInit == Init => SnapshotInv
<1> SUFFICES ASSUME Init PROVE SnapshotInv
  OBVIOUS
<1> USE DEF Init
<1>1. SnapshotTypeOK
  <2>1. 0 \in Contents /\ failures \in 0 .. MaxFailures /\ tmps \in Nat
    BY DEF Contents
  <2>2. backup.contents = NoDir /\ backup.archives = <<>>
    BY DEF NoBackup
  <2>3. disabled \in BOOLEAN /\ moved \in BOOLEAN /\ torn \in BOOLEAN
    OBVIOUS
  <2> QED BY <2>1, <2>2, <2>3 DEF SnapshotTypeOK
<1>2. DataInv
  BY DEF DataInv
<1>3. BreakerInv
  BY DEF BreakerInv
<1>4. DiskInv
  BY DEF DiskInv, Kept
<1> QED BY <1>1, <1>2, <1>3, <1>4 DEF SnapshotInv

(* The types. *)
LEMMA TypeStep ==
  ASSUME SnapshotInv, [Next]_vars
  PROVE  SnapshotTypeOK'
<1> USE DEF SnapshotInv, SnapshotTypeOK
<1>1. CASE Write
  BY <1>1 DEF Write, DataInv, Contents, restoreVars, guard, bounds
<1>2. CASE CheckpointBusy \/ BeginArchive
  BY <1>2 DEF CheckpointBusy, BeginArchive, Due, restoreVars, guard
<1>3. CASE CheckpointRaises \/ ArchiveRaises \/ UnlinkRaises
  <2>1. /\ failures' \in 0 .. MaxFailures /\ disabled' \in BOOLEAN
    <3>1. RecordFailure /\ failures < MaxFailures
      BY <1>3 DEF CheckpointRaises, ArchiveRaises, UnlinkRaises, Due, BreakerInv
    <3> QED BY <3>1, FailureRecorded
  <2>2. tmps' \in Nat
    BY <1>3 DEF CheckpointRaises, ArchiveRaises, UnlinkRaises, DiskInv
  <2> QED
    BY <1>3, <2>1, <2>2 DEF CheckpointRaises, ArchiveRaises, UnlinkRaises, Due, restoreVars
<1>4. CASE Publish
  <2>1. data \in Contents
    BY <1>4 DEF Publish, DataInv
  <2> QED BY <1>4, <2>1 DEF Publish, DiskInv, restoreVars, bounds
<1>5. CASE Prune \/ PruneRaises
  <2>1. archives' \in Seq(Archive)
    BY <1>5, PruneEffect, PruneRaisesEffect
  <2> QED BY <1>5, <2>1 DEF Prune, PruneRaises, Archive, restoreVars, guard, bounds
<1>6. CASE Kill
  BY <1>6 DEF Kill, restoreVars, guard
<1>7. CASE Start
  <2>1. data' \in Contents
    BY <1>7 DEF Start, Contents
  <2>2. failures' \in 0 .. MaxFailures
    BY <1>7 DEF Start
  <2>3. disabled' \in BOOLEAN
    BY <1>7 DEF Start
  <2> QED BY <1>7, <2>1, <2>2, <2>3 DEF Start, bounds
<1>8. CASE BeginRestore
  <2>1. PICK a \in ToSet(archives \o backup.archives) : restoring' = a.contents
    BY <1>8 DEF BeginRestore
  <2>2. archives \o backup.archives \in Seq(Archive)
    BY DEF Archive
  <2>3. a \in Archive
    BY <2>1, <2>2 DEF ToSet
  <2> QED BY <1>8, <2>1, <2>3 DEF BeginRestore, Restoring, Archive, guard
<1>9. CASE StageRaises \/ Extract \/ ExtractRaises
  BY <1>9 DEF StageRaises, Restoring, Extract, ExtractRaises, Raises, guard, bounds
<1>10. CASE MoveAside
  <2>1. moved' \in BOOLEAN
    BY <1>10, AsideEffect
  <2>2. archives' \in Seq(Archive) /\ backup'.archives \in Seq(Archive)
    BY <1>10, AsideEffect
  <2>3. backup'.contents \in Contents \cup {NoDir, Partial}
    BY <1>10, AsideEffect
  <2> QED BY <1>10, <2>1, <2>2, <2>3 DEF MoveAside, Archive, guard, bounds
<1>11. CASE DropOldBackup \/ AsideRaises \/ DropBackup
  <2>1. backup' \in Remains(backup) \/ backup' = backup \/ backup' = NoBackup
    BY <1>11 DEF DropOldBackup, AsideRaises, DropBackup
  <2>2. /\ backup'.contents \in Contents \cup {NoDir, Partial}
        /\ backup'.archives \in Seq([contents : Contents, size : Sizes])
    BY <2>1, RemainsOf DEF Archive
  <2> QED BY <1>11, <2>2 DEF DropOldBackup, AsideRaises, DropBackup, guard, bounds
<1>12. CASE Replace
  <2>1. data' \in Contents /\ precious' \in Contents
    BY <1>12 DEF Replace, DataInv
  <2> QED BY <1>12, <2>1 DEF Replace, guard, bounds
<1>13. CASE ReplaceRaises \/ RollbackRaises
  BY <1>13 DEF ReplaceRaises, RollbackRaises, guard
<1>14. CASE Rollback
  <2>1. data' \in Contents /\ archives' \in Seq(Archive)
    BY <1>14, RollbackEffect
  <2>2. backup'.contents = NoDir /\ backup'.archives = <<>>
    BY <1>14, RollbackEffect
  <2> QED BY <1>14, <2>1, <2>2 DEF Rollback, Archive, guard, bounds
<1>15. CASE KillRestore
  <2>1. backup' \in Remains(backup) \/ backup' = backup
    BY <1>15 DEF KillRestore
  <2>2. /\ backup'.contents \in Contents \cup {NoDir, Partial}
        /\ backup'.archives \in Seq([contents : Contents, size : Sizes])
    BY <2>1, RemainsOf DEF Archive
  <2>3. torn' \in BOOLEAN
    BY <1>15 DEF KillRestore
  <2> QED BY <1>15, <2>2, <2>3 DEF KillRestore, guard
<1>16. CASE UNCHANGED vars
  BY <1>16 DEF vars
<1> QED
  BY <1>1, <1>2, <1>3, <1>4, <1>5, <1>6, <1>7, <1>8, <1>9, <1>10, <1>11, <1>12, <1>13,
     <1>14, <1>15, <1>16 DEF Next

(* Where the contents are that must be kept. *)
LEMMA DataStep ==
  ASSUME SnapshotInv, [Next]_vars
  PROVE  DataInv'
<1> USE DEF SnapshotInv, SnapshotTypeOK, DataInv
<1>1. CASE Write
  BY <1>1 DEF Write, Contents, restoreVars
<1>2. CASE CheckpointBusy \/ CheckpointRaises \/ BeginArchive \/ ArchiveRaises \/ UnlinkRaises
          \/ Publish
  BY <1>2 DEF CheckpointBusy, CheckpointRaises, BeginArchive, ArchiveRaises, UnlinkRaises,
              Publish, Due, restoreVars
<1>3. CASE Prune \/ PruneRaises \/ Kill
  BY <1>3 DEF Prune, PruneRaises, Kill, restoreVars
<1>4. CASE Start
  BY <1>4 DEF Start, Contents
<1>5. CASE BeginRestore
  <2>1. restoring' \in Contents
    <3>1. PICK a \in ToSet(archives \o backup.archives) : restoring' = a.contents
      BY <1>5 DEF BeginRestore
    <3>2. archives \o backup.archives \in Seq(Archive)
      BY DEF Archive
    <3>3. a \in Archive
      BY <3>1, <3>2 DEF ToSet
    <3> QED BY <3>1, <3>3 DEF Archive
  <2> QED BY <1>5, <2>1 DEF BeginRestore, Restoring, Contents
<1>6. CASE StageRaises \/ Extract \/ ExtractRaises
  BY <1>6 DEF StageRaises, Restoring, Extract, ExtractRaises
<1>7. CASE DropOldBackup \/ AsideRaises
  <2>1. pc = "aside" /\ data # NoDir /\ pc' \in {"aside", "down"}
    BY <1>7 DEF DropOldBackup, AsideRaises
  <2>2. UNCHANGED <<data, precious, torn, restoring, staging>>
    BY <1>7 DEF DropOldBackup, AsideRaises
  <2> QED BY <2>1, <2>2
<1>8. CASE MoveAside
  BY <1>8, AsideEffect DEF MoveAside
<1>9. CASE Replace
  BY <1>9 DEF Replace
<1>10. CASE ReplaceRaises
  BY <1>10 DEF ReplaceRaises
<1>11. CASE Rollback
  <2>1. pc = "rollback" /\ pc' = "down" /\ torn' = torn /\ precious' = precious
    BY <1>11 DEF Rollback
  <2>2. ~torn
    BY <2>1
  <2>3. data' = precious /\ data' # NoDir
    BY <1>11, RollbackEffect DEF Contents
  <2> QED BY <2>1, <2>2, <2>3
<1>12. CASE RollbackRaises
  BY <1>12 DEF RollbackRaises
<1>13. CASE DropBackup
  BY <1>13 DEF DropBackup
<1>14. CASE KillRestore
  <2>1. pc' = "down" /\ torn' = (data = NoDir) /\ UNCHANGED <<data, precious>>
    BY <1>14 DEF KillRestore
  <2>2. data = NoDir => backup' = backup
    BY <1>14 DEF KillRestore, Deleting
  <2> QED BY <2>1, <2>2
<1>15. CASE UNCHANGED vars
  BY <1>15 DEF vars
<1> QED
  BY <1>1, <1>2, <1>3, <1>4, <1>5, <1>6, <1>7, <1>8, <1>9, <1>10, <1>11, <1>12, <1>13,
     <1>14, <1>15 DEF Next

(* The breaker. *)
LEMMA BreakerStep ==
  ASSUME SnapshotInv, [Next]_vars
  PROVE  BreakerInv'
<1> USE DEF SnapshotInv, SnapshotTypeOK, BreakerInv
<1>1. CASE CheckpointRaises \/ ArchiveRaises \/ UnlinkRaises
  <2>1. RecordFailure /\ failures < MaxFailures /\ pc' = "run"
    BY <1>1 DEF CheckpointRaises, ArchiveRaises, UnlinkRaises, Due
  <2> QED BY <2>1, FailureRecorded
<1>2. CASE BeginArchive \/ Publish
  BY <1>2 DEF BeginArchive, Publish, Due, guard
<1>3. CASE Start
  BY <1>3 DEF Start
<1>4. CASE pc' \notin {"archive", "prune"} /\ UNCHANGED guard
  BY <1>4 DEF guard
<1>5. CASE UNCHANGED vars
  BY <1>5 DEF vars
<1> QED
  BY <1>1, <1>2, <1>3, <1>4, <1>5
  DEF Next, Write, CheckpointBusy, Due, Prune, PruneRaises, Kill, Restoring, BeginRestore,
      StageRaises, Extract, ExtractRaises, DropOldBackup, MoveAside, AsideRaises, Replace,
      ReplaceRaises, Rollback, RollbackRaises, DropBackup, KillRestore, guard

(* The files on the disk. *)
LEMMA DiskStep ==
  ASSUME SnapshotInv, [Next]_vars
  PROVE  DiskInv'
<1> USE DEF SnapshotInv, SnapshotTypeOK, DiskInv
<1>0. Kept \in Nat \ {0}
  BY DEF Kept
<1> USE <1>0
<1>1. CASE CheckpointBusy \/ BeginArchive
  BY <1>1 DEF CheckpointBusy, BeginArchive, Due, restoreVars
<1>2. CASE CheckpointRaises
  BY <1>2 DEF CheckpointRaises, Due, Raises, restoreVars
<1>3. CASE ArchiveRaises \/ UnlinkRaises
  BY <1>3 DEF ArchiveRaises, UnlinkRaises, Raises, restoreVars
<1>4. CASE Publish
  <2>1. Len(archives') = Len(archives) + 1 /\ archives' # <<>>
    BY <1>4 DEF Publish
  <2> QED BY <1>4, <2>1 DEF Publish, restoreVars, bounds
<1>5. CASE Prune
  <2>1. Len(archives') <= Kept /\ Len(archives') \in Nat
    BY <1>5, PruneEffect
  <2> QED BY <1>5, <2>1 DEF Prune, restoreVars, bounds
<1>6. CASE PruneRaises
  <2>1. Len(archives') <= Len(archives) /\ Len(archives') \in Nat
    BY <1>6, PruneRaisesEffect
  <2> QED BY <1>6, <2>1 DEF PruneRaises, Raises, restoreVars
<1>7. CASE Write \/ Kill \/ Start
  <2>1. CASE Write
    BY <2>1 DEF Write, restoreVars, bounds
  <2>2. CASE Kill
    BY <2>2 DEF Kill, restoreVars
  <2>3. CASE Start
    BY <2>3 DEF Start, bounds
  <2> QED BY <1>7, <2>1, <2>2, <2>3
<1>8. CASE BeginRestore \/ StageRaises \/ Extract \/ ExtractRaises
  <2>1. CASE BeginRestore \/ Extract
    BY <2>1 DEF Restoring, BeginRestore, Extract, bounds
  <2>2. CASE StageRaises
    BY <2>2 DEF Restoring, StageRaises, Raises
  <2>3. CASE ExtractRaises
    BY <2>3 DEF ExtractRaises, Raises
  <2> QED BY <1>8, <2>1, <2>2, <2>3
<1>9. CASE MoveAside
  <2>1. /\ pc' = "replace"
        /\ UNCHANGED <<tmps, kills, faults>>
    BY <1>9 DEF MoveAside, bounds
  <2>2. CASE data = NoDir
    BY <1>9, <2>1, <2>2, AsideEffect DEF MoveAside
  <2>3. CASE data # NoDir /\ InsideData
    BY <1>9, <2>1, <2>3, AsideEffect DEF MoveAside
  <2>4. CASE data # NoDir /\ ~InsideData
    <3>1. backup'.archives = <<>> /\ archives' = archives /\ pc = "aside"
      BY <1>9, <2>4, AsideEffect DEF MoveAside
    <3>2. tmps' <= kills' + faults' /\ Len(archives') + tmps' <= Kept + kills' + faults'
      BY <2>1, <3>1
    <3>3. Len(backup'.archives) + tmps' <= Kept + kills' + faults'
      BY <2>1, <3>1, <3>2
    <3> QED BY <2>1, <2>4, <3>1, <3>2, <3>3
  <2> QED BY <2>2, <2>3, <2>4
<1>10. CASE DropOldBackup \/ AsideRaises \/ Replace \/ DropBackup \/ KillRestore
  <2>1. CASE DropOldBackup \/ Replace \/ DropBackup
    BY <2>1 DEF DropOldBackup, Replace, DropBackup, bounds
  <2>2. CASE AsideRaises
    BY <2>2 DEF AsideRaises, Raises
  <2>3. CASE KillRestore
    BY <2>3 DEF KillRestore
  <2> QED BY <1>10, <2>1, <2>2, <2>3
<1>11. CASE ReplaceRaises \/ RollbackRaises
  <2>1. CASE ReplaceRaises
    <3>1. /\ pc = "replace" /\ (pc' = "down" \/ pc' = "rollback")
          /\ faults' = faults + 1 /\ UNCHANGED <<archives, tmps, backup, moved, kills>>
      BY <2>1 DEF ReplaceRaises, Raises
    <3>2. tmps' <= kills' + faults' /\ Len(archives') + tmps' <= Kept + kills' + faults'
      BY <3>1
    <3>3. moved' =>
            /\ IF InsideData THEN archives' = <<>> ELSE backup'.archives = <<>>
            /\ Len(backup'.archives) + tmps' <= Kept + kills' + faults'
      BY <3>1
    <3> QED BY <3>1, <3>2, <3>3
  <2>2. CASE RollbackRaises
    BY <2>2 DEF RollbackRaises, Raises
  <2> QED BY <1>11, <2>1, <2>2
<1>12. CASE Rollback
  <2>1. Len(archives') = Len(archives) + Len(backup.archives)
    BY <1>12 DEF Rollback
  <2>2. moved /\ pc = "rollback"
    BY <1>12 DEF Rollback, DataInv
  <2> QED BY <1>12, <2>1, <2>2 DEF Rollback, bounds
<1>13. CASE UNCHANGED vars
  BY <1>13 DEF vars
<1> QED
  BY <1>1, <1>2, <1>3, <1>4, <1>5, <1>6, <1>7, <1>8, <1>9, <1>10, <1>11, <1>12, <1>13 DEF Next

-----------------------------------------------------------------------------
(* The refinement of module Vault. *)

(* What Vault sees of a data directory and its archives.                   *)
Visible == IF data # NoDir THEN data ELSE backup.contents
Shelf == {a.contents : a \in ToSet(archives \o backup.archives)}
Chosen == IF pc \in {"extract", "aside", "replace", "rollback"} THEN restoring ELSE NoDir

(* Positions of one interval, shifted behind another.                      *)
LEMMA Shifted ==
  ASSUME NEW m \in Nat, NEW n \in Nat
  PROVE  /\ \A i \in 1 .. m : i \in 1 .. m + n
         /\ \A i \in 1 .. m : i <= m
         /\ \A i \in 1 .. n : ~(i + m <= m)
         /\ \A i \in 1 .. n : i + m \in 1 .. m + n /\ (i + m) - m = i
  OBVIOUS

(* An archive is on the shelf if it is beside the data or in the backup.   *)
LEMMA OnTheShelf ==
  ASSUME NEW as \in Seq(Archive), NEW bs \in Seq(Archive)
  PROVE  ToSet(as \o bs) = ToSet(as) \cup ToSet(bs)
<1> DEFINE cs == as \o bs
           m == Len(as)
           n == Len(bs)
<1>1. m \in Nat /\ n \in Nat /\ DOMAIN as = 1 .. m /\ DOMAIN bs = 1 .. n
  BY LenProperties
<1>2. cs \in Seq(Archive) /\ Len(cs) = m + n
  BY ConcatProperties, Zenon
<1>3. DOMAIN cs = 1 .. m + n
  BY <1>2, LenProperties
<1>4. \A i \in 1 .. m + n : cs[i] = IF i <= m THEN as[i] ELSE bs[i - m]
  BY ConcatProperties, Zenon
<1> HIDE DEF cs, m, n
<1>5. ASSUME NEW i \in DOMAIN as PROVE i \in DOMAIN cs /\ cs[i] = as[i]
  <2>1. i \in 1 .. m + n /\ i <= m
    BY <1>1, Shifted
  <2> QED BY <1>3, <1>4, <2>1, Zenon
<1>6. ASSUME NEW i \in DOMAIN bs PROVE i + m \in DOMAIN cs /\ cs[i + m] = bs[i]
  <2>1. i + m \in 1 .. m + n /\ ~(i + m <= m) /\ (i + m) - m = i
    BY <1>1, Shifted
  <2>2. cs[i + m] = bs[(i + m) - m]
    BY <1>4, <2>1, Zenon
  <2> QED BY <1>3, <2>1, <2>2, Zenon
<1>7. ASSUME NEW i \in DOMAIN cs
      PROVE  (i \in DOMAIN as /\ cs[i] = as[i]) \/ (i - m \in DOMAIN bs /\ cs[i] = bs[i - m])
  <2>1. i \in 1 .. m \/ (i - m \in 1 .. n /\ ~(i <= m))
    BY <1>1, <1>3
  <2> QED BY <1>1, <1>3, <1>4, <2>1, <1>5, Zenon
<1>8. ASSUME NEW x \in ToSet(cs) PROVE x \in ToSet(as) \cup ToSet(bs)
  <2>1. PICK i \in DOMAIN cs : x = cs[i]
    BY DEF ToSet
  <2> QED BY <1>7, <2>1, Zenon DEF ToSet
<1>9. ASSUME NEW x \in ToSet(as) PROVE x \in ToSet(cs)
  BY <1>5, Zenon DEF ToSet
<1>10. ASSUME NEW x \in ToSet(bs) PROVE x \in ToSet(cs)
  BY <1>6, Zenon DEF ToSet
<1> QED BY <1>8, <1>9, <1>10, Zenon DEF cs

(* Each action of Vault, in the terms of Snapshot.                         *)
LEMMA VaultForgets ==
  ASSUME Visible' = Visible, Shelf' \subseteq Shelf, Chosen' = Chosen, torn' = torn
  PROVE  Vaults!Next
  BY DEF Vaults!Next, Vaults!Forget, Visible, Shelf, Chosen

LEMMA VaultWrites ==
  ASSUME Chosen = NoDir, Visible' = Visible + 1, Shelf' = Shelf, Chosen' = Chosen, torn' = torn
  PROVE  Vaults!Next
  BY DEF Vaults!Next, Vaults!Write, Visible, Shelf, Chosen

LEMMA VaultArchives ==
  ASSUME Chosen = NoDir, Visible' = Visible, Shelf' = Shelf \cup {Visible}, Chosen' = Chosen,
         torn' = torn
  PROVE  Vaults!Next
  BY DEF Vaults!Next, Vaults!Archive, Visible, Shelf, Chosen

LEMMA VaultChooses ==
  ASSUME Chosen = NoDir, Visible' = Visible, Shelf' = Shelf, Chosen' \in Shelf, torn' = torn
  PROVE  Vaults!Next
  BY DEF Vaults!Next, Vaults!Choose, Visible, Shelf, Chosen

LEMMA VaultRestores ==
  ASSUME Chosen # NoDir, Visible' = Chosen, Shelf' = Shelf, Chosen' = NoDir, torn' = FALSE
  PROVE  Vaults!Next
  BY DEF Vaults!Next, Vaults!Restore, Visible, Shelf, Chosen

LEMMA VaultGivesUp ==
  ASSUME Visible' = Visible, Shelf' \subseteq Shelf, Chosen' = NoDir, torn' = torn \/ torn' = TRUE
  PROVE  Vaults!Next
<1>1. torn' \in {torn, TRUE}
  OBVIOUS
<1> QED BY <1>1 DEF Vaults!Next, Vaults!GiveUp, Visible, Shelf, Chosen

LEMMA VaultStarts ==
  ASSUME Chosen = NoDir, Visible' = Visible \/ (torn /\ Visible' = 0), Shelf' = Shelf,
         Chosen' = Chosen, torn' = FALSE
  PROVE  Vaults!Next
<1>1. Visible' \in {Visible} \cup (IF torn THEN {0} ELSE {})
  OBVIOUS
<1> QED BY <1>1 DEF Vaults!Next, Vaults!Start, Visible, Shelf, Chosen

(* Every file operation is one step of Vault, or none of its business.     *)
LEMMA VaultStep ==
  ASSUME SnapshotInv, [Next]_vars
  PROVE  [Vaults!Next]_(Vaults!vaultVars)
<1>0. /\ Shelf = {a.contents : a \in ToSet(archives) \cup ToSet(backup.archives)}
      /\ Shelf' = {a.contents : a \in ToSet(archives') \cup ToSet(backup'.archives)}
  <2>1. archives \in Seq(Archive) /\ backup.archives \in Seq(Archive)
    BY DEF SnapshotInv, SnapshotTypeOK, Archive
  <2>2. archives' \in Seq(Archive) /\ backup'.archives \in Seq(Archive)
    BY TypeStep DEF SnapshotTypeOK, Archive
  <2> QED BY <2>1, <2>2, OnTheShelf DEF Shelf
<1>1. CASE Write
  <2>1. pc = "run" /\ data # NoDir /\ data' = data + 1 /\ data' # NoDir
    BY <1>1 DEF Write, SnapshotInv, SnapshotTypeOK, DataInv, Contents
  <2>2. UNCHANGED <<pc, archives, backup, torn>>
    BY <1>1 DEF Write, restoreVars
  <2> QED BY <2>1, <2>2, VaultWrites DEF Visible, Shelf, Chosen
<1>2. CASE UNCHANGED <<data, archives, backup, torn, Chosen>>
  BY <1>2 DEF Vaults!vaultVars, Chosen
<1>3. CASE Publish
  <2>1. pc = "archive" /\ pc' = "prune" /\ data # NoDir /\ UNCHANGED <<data, backup, torn>>
    BY <1>3 DEF Publish, SnapshotInv, DataInv, restoreVars
  <2>2. PICK size \in Sizes :
          archives' = Append(archives, [contents |-> data, size |-> size])
    BY <1>3 DEF Publish
  <2>3. ToSet(archives') = ToSet(archives) \cup {[contents |-> data, size |-> size]}
    <3>1. archives \in Seq(Archive)
      BY DEF SnapshotInv, SnapshotTypeOK, Archive
    <3>2. /\ DOMAIN archives' = DOMAIN archives \cup {Len(archives) + 1}
          /\ archives'[Len(archives) + 1] = [contents |-> data, size |-> size]
          /\ \A i \in DOMAIN archives : archives'[i] = archives[i]
      BY <2>2, <3>1
    <3> QED BY <3>2 DEF ToSet
  <2>4. backup'.archives = backup.archives
    BY <2>1
  <2>5. Shelf' = Shelf \cup {data}
    <3>1. [contents |-> data, size |-> size].contents = data
      OBVIOUS
    <3>2. ToSet(archives') \cup ToSet(backup'.archives)
            = (ToSet(archives) \cup ToSet(backup.archives)) \cup {[contents |-> data, size |-> size]}
      BY <2>3, <2>4
    <3> QED BY <1>0, <3>1, <3>2
  <2> QED BY <2>1, <2>5, VaultArchives DEF Visible, Chosen
<1>4. CASE Prune \/ PruneRaises
  <2>1. UNCHANGED <<data, backup, torn, Chosen>>
    BY <1>4 DEF Prune, PruneRaises, restoreVars, Chosen
  <2>2. ToSet(archives') \subseteq ToSet(archives)
    BY <1>4, PruneEffect, PruneRaisesEffect
  <2>4. Shelf' \subseteq Shelf
    BY <1>0, <2>1, <2>2
  <2> QED BY <2>1, <2>4, VaultForgets DEF Visible
<1>5. CASE Start
  <2>1. /\ pc = "down" /\ pc' = "run" /\ torn' = FALSE /\ UNCHANGED <<archives, backup>>
        /\ data' = IF data = NoDir THEN 0 ELSE data
    BY <1>5 DEF Start
  <2>2. data = NoDir => torn
    BY <2>1 DEF SnapshotInv, DataInv
  <2>3. Visible' = Visible \/ (torn /\ Visible' = 0)
    BY <2>1, <2>2 DEF Visible
  <2> QED BY <2>1, <2>3, VaultStarts DEF Shelf, Chosen
<1>6. CASE BeginRestore
  <2>1. PICK a \in ToSet(archives \o backup.archives) : restoring' = a.contents
    BY <1>6 DEF BeginRestore
  <2>2. pc = "down" /\ pc' = "extract" /\ UNCHANGED <<data, archives, backup, torn>>
    BY <1>6 DEF BeginRestore, Restoring
  <2>3. Chosen' \in Shelf
    BY <2>1, <2>2 DEF Chosen, Shelf
  <2> QED BY <2>2, <2>3, VaultChooses DEF Visible, Shelf, Chosen
<1>7. CASE ExtractRaises
  <2>1. pc' = "down" /\ UNCHANGED <<data, archives, backup, torn>>
    BY <1>7 DEF ExtractRaises
  <2> QED BY <2>1, VaultGivesUp DEF Visible, Shelf, Chosen
<1>8. CASE MoveAside
  <2>1. UNCHANGED <<torn, Chosen>>
    BY <1>8 DEF MoveAside, Chosen
  <2>2. Visible' = Visible
    BY <1>8, AsideEffect DEF MoveAside, Visible
  <2>3. ToSet(archives') \cup ToSet(backup'.archives)
          \subseteq ToSet(archives) \cup ToSet(backup.archives)
    <3>1. ToSet(<<>>) = {}
      BY DEF ToSet
    <3>2. CASE data = NoDir
      BY <1>8, <3>2, AsideEffect
    <3>3. CASE data # NoDir /\ InsideData
      BY <1>8, <3>1, <3>3, AsideEffect
    <3>4. CASE data # NoDir /\ ~InsideData
      BY <1>8, <3>1, <3>4, AsideEffect
    <3> QED BY <3>2, <3>3, <3>4
  <2>5. Shelf' \subseteq Shelf
    BY <1>0, <2>3
  <2> QED BY <2>1, <2>2, <2>5, VaultForgets
<1>9. CASE Replace
  <2>1. /\ pc = "replace" /\ pc' = "drop" /\ data' = restoring /\ restoring # NoDir
        /\ torn' = FALSE /\ UNCHANGED <<archives, backup>>
    BY <1>9 DEF Replace, SnapshotInv, DataInv
  <2> QED BY <2>1, VaultRestores DEF Visible, Shelf, Chosen
<1>10. CASE ReplaceRaises
  <2>1. pc = "replace" /\ UNCHANGED <<data, archives, backup, torn, restoring>>
    BY <1>10 DEF ReplaceRaises
  <2>2. CASE pc' = "rollback"
    BY <2>1, <2>2 DEF Vaults!vaultVars, Chosen
  <2>3. CASE pc' = "down"
    BY <2>1, <2>3, VaultGivesUp DEF Visible, Shelf, Chosen
  <2> QED BY <1>10, <2>2, <2>3 DEF ReplaceRaises
<1>11. CASE Rollback
  <2>1. pc' = "down" /\ torn' = torn /\ data = NoDir /\ backup.contents = precious
    BY <1>11 DEF Rollback, SnapshotInv, DataInv
  <2>2. data' = precious /\ precious # NoDir
    BY <1>11, RollbackEffect DEF SnapshotInv, SnapshotTypeOK, Contents
  <2>3. Visible' = Visible
    BY <2>1, <2>2 DEF Visible
  <2>4. archives' \o backup'.archives = archives \o backup.archives
    <3>1. archives' \in Seq(Archive) /\ backup'.archives = <<>>
      BY <1>11, RollbackEffect
    <3> QED BY <1>11, <3>1, RollbackEffect
  <2>5. Shelf' = Shelf
    BY <2>4 DEF Shelf
  <2> QED BY <2>1, <2>3, <2>5, VaultGivesUp DEF Chosen
<1>12. CASE RollbackRaises
  <2>1. pc' = "down" /\ torn' = TRUE /\ UNCHANGED <<data, archives, backup>>
    BY <1>12 DEF RollbackRaises
  <2> QED BY <2>1, VaultGivesUp DEF Visible, Shelf, Chosen
<1>13. CASE DropOldBackup \/ DropBackup
  <2>1. data # NoDir /\ UNCHANGED <<data, archives, torn>>
    BY <1>13 DEF DropOldBackup, DropBackup, SnapshotInv, DataInv
  <2>2. backup' \in Remains(backup) \/ backup' = backup \/ backup' = NoBackup
    BY <1>13 DEF DropOldBackup, DropBackup
  <2>3. Shelf' \subseteq Shelf
    <3>1. ToSet(backup'.archives) \subseteq ToSet(backup.archives)
      BY <2>2, RemainsOf DEF SnapshotInv
    <3> QED BY <1>0, <2>1, <3>1
  <2>4. Chosen' = Chosen
    BY <1>13 DEF DropOldBackup, DropBackup, Chosen
  <2> QED BY <2>1, <2>3, <2>4, VaultForgets DEF Visible
<1>14. CASE AsideRaises \/ KillRestore
  <2>1. pc' = "down" /\ UNCHANGED <<data, archives>>
    BY <1>14 DEF AsideRaises, KillRestore
  <2>2. backup' \in Remains(backup) \/ backup' = backup
    BY <1>14 DEF AsideRaises, KillRestore
  <2>3. Shelf' \subseteq Shelf
    <3>1. ToSet(backup'.archives) \subseteq ToSet(backup.archives)
      BY <2>2, RemainsOf DEF SnapshotInv
    <3> QED BY <1>0, <2>1, <3>1
  <2>4. data # NoDir \/ backup' = backup
    BY <1>14 DEF AsideRaises, KillRestore, Deleting, SnapshotInv, DataInv
  <2>5. torn' = torn \/ torn' = TRUE
    <3>1. CASE AsideRaises
      BY <3>1 DEF AsideRaises
    <3>2. CASE KillRestore
      <4>1. torn' = (data = NoDir)
        BY <3>2 DEF KillRestore
      <4>2. torn \in BOOLEAN /\ (torn => data = NoDir)
        BY DEF SnapshotInv, SnapshotTypeOK, DataInv
      <4> QED BY <4>1, <4>2
    <3> QED BY <1>14, <3>1, <3>2
  <2>6. Visible' = Visible
    BY <2>1, <2>4 DEF Visible
  <2> QED BY <2>1, <2>3, <2>5, <2>6, VaultGivesUp DEF Chosen
<1> QED
  BY <1>1, <1>2, <1>3, <1>4, <1>5, <1>6, <1>7, <1>8, <1>9, <1>10, <1>11, <1>12, <1>13, <1>14
  DEF Next, CheckpointBusy, CheckpointRaises, BeginArchive, ArchiveRaises, UnlinkRaises, Due,
      Kill, StageRaises, Restoring, Extract, restoreVars, Chosen, vars

-----------------------------------------------------------------------------
(* The theorems. *)

(* Every state that snapshots and restores come to satisfies the inductive *)
(* invariant.                                                              *)
THEOREM SnapshotInvariant == Spec => []SnapshotInv
<1>1. SnapshotInv /\ [Next]_vars => SnapshotInv'
  BY TypeStep, DataStep, BreakerStep, DiskStep DEF SnapshotInv
<1> QED BY <1>1, SnapshotInit, PTL DEF Spec

(* No directory or archive is half written but a restore's staging.        *)
THEOREM SnapshotTypeCorrect == Spec => []SnapshotTypeOK
<1>1. SnapshotInv => SnapshotTypeOK
  BY DEF SnapshotInv
<1> QED BY <1>1, SnapshotInvariant, PTL

(* However many snapshots are taken, the disk holds the retention, the     *)
(* newest archive and what kills and failed prunes left.                   *)
THEOREM DiskIsBounded == Spec => []DiskBounded
<1>1. SnapshotInv => DiskBounded
  BY DEF SnapshotInv, SnapshotTypeOK, DiskInv, DiskBounded, Kept
<1> QED BY <1>1, SnapshotInvariant, PTL

(* A restore did all of its work or none of it, unless it was cut short    *)
(* between its renames: by a kill, or by a rollback that raised.           *)
THEOREM RestoresAreAtomic == Spec => []RestoreIsAtomic
<1>1. SnapshotInv => RestoreIsAtomic
  BY DEF SnapshotInv, DataInv, RestoreIsAtomic
<1> QED BY <1>1, SnapshotInvariant, PTL

(* The contents to be kept are in data_dir or in the backup beside it.     *)
THEOREM NothingIsLost == Spec => []BackupHoldsContents
<1>1. SnapshotInv => BackupHoldsContents
  BY DEF SnapshotInv, DataInv, BackupHoldsContents
<1> QED BY <1>1, SnapshotInvariant, PTL

(* Retention keeps the newest archive, and ends with what fits.            *)
THEOREM NewestIsKept == Spec => PruneKeepsNewest
<1> DEFINE Keeps ==
      pc = "prune" =>
        /\ archives' # <<>> /\ Last(archives') = Last(archives)
        /\ pc' = "run" /\ faults' = faults => Fits(archives') \/ Len(archives') = 1
<1>1. SnapshotInv /\ [Next]_vars => [Keeps]_vars
  <2> SUFFICES ASSUME SnapshotInv, [Next]_vars, pc = "prune" PROVE Keeps \/ UNCHANGED vars
    OBVIOUS
  <2>1. CASE Prune
    BY <2>1, PruneEffect
  <2>2. CASE PruneRaises
    <3>1. faults' # faults
      BY <2>2 DEF PruneRaises, Raises, SnapshotInv, DiskInv
    <3> QED BY <2>2, <3>1, PruneRaisesEffect
  <2>3. CASE Kill
    BY <2>3 DEF Kill, SnapshotInv, DiskInv
  <2> QED
    BY <2>1, <2>2, <2>3
    DEF Next, Write, CheckpointBusy, CheckpointRaises, BeginArchive, ArchiveRaises,
        UnlinkRaises, Publish, Due, Start, Restoring, BeginRestore, StageRaises, Extract,
        ExtractRaises, DropOldBackup, MoveAside, AsideRaises, Replace, ReplaceRaises, Rollback,
        RollbackRaises, DropBackup, KillRestore
<1> QED BY <1>1, SnapshotInvariant, PTL DEF Spec, PruneKeepsNewest

(* Snapshot implements Vault: whichever file operation raises, of those    *)
(* that undo and clean up too, and wherever a kill comes, there is one     *)
(* directory to be found.                                                  *)
THEOREM VaultIsKept == Spec => KeepsVaultPromise
<1>1. Init => Vaults!Init
  BY DEF Init, Vaults!Init, NoBackup, ToSet
<1>2. SnapshotInv /\ [Next]_vars => [Vaults!Next]_(Vaults!vaultVars)
  BY VaultStep
<1> QED BY <1>1, <1>2, SnapshotInvariant, PTL DEF Spec, KeepsVaultPromise, Vaults!Spec

=============================================================================
