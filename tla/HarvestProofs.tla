---------------------------- MODULE HarvestProofs ----------------------------
(***************************************************************************)
(* The invariants of Harvest, for every set of WIPs, agents and artifacts  *)
(* and every value of the limits. Inv of Harvest is shown inductive, one   *)
(* lemma per conjunct and one step per action; the theorems at the end     *)
(* read the properties off it.                                             *)
(***************************************************************************)
EXTENDS Harvest, WorkshopProofs, FiniteSetTheorems

USE WorkshopAssumption, HarvestAssumption

(* What _emit_recycle leaves: a fresh WIP, without a mark or a copy.       *)
LEMMA EmitRecycleEffect ==
  ASSUME TypeOK, NEW w \in WIPs, EmitRecycle(w)
  PROVE  /\ wips' = [wips EXCEPT ![w] = NewWIP]
         /\ wips' \in Projection
         /\ copies' = [copies EXCEPT ![w] = 0]
         /\ harvested' = harvested \ {w}
  BY RecycleEffect DEF TypeOK, EmitRecycle

(* A clock tick ages WIPs and changes nothing else of them.                *)
LEMMA ClockTickEffect ==
  ASSUME TypeOK, ClockTick
  PROVE  /\ wips' \in Projection
         /\ \A w \in WIPs : /\ wips'[w].phase = wips[w].phase
                            /\ wips'[w].attempts = wips[w].attempts
<1>1. \A w \in WIPs : wips[w] \in WIP
  BY DEF TypeOK, Projection
<1> DEFINE aged(w) == [wips[w] EXCEPT !.completedTs = @ - 1]
<1>2. ASSUME NEW w \in WIPs
      PROVE  aged(w) \in WIP
  <2>1. wips[w].completedTs - 1 \in Int
    BY <1>1 DEF WIP
  <2>2. \A r \in WIP, t \in Int : [r EXCEPT !.completedTs = t] \in WIP
    BY DEF WIP
  <2> QED BY <1>1, <2>1, <2>2
<1>3. wips' \in Projection
  <2>1. PICK waiting : wips' = [w \in WIPs |-> IF w \in waiting THEN aged(w) ELSE wips[w]]
    BY DEF ClockTick
  <2> HIDE DEF aged
  <2> QED BY <1>1, <1>2, <2>1 DEF Projection
<1>4. \A w \in WIPs : /\ wips'[w].phase = wips[w].phase
                      /\ wips'[w].attempts = wips[w].attempts
  BY <1>1 DEF ClockTick, WIP
<1> QED BY <1>3, <1>4

(* A contribute changes one WIP, not its attempts, and any edge it adds    *)
(* names a WIP that is complete afterwards.                                *)
LEMMA ContributeType ==
  ASSUME TypeOK, NEW w \in WIPs, NEW a \in Actors, Contribute(w, a)
  PROVE  /\ wips' \in Projection
         /\ \A v \in WIPs : v # w => wips'[v] = wips[v]
         /\ wips'[w].attempts = wips[w].attempts
         /\ pending' \subseteq pending \cup CompleteWIPs(wips')
<1>1. w \in OpenSlots(wips) /\ wips \in Projection
  BY DEF Contribute, TypeOK, OpenSlots
<1> DEFINE e(ts) == ContributeEvent(w, a, ts, FALSE)
<1>2. wips' = Apply(wips, e(0)) /\ pending' = pending \cup CompletedBy(wips, e(0))
  BY DEF Contribute
<1> HIDE DEF e
<1>3. PICK ts \in Int : ts = 0
  OBVIOUS
<1>4. /\ Apply(wips, e(ts)) \in Projection
      /\ \A v \in WIPs : v # w => Apply(wips, e(ts))[v] = wips[v]
      /\ Apply(wips, e(ts))[w].attempts = wips[w].attempts
      /\ CompletedBy(wips, e(ts)) \subseteq CompleteWIPs(Apply(wips, e(ts)))
  BY <1>1, ContributeEffect DEF e
<1> QED BY <1>2, <1>3, <1>4

(* A rejection counts one more attempt of its WIP and changes no phase.    *)
LEMMA AttemptKeepsPhase ==
  ASSUME TypeOK, NEW w \in WIPs, RejectWIP(w)
  PROVE  /\ \A v \in WIPs : wips'[v].phase = wips[v].phase
         /\ \A v \in WIPs : v # w => wips'[v] = wips[v]
         /\ wips'[w].attempts = wips[w].attempts + 1
<1>1. wips' = [wips EXCEPT ![w].attempts = @ + 1]
  BY AttemptEffect DEF TypeOK, RejectWIP
<1> QED BY <1>1 DEF TypeOK, Projection, WIP

-----------------------------------------------------------------------------

(* Outside a flush there are no scores.                                    *)
LEMMA NoScoresType == DOMAIN NoScores = {} /\ NoScores \in [{} -> Scores]
  BY DEF NoScores

(* The initial state is well typed.                                        *)
LEMMA TypeInit == Init => TypeOK
<1> SUFFICES ASSUME Init PROVE TypeOK
  OBVIOUS
<1>1. Ranked = {} /\ scores \in [Ranked -> Scores]
  BY NoScoresType DEF Init, Ranked
<1>2. wips \in Projection
  BY NewProjectionType DEF Init
<1>3. copies \in [WIPs -> Nat] /\ unlogged \in [Candidates -> Nat]
  BY DEF Init
<1>4. faults \in 0 .. MaxFaults /\ restarts \in 0 .. MaxRestarts
  BY DEF Init
<1> QED BY <1>1, <1>2, <1>3, <1>4 DEF Init, TypeOK

(* Every step keeps the types: no file count goes below 0 and no loop local *)
(* outlives its flush.                                                     *)
LEMMA TypeStep ==
  ASSUME TypeOK, PhaseInv, CountInv, [Next]_vars
  PROVE  TypeOK'
<1> USE DEF TypeOK, Candidates, Ranked
<1>1. ASSUME NEW w \in WIPs, NEW a \in Actors, Contribute(w, a)
      PROVE  TypeOK'
  <2>1. wips' \in Projection /\ pending' \subseteq WIPs
    BY <1>1, ContributeType DEF CompleteWIPs
  <2> QED BY <1>1, <2>1 DEF Contribute, flushVars, history
<1>2. ASSUME NEW a \in Artifacts, Consider(a)
      PROVE  TypeOK'
  BY <1>2 DEF Consider, flushVars
<1>3. CASE ClockTick
  BY <1>3, ClockTickEffect DEF ClockTick, memory, flushVars, history
<1>4. CASE BeginFlush
  BY <1>4 DEF BeginFlush, durable, history
<1>5. CASE BeginFinalFlush
  BY <1>5 DEF BeginFinalFlush, durable, memory
<1>6. ASSUME NEW w \in WIPs, TimeoutRecycle(w)
      PROVE  TypeOK'
  BY <1>6, EmitRecycleEffect DEF TimeoutRecycle, flushVars, history
<1>7. CASE NothingToRank
  BY <1>7, NoScoresType DEF NothingToRank, LeaveFlush, durable, memory, history
<1>8. CASE Rank
  <2>1. Offered \subseteq Candidates
    BY DEF Offered, SnapshotPendingWIPs, CompleteWIPs
  <2>2. DOMAIN scores' = Offered /\ scores' \in [Offered -> Scores]
    BY <1>8 DEF Rank, Rankings
  <2>3. todo' = Offered /\ accepted' = accepted /\ logged' = logged
    BY <1>8 DEF Rank, Rankings
  <2>4. accepted = {} /\ logged = {}
    BY <1>8 DEF Rank, Rankings, NothingTimedOut, PhaseInv
  <2> QED BY <1>8, <2>1, <2>2, <2>3, <2>4 DEF Rank, Rankings, RankKeepsBuffer, durable, history
<1>9. ASSUME NEW c \in Candidates, Accept(c)
      PROVE  TypeOK'
  BY <1>9 DEF Accept, Deciding, NextRanked, WriteFile, history
<1>10. ASSUME NEW c \in Artifacts, RejectArtifact(c)
       PROVE  TypeOK'
  BY <1>10 DEF RejectArtifact, durable, memory, history
<1>11. ASSUME NEW w \in WIPs, RejectWIP(w)
       PROVE  TypeOK'
  BY <1>11, AttemptEffect DEF RejectWIP, memory, history
<1>12. CASE RecycleOwed
  BY <1>12, EmitRecycleEffect DEF RecycleOwed, history
<1>13. CASE BeginManifest
  BY <1>13 DEF BeginManifest, durable, memory, history
<1>14. ASSUME NEW c \in Candidates, AppendManifest(c)
       PROVE  TypeOK'
  <2>1. c \in accepted => unlogged[c] - 1 \in Nat
    BY <1>14 DEF AppendManifest, CountInv
  <2> QED BY <1>14, <2>1 DEF AppendManifest, memory, history
<1>15. CASE EndFlush
  BY <1>15, NoScoresType DEF EndFlush, LeaveFlush, durable, history
<1>16. CASE FlushRaises
  <2>1. /\ DOMAIN scores' = {} /\ scores' \in [DOMAIN scores' -> Scores]
        /\ todo' = {} /\ accepted' = {} /\ logged' = {} /\ owed' = NoWIP
        /\ pc' \in {"idle", "ended"}
    BY <1>16, NoScoresType DEF FlushRaises, LeaveFlush
  <2>2. faults' \in 0 .. MaxFaults
    BY <1>16 DEF FlushRaises
  <2> QED BY <1>16, <2>1, <2>2 DEF FlushRaises, durable, memory
<1>17. CASE Restart
  <2>1. /\ DOMAIN scores' = {} /\ scores' \in [DOMAIN scores' -> Scores]
        /\ todo' = {} /\ accepted' = {} /\ logged' = {} /\ owed' = NoWIP
        /\ pc' = "idle"
    BY <1>17, NoScoresType DEF Restart
  <2>2. restarts' \in 0 .. MaxRestarts
    BY <1>17 DEF Restart
  <2> QED BY <1>17, <2>1, <2>2 DEF Restart, durable
<1>18. CASE UNCHANGED vars
  BY <1>18 DEF vars, durable, memory, flushVars, history
<1> QED BY <1>1, <1>2, <1>3, <1>4, <1>5, <1>6, <1>7, <1>8, <1>9, <1>10, <1>11, <1>12,
           <1>13, <1>14, <1>15, <1>16, <1>17, <1>18 DEF Next, Flush

(* The control state of flush() is consistent after every step.            *)
LEMMA PhaseStep ==
  ASSUME TypeOK, PhaseInv, [Next]_vars
  PROVE  PhaseInv'
<1> USE DEF TypeOK, PhaseInv, Ranked
<1>1. ASSUME NEW w \in WIPs, NEW a \in Actors, Contribute(w, a)
      PROVE  PhaseInv'
  BY <1>1 DEF Contribute, durable, memory, flushVars, history
<1>2. ASSUME NEW a \in Artifacts, Consider(a)
      PROVE  PhaseInv'
  BY <1>2 DEF Consider, durable, memory, flushVars, history
<1>3. CASE ClockTick
  BY <1>3 DEF ClockTick, durable, memory, flushVars, history
<1>4. CASE BeginFlush
  BY <1>4 DEF BeginFlush, durable, memory, flushVars, history
<1>5. CASE BeginFinalFlush
  BY <1>5 DEF BeginFinalFlush, durable, memory, flushVars, history
<1>6. ASSUME NEW w \in WIPs, TimeoutRecycle(w)
      PROVE  PhaseInv'
  BY <1>6, EmitRecycleEffect DEF TimeoutRecycle, durable, memory, flushVars, history
<1>7. CASE NothingToRank
  BY <1>7, NoScoresType DEF NothingToRank, NothingTimedOut, LeaveFlush, durable, memory, flushVars, history
<1>8. CASE Rank
  BY <1>8 DEF Rank, Rankings, NothingTimedOut, Offered, RankKeepsBuffer, durable, memory, flushVars, history
<1>9. ASSUME NEW c \in Candidates, Accept(c)
      PROVE  PhaseInv'
  BY <1>9 DEF Accept, Deciding, WriteFile, durable, memory, flushVars, history
<1>10. ASSUME NEW c \in Artifacts, RejectArtifact(c)
       PROVE  PhaseInv'
  BY <1>10 DEF RejectArtifact, Deciding, durable, memory, flushVars, history
<1>11. ASSUME NEW w \in WIPs, RejectWIP(w)
       PROVE  PhaseInv'
  BY <1>11 DEF RejectWIP, Deciding, durable, memory, flushVars, history
<1>12. CASE RecycleOwed
  BY <1>12, EmitRecycleEffect DEF RecycleOwed, durable, memory, flushVars, history
<1>13. CASE BeginManifest
  BY <1>13 DEF BeginManifest, durable, memory, flushVars, history
<1>14. ASSUME NEW c \in Candidates, AppendManifest(c)
       PROVE  PhaseInv'
  BY <1>14 DEF AppendManifest, durable, memory, flushVars, history
<1>15. CASE EndFlush
  BY <1>15, NoScoresType DEF EndFlush, LeaveFlush, durable, memory, flushVars, history
<1>16. CASE FlushRaises
  BY <1>16, NoScoresType DEF FlushRaises, LeaveFlush, durable, memory, flushVars, history
<1>17. CASE Restart
  BY <1>17, NoScoresType DEF Restart, durable, memory, flushVars, history
<1>18. CASE UNCHANGED vars
  BY <1>18 DEF vars, durable, memory, flushVars, history
<1> QED BY <1>1, <1>2, <1>3, <1>4, <1>5, <1>6, <1>7, <1>8, <1>9, <1>10, <1>11, <1>12,
           <1>13, <1>14, <1>15, <1>16, <1>17, <1>18 DEF Next, Flush

(* An undrained edge names a complete WIP: the recycles of a flush cannot  *)
(* falsify it, since a flush that is not the last begins with a drain.     *)
LEMMA PendingStep ==
  ASSUME TypeOK, PhaseInv, PendingAreComplete, [Next]_vars
  PROVE  PendingAreComplete'
<1> USE DEF TypeOK, PhaseInv, PendingAreComplete, CompleteWIPs
<1>1. ASSUME NEW w \in WIPs, NEW a \in Actors, Contribute(w, a)
      PROVE  PendingAreComplete'
  <2>1. /\ wips[w].phase # "complete"
        /\ stopping' = stopping
    BY <1>1 DEF Contribute, durable, memory, flushVars, history
  <2>2. /\ \A v \in WIPs : v # w => wips'[v] = wips[v]
        /\ pending' \subseteq pending \cup CompleteWIPs(wips')
    BY <1>1, ContributeType
  <2> QED BY <2>1, <2>2
<1>2. ASSUME NEW a \in Artifacts, Consider(a)
      PROVE  PendingAreComplete'
  BY <1>2 DEF Consider, durable, memory, flushVars, history
<1>3. CASE ClockTick
  BY <1>3, ClockTickEffect DEF ClockTick, durable, memory, flushVars, history
<1>4. CASE BeginFlush
  BY <1>4 DEF BeginFlush, durable, memory, flushVars, history
<1>5. CASE BeginFinalFlush
  BY <1>5 DEF BeginFinalFlush, durable, memory, flushVars, history
<1>6. ASSUME NEW w \in WIPs, TimeoutRecycle(w)
      PROVE  PendingAreComplete'
  BY <1>6 DEF TimeoutRecycle, durable, memory, flushVars, history
<1>7. CASE NothingToRank
  BY <1>7 DEF NothingToRank, NothingTimedOut, LeaveFlush, durable, memory, flushVars, history
<1>8. CASE Rank
  BY <1>8 DEF Rank, Rankings, durable, memory, flushVars, history
<1>9. ASSUME NEW c \in Candidates, Accept(c)
      PROVE  PendingAreComplete'
  BY <1>9 DEF Accept, Deciding, WriteFile, durable, memory, flushVars, history
<1>10. ASSUME NEW c \in Artifacts, RejectArtifact(c)
       PROVE  PendingAreComplete'
  BY <1>10 DEF RejectArtifact, durable, memory, flushVars, history
<1>11. ASSUME NEW w \in WIPs, RejectWIP(w)
       PROVE  PendingAreComplete'
  BY <1>11 DEF RejectWIP, Deciding, durable, memory, flushVars, history
<1>12. CASE RecycleOwed
  BY <1>12 DEF RecycleOwed, durable, memory, flushVars, history
<1>13. CASE BeginManifest
  BY <1>13 DEF BeginManifest, durable, memory, flushVars, history
<1>14. ASSUME NEW c \in Candidates, AppendManifest(c)
       PROVE  PendingAreComplete'
  BY <1>14 DEF AppendManifest, durable, memory, flushVars, history
<1>15. CASE EndFlush
  BY <1>15 DEF EndFlush, LeaveFlush, durable, memory, flushVars, history
<1>16. CASE FlushRaises
  BY <1>16 DEF FlushRaises, LeaveFlush, durable, memory, flushVars, history
<1>17. CASE Restart
  BY <1>17 DEF Restart, durable, memory, flushVars, history
<1>18. CASE UNCHANGED vars
  BY <1>18 DEF vars, durable, memory, flushVars, history
<1> QED BY <1>1, <1>2, <1>3, <1>4, <1>5, <1>6, <1>7, <1>8, <1>9, <1>10, <1>11, <1>12,
           <1>13, <1>14, <1>15, <1>16, <1>17, <1>18 DEF Next, Flush

(* A WIP held back from the ranker is complete: the mark is set while it   *)
(* is, and whatever recycles it takes the mark away.                       *)
LEMMA HarvestedStep ==
  ASSUME TypeOK, SettleInv, HarvestedAreComplete, [Next]_vars
  PROVE  HarvestedAreComplete'
<1> USE DEF TypeOK, SettleInv, HarvestedAreComplete, CompleteWIPs
<1>1. ASSUME NEW w \in WIPs, NEW a \in Actors, Contribute(w, a)
      PROVE  HarvestedAreComplete'
  <2>1. /\ wips[w].phase # "complete"
        /\ harvested' = harvested
    BY <1>1 DEF Contribute, durable, memory, flushVars, history
  <2>2. \A v \in WIPs : v # w => wips'[v] = wips[v]
    BY <1>1, ContributeType
  <2> QED BY <2>1, <2>2
<1>2. ASSUME NEW a \in Artifacts, Consider(a)
      PROVE  HarvestedAreComplete'
  BY <1>2 DEF Consider, durable, memory, flushVars, history
<1>3. CASE ClockTick
  BY <1>3, ClockTickEffect DEF ClockTick, durable, memory, flushVars, history
<1>4. CASE BeginFlush
  BY <1>4 DEF BeginFlush, durable, memory, flushVars, history
<1>5. CASE BeginFinalFlush
  BY <1>5 DEF BeginFinalFlush, durable, memory, flushVars, history
<1>6. ASSUME NEW w \in WIPs, TimeoutRecycle(w)
      PROVE  HarvestedAreComplete'
  BY <1>6, EmitRecycleEffect DEF TimeoutRecycle, Projection, durable, memory, flushVars, history
<1>7. CASE NothingToRank
  BY <1>7 DEF NothingToRank, LeaveFlush, durable, memory, flushVars, history
<1>8. CASE Rank
  BY <1>8 DEF Rank, Rankings, durable, memory, flushVars, history
<1>9. ASSUME NEW c \in Candidates, Accept(c)
      PROVE  HarvestedAreComplete'
  BY <1>9 DEF Accept, Deciding, NextRanked, WriteFile, durable, memory, flushVars, history
<1>10. ASSUME NEW c \in Artifacts, RejectArtifact(c)
       PROVE  HarvestedAreComplete'
  BY <1>10 DEF RejectArtifact, durable, memory, flushVars, history
<1>11. ASSUME NEW w \in WIPs, RejectWIP(w)
       PROVE  HarvestedAreComplete'
  BY <1>11, AttemptKeepsPhase DEF RejectWIP, durable, memory, flushVars, history
<1>12. CASE RecycleOwed
  BY <1>12, EmitRecycleEffect DEF RecycleOwed, Projection, durable, memory, flushVars, history
<1>13. CASE BeginManifest
  BY <1>13 DEF BeginManifest, durable, memory, flushVars, history
<1>14. ASSUME NEW c \in Candidates, AppendManifest(c)
       PROVE  HarvestedAreComplete'
  BY <1>14 DEF AppendManifest, durable, memory, flushVars, history
<1>15. CASE EndFlush
  BY <1>15 DEF EndFlush, LeaveFlush, durable, memory, flushVars, history
<1>16. CASE FlushRaises
  BY <1>16 DEF FlushRaises, LeaveFlush, durable, memory, flushVars, history
<1>17. CASE Restart
  BY <1>17 DEF Restart, durable, memory, flushVars, history
<1>18. CASE UNCHANGED vars
  BY <1>18 DEF vars, durable, memory, flushVars, history
<1> QED BY <1>1, <1>2, <1>3, <1>4, <1>5, <1>6, <1>7, <1>8, <1>9, <1>10, <1>11, <1>12,
           <1>13, <1>14, <1>15, <1>16, <1>17, <1>18 DEF Next, Flush

(* The loop of flush() meets complete WIPs only, each at most once.        *)
LEMMA SettleStep ==
  ASSUME TypeOK, PhaseInv, SettleInv, [Next]_vars
  PROVE  SettleInv'
<1> USE DEF TypeOK, PhaseInv, SettleInv
<1>1. ASSUME NEW w \in WIPs, NEW a \in Actors, Contribute(w, a)
      PROVE  SettleInv'
  <2>1. todo = {} /\ owed = NoWIP /\ accepted = {} /\ logged = {}
    BY <1>1 DEF Contribute, NothingTimedOut, Ranked
  <2> QED BY <1>1, <2>1 DEF Contribute, durable, memory, flushVars, history
<1>2. ASSUME NEW a \in Artifacts, Consider(a)
      PROVE  SettleInv'
  BY <1>2 DEF Consider, durable, memory, flushVars, history
<1>3. CASE ClockTick
  <2>1. todo = {} /\ owed = NoWIP /\ accepted = {} /\ logged = {}
    BY <1>3 DEF ClockTick, NothingTimedOut, Ranked
  <2> QED BY <1>3, <2>1 DEF ClockTick, durable, memory, flushVars, history
<1>4. CASE BeginFlush
  BY <1>4 DEF BeginFlush, durable, memory, flushVars, history
<1>5. CASE BeginFinalFlush
  BY <1>5 DEF BeginFinalFlush, durable, memory, flushVars, history
<1>6. ASSUME NEW w \in WIPs, TimeoutRecycle(w)
      PROVE  SettleInv'
  <2>1. todo = {} /\ owed = NoWIP /\ accepted = {} /\ logged = {}
    BY <1>6 DEF TimeoutRecycle, NothingTimedOut, Ranked
  <2> QED BY <1>6, <2>1 DEF TimeoutRecycle, durable, memory, flushVars, history
<1>7. CASE NothingToRank
  BY <1>7 DEF NothingToRank, LeaveFlush, durable, memory, flushVars, history
<1>8. CASE Rank
  <2>1. owed = NoWIP /\ accepted = {} /\ logged = {}
    BY <1>8 DEF Rank, Rankings, NothingTimedOut, Ranked
  <2> QED BY <1>8, <2>1 DEF Rank, Rankings, Offered, SnapshotPendingWIPs, CompleteWIPs, durable, memory, flushVars, history
<1>9. ASSUME NEW c \in Candidates, Accept(c)
      PROVE  SettleInv'
  BY <1>9 DEF Accept, Deciding, NextRanked, WriteFile, Candidates, durable, memory, flushVars, history
<1>10. ASSUME NEW c \in Artifacts, RejectArtifact(c)
       PROVE  SettleInv'
  BY <1>10 DEF RejectArtifact, durable, memory, flushVars, history
<1>11. ASSUME NEW w \in WIPs, RejectWIP(w)
       PROVE  SettleInv'
  BY <1>11, AttemptKeepsPhase DEF RejectWIP, Deciding, NextRanked, AttemptsSpent, durable, memory, flushVars, history
<1>12. CASE RecycleOwed
  BY <1>12, EmitRecycleEffect DEF RecycleOwed, Projection, durable, memory, flushVars, history
<1>13. CASE BeginManifest
  BY <1>13 DEF BeginManifest, durable, memory, flushVars, history
<1>14. ASSUME NEW c \in Candidates, AppendManifest(c)
       PROVE  SettleInv'
  BY <1>14 DEF AppendManifest, durable, memory, flushVars, history
<1>15. CASE EndFlush
  BY <1>15 DEF EndFlush, LeaveFlush, durable, memory, flushVars, history
<1>16. CASE FlushRaises
  BY <1>16 DEF FlushRaises, LeaveFlush, durable, memory, flushVars, history
<1>17. CASE Restart
  BY <1>17 DEF Restart, durable, memory, flushVars, history
<1>18. CASE UNCHANGED vars
  BY <1>18 DEF vars, durable, memory, flushVars, history
<1> QED BY <1>1, <1>2, <1>3, <1>4, <1>5, <1>6, <1>7, <1>8, <1>9, <1>10, <1>11, <1>12,
           <1>13, <1>14, <1>15, <1>16, <1>17, <1>18 DEF Next, Flush

(* No artifact is lost: the buffer outlives a failed flush, and is cleared *)
(* only when each of its artifacts has its line.                           *)
LEMMA ConservedStep ==
  ASSUME TypeOK, PhaseInv, SettleInv, ArtifactsConserved, [Next]_vars
  PROVE  ArtifactsConserved'
<1> USE DEF TypeOK, PhaseInv, SettleInv, ArtifactsConserved
<1>1. ASSUME NEW w \in WIPs, NEW a \in Actors, Contribute(w, a)
      PROVE  ArtifactsConserved'
  BY <1>1 DEF Contribute, durable, memory, flushVars, history
<1>2. ASSUME NEW a \in Artifacts, Consider(a)
      PROVE  ArtifactsConserved'
  BY <1>2 DEF Consider, durable, memory, flushVars, history
<1>3. CASE ClockTick
  BY <1>3 DEF ClockTick, durable, memory, flushVars, history
<1>4. CASE BeginFlush
  BY <1>4 DEF BeginFlush, durable, memory, flushVars, history
<1>5. CASE BeginFinalFlush
  BY <1>5 DEF BeginFinalFlush, durable, memory, flushVars, history
<1>6. ASSUME NEW w \in WIPs, TimeoutRecycle(w)
      PROVE  ArtifactsConserved'
  BY <1>6 DEF TimeoutRecycle, durable, memory, flushVars, history
<1>7. CASE NothingToRank
  BY <1>7 DEF NothingToRank, LeaveFlush, durable, memory, flushVars, history
<1>8. CASE Rank
  BY <1>8 DEF Rank, Rankings, RankKeepsBuffer, durable, memory, flushVars, history
<1>9. ASSUME NEW c \in Candidates, Accept(c)
      PROVE  ArtifactsConserved'
  BY <1>9 DEF Accept, WriteFile, durable, memory, flushVars, history
<1>10. ASSUME NEW c \in Artifacts, RejectArtifact(c)
       PROVE  ArtifactsConserved'
  BY <1>10 DEF RejectArtifact, durable, memory, flushVars, history
<1>11. ASSUME NEW w \in WIPs, RejectWIP(w)
       PROVE  ArtifactsConserved'
  BY <1>11 DEF RejectWIP, durable, memory, flushVars, history
<1>12. CASE RecycleOwed
  BY <1>12 DEF RecycleOwed, durable, memory, flushVars, history
<1>13. CASE BeginManifest
  BY <1>13 DEF BeginManifest, durable, memory, flushVars, history
<1>14. ASSUME NEW c \in Candidates, AppendManifest(c)
       PROVE  ArtifactsConserved'
  BY <1>14 DEF AppendManifest, durable, memory, flushVars, history
<1>15. CASE EndFlush
  BY <1>15 DEF EndFlush, LeaveFlush, durable, memory, flushVars, history
<1>16. CASE FlushRaises
  BY <1>16 DEF FlushRaises, LeaveFlush, durable, memory, flushVars, history
<1>17. CASE Restart
  BY <1>17 DEF Restart, durable, memory, flushVars, history
<1>18. CASE UNCHANGED vars
  BY <1>18 DEF vars, durable, memory, flushVars, history
<1> QED BY <1>1, <1>2, <1>3, <1>4, <1>5, <1>6, <1>7, <1>8, <1>9, <1>10, <1>11, <1>12,
           <1>13, <1>14, <1>15, <1>16, <1>17, <1>18 DEF Next, Flush

(* Copies, rejections and unlogged files are bounded by the failures.      *)
LEMMA CountStep ==
  ASSUME TypeOK, PhaseInv, SettleInv, CountInv, [Next]_vars
  PROVE  CountInv'
<1> USE DEF TypeOK, PhaseInv, SettleInv, CountInv, Candidates
<1>0. /\ \A w \in WIPs : copies[w] \in Nat /\ wips[w].attempts \in Nat
      /\ \A c \in Candidates : unlogged[c] \in Nat
      /\ faults \in Nat /\ restarts \in Nat /\ MaxHarvestAttempts \in Nat \ {0}
  BY DEF Projection, WIP
<1>1. ASSUME NEW w \in WIPs, NEW a \in Actors, Contribute(w, a)
      PROVE  CountInv'
  <2>1. \A v \in WIPs : wips'[v].attempts = wips[v].attempts
    BY <1>1, ContributeType
  <2> QED BY <1>1, <2>1 DEF Contribute, durable, memory, flushVars, history
<1>2. ASSUME NEW a \in Artifacts, Consider(a)
      PROVE  CountInv'
  BY <1>2 DEF Consider, durable, memory, flushVars, history
<1>3. CASE ClockTick
  BY <1>3, ClockTickEffect DEF ClockTick, durable, memory, flushVars, history
<1>4. CASE BeginFlush
  BY <1>4 DEF BeginFlush, durable, memory, flushVars, history
<1>5. CASE BeginFinalFlush
  BY <1>5 DEF BeginFinalFlush, durable, memory, flushVars, history
<1>6. ASSUME NEW w \in WIPs, TimeoutRecycle(w)
      PROVE  CountInv'
  <2>1. \A v \in WIPs : v # w => wips'[v] = wips[v]
    BY <1>6, EmitRecycleEffect DEF TimeoutRecycle, Projection
  <2>2. wips'[w].attempts = 0
    BY <1>6, EmitRecycleEffect DEF TimeoutRecycle, Projection, NewWIP
  <2>3. copies' = [copies EXCEPT ![w] = 0] /\ harvested' = harvested \ {w}
    BY <1>6, EmitRecycleEffect DEF TimeoutRecycle
  <2>4. UNCHANGED <<unlogged, flushVars, history>>
    BY <1>6 DEF TimeoutRecycle
  <2> QED BY <1>0, <2>1, <2>2, <2>3, <2>4 DEF flushVars, history
<1>7. CASE NothingToRank
  <2>1. Ranked = {} /\ owed = NoWIP /\ owed' = NoWIP /\ accepted' = {} /\ logged' = {}
    BY <1>7 DEF NothingToRank, NothingTimedOut, LeaveFlush
  <2>2. accepted = {} /\ UNCHANGED <<wips, copies, unlogged, harvested, faults, restarts>>
    BY <1>7, <2>1 DEF NothingToRank, durable, memory, flushVars, history
  <2> QED BY <1>0, <2>1, <2>2
<1>8. CASE Rank
  BY <1>8 DEF Rank, Rankings, NothingTimedOut, RankKeepsBuffer, Ranked, durable, memory, flushVars, history
<1>9. ASSUME NEW c \in Candidates, Accept(c)
      PROVE  CountInv'
  <2>1. /\ owed = NoWIP /\ c \in todo /\ c \notin accepted /\ logged = {}
        /\ c \in WIPs => c \notin harvested
    BY <1>9 DEF Accept, Deciding, NextRanked
  <2>2. /\ unlogged' = [unlogged EXCEPT ![c] = @ + 1] /\ accepted' = accepted \cup {c}
        /\ UNCHANGED <<wips, logged, faults, restarts>>
    BY <1>9 DEF Accept, WriteFile, history
  <2>3. CASE c \in WIPs
    <3>1. /\ copies' = [copies EXCEPT ![c] = @ + 1] /\ harvested' = harvested \cup {c}
          /\ owed' = c
      BY <1>9, <2>3 DEF Accept, WriteFile
    <3> QED BY <1>0, <2>1, <2>2, <3>1
  <2>4. CASE c \notin WIPs
    <3>1. UNCHANGED <<copies, harvested, owed>>
      BY <1>9, <2>4 DEF Accept, WriteFile
    <3> QED BY <1>0, <2>1, <2>2, <3>1
  <2> QED BY <2>3, <2>4
<1>10. ASSUME NEW c \in Artifacts, RejectArtifact(c)
       PROVE  CountInv'
  BY <1>10 DEF RejectArtifact, durable, memory, flushVars, history
<1>11. ASSUME NEW w \in WIPs, RejectWIP(w)
       PROVE  CountInv'
  <2>1. owed = NoWIP /\ owed' \in {w, NoWIP}
    BY <1>11 DEF RejectWIP, Deciding
  <2>2. /\ \A v \in WIPs : v # w => wips'[v] = wips[v]
        /\ wips'[w].attempts = wips[w].attempts + 1
    BY <1>11, AttemptKeepsPhase
  <2>3. owed' # w => wips[w].attempts + 1 < MaxHarvestAttempts
    BY <1>11, <1>0 DEF RejectWIP, AttemptsSpent
  <2>4. UNCHANGED <<copies, unlogged, harvested, accepted, logged, faults, restarts>>
    BY <1>11 DEF RejectWIP, memory, history
  <2> QED BY <1>0, <2>1, <2>2, <2>3, <2>4
<1>12. CASE RecycleOwed
  <2>0. owed \in WIPs
    BY <1>12 DEF RecycleOwed
  <2>1. \A v \in WIPs : v # owed => wips'[v] = wips[v]
    BY <1>12, <2>0, EmitRecycleEffect DEF RecycleOwed, Projection
  <2>2. wips'[owed].attempts = 0
    BY <1>12, <2>0, EmitRecycleEffect DEF RecycleOwed, Projection, NewWIP
  <2>3. copies' = [copies EXCEPT ![owed] = 0] /\ harvested' = harvested \ {owed}
    BY <1>12, <2>0, EmitRecycleEffect DEF RecycleOwed
  <2>4. UNCHANGED <<unlogged, accepted, logged, faults, restarts>> /\ owed' = NoWIP
    BY <1>12 DEF RecycleOwed, history
  <2> QED BY <1>0, <2>0, <2>1, <2>2, <2>3, <2>4
<1>13. CASE BeginManifest
  BY <1>13 DEF BeginManifest, durable, memory, flushVars, history
<1>14. ASSUME NEW c \in Candidates, AppendManifest(c)
       PROVE  CountInv'
  BY <1>14 DEF AppendManifest, durable, memory, flushVars, history
<1>15. CASE EndFlush
  BY <1>15 DEF EndFlush, LeaveFlush, durable, memory, flushVars, history
<1>16. CASE FlushRaises
  <2>1. owed' = NoWIP /\ accepted' = {} /\ logged' = {}
    BY <1>16 DEF FlushRaises, LeaveFlush
  <2>2. faults' = faults + 1 /\ UNCHANGED <<wips, copies, unlogged, harvested, restarts>>
    BY <1>16 DEF FlushRaises, durable, memory, flushVars, history
  <2> QED BY <1>0, <2>1, <2>2
<1>17. CASE Restart
  <2>1. owed' = NoWIP /\ accepted' = {} /\ logged' = {} /\ harvested' = {}
    BY <1>17 DEF Restart
  <2>2. restarts' = restarts + 1 /\ UNCHANGED <<wips, copies, unlogged, faults>>
    BY <1>17 DEF Restart, durable, memory, flushVars, history
  <2> QED BY <1>0, <2>1, <2>2
<1>18. CASE UNCHANGED vars
  BY <1>18 DEF vars, durable, memory, flushVars, history
<1> QED BY <1>1, <1>2, <1>3, <1>4, <1>5, <1>6, <1>7, <1>8, <1>9, <1>10, <1>11, <1>12,
           <1>13, <1>14, <1>15, <1>16, <1>17, <1>18 DEF Next, Flush

(* A score that is not below one that reaches the cutoff reaches it too.   *)
LEMMA AboveCutoffMonotone ==
  ASSUME TypeOK, NEW a \in RankedArtifacts, NEW b \in RankedArtifacts,
         scores[a] <= scores[b], AboveCutoff(a)
  PROVE  AboveCutoff(b)
<1>1. IsFiniteSet(RankedArtifacts)
  BY FS_Subset DEF RankedArtifacts
<1>2. \A c \in RankedArtifacts : scores[c] \in Int
  BY DEF TypeOK, RankedArtifacts, Ranked, Scores
<1>3. AtMost(scores[a]) \subseteq AtMost(scores[b])
  BY <1>2 DEF AtMost
<1>4. AtMost(scores[b]) \subseteq RankedArtifacts
  BY DEF AtMost
<1>5. IsFiniteSet(AtMost(scores[b])) /\ IsFiniteSet(AtMost(scores[a]))
  BY <1>1, <1>3, <1>4, FS_Subset
<1>6. Cardinality(AtMost(scores[a])) <= Cardinality(AtMost(scores[b]))
  BY <1>3, <1>5, FS_Subset
<1>7. /\ Cardinality(AtMost(scores[a])) \in Nat /\ Cardinality(AtMost(scores[b])) \in Nat
      /\ Cardinality(RankedArtifacts) \in Nat
  BY <1>1, <1>5, FS_CardinalityType
<1>8. CutoffIndex \in Int
  <2>1. Percentile \in Int
    OBVIOUS
  <2>2. Cardinality(RankedArtifacts) * Percentile \in Int
    BY <1>7, <2>1
  <2> QED BY <1>7, <2>2 DEF CutoffIndex
<1> QED BY <1>6, <1>7, <1>8 DEF AboveCutoff

(* The cutoff depends on the scores alone.                                 *)
LEMMA AboveCutoffFixed ==
  ASSUME scores' = scores
  PROVE  \A b : AboveCutoff(b)' <=> AboveCutoff(b)
  BY DEF AboveCutoff, Tied, CutoffIndex, AtMost, RankedArtifacts, Ranked

(* The crafts accepted so far are counted by a natural number, which does  *)
(* not shrink when a candidate is accepted.                                *)
LEMMA AcceptedCraftsCount ==
  ASSUME NEW S, NEW c
  PROVE  /\ Cardinality(S \cap Crafts) \in Nat
         /\ Cardinality((S \cup {c}) \cap Crafts) \in Nat
         /\ Cardinality(S \cap Crafts) <= Cardinality((S \cup {c}) \cap Crafts)
<1>1. IsFiniteSet(S \cap Crafts) /\ IsFiniteSet((S \cup {c}) \cap Crafts)
  BY FS_Subset
<1>2. S \cap Crafts \subseteq (S \cup {c}) \cap Crafts
  OBVIOUS
<1> QED BY <1>1, <1>2, FS_Subset, FS_CardinalityType

(* The loop takes the top crafts: what it still has to reach never scores  *)
(* above what it passed, and it turns a craft away only for good.          *)
LEMMA RankStep ==
  ASSUME TypeOK, PhaseInv, SettleInv, RankInv, [Next]_vars
  PROVE  RankInv'
<1> USE DEF RankInv, Ranked
<1>1. ASSUME NEW w \in WIPs, NEW a \in Actors, Contribute(w, a)
      PROVE  RankInv'
  <2>1. UNCHANGED <<scores, todo, accepted>>
    BY <1>1 DEF Contribute, durable, memory, flushVars, history
  <2> QED BY <2>1, AboveCutoffFixed
<1>2. ASSUME NEW a \in Artifacts, Consider(a)
      PROVE  RankInv'
  <2>1. UNCHANGED <<scores, todo, accepted>>
    BY <1>2 DEF Consider, durable, memory, flushVars, history
  <2> QED BY <2>1, AboveCutoffFixed
<1>3. CASE ClockTick
  <2>1. UNCHANGED <<scores, todo, accepted>>
    BY <1>3 DEF ClockTick, durable, memory, flushVars, history
  <2> QED BY <2>1, AboveCutoffFixed
<1>4. CASE BeginFlush
  <2>1. UNCHANGED <<scores, todo, accepted>>
    BY <1>4 DEF BeginFlush, durable, memory, flushVars, history
  <2> QED BY <2>1, AboveCutoffFixed
<1>5. CASE BeginFinalFlush
  <2>1. UNCHANGED <<scores, todo, accepted>>
    BY <1>5 DEF BeginFinalFlush, durable, memory, flushVars, history
  <2> QED BY <2>1, AboveCutoffFixed
<1>6. ASSUME NEW w \in WIPs, TimeoutRecycle(w)
      PROVE  RankInv'
  <2>1. UNCHANGED <<scores, todo, accepted>>
    BY <1>6 DEF TimeoutRecycle, durable, memory, flushVars, history
  <2> QED BY <2>1, AboveCutoffFixed
<1>7. CASE NothingToRank
  <2>1. DOMAIN scores' = {} /\ todo' = {} /\ accepted' = {}
    BY <1>7, NoScoresType DEF NothingToRank, LeaveFlush
  <2> QED BY <2>1
<1>8. CASE Rank
  <2>1. accepted = {}
    BY <1>8 DEF Rank, Rankings, NothingTimedOut, PhaseInv, TypeOK
  <2>2. DOMAIN scores' = Offered /\ todo' = Offered /\ accepted' = {}
    BY <1>8, <2>1 DEF Rank, Rankings
  <2> QED BY <2>2
<1>9. ASSUME NEW c \in Candidates, Accept(c)
      PROVE  RankInv'
  <2>1. /\ c \in todo /\ accepted \cap todo = {} /\ Accepts(c)
        /\ \A d \in todo : scores[d] <= scores[c]
    BY <1>9 DEF Accept, Deciding, NextRanked, SettleInv
  <2>2. /\ scores' = scores /\ todo' = todo \ {c} /\ accepted' = accepted \cup {c}
    BY <1>9 DEF Accept
  <2>3. \A x \in Ranked \ todo', d \in todo' : scores[d] <= scores[x]
    BY <2>1, <2>2
  <2>4. ASSUME NEW b \in (Ranked \cap Crafts) \ (todo' \cup accepted')
        PROVE  ~AboveCutoff(b) \/ Cardinality(accepted' \cap Crafts) >= CraftCap
    <3>1. b \in (Ranked \cap Crafts) \ (todo \cup accepted)
      BY <2>1, <2>2
    <3>2. /\ Cardinality(accepted \cap Crafts) \in Nat
          /\ Cardinality(accepted' \cap Crafts) \in Nat
          /\ Cardinality(accepted \cap Crafts) <= Cardinality(accepted' \cap Crafts)
      BY <2>2, AcceptedCraftsCount
    <3> QED BY <3>1, <3>2
  <2>5. ASSUME NEW a \in accepted' \cap Crafts, NEW b \in (Ranked \cap Crafts) \ accepted'
        PROVE  scores[a] >= scores[b]
    <3>1. scores[a] \in Int /\ scores[b] \in Int
      BY <2>1, <2>2 DEF TypeOK, Scores
    <3>2. CASE a # c
      BY <2>2, <3>2
    <3>3. CASE a = c /\ b \in todo
      BY <2>1, <3>1, <3>3
    <3>4. CASE a = c /\ b \notin todo
      <4>1. AboveCutoff(c) /\ ~(Cardinality(accepted \cap Crafts) >= CraftCap)
        <5>1. Cardinality(accepted \cap Crafts) \in Nat
          BY AcceptedCraftsCount
        <5>2. c \in Crafts /\ c \notin WIPs
          BY <3>4
        <5>3. AboveCutoff(c) /\ Cardinality(accepted \cap Crafts) < CraftCap
          BY <2>1, <5>2 DEF Accepts
        <5> QED BY <5>1, <5>3
      <4>2. ~AboveCutoff(b)
        BY <2>2, <3>4, <4>1
      <4>3. a \in RankedArtifacts /\ b \in RankedArtifacts
        BY <2>1, <3>4 DEF RankedArtifacts, TypeOK
      <4> QED BY <3>1, <3>4, <4>1, <4>2, <4>3, AboveCutoffMonotone
    <3> QED BY <3>2, <3>3, <3>4
  <2> QED BY <2>2, <2>3, <2>4, <2>5, AboveCutoffFixed
<1>10. ASSUME NEW c \in Artifacts, RejectArtifact(c)
       PROVE  RankInv'
  <2>1. /\ c \in todo /\ c \notin WIPs /\ ~Accepts(c)
        /\ \A d \in todo : scores[d] <= scores[c]
    BY <1>10 DEF RejectArtifact, Deciding, NextRanked
  <2>2. scores' = scores /\ todo' = todo \ {c} /\ accepted' = accepted
    BY <1>10 DEF RejectArtifact
  <2>3. c \in Crafts => ~AboveCutoff(c) \/ Cardinality(accepted \cap Crafts) >= CraftCap
    <3>1. Cardinality(accepted \cap Crafts) \in Nat
      BY AcceptedCraftsCount
    <3>2. c \in Crafts => ~AboveCutoff(c) \/ ~(Cardinality(accepted \cap Crafts) < CraftCap)
      BY <2>1 DEF Accepts
    <3> QED BY <3>1, <3>2
  <2> QED BY <2>1, <2>2, <2>3, AboveCutoffFixed
<1>11. ASSUME NEW w \in WIPs, RejectWIP(w)
       PROVE  RankInv'
  <2>1. w \in todo /\ w \notin Crafts /\ \A d \in todo : scores[d] <= scores[w]
    BY <1>11 DEF RejectWIP, Deciding, NextRanked
  <2>2. scores' = scores /\ todo' = todo \ {w} /\ accepted' = accepted
    BY <1>11 DEF RejectWIP
  <2> QED BY <2>1, <2>2, AboveCutoffFixed
<1>12. CASE RecycleOwed
  <2>1. UNCHANGED <<scores, todo, accepted>>
    BY <1>12 DEF RecycleOwed, durable, memory, flushVars, history
  <2> QED BY <2>1, AboveCutoffFixed
<1>13. CASE BeginManifest
  <2>1. UNCHANGED <<scores, todo, accepted>>
    BY <1>13 DEF BeginManifest, durable, memory, flushVars, history
  <2> QED BY <2>1, AboveCutoffFixed
<1>14. ASSUME NEW c \in Candidates, AppendManifest(c)
       PROVE  RankInv'
  <2>1. UNCHANGED <<scores, todo, accepted>>
    BY <1>14 DEF AppendManifest, durable, memory, flushVars, history
  <2> QED BY <2>1, AboveCutoffFixed
<1>15. CASE EndFlush
  <2>1. DOMAIN scores' = {} /\ todo' = {} /\ accepted' = {}
    BY <1>15, NoScoresType DEF EndFlush, LeaveFlush
  <2> QED BY <2>1
<1>16. CASE FlushRaises
  <2>1. DOMAIN scores' = {} /\ todo' = {} /\ accepted' = {}
    BY <1>16, NoScoresType DEF FlushRaises, LeaveFlush
  <2> QED BY <2>1
<1>17. CASE Restart
  <2>1. DOMAIN scores' = {} /\ todo' = {} /\ accepted' = {}
    BY <1>17, NoScoresType DEF Restart
  <2> QED BY <2>1
<1>18. CASE UNCHANGED vars
  <2>1. UNCHANGED <<scores, todo, accepted>>
    BY <1>18 DEF vars, durable, memory, flushVars, history
  <2> QED BY <2>1, AboveCutoffFixed
<1> QED BY <1>1, <1>2, <1>3, <1>4, <1>5, <1>6, <1>7, <1>8, <1>9, <1>10, <1>11, <1>12,
           <1>13, <1>14, <1>15, <1>16, <1>17, <1>18 DEF Next, Flush

-----------------------------------------------------------------------------

(* The inductive invariant holds initially.                                *)
LEMMA InvInit == Init => Inv
<1> SUFFICES ASSUME Init PROVE Inv
  OBVIOUS
<1>1. TypeOK
  BY TypeInit
<1>2. Ranked = {}
  BY NoScoresType DEF Init, Ranked
<1>3. PhaseInv
  BY <1>2 DEF Init, PhaseInv
<1>4. PendingAreComplete /\ HarvestedAreComplete /\ SettleInv /\ ArtifactsConserved
  BY DEF Init, PendingAreComplete, HarvestedAreComplete, SettleInv, ArtifactsConserved
<1>5. CountInv
  BY DEF Init, CountInv, NewProjection, NewWIP
<1>6. RankInv
  BY <1>2 DEF Init, RankInv
<1> QED BY <1>1, <1>3, <1>4, <1>5, <1>6 DEF Inv

(* The inductive invariant is inductive: its parts one by one, above.      *)
LEMMA InvStep ==
  ASSUME Inv, [Next]_vars
  PROVE  Inv'
  BY TypeStep, PhaseStep, PendingStep, HarvestedStep, SettleStep, CountStep, ConservedStep,
     RankStep DEF Inv

(* Inv holds in every reachable state.                                     *)
THEOREM Invariance == Spec => []Inv
  BY InvInit, InvStep, PTL DEF Spec

-----------------------------------------------------------------------------

(* Every variable keeps its type; in particular no candidate ever has more *)
(* accepted manifest lines than files (unlogged stays a natural number).   *)
THEOREM TypeCorrect == Spec => []TypeOK
<1>1. Inv => TypeOK
  BY DEF Inv
<1> QED BY <1>1, Invariance, PTL

(* The flush gate never fires on a WIP that is not complete.               *)
THEOREM PendingCorrect == Spec => []PendingAreComplete
<1>1. Inv => PendingAreComplete
  BY DEF Inv
<1> QED BY <1>1, Invariance, PTL

(* A WIP is held back from the ranker only until it is recycled, so its    *)
(* next completion is eligible again.                                      *)
THEOREM HarvestedCorrect == Spec => []HarvestedAreComplete
<1>1. Inv => HarvestedAreComplete
  BY DEF Inv
<1> QED BY <1>1, Invariance, PTL

(* One process writes one completion to the inbox at most once, whatever   *)
(* raises in between.                                                      *)
THEOREM OneCopy == Spec => []OneCopyPerProcess
<1>1. Inv => OneCopyPerProcess
  BY DEF Inv, TypeOK, CountInv, OneCopyPerProcess
<1> QED BY <1>1, Invariance, PTL

(* Rejections stay below the recycling limit, but for one attempt for each *)
(* failed flush or restart.                                                *)
THEOREM AttemptsCorrect == Spec => []AttemptsBounded
<1>1. Inv => AttemptsBounded
  BY DEF Inv, TypeOK, PhaseInv, CountInv, AttemptsBounded
<1> QED BY <1>1, Invariance, PTL

(* No artifact is lost inside a process.                                   *)
THEOREM NoArtifactLost == Spec => []ArtifactsConserved
<1>1. Inv => ArtifactsConserved
  BY DEF Inv
<1> QED BY <1>1, Invariance, PTL

(* A file lacks its manifest line only if a flush failed or a process      *)
(* ended, and then at most one file of a candidate for each.               *)
THEOREM AuditGap == Spec => []AuditGapBounded
<1>1. Inv => AuditGapBounded
  BY DEF Inv, TypeOK, PhaseInv, CountInv, AuditGapBounded, Candidates
<1> QED BY <1>1, Invariance, PTL

(* The craft cap keeps the top crafts.                                     *)
THEOREM TopCrafts == Spec => []TopCraftsWin
<1>1. Inv => TopCraftsWin
  BY DEF Inv, RankInv, TopCraftsWin
<1> QED BY <1>1, Invariance, PTL

(* A complete WIP is reopened only after it was written, waited past the   *)
(* timeout or spent its attempts: no fragment is dropped silently.         *)
THEOREM NothingLostSilently == Spec => NoSilentLoss
<1> DEFINE Justified == \A w \in WIPs :
      wips[w].phase = "complete" /\ wips'[w].phase # "complete" =>
        \/ copies[w] >= 1
        \/ Overdue(w)
        \/ wips[w].attempts >= MaxHarvestAttempts
<1>1. ASSUME Inv, [Next]_vars
      PROVE  Justified
  <2> USE <1>1 DEF Inv, TypeOK
  <2>1. ASSUME NEW v \in WIPs, NEW a \in Actors, Contribute(v, a)
        PROVE  Justified
    <3>1. wips[v].phase # "complete" /\ \A w \in WIPs : w # v => wips'[w] = wips[w]
      BY <2>1, ContributeType DEF Contribute
    <3> QED BY <3>1
  <2>2. CASE ClockTick
    BY <2>2, ClockTickEffect
  <2>3. ASSUME NEW v \in WIPs, TimeoutRecycle(v)
        PROVE  Justified
    <3>1. Overdue(v) /\ wips' = [wips EXCEPT ![v] = NewWIP]
      BY <2>3, EmitRecycleEffect DEF TimeoutRecycle, TimedOut
    <3> QED BY <3>1 DEF Projection
  <2>4. ASSUME NEW v \in WIPs, RejectWIP(v)
        PROVE  Justified
    BY <2>4, AttemptKeepsPhase
  <2>5. CASE RecycleOwed
    <3>1. owed \in WIPs /\ wips' = [wips EXCEPT ![owed] = NewWIP]
      BY <2>5, EmitRecycleEffect DEF RecycleOwed
    <3>2. copies[owed] >= 1 \/ wips[owed].attempts >= MaxHarvestAttempts
      BY <2>5 DEF RecycleOwed, SettleInv
    <3> QED BY <3>1, <3>2 DEF Projection
  <2>6. CASE wips' = wips
    BY <2>6
  <2> QED
    BY <1>1, <2>1, <2>2, <2>3, <2>4, <2>5, <2>6
    DEF Next, Flush, Consider, BeginFlush, BeginFinalFlush, NothingToRank, Rank, Accept,
        RejectArtifact, BeginManifest, AppendManifest, EndFlush, FlushRaises, Restart,
        durable, vars
<1>2. Justified => [Justified]_vars
  OBVIOUS
<1> QED BY <1>1, <1>2, Invariance, PTL DEF Spec, NoSilentLoss

-----------------------------------------------------------------------------
(* The refinement of module Slot. *)

(* A step that leaves the WIPs, their files and the marks of the process   *)
(* alone is none of the slots.                                             *)
LEMMA SlotStutter ==
  ASSUME UNCHANGED <<wips, copies, harvested>>
  PROVE  UNCHANGED Slots!slotVars
  BY DEF Slots!slotVars, CompleteWIPs, Overdue

(* A recycle on one of the grounds reopens the slot, and leaves nothing.   *)
LEMMA SlotReopens ==
  ASSUME TypeOK, NEW w \in WIPs, EmitRecycle(w), wips[w].phase = "complete",
         copies[w] >= 1 \/ Overdue(w) \/ wips[w].attempts >= MaxHarvestAttempts
  PROVE  Slots!Next
<1> DEFINE full == CompleteWIPs(wips)
           waited == {v \in WIPs : Overdue(v)}
           rejections == [v \in WIPs |-> wips[v].attempts]
<1>1. /\ wips' = [wips EXCEPT ![w] = NewWIP]
      /\ copies' = [copies EXCEPT ![w] = 0] /\ harvested' = harvested \ {w}
  BY EmitRecycleEffect
<1>2. /\ \A v \in WIPs : v # w => wips'[v] = wips[v]
      /\ wips'[w].phase = "forming" /\ wips'[w].attempts = 0
  BY <1>1 DEF TypeOK, Projection, NewWIP
<1>3. full' = full \ {w}
  BY <1>2 DEF CompleteWIPs
<1>4. waited' = waited \ {w}
  BY <1>2 DEF Overdue
<1>5. rejections' = [rejections EXCEPT ![w] = 0]
  BY <1>2
<1>6. w \in full
  BY DEF CompleteWIPs
<1>7. Slots!MayReopen(w)
  BY DEF Slots!MayReopen
<1>8. Slots!Reopen(w)
  BY <1>1, <1>3, <1>4, <1>5, <1>6, <1>7 DEF Slots!Reopen
<1> QED BY <1>8 DEF Slots!Next

(* A contribute fills a slot, or none.                                     *)
LEMMA SlotFills ==
  ASSUME TypeOK, NEW w \in WIPs, NEW a \in Actors, Contribute(w, a)
  PROVE  Slots!Next \/ UNCHANGED Slots!slotVars
<1> DEFINE full == CompleteWIPs(wips)
           waited == {v \in WIPs : Overdue(v)}
           rejections == [v \in WIPs |-> wips[v].attempts]
<1>1. /\ \A v \in WIPs : v # w => wips'[v] = wips[v]
      /\ wips'[w].attempts = wips[w].attempts
      /\ wips[w].phase # "complete"
      /\ UNCHANGED <<copies, harvested>>
  BY ContributeType DEF Contribute
<1>2. wips'[w].phase = "complete" => wips'[w].completedTs = 0
  <2>1. wips' = ApplyContribute(wips, ContributeEvent(w, a, 0, FALSE))
    BY DEF Contribute, Apply, ContributeEvent
  <2> QED BY <1>1, <2>1 DEF ApplyContribute, ContributeEvent, TypeOK, Projection
<1>3. rejections' = rejections
  BY <1>1
<1>4. waited' = waited
  <2>1. ~Overdue(w) /\ ~(Overdue(w))'
    BY <1>1, <1>2 DEF Overdue
  <2> QED BY <1>1, <2>1 DEF Overdue
<1>5. full' = full \/ (w \notin full /\ full' = full \cup {w})
  BY <1>1 DEF CompleteWIPs
<1>6. CASE full' = full
  BY <1>1, <1>3, <1>4, <1>6 DEF Slots!slotVars
<1>7. CASE w \notin full /\ full' = full \cup {w}
  <2>1. Slots!Fill(w)
    BY <1>1, <1>3, <1>4, <1>7 DEF Slots!Fill
  <2> QED BY <2>1 DEF Slots!Next
<1> QED BY <1>5, <1>6, <1>7

(* Time lets full slots wait too long.                                     *)
LEMMA SlotsWait ==
  ASSUME TypeOK, ClockTick
  PROVE  Slots!Next
<1> DEFINE waited == {v \in WIPs : Overdue(v)}
<1>1. /\ \A w \in WIPs : /\ wips'[w].phase = wips[w].phase
                         /\ wips'[w].attempts = wips[w].attempts
      /\ UNCHANGED <<copies, harvested>>
  BY ClockTickEffect DEF ClockTick, memory
<1>2. waited' \subseteq CompleteWIPs(wips)
  BY <1>1 DEF Overdue, CompleteWIPs
<1>3. waited \subseteq waited'
  <2>1. \A w \in WIPs : Overdue(w) => wips'[w] = wips[w]
    BY DEF ClockTick, TypeOK, Projection
  <2> QED BY <2>1 DEF Overdue
<1>4. /\ CompleteWIPs(wips)' = CompleteWIPs(wips)
      /\ [v \in WIPs |-> wips[v].attempts]' = [v \in WIPs |-> wips[v].attempts]
  BY <1>1 DEF CompleteWIPs
<1>5. Slots!Wait
  BY <1>1, <1>2, <1>3, <1>4 DEF Slots!Wait
<1> QED BY <1>5 DEF Slots!Next

(* Every step of the harvest is one of the slots, or none.                 *)
LEMMA SlotStep ==
  ASSUME Inv, [Next]_vars
  PROVE  [Slots!Next]_(Slots!slotVars)
<1> USE DEF Inv
<1>1. ASSUME NEW w \in WIPs, NEW a \in Actors, Contribute(w, a)
      PROVE  [Slots!Next]_(Slots!slotVars)
  BY <1>1, SlotFills
<1>2. CASE ClockTick
  BY <1>2, SlotsWait
<1>3. ASSUME NEW w \in WIPs, TimeoutRecycle(w)
      PROVE  [Slots!Next]_(Slots!slotVars)
  BY <1>3, SlotReopens DEF TimeoutRecycle, TimedOut, Overdue
<1>4. CASE RecycleOwed
  <2>1. /\ owed \in WIPs /\ EmitRecycle(owed) /\ wips[owed].phase = "complete"
        /\ copies[owed] >= 1 \/ wips[owed].attempts >= MaxHarvestAttempts
    BY <1>4 DEF RecycleOwed, SettleInv, TypeOK
  <2> QED BY <2>1, SlotReopens
<1>5. ASSUME NEW c \in Candidates, Accept(c)
      PROVE  [Slots!Next]_(Slots!slotVars)
  <2>1. c \in todo /\ WriteFile(c) /\ wips' = wips
    BY <1>5 DEF Accept, Deciding, NextRanked
  <2>2. CASE c \in WIPs
    <3>1. c \in CompleteWIPs(wips) /\ c \notin harvested
      BY <2>1, <2>2 DEF SettleInv, CompleteWIPs
    <3>2. copies' = [copies EXCEPT ![c] = @ + 1] /\ harvested' = harvested \cup {c}
      BY <2>1, <2>2 DEF WriteFile
    <3>3. Slots!Deliver(c)
      BY <2>1, <3>1, <3>2 DEF Slots!Deliver, Slots!Offered, CompleteWIPs, Overdue
    <3> QED BY <2>2, <3>3 DEF Slots!Next
  <2>3. CASE c \notin WIPs
    BY <2>1, <2>3, SlotStutter DEF WriteFile
  <2> QED BY <2>2, <2>3
<1>6. ASSUME NEW w \in WIPs, RejectWIP(w)
      PROVE  [Slots!Next]_(Slots!slotVars)
  <2>1. w \in CompleteWIPs(wips) /\ w \notin harvested
    BY <1>6 DEF RejectWIP, Deciding, NextRanked, SettleInv, CompleteWIPs
  <2>2. wips' = [wips EXCEPT ![w].attempts = @ + 1] /\ UNCHANGED <<copies, harvested>>
    BY <1>6, AttemptEffect DEF TypeOK, RejectWIP, memory
  <2>3. \A v \in WIPs : /\ wips'[v].phase = wips[v].phase
                        /\ wips'[v].completedTs = wips[v].completedTs
                        /\ wips'[v].attempts = IF v = w THEN wips[v].attempts + 1
                                               ELSE wips[v].attempts
    <3>1. \A v \in WIPs : wips[v] \in WIP
      BY DEF TypeOK, Projection
    <3>2. \A v \in WIPs : wips'[v] = IF v = w THEN [wips[w] EXCEPT !.attempts = @ + 1]
                                     ELSE wips[v]
      BY <2>2 DEF TypeOK, Projection
    <3>3. /\ wips'[w].phase = wips[w].phase
          /\ wips'[w].completedTs = wips[w].completedTs
          /\ wips'[w].attempts = wips[w].attempts + 1
      <4>1. wips[w] \in WIP /\ wips'[w] = [wips[w] EXCEPT !.attempts = @ + 1]
        BY <3>1, <3>2
      <4> QED BY <4>1 DEF WIP
    <3> QED BY <3>2, <3>3
  <2>4. /\ CompleteWIPs(wips)' = CompleteWIPs(wips)
        /\ {v \in WIPs : Overdue(v)}' = {v \in WIPs : Overdue(v)}
    BY <2>3 DEF CompleteWIPs, Overdue
  <2>5. [v \in WIPs |-> wips[v].attempts]'
          = [[v \in WIPs |-> wips[v].attempts] EXCEPT ![w] = @ + 1]
    BY <2>3
  <2>6. Slots!Reject(w)
    BY <2>1, <2>2, <2>4, <2>5 DEF Slots!Reject, Slots!Offered
  <2> QED BY <2>6 DEF Slots!Next
<1>7. CASE Restart
  <2>1. harvested' = {} /\ UNCHANGED <<wips, copies>>
    BY <1>7 DEF Restart, durable
  <2>2. Slots!NewProcess
    BY <2>1 DEF Slots!NewProcess, CompleteWIPs, Overdue
  <2> QED BY <2>2 DEF Slots!Next
<1>8. CASE UNCHANGED <<wips, copies, harvested>>
  BY <1>8, SlotStutter
<1> QED
  BY <1>1, <1>2, <1>3, <1>4, <1>5, <1>6, <1>7, <1>8
  DEF Next, Flush, Consider, BeginFlush, BeginFinalFlush, NothingToRank, Rank,
      RejectArtifact, BeginManifest, AppendManifest, EndFlush, FlushRaises,
      durable, memory, vars

(* Harvest implements Slot: through every exception and kill, a slot is    *)
(* delivered at most once by a process and reopened only on its grounds.   *)
THEOREM PromiseKept == Spec => KeepsSlotPromise
<1>1. Init => Slots!Init
  <2> SUFFICES ASSUME Init PROVE Slots!Init
    OBVIOUS
  <2>1. \A w \in WIPs : wips[w].phase = "forming" /\ wips[w].attempts = 0
    BY DEF Init, NewProjection, NewWIP
  <2>2. copies = [w \in WIPs |-> 0] /\ harvested = {}
    BY DEF Init
  <2> QED BY <2>1, <2>2 DEF Slots!Init, CompleteWIPs, Overdue
<1>2. Inv /\ [Next]_vars => [Slots!Next]_(Slots!slotVars)
  BY SlotStep
<1> QED BY <1>1, <1>2, Invariance, PTL DEF Spec, KeepsSlotPromise, Slots!Spec

=============================================================================
