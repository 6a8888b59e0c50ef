--------------------------- MODULE TickLoopProofs ---------------------------
(***************************************************************************)
(* The safety of the run loop, for any roster, any number of Strangers and *)
(* ticks and every value of its limits: LoopInv of TickLoop is inductive.  *)
(* One lemma for the arithmetic of the timer, one for the counters of a    *)
(* scene, and one step per action.                                         *)
(***************************************************************************)
EXTENDS TickLoop, FiniteSetTheorems, TLAPS

USE TickLoopAssumption

(* Division with remainder.                                                *)
LEMMA Remainder ==
  ASSUME NEW n \in Nat
  PROVE  /\ n % FlushEvery \in 0 .. FlushEvery - 1
         /\ n \div FlushEvery \in Nat
         /\ n = FlushEvery * (n \div FlushEvery) + (n % FlushEvery)
<1>1. n % FlushEvery \in 0 .. FlushEvery - 1
  OBVIOUS
<1>2. n \div FlushEvery \in Nat
  OBVIOUS
<1>3. n = FlushEvery * (n \div FlushEvery) + (n % FlushEvery)
  OBVIOUS
<1> QED BY <1>1, <1>2, <1>3

(* What is written as a multiple and a smaller rest has that remainder.    *)
LEMMA RemainderUnique ==
  ASSUME NEW n \in Nat, NEW q \in Nat, NEW r \in Nat, r < FlushEvery, n = FlushEvery * q + r
  PROVE  n % FlushEvery = r
  OBVIOUS

(* From one tick to the next the distance to the last timer flush grows by *)
(* one, or the timer fires.                                                *)
LEMMA NextTick ==
  ASSUME NEW n \in Nat
  PROVE  /\ n % FlushEvery \in Nat
         /\ (n + 1) % FlushEvery = 0 \/ (n + 1) % FlushEvery = (n % FlushEvery) + 1
<1>1. PICK q \in Nat, r \in 0 .. FlushEvery - 1 :
        r = n % FlushEvery /\ n = FlushEvery * q + r
  BY Remainder
<1>2. CASE r + 1 = FlushEvery
  <2>1. q + 1 \in Nat /\ n + 1 = FlushEvery * (q + 1) + 0
    BY <1>1, <1>2
  <2>2. (n + 1) % FlushEvery = 0
    BY <2>1, RemainderUnique
  <2> QED BY <1>1, <2>2
<1>3. CASE r + 1 < FlushEvery
  <2>1. n + 1 \in Nat /\ r + 1 \in Nat /\ n + 1 = FlushEvery * q + (r + 1)
    BY <1>1
  <2>2. (n + 1) % FlushEvery = r + 1
    BY <1>3, <2>1, RemainderUnique
  <2> QED BY <1>1, <2>2
<1> QED BY <1>2, <1>3

(* What a scene makes of the counters is a counter for everyone.           *)
LEMMA CountersAfterTurns ==
  ASSUME fails \in [Everyone -> Nat], NEW authors, NEW landed, NEW ending
  PROVE  [AfterTurns(authors, landed, ending) EXCEPT ![cur] = 0] \in [Everyone -> Nat]
<1> DEFINE parsed == [a \in Everyone |->
                        IF \E i \in 1 .. landed : authors[i] = a THEN 0 ELSE fails[a]]
<1>1. parsed \in [Everyone -> Nat]
  OBVIOUS
<1> HIDE DEF parsed
<1>2. AfterTurns(authors, landed, ending) \in [Everyone -> Nat]
  <2>1. \/ AfterTurns(authors, landed, ending) = parsed
        \/ AfterTurns(authors, landed, ending) =
             [parsed EXCEPT ![authors[landed + 1]] = IF ending = "parsed" THEN 0 ELSE @ + 1]
    BY DEF AfterTurns, parsed
  <2> QED BY <1>1, <2>1
<1> QED BY <1>2

(* A Stranger at a time: the roster only grows.                            *)
LEMMA RosterGrows ==
  ASSUME TickTypeOK, Watchdog
  PROVE  /\ roster \subseteq roster' /\ roster' \subseteq Everyone
         /\ Cardinality(roster) \in Nat /\ Cardinality(roster') \in Nat
         /\ Cardinality(roster) <= Cardinality(roster')
<1>1. roster \subseteq roster' /\ roster' \subseteq Everyone
  BY DEF Watchdog, TickTypeOK, Everyone
<1>2. IsFiniteSet(roster) /\ IsFiniteSet(roster')
  BY <1>1, FS_Subset
<1> QED BY <1>1, <1>2, FS_Subset, FS_CardinalityType

(* The loop begins with nothing to flush and nothing counted.              *)
LEMMA LoopInit == Init => LoopInv
<1> SUFFICES ASSUME Init PROVE LoopInv
  OBVIOUS
<1>1. Cardinality(roster) \in Nat
  <2>1. IsFiniteSet(Agents)
    BY FS_Subset DEF Everyone
  <2> QED BY <2>1, FS_CardinalityType DEF Init
<1>2. 0 % FlushEvery \in Nat
  BY NextTick
<1>3. TickTypeOK
  <2>1. 0 \in 0 .. 3 * Cardinality(roster) + 1
    BY <1>1
  <2>2. fails \in [Everyone -> Nat]
    BY DEF Init
  <2>3. Agents \subseteq roster /\ roster \subseteq Everyone /\ cur \in roster \cup {NoAgent}
    BY DEF Init, Everyone
  <2>4. executed \in 0 .. MaxTicks /\ sinceFlush \in 0 .. executed /\ breaks \in 0 .. MaxBreaks
    BY DEF Init
  <2> QED BY <2>1, <2>2, <2>3, <2>4 DEF Init, TickTypeOK
<1> QED BY <1>1, <1>2, <1>3 DEF Init, LoopInv, GivesUpOnlyInOutage, Running

-----------------------------------------------------------------------------

(* Every step of the loop, and a signal at any time, keeps LoopInv.        *)
LEMMA LoopStep ==
  ASSUME LoopInv, [Next]_vars
  PROVE  LoopInv'
<1> USE DEF LoopInv, TickTypeOK, GivesUpOnlyInOutage, Running
<1>0. Cardinality(roster) \in Nat /\ executed % FlushEvery \in Nat
  BY FS_Subset, FS_CardinalityType, NextTick
<1>1. ASSUME NEW a \in Everyone, PickReady(a)
      PROVE  LoopInv'
  BY <1>0, <1>1 DEF PickReady, Scheduled
<1>2. ASSUME NEW a \in Everyone, SkipPaused(a)
      PROVE  LoopInv'
  BY <1>0, <1>2 DEF SkipPaused, Scheduled, SkipsSpent
<1>3. ASSUME NEW a \in Everyone, DeadlockBreak(a)
      PROVE  LoopInv'
  <2>1. fails' \in [Everyone -> Nat]
    <3>1. fails' = [b \in Everyone |-> IF b \in roster THEN 0 ELSE fails[b]]
      BY <1>3 DEF DeadlockBreak
    <3> QED BY <3>1
  <2>2. /\ pc' \in {"loop", "finally"} /\ gaveUp' \in BOOLEAN
        /\ skips' \in 0 .. 3 * Cardinality(roster) + 1
        /\ breaks' \in 0 .. MaxBreaks
    <3>1. /\ pc = "loop" /\ skips <= 3 * Cardinality(roster) /\ breaks < MaxBreaks
          /\ skips' \in {0, skips + 1} /\ breaks' = breaks + 1
      BY <1>3 DEF DeadlockBreak, Scheduled
    <3>2. pc' \in {"loop", "finally"} /\ gaveUp' \in BOOLEAN
      BY <1>3 DEF DeadlockBreak, Scheduled
    <3> QED BY <1>0, <3>1, <3>2
  <2>3. TickTypeOK'
    BY <1>0, <1>3, <2>1, <2>2 DEF DeadlockBreak
  <2> QED BY <1>0, <1>3, <2>3 DEF DeadlockBreak, Scheduled
<1>4. CASE ThinkRaises
  BY <1>0, <1>4 DEF ThinkRaises
<1>5. CASE ThinkReturns
  BY <1>0, <1>5 DEF ThinkReturns
<1>6. CASE CommitAction
  <2>1. executed' % FlushEvery = 0 \/ executed' % FlushEvery = (executed % FlushEvery) + 1
    <3>1. executed \in Nat /\ executed' = executed + 1
      BY <1>6 DEF CommitAction
    <3> QED BY <3>1, NextTick
  <2>2. TickTypeOK'
    <3>1. executed' \in 0 .. MaxTicks /\ sinceFlush' \in 0 .. executed'
      BY <1>6 DEF CommitAction
    <3>2. edge' \in BOOLEAN
      BY <1>6 DEF CommitAction
    <3> QED BY <1>6, <3>1, <3>2 DEF CommitAction
  <2> QED BY <1>0, <1>6, <2>1, <2>2 DEF CommitAction, TimerFires
<1>7. CASE TickRaises
  BY <1>0, <1>7 DEF TickRaises
<1>8. CASE SceneTick
  <2>1. executed' % FlushEvery = 0 \/ executed' % FlushEvery = (executed % FlushEvery) + 1
    <3>1. executed \in Nat /\ executed' = executed + 1
      BY <1>8 DEF SceneTick
    <3> QED BY <3>1, NextTick
  <2>2. fails' \in [Everyone -> Nat]
    BY <1>8, CountersAfterTurns DEF SceneTick
  <2>3. edge' \in BOOLEAN /\ barren' \in Nat
    <3>1. PICK landed \in 0 .. 3, ending \in SceneEnding :
            /\ barren' = IF landed = 0 /\ ending = "raises" THEN barren ELSE 0
            /\ edge' \in IF landed = 0 THEN {edge} ELSE {edge, TRUE}
      BY <1>8, Zenon DEF SceneTick
    <3> QED BY <3>1
  <2>4. TickTypeOK'
    BY <1>0, <1>8, <2>2, <2>3 DEF SceneTick
  <2> QED BY <1>0, <1>8, <2>1, <2>3, <2>4 DEF SceneTick, TimerFires
<1>9. CASE PassGate
  <2>1. TickTypeOK'
    BY <1>0, <1>9, RosterGrows DEF PassGate
  <2>2. sinceFlush <= executed % FlushEvery /\ (edge => sinceFlush < Throttle)
    BY <1>9 DEF PassGate, TransitionFires
  <2> QED BY <1>0, <1>9, <2>1, <2>2, RosterGrows DEF PassGate
<1>10. CASE FlushHarvest
  <2>1. TickTypeOK'
    <3>1. skips' \in 0 .. 3 * Cardinality(roster') + 1 /\ cur' \in roster' \cup {NoAgent}
      BY <1>0, <1>10, RosterGrows DEF FlushHarvest
    <3>2. Agents \subseteq roster' /\ roster' \subseteq Everyone
      BY <1>10, RosterGrows DEF FlushHarvest
    <3>3. sinceFlush' \in 0 .. executed' /\ edge' \in BOOLEAN
      <4>1. sinceFlush' = 0 /\ edge' = FALSE /\ executed' = executed /\ executed \in Nat
        BY <1>10 DEF FlushHarvest
      <4>2. sinceFlush' \in 0 .. executed'
        BY <4>1
      <4> QED BY <4>1, <4>2
    <3> QED BY <1>10, <3>1, <3>2, <3>3 DEF FlushHarvest
  <2> QED BY <1>0, <1>10, <2>1, RosterGrows DEF FlushHarvest
<1>11. CASE LeaveLoop
  BY <1>0, <1>11 DEF LeaveLoop
<1>12. CASE Finish
  BY <1>0, <1>12 DEF Finish
<1>13. CASE Signal
  BY <1>0, <1>13 DEF Signal, TimerFires
<1>14. CASE UNCHANGED vars
  BY <1>0, <1>14 DEF vars, TimerFires
<1> QED
  BY <1>1, <1>2, <1>3, <1>4, <1>5, <1>6, <1>7, <1>8, <1>9, <1>10, <1>11, <1>12, <1>13, <1>14
  DEF Next, Step, Pick

(* The inductive invariant of the loop.                                    *)
THEOREM LoopInvariant == Spec => []LoopInv
  BY LoopInit, LoopStep, PTL DEF Spec

(* Every variable of the loop keeps its type, and every counter its bound, *)
(* however many agents fail and Strangers arrive.                          *)
THEOREM LoopTypeCorrect == Spec => []TickTypeOK
<1>1. LoopInv => TickTypeOK
  BY DEF LoopInv
<1> QED BY <1>1, LoopInvariant, PTL

(* No completion edge waits longer than the throttle.                      *)
THEOREM EdgesAreServed == Spec => []EdgesServed
<1>1. LoopInv => EdgesServed
  BY DEF LoopInv, EdgesServed
<1> QED BY <1>1, LoopInvariant, PTL

(* Transition flushes never push the timer back.                           *)
THEOREM TimerIsCeiling == Spec => []FlushCeiling
<1>1. LoopInv => FlushCeiling
  BY DEF LoopInv, FlushCeiling
<1> QED BY <1>1, LoopInvariant, PTL

(* The loop gives up only after MaxBreaks deadlock breaks between which no *)
(* think() returned.                                                       *)
THEOREM GivingUpIsJustified == Spec => []GivesUpOnlyInOutage
<1>1. LoopInv => GivesUpOnlyInOutage
  BY DEF LoopInv
<1> QED BY <1>1, LoopInvariant, PTL
=============================================================================
