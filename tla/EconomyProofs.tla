--------------------------- MODULE EconomyProofs ---------------------------
(***************************************************************************)
(* The invariants of Economy, for every roster, cost table, pool and       *)
(* regen: EconInv of Economy is inductive, one lemma per conjunct and one  *)
(* step per action. Then those of Audit beside it: the offline audit never *)
(* shows an agent more energy than the run gave it.                        *)
(***************************************************************************)
EXTENDS Audit, TLAPS

USE EconomyAssumption

(* The verbs, one by one. *)
LEMMA VerbsAre ==
  Verbs = {"speak", "craft", "study", "rest", "travel", "contribute"}
<1>1. /\ VerbOrder[1] = "speak" /\ VerbOrder[2] = "craft" /\ VerbOrder[3] = "study"
      /\ VerbOrder[4] = "rest" /\ VerbOrder[5] = "travel" /\ VerbOrder[6] = "contribute"
  BY DEF VerbOrder
<1>2. 1 .. 6 = {1, 2, 3, 4, 5, 6}
  OBVIOUS
<1>3. ASSUME NEW v
      PROVE  v \in Verbs <=> v \in {"speak", "craft", "study", "rest", "travel", "contribute"}
  <2> HIDE DEF VerbOrder
  <2> QED BY <1>1, <1>2 DEF Verbs
<1> QED BY <1>3

(* Costs are natural numbers, and a rest is free. *)
LEMMA CostType ==
  ASSUME mode \in ValidModes, NEW a \in Names
  PROVE  /\ \A v \in Verbs : Cost(a, v) \in Nat
         /\ Cost(a, "rest") = 0
<1>1. Role[a] \in Roles
  OBVIOUS
<1>2. \A v \in Verbs : BaseCost[Role[a]][v] \in Nat
  BY <1>1
<1>3. MeanCost(Role[a]) \in Nat
  <2> DEFINE c == BaseCost[Role[a]]
             total == c["speak"] + c["craft"] + c["study"] + c["travel"]
  <2>1. c["speak"] \in Nat /\ c["craft"] \in Nat /\ c["study"] \in Nat /\ c["travel"] \in Nat
    BY <1>2, VerbsAre
  <2>2. MeanCost(Role[a]) = total \div 4
    BY DEF MeanCost
  <2> HIDE DEF c
  <2>3. total \in Nat
    BY <2>1
  <2> HIDE DEF total
  <2> QED BY <2>2, <2>3
<1>4. BaseCost[Role[a]]["rest"] = 0
  BY <1>1
<1>5. \A v \in Verbs :
        Cost(a, v) = IF mode = "flat" /\ v \in Flattened THEN MeanCost(Role[a])
                     ELSE IF mode = "bal" /\ v = "contribute" THEN BalContribute
                     ELSE BaseCost[Role[a]][v]
  BY <1>1 DEF Cost, CostTable
<1> QED BY <1>2, <1>3, <1>4, <1>5, VerbsAre DEF Flattened

(* A pool stays a pool when it is charged, regenerated or replayed, and    *)
(* the last two leave one regen in it.                                     *)
LEMMA PoolSteps ==
  ASSUME NEW x \in Energies, NEW c \in Nat
  PROVE  /\ Deducted(x, c) \in Energies
         /\ Regened(x) \in Energies /\ Regened(x) >= Regen
         /\ Replay(x, c) \in Energies /\ Replay(x, c) >= Regen
  BY DEF Energies, Deducted, Regened, Replay

(* Why a replayed event adds one regen at most to what it takes away.      *)
LEMMA ReplayAhead ==
  ASSUME NEW r \in Energies, NEW e \in Energies, NEW h \in Energies, NEW c \in Nat,
         r <= e + h
  PROVE  Replay(r, c) <= Deducted(e, c) + Regened(h)
  BY DEF Energies, Deducted, Regened, Replay

(* And a tick takes one regen of the advance back, where there is one.     *)
LEMMA RegenCatchesUp ==
  ASSUME NEW r \in Energies, NEW e \in Energies, NEW h \in Energies, r <= e + h
  PROVE  r <= Regened(e) + Deducted(h, Regen)
  BY DEF Energies, Deducted, Regened

(* The order that Cheapest minimizes. *)
Dearer(a, v, w) ==
  \/ Cost(a, v) < Cost(a, w)
  \/ Cost(a, v) = Cost(a, w) /\ Before(v, w)

IsCheapest(a, S, v) == v \in S /\ \A w \in S \ {v} : Dearer(a, v, w)

LEMMA BeforeIs ==
  ASSUME NEW v \in Verbs, NEW w \in Verbs
  PROVE  /\ v # w => Before(v, w) \/ Before(w, v)
         /\ \A u \in Verbs : Before(v, w) /\ Before(w, u) => Before(v, u)
<1>1. /\ VerbOrder[1] = "speak" /\ VerbOrder[2] = "craft" /\ VerbOrder[3] = "study"
      /\ VerbOrder[4] = "rest" /\ VerbOrder[5] = "travel" /\ VerbOrder[6] = "contribute"
  BY DEF VerbOrder
<1>2. 1 .. 6 = {1, 2, 3, 4, 5, 6}
  OBVIOUS
<1>3. \A i, j \in 1 .. 6 : VerbOrder[i] = VerbOrder[j] => i = j
  BY <1>1, <1>2
<1>4. v # w => Before(v, w) \/ Before(w, v)
  BY DEF Before, Verbs
<1>5. ASSUME NEW u \in Verbs, Before(v, w), Before(w, u)
      PROVE  Before(v, u)
  <2>1. PICK i \in 1 .. 6, j \in 1 .. 6 : VerbOrder[i] = v /\ VerbOrder[j] = w /\ i < j
    BY <1>5 DEF Before
  <2>2. PICK k \in 1 .. 6, l \in 1 .. 6 : VerbOrder[k] = w /\ VerbOrder[l] = u /\ k < l
    BY <1>5 DEF Before
  <2>3. j = k
    BY <1>3, <2>1, <2>2
  <2> QED BY <2>1, <2>2, <2>3 DEF Before
<1> QED BY <1>4, <1>5

(* A set with a cheapest verb, or an empty one, still has one when a verb  *)
(* joins it.                                                               *)
LEMMA CheapestOfOneMore ==
  ASSUME mode \in ValidModes, NEW a \in Names, NEW S \in SUBSET Verbs, NEW v \in Verbs,
         S # {} => \E u \in S : IsCheapest(a, S, u)
  PROVE  \E u \in S \cup {v} : IsCheapest(a, S \cup {v}, u)
<1>1. CASE S = {} \/ v \in S
  BY <1>1 DEF IsCheapest
<1>2. CASE S # {} /\ v \notin S
  <2>1. PICK u \in S : IsCheapest(a, S, u)
    BY <1>2
  <2>2. Cost(a, u) \in Nat /\ Cost(a, v) \in Nat
    BY CostType
  <2>3. u \in Verbs /\ u # v
    BY <1>2
  <2>4. Dearer(a, u, v) \/ Dearer(a, v, u)
    <3>1. Before(u, v) \/ Before(v, u)
      BY <2>3, BeforeIs
    <3>2. \/ Cost(a, u) < Cost(a, v)
          \/ Cost(a, v) < Cost(a, u)
          \/ Cost(a, u) = Cost(a, v)
      <4>1. \A m, n \in Nat : m < n \/ n < m \/ m = n
        OBVIOUS
      <4> QED BY <2>2, <4>1, Zenon
    <3> QED BY <3>1, <3>2, Zenon DEF Dearer
  <2>5. CASE Dearer(a, u, v)
    BY <2>1, <2>5 DEF IsCheapest
  <2>6. CASE Dearer(a, v, u)
    <3>1. ASSUME NEW w \in S \ {u} PROVE Dearer(a, v, w)
      <4>1. Dearer(a, u, w) /\ w \in Verbs /\ Cost(a, w) \in Nat
        BY <2>1, CostType DEF IsCheapest
      <4> QED BY <2>2, <2>3, <2>6, <4>1, BeforeIs DEF Dearer
    <3> QED BY <2>6, <3>1 DEF IsCheapest
  <2> QED BY <2>4, <2>5, <2>6
<1> QED BY <1>1, <1>2

(* Every set of verbs but the empty one has a cheapest member, so Cheapest *)
(* chooses one of it.                                                      *)
LEMMA CheapestInSet ==
  ASSUME mode \in ValidModes, NEW a \in Names, NEW S \in SUBSET Verbs, S # {}
  PROVE  Cheapest(a, S) \in S
<1> DEFINE has(T) == T # {} => \E u \in T : IsCheapest(a, T, u)
<1>1. ASSUME NEW T \in SUBSET Verbs, NEW v \in Verbs, has(T \ {v})
      PROVE  has(T)
  <2>1. CASE v \in T
    <3> DEFINE R == T \ {v}
    <3>1. R \in SUBSET Verbs /\ R \cup {v} = T
      BY <2>1
    <3>2. R # {} => \E u \in R : IsCheapest(a, R, u)
      BY <1>1
    <3> HIDE DEF R
    <3>3. \E u \in R \cup {v} : IsCheapest(a, R \cup {v}, u)
      BY <3>1, <3>2, CheapestOfOneMore
    <3> QED BY <3>1, <3>3
  <2>2. CASE v \notin T
    <3>1. T \ {v} = T
      BY <2>2
    <3> QED BY <1>1, <3>1
  <2> QED BY <2>1, <2>2
<1> DEFINE S1 == S \ {"speak"}  S2 == S1 \ {"craft"}  S3 == S2 \ {"study"}
           S4 == S3 \ {"rest"}  S5 == S4 \ {"travel"} S6 == S5 \ {"contribute"}
<1>2. S6 = {} /\ has(S6)
  BY VerbsAre
<1> HIDE DEF has
<1>3. has(S5)
  BY <1>1, <1>2, VerbsAre
<1>4. has(S4)
  BY <1>1, <1>3, VerbsAre
<1>5. has(S3)
  BY <1>1, <1>4, VerbsAre
<1>6. has(S2)
  BY <1>1, <1>5, VerbsAre
<1>7. has(S1)
  BY <1>1, <1>6, VerbsAre
<1>8. has(S)
  BY <1>1, <1>7, VerbsAre
<1>9. \E u \in S : IsCheapest(a, S, u)
  BY <1>8 DEF has
<1> QED BY <1>9 DEF Cheapest, IsCheapest, Dearer

(* What the economy lever substitutes is payable and needs no payload.     *)
LEMMA ExecutedIs ==
  ASSUME EconTypeOK, NEW a \in Names
  PROVE  /\ Executed(a) \in Verbs \ Payload
         /\ CanAfford(a, Executed(a))
<1> DEFINE targets == Affordable(a, Productive \ Payload)
<1>1. targets \in SUBSET (Verbs \ Payload) /\ \A v \in targets : CanAfford(a, v)
  BY DEF Affordable, Productive
<1>2. CASE targets = {}
  <2>1. Executed(a) = "rest"
    BY <1>2 DEF Executed
  <2>2. energy[a] >= 0
    BY DEF EconTypeOK, Energies
  <2> QED BY <2>1, <2>2, CostType, VerbsAre DEF CanAfford, Payload, EconTypeOK
<1>3. CASE targets # {}
  <2>1. Executed(a) \in targets
    BY <1>1, <1>3, CheapestInSet DEF Executed, EconTypeOK
  <2> QED BY <1>1, <2>1
<1> QED BY <1>2, <1>3

-----------------------------------------------------------------------------
(* The steps. *)

(* A charge touches one pool and its replay, and adds one regen to what    *)
(* the replay is ahead at most.                                            *)
LEMMA ChargeEffect ==
  ASSUME EconTypeOK, RestartAddsLittle, Reserve,
         NEW a \in Names, NEW v \in Verbs, Charge(a, v)
  PROVE  /\ energy' \in [Names -> Energies] /\ replayed' \in [Names -> Energies]
         /\ ahead' \in [Names -> Energies]
         /\ past' \in [Names -> {"none", "scenes", "choices"}]
         /\ \A b \in Names \ {a} : energy'[b] = energy[b]
         /\ \A b \in Names : replayed'[b] >= Regen
         /\ RestartAddsLittle'
<1>1. Cost(a, v) \in Nat
  BY CostType DEF EconTypeOK
<1>2. PICK c \in Nat : c = Cost(a, v)
  BY <1>1
<1>3. /\ energy' = [energy EXCEPT ![a] = Deducted(@, c)]
      /\ replayed' = [replayed EXCEPT ![a] = Replay(@, c)]
      /\ ahead' = [ahead EXCEPT ![a] = Regened(@)]
  BY <1>2 DEF Charge
<1>4. /\ energy[a] \in Energies /\ replayed[a] \in Energies /\ ahead[a] \in Energies
      /\ replayed[a] <= energy[a] + ahead[a]
  BY DEF EconTypeOK, RestartAddsLittle
<1>5. /\ Deducted(energy[a], c) \in Energies /\ Replay(replayed[a], c) \in Energies
      /\ Replay(replayed[a], c) >= Regen /\ Regened(ahead[a]) \in Energies
  BY <1>4, PoolSteps
<1>6. Replay(replayed[a], c) <= Deducted(energy[a], c) + Regened(ahead[a])
  BY <1>4, ReplayAhead
<1>7. \A b \in Names \ {a} :
        energy'[b] = energy[b] /\ replayed'[b] = replayed[b] /\ ahead'[b] = ahead[b]
  BY <1>3 DEF EconTypeOK
<1>8. /\ energy'[a] = Deducted(energy[a], c) /\ replayed'[a] = Replay(replayed[a], c)
      /\ ahead'[a] = Regened(ahead[a])
  BY <1>3 DEF EconTypeOK
<1>9. /\ energy' \in [Names -> Energies] /\ replayed' \in [Names -> Energies]
      /\ ahead' \in [Names -> Energies]
  BY <1>3, <1>5 DEF EconTypeOK
<1>10. past' \in [Names -> {"none", "scenes", "choices"}]
  BY DEF Charge, EconTypeOK
<1>11. \A b \in Names : replayed'[b] >= Regen
  BY <1>5, <1>7, <1>8 DEF Reserve
<1>12. RestartAddsLittle'
  BY <1>6, <1>7, <1>8 DEF RestartAddsLittle
<1> QED BY <1>7, <1>9, <1>10, <1>11, <1>12

(* What think() returns: a verb, payable and payload-free if the economy   *)
(* substituted it, and payable or a speak if the agent has a ledger.       *)
LEMMA ThinkEffect ==
  ASSUME EconTypeOK, NEW a \in Names, Think(a)
  PROVE  /\ act' \in [verb : Verbs, artifact : BOOLEAN, substituted : BOOLEAN]
         /\ act'.substituted => CanAfford(a, act'.verb) /\ act'.verb \notin Payload
         /\ mode \in Substituting => CanAfford(a, act'.verb) \/ act'.verb = "speak"
         /\ streak' \in [Names -> 0 .. RestLimit]
<1> DEFINE Action == [verb : Verbs, thought : BOOLEAN, artifact : BOOLEAN, substituted : BOOLEAN]
           Plain == [verb : Verbs, thought : BOOLEAN, artifact : BOOLEAN, substituted : {FALSE}]
           crafted(p) == EmptyCraft(a, p)
<1>1. PICK p \in Parsed, peers \in Peers(a) :
        /\ streak' = [streak EXCEPT ![a] = StreakAfter(a, crafted(p))]
        /\ \E d \in Diversified(a, RateLimited(a, crafted(p), peers)) :
             \E e \in Engaged(a, Economized(a, d, attached'), peers) :
               act' = [verb |-> e.verb, artifact |-> e.artifact, substituted |-> e.substituted]
  BY DEF Think
<1>2a. PICK d \in Diversified(a, RateLimited(a, crafted(p), peers)) :
        \E e \in Engaged(a, Economized(a, d, attached'), peers) :
          act' = [verb |-> e.verb, artifact |-> e.artifact, substituted |-> e.substituted]
  BY <1>1
<1>2. PICK e \in Engaged(a, Economized(a, d, attached'), peers) :
        act' = [verb |-> e.verb, artifact |-> e.artifact, substituted |-> e.substituted]
  BY <1>2a
<1>3. \A v \in Verbs : Replaced(p, v, FALSE) \in Plain /\ Replaced(p, v, TRUE) \in Action
  BY DEF Replaced
<1>4. crafted(p) \in Plain
  BY <1>3, VerbsAre DEF EmptyCraft, Replaced, Parsed
<1>5. RateLimited(a, crafted(p), peers) \in Plain
  BY <1>4, VerbsAre DEF RateLimited, Replaced
<1>6. d \in Plain
  <2> DEFINE r == RateLimited(a, crafted(p), peers)
  <2>1. d \in Diversified(a, r) /\ r \in Plain
    BY <1>2a, <1>5
  <2> HIDE DEF r
  <2>2. d = r \/ \E v \in Verbs : d = Replaced(r, v, FALSE)
    BY <2>1, VerbsAre DEF Diversified, Underused
  <2>3. ASSUME NEW v \in Verbs, d = Replaced(r, v, FALSE) PROVE d \in Plain
    <3>1. Replaced(r, v, FALSE) = Replaced(p, v, FALSE)
      BY DEF Replaced
    <3> QED BY <1>3, <2>3, <3>1
  <2> HIDE DEF Plain
  <2> QED BY <2>1, <2>2, <2>3
<1>7. CanAfford(a, "rest")
  BY CostType DEF CanAfford, EconTypeOK, Energies
<1> DEFINE q == Economized(a, d, attached')
<1>8. /\ q \in Action
      /\ q.substituted => CanAfford(a, q.verb) /\ q.verb \notin Payload
      /\ a \in attached' => CanAfford(a, q.verb)
  <2>1. CASE a \notin attached' \/ IsFallback(d) \/ CanAfford(a, d.verb)
    <3>1. q = d
      BY <2>1 DEF Economized
    <3> HIDE DEF q
    <3> QED BY <1>6, <1>7, <2>1, <3>1 DEF IsFallback
  <2>2. CASE ~(a \notin attached' \/ IsFallback(d) \/ CanAfford(a, d.verb))
    <3>1. q = Replaced(d, Executed(a), TRUE)
      BY <2>2 DEF Economized
    <3>2. q.verb = Executed(a) /\ q \in Action
      BY <3>1, ExecutedIs DEF Replaced
    <3> HIDE DEF q
    <3> QED BY <3>2, ExecutedIs
  <2> QED BY <2>1, <2>2
<1> HIDE DEF q
<1>9. e \in Engaged(a, q, peers)
  BY <1>2 DEF q
<1>10. \/ e = q
       \/ e = [q EXCEPT !.verb = "speak", !.artifact = FALSE,
                        !.substituted = q.substituted /\ q.verb = "speak"]
  BY <1>9 DEF Engaged
<1>11. a \in attached' \/ mode \notin Substituting
  BY DEF Think, LazyAttach
<1>12. /\ e \in Action
       /\ e.substituted => CanAfford(a, e.verb) /\ e.verb \notin Payload
       /\ mode \in Substituting => CanAfford(a, e.verb) \/ e.verb = "speak"
  <2>1. CASE e = q
    BY <1>8, <1>11, <2>1
  <2>2. CASE e = [q EXCEPT !.verb = "speak", !.artifact = FALSE,
                          !.substituted = q.substituted /\ q.verb = "speak"]
    <3>1. /\ e \in Action /\ e.verb = "speak"
          /\ e.substituted => q.substituted /\ q.verb = "speak"
      BY <1>8, <2>2, VerbsAre
    <3> QED BY <1>8, <3>1
  <2> QED BY <1>10, <2>1, <2>2
<1>13. streak' \in [Names -> 0 .. RestLimit]
  <2>1. streak[a] \in 0 .. RestLimit
    BY DEF EconTypeOK
  <2>2. StreakAfter(a, crafted(p)) \in 0 .. RestLimit
    BY <2>1 DEF StreakAfter, RestTooLong
  <2> QED BY <1>1, <2>2 DEF EconTypeOK
<1>14. /\ act' \in [verb : Verbs, artifact : BOOLEAN, substituted : BOOLEAN]
       /\ act'.verb = e.verb /\ act'.substituted = e.substituted
  BY <1>2, <1>12
<1> QED BY <1>12, <1>13, <1>14

(* The first state. *)
LEMMA InvInit == Init => EconInv
<1> SUFFICES ASSUME Init PROVE EconInv
  OBVIOUS
<1>1. MaxEnergy \in Energies /\ 0 \in Energies
  BY DEF Energies
<1>2. EconTypeOK
  <2>1. /\ energy \in [Names -> Energies] /\ replayed \in [Names -> Energies]
        /\ ahead \in [Names -> Energies]
    BY <1>1 DEF Init
  <2>2. /\ streak \in [Names -> 0 .. RestLimit] /\ cur \in Names
        /\ past \in [Names -> {"none", "scenes", "choices"}]
    BY DEF Init, Names
  <2>3. act \in [verb : Verbs, artifact : BOOLEAN, substituted : BOOLEAN]
    BY VerbsAre DEF Init, NoAction
  <2>4. authors \in Seq(roster)
    BY DEF Init, NoAuthors
  <2> QED BY <2>1, <2>2, <2>3, <2>4 DEF Init, EconTypeOK
<1>3. RestartAddsLittle /\ Reserve
  BY DEF Init, RestartAddsLittle, Reserve
<1> QED BY <1>2, <1>3 DEF Init, EconInv, OnlyGateOverspends, SubstitutionCredited

(* Every step keeps the inductive invariant. *)
LEMMA InvStep == EconInv /\ [Next]_vars => EconInv'
<1> SUFFICES ASSUME EconInv, [Next]_vars PROVE EconInv'
  OBVIOUS
<1> USE DEF EconInv
<1>1. ASSUME NEW a \in Names, Think(a) PROVE EconInv'
  <2>1. UNCHANGED <<mode, energy, replayed, past, ahead, roster, spawned, authors>>
    BY <1>1 DEF Think, ledger
  <2>2. pc' = "commit" /\ cur' = a /\ a \in roster /\ attached' \subseteq roster
    BY <1>1 DEF Think, LazyAttach, EconTypeOK
  <2>3. EconTypeOK'
    BY <1>1, <2>1, <2>2, ThinkEffect DEF EconTypeOK
  <2>4. RestartAddsLittle' /\ Reserve'
    BY <1>1, <2>1, <2>2 DEF RestartAddsLittle, Reserve, Think
  <2>5. \A v : CanAfford(a, v) => CanAfford(a, v)'
    BY <2>1 DEF CanAfford, Cost
  <2>6. OnlyGateOverspends' /\ SubstitutionCredited'
    BY <1>1, <2>1, <2>2, <2>5, ThinkEffect DEF OnlyGateOverspends, SubstitutionCredited
  <2> QED BY <2>3, <2>4, <2>6
<1>2. ASSUME NEW a \in Names, ThinkRaises(a) PROVE EconInv'
  <2>1. /\ UNCHANGED <<mode, energy, replayed, past, ahead, roster, spawned, streak,
                       pc, cur, act, authors>>
        /\ pc = "idle" /\ attached' \subseteq roster
    BY <1>2 DEF ThinkRaises, ledger, LazyAttach, EconTypeOK
  <2>2. EconTypeOK'
    BY <2>1 DEF EconTypeOK
  <2> QED BY <2>1, <2>2 DEF RestartAddsLittle, Reserve, OnlyGateOverspends, SubstitutionCredited
<1>3. ASSUME NEW a \in Names, OpenScene(a) PROVE EconInv'
  <2>1. /\ UNCHANGED <<mode, energy, replayed, past, ahead, roster, spawned, streak, act>>
        /\ pc' = "scene" /\ pc = "idle" /\ cur' = a /\ a \in roster
        /\ attached' \subseteq roster
    BY <1>3 DEF OpenScene, ledger, LazyAttach, EconTypeOK
  <2>2. authors' \in Seq(roster) /\ authors' # <<>>
    <3>1. PICK b \in roster \ {a}, c \in roster : authors' = <<a, b, c>>
      BY <1>3, <2>1 DEF OpenScene, PickAuthors
    <3> QED BY <2>1, <3>1
  <2>3. EconTypeOK'
    BY <2>1, <2>2 DEF EconTypeOK
  <2> QED BY <2>1, <2>3 DEF RestartAddsLittle, Reserve, OnlyGateOverspends, SubstitutionCredited
<1>4. CASE Commit
  <2>1. /\ Charge(cur, act.verb) /\ act.verb \in Verbs /\ cur \in Names /\ cur \in roster
        /\ UNCHANGED <<mode, roster, spawned, attached, streak, cur, authors>>
        /\ pc' = "end" /\ act' = NoAction
    BY <1>4 DEF Commit, agents, EconTypeOK
  <2>2. act' \in [verb : Verbs, artifact : BOOLEAN, substituted : BOOLEAN]
    BY <2>1, VerbsAre DEF NoAction
  <2>3. EconTypeOK'
    <3>1. /\ energy' \in [Names -> Energies] /\ replayed' \in [Names -> Energies]
          /\ ahead' \in [Names -> Energies]
          /\ past' \in [Names -> {"none", "scenes", "choices"}]
      BY <2>1, ChargeEffect
    <3> QED BY <2>1, <2>2, <3>1 DEF EconTypeOK
  <2>4. Reserve'
    <3>1. /\ \A b \in Names \ {cur} : energy'[b] = energy[b]
          /\ \A b \in Names : replayed'[b] >= Regen
      BY <2>1, ChargeEffect
    <3> QED BY <2>1, <3>1 DEF Reserve
  <2>5. RestartAddsLittle'
    BY <2>1, ChargeEffect
  <2> QED BY <2>1, <2>3, <2>4, <2>5 DEF OnlyGateOverspends, SubstitutionCredited
<1>5. CASE SceneTurn
  <2>1. PICK a \in roster : a = Head(authors)
    BY <1>5 DEF SceneTurn, EconTypeOK
  <2>2. /\ Charge(a, "contribute") /\ streak' = [streak EXCEPT ![a] = 0]
        /\ authors' = Tail(authors) /\ (Len(authors) = 1 => pc' = "end")
        /\ (Len(authors) # 1 => pc' = "scene") /\ pc = "scene"
        /\ UNCHANGED <<mode, roster, spawned, attached, cur, act>>
    BY <1>5, <2>1 DEF SceneTurn, NextTurn
  <2>3. a \in Names /\ "contribute" \in Verbs
    BY <2>1, VerbsAre DEF EconTypeOK, Names
  <2>4. /\ authors' \in Seq(roster) /\ (pc' = "scene" => authors' # <<>>)
        /\ pc' \in {"scene", "end"}
    <3>1. authors \in Seq(roster) /\ authors # <<>>
      BY <2>2 DEF EconTypeOK
    <3>2. Len(Tail(authors)) = Len(authors) - 1 /\ Tail(authors) \in Seq(roster)
      BY <3>1
    <3>3. pc' = "scene" => Len(authors') # 0
      BY <2>2, <3>1, <3>2
    <3>4. pc' \in {"scene", "end"}
      BY <2>2
    <3>5. authors' \in Seq(roster)
      BY <2>2, <3>2
    <3>6. pc' = "scene" => authors' # <<>>
      <4> SUFFICES ASSUME pc' = "scene", authors' = <<>> PROVE FALSE
        OBVIOUS
      <4>1. Len(authors') = 0
        OBVIOUS
      <4> QED BY <3>3, <4>1
    <3> QED BY <3>4, <3>5, <3>6
  <2>5. EconTypeOK'
    <3>1. /\ energy' \in [Names -> Energies] /\ replayed' \in [Names -> Energies]
          /\ ahead' \in [Names -> Energies]
          /\ past' \in [Names -> {"none", "scenes", "choices"}]
      BY <2>2, <2>3, ChargeEffect
    <3>2. streak' \in [Names -> 0 .. RestLimit]
      <4>1. streak \in [Names -> 0 .. RestLimit] /\ 0 \in 0 .. RestLimit
        BY DEF EconTypeOK
      <4>2. streak' = [streak EXCEPT ![a] = 0]
        BY <2>2
      <4> QED BY <2>3, <4>1, <4>2
    <3>3. cur \in roster
      BY <2>2 DEF EconTypeOK
    <3> QED BY <2>2, <2>4, <3>1, <3>2, <3>3 DEF EconTypeOK
  <2>6. Reserve'
    <3>1. /\ \A b \in Names \ {a} : energy'[b] = energy[b]
          /\ \A b \in Names : replayed'[b] >= Regen
      BY <2>2, <2>3, ChargeEffect
    <3> QED BY <2>1, <2>2, <2>4, <3>1 DEF Reserve
  <2>7. RestartAddsLittle'
    BY <2>2, <2>3, ChargeEffect
  <2> QED BY <2>4, <2>5, <2>6, <2>7 DEF OnlyGateOverspends, SubstitutionCredited
<1>6. CASE SceneAborts
  <2>1. /\ UNCHANGED <<mode, energy, replayed, past, ahead, roster, spawned, attached, cur, act>>
        /\ pc = "scene" /\ pc' = "end" /\ authors' = <<>>
    BY <1>6 DEF SceneAborts, ledger, NoAuthors
  <2>2. streak' \in [Names -> 0 .. RestLimit]
    <3>1. PICK n \in {0, streak[Head(authors)], streak[Head(authors)] + 1} :
            n <= RestLimit /\ streak' = [streak EXCEPT ![Head(authors)] = n]
      BY <1>6 DEF SceneAborts
    <3>2. Head(authors) \in Names
      BY <2>1 DEF EconTypeOK, Names
    <3>3. n \in 0 .. RestLimit
      BY <3>1, <3>2 DEF EconTypeOK
    <3> QED BY <3>1, <3>3 DEF EconTypeOK
  <2>3. EconTypeOK'
    BY <2>1, <2>2 DEF EconTypeOK
  <2> QED BY <2>1, <2>3 DEF RestartAddsLittle, Reserve, OnlyGateOverspends, SubstitutionCredited
<1>7. CASE EndTick
  <2>1. /\ energy' = [a \in Names |-> IF a \in roster THEN Regened(energy[a]) ELSE energy[a]]
        /\ ahead' = [a \in Names |-> IF a \in roster THEN Deducted(ahead[a], Regen) ELSE ahead[a]]
        /\ UNCHANGED <<mode, replayed, past, attached, streak, cur, act, authors>>
        /\ pc' = "idle" /\ pc = "end"
    BY <1>7 DEF EndTick
  <2>2. /\ roster \subseteq roster' /\ roster' \subseteq Agents \cup spawned'
        /\ spawned' \subseteq Strangers
    BY <1>7 DEF EndTick, EconTypeOK
  <2>3. ASSUME NEW a \in Names
        PROVE  /\ energy'[a] \in Energies /\ ahead'[a] \in Energies
               /\ energy'[a] >= Regen /\ replayed[a] <= energy'[a] + ahead'[a]
    <3>1. /\ energy[a] \in Energies /\ ahead[a] \in Energies /\ replayed[a] \in Energies
          /\ replayed[a] <= energy[a] + ahead[a]
      BY DEF EconTypeOK, RestartAddsLittle
    <3>2. CASE a \in roster
      <4>1. energy'[a] = Regened(energy[a]) /\ ahead'[a] = Deducted(ahead[a], Regen)
        BY <2>1, <3>2
      <4> QED BY <3>1, <4>1, PoolSteps, RegenCatchesUp
    <3>3. CASE a \notin roster
      BY <2>1, <3>1, <3>3 DEF Reserve
    <3> QED BY <3>2, <3>3
  <2>4. energy' \in [Names -> Energies] /\ ahead' \in [Names -> Energies]
    BY <2>1, <2>3
  <2>5. authors' \in Seq(roster')
    BY <2>1, <2>2 DEF EconTypeOK
  <2>6. EconTypeOK'
    BY <2>1, <2>2, <2>4, <2>5 DEF EconTypeOK
  <2>7. RestartAddsLittle' /\ Reserve'
    BY <2>1, <2>3 DEF RestartAddsLittle, Reserve
  <2> QED BY <2>1, <2>6, <2>7 DEF OnlyGateOverspends, SubstitutionCredited
<1>8. CASE Restart
  <2>1. /\ energy' = replayed /\ ahead' = [a \in Names |-> 0] /\ roster' = Agents
        /\ attached' \subseteq Agents /\ streak' = [a \in Names |-> 0]
        /\ pc' = "idle" /\ act' = NoAction /\ authors' = <<>>
        /\ UNCHANGED <<mode, replayed, past, spawned, cur>>
    BY <1>8 DEF Restart, NoAuthors
  <2>2. /\ ahead' \in [Names -> Energies] /\ streak' \in [Names -> 0 .. RestLimit]
        /\ act' \in [verb : Verbs, artifact : BOOLEAN, substituted : BOOLEAN]
    BY <2>1, VerbsAre DEF NoAction, Energies
  <2>3. EconTypeOK'
    BY <2>1, <2>2 DEF EconTypeOK
  <2>4. ASSUME NEW a \in Names
        PROVE  energy'[a] = replayed[a] /\ ahead'[a] = 0 /\ replayed[a] \in Nat
               /\ replayed[a] >= Regen
    BY <2>1 DEF Reserve, EconTypeOK, Energies
  <2>5. RestartAddsLittle'
    <3>1. ASSUME NEW a \in Names PROVE replayed'[a] <= energy'[a] + ahead'[a]
      BY <2>1, <2>4
    <3> QED BY <3>1 DEF RestartAddsLittle
  <2>6. Reserve'
    <3>1. ASSUME NEW a \in Names PROVE replayed'[a] >= Regen /\ energy'[a] >= Regen
      BY <2>1, <2>4
    <3> QED BY <3>1 DEF Reserve
  <2> QED BY <2>1, <2>3, <2>5, <2>6 DEF OnlyGateOverspends, SubstitutionCredited
<1>9. CASE UNCHANGED vars
  BY <1>9 DEF vars, EconTypeOK, RestartAddsLittle, Reserve, OnlyGateOverspends,
              SubstitutionCredited, CanAfford, Cost
<1> QED BY <1>1, <1>2, <1>3, <1>4, <1>5, <1>6, <1>7, <1>8, <1>9 DEF Next

(* Reserve is a specialty's worth: one regen pays for it in every mode but *)
(* the flat control, where the hint promises nothing.                      *)
LEMMA ReservePays == EconInv => SpecialtySustained
<1> SUFFICES ASSUME EconInv, pc = "idle", NEW a \in roster, mode # "flat"
             PROVE  /\ Affordable(a, Productive) # {}
                    /\ mode \in {"adv", "bal"} => ~HintSaysSpent(a)
  BY DEF SpecialtySustained
<1>1. a \in Names /\ energy[a] >= Regen /\ energy[a] \in Nat
  BY DEF EconInv, EconTypeOK, Reserve, Names, Energies
<1>2. PICK v \in Flattened : BaseCost[Role[a]][v] <= Regen
  BY <1>1, SpecialtyAssumption
<1>3. v \in Productive /\ v \in Verbs /\ v # "contribute"
  BY <1>2 DEF Flattened, Productive
<1>4. Cost(a, v) = BaseCost[Role[a]][v] /\ Cost(a, v) \in Nat
  <2>1. mode \in ValidModes
    BY DEF EconInv, EconTypeOK
  <2>2. Role[a] \in Roles
    BY <1>1
  <2> QED BY <1>1, <1>3, <2>1, <2>2, CostType DEF Cost, CostTable
<1>5. v \in Affordable(a, Productive)
  BY <1>1, <1>2, <1>3, <1>4 DEF Affordable, CanAfford
<1> QED BY <1>5 DEF HintSaysSpent, Easy

-----------------------------------------------------------------------------
(* The theorems. *)

(* The inductive invariant. *)
THEOREM EconInvariant == Spec => []EconInv
BY InvInit, InvStep, PTL DEF Spec

(* Pools are never overdrawn or overfull, in memory or in a replay, and    *)
(* the actor of a tick is in the roster.                                   *)
THEOREM EconTypeCorrect == Spec => []EconTypeOK
<1>1. EconInv => EconTypeOK
  BY DEF EconInv
<1> QED BY <1>1, EconInvariant, PTL

(* Between ticks every agent affords its specialty or something cheaper,   *)
(* and the honest hint has a verb to name, with any number of restarts.    *)
THEOREM SpecialtyIsSustained == Spec => []SpecialtySustained
BY ReservePays, EconInvariant, PTL

(* A restart gives an agent no more than the regens of its own turns that  *)
(* the ticks still owe.                                                    *)
THEOREM RestartIsNoRest == Spec => []RestartAddsLittle
<1>1. EconInv => RestartAddsLittle
  BY DEF EconInv
<1> QED BY <1>1, EconInvariant, PTL

(* In the modes that substitute, an agent commits a verb it cannot pay for *)
(* only as a speak that the engagement gate forced on it.                  *)
THEOREM LeversAgree == Spec => []OnlyGateOverspends
<1>1. EconInv => OnlyGateOverspends
  BY DEF EconInv
<1> QED BY <1>1, EconInvariant, PTL

(* The economy is credited with a substitution only for a verb that its    *)
(* agent can pay for and that needs no payload.                            *)
THEOREM CreditIsEarned == Spec => []SubstitutionCredited
<1>1. EconInv => SubstitutionCredited
  BY DEF EconInv
<1> QED BY <1>1, EconInvariant, PTL

-----------------------------------------------------------------------------
(* The audit beside the run. *)

(* What the audit holds of an agent, beside what the run holds.            *)
Beside(x, e, s) == x \in Energies /\ x <= e /\ (~s => x = e)

(* The agents outside the roster have never paid; the others are audited   *)
(* at or below their pool.                                                 *)
AuditInv ==
  /\ EconInv
  /\ interrupted \in BOOLEAN /\ silent \in BOOLEAN /\ counted \in BOOLEAN
  /\ audited \in [Names -> Energies]
  /\ ~interrupted =>
       /\ \A a \in Names : Beside(audited[a], energy[a], silent)
       /\ \A a \in Names \ roster : audited[a] = MaxEnergy /\ energy[a] = MaxEnergy
       /\ pc \in {"idle", "commit"} => ~counted

(* Charges and regens keep the order of two pools.                         *)
LEMMA BesideSteps ==
  ASSUME NEW x \in Energies, NEW e \in Energies, NEW s \in BOOLEAN, Beside(x, e, s)
  PROVE  /\ \A c \in Nat : Beside(Deducted(x, c), Deducted(e, c), s)
         /\ Beside(Regened(x), Regened(e), s)
         /\ Beside(x, Regened(e), TRUE)
  BY DEF Beside, Energies, Deducted, Regened

LEMMA FullStaysFull == Regened(MaxEnergy) = MaxEnergy /\ MaxEnergy \in Energies
  BY DEF Regened, Energies

LEMMA AuditInvInit == AuditInit => AuditInv
<1> SUFFICES ASSUME AuditInit PROVE AuditInv
  OBVIOUS
<1>1. EconInv
  BY InvInit DEF AuditInit
<1>2. \A a \in Names : audited[a] = MaxEnergy /\ energy[a] = MaxEnergy
  BY DEF AuditInit, Init
<1>3. audited \in [Names -> Energies]
  BY FullStaysFull DEF AuditInit
<1>4. ~interrupted /\ ~silent /\ ~counted
      /\ interrupted \in BOOLEAN /\ silent \in BOOLEAN /\ counted \in BOOLEAN
  BY DEF AuditInit
<1>5. \A a \in Names : Beside(audited[a], energy[a], silent)
  BY <1>2, FullStaysFull DEF Beside, Energies
<1> QED BY <1>1, <1>2, <1>3, <1>4, <1>5 DEF AuditInv
(* The committed verb is deducted from both. *)
LEMMA LoggedKeepsAudit ==
  ASSUME AuditInv, NEW a \in roster, NEW v \in Verbs, Charge(a, v), Logged(a, v),
         EconInv', roster' = roster, mode' = mode, pc' \notin {"idle", "commit"}
  PROVE  AuditInv'
<1>1. Cost(a, v) \in Nat /\ a \in Names
  BY CostType DEF AuditInv, EconInv, EconTypeOK, Names
<1>2. /\ interrupted' = interrupted /\ silent' = silent /\ counted' = TRUE
      /\ interrupted \in BOOLEAN /\ silent \in BOOLEAN
  BY DEF Logged, AuditInv
<1>3. energy' = [energy EXCEPT ![a] = Deducted(@, Cost(a, v))]
  BY DEF Charge
<1>4. energy \in [Names -> Energies] /\ audited \in [Names -> Energies]
  BY DEF AuditInv, EconInv, EconTypeOK
<1>5. CASE interrupted
  <2>1. audited' \in [Names -> Energies]
    BY <1>5, FullStaysFull DEF Logged, Frozen
  <2> QED BY <1>2, <1>5, <2>1 DEF AuditInv
<1>6. CASE ~interrupted
  <2>1. audited' = [audited EXCEPT ![a] = Deducted(@, Cost(a, v))]
    BY <1>6 DEF Logged, AuditEvent
  <2>2. \A b \in Names : Beside(audited[b], energy[b], silent)
    BY <1>6 DEF AuditInv
  <2>3. audited'[a] = Deducted(audited[a], Cost(a, v)) /\ energy'[a] = Deducted(energy[a], Cost(a, v))
    BY <1>1, <1>3, <1>4, <2>1
  <2>4. \A b \in Names \ {a} : audited'[b] = audited[b] /\ energy'[b] = energy[b]
    BY <1>3, <1>4, <2>1
  <2>5. Beside(audited'[a], energy'[a], silent)
    <3>1. audited[a] \in Energies /\ energy[a] \in Energies /\ Beside(audited[a], energy[a], silent)
      BY <1>1, <1>4, <2>2
    <3>2. silent \in BOOLEAN /\ Cost(a, v) \in Nat
      BY <1>1, <1>2
    <3>3. Beside(Deducted(audited[a], Cost(a, v)), Deducted(energy[a], Cost(a, v)), silent)
      BY <3>1, <3>2, BesideSteps
    <3> QED BY <2>3, <3>3
  <2>6. \A b \in Names : Beside(audited'[b], energy'[b], silent)
    BY <2>2, <2>4, <2>5
  <2>7. audited' \in [Names -> Energies]
    <3>1. audited'[a] \in Energies
      BY <2>5 DEF Beside
    <3> QED BY <1>1, <1>4, <2>1, <2>3, <3>1
  <2>8. \A b \in Names \ roster : audited'[b] = MaxEnergy /\ energy'[b] = MaxEnergy
    BY <1>6, <2>4 DEF AuditInv
  <2> QED BY <1>2, <2>6, <2>7, <2>8 DEF AuditInv
<1> QED BY <1>5, <1>6

(* The regen of a tick reaches both ledgers, or the live one alone.        *)
LEMMA EndTickKeepsAudit ==
  ASSUME AuditInv, EconInv', AuditedEndTick
  PROVE  AuditInv'
<1>1. /\ energy' = [a \in Names |-> IF a \in roster THEN Regened(energy[a]) ELSE energy[a]]
      /\ roster \subseteq roster'
  BY DEF AuditedEndTick, EndTick
<1>2. /\ interrupted' = interrupted /\ counted' = FALSE
      /\ silent' = (silent \/ (~counted /\ ~interrupted))
      /\ interrupted \in BOOLEAN /\ silent \in BOOLEAN /\ counted \in BOOLEAN
  BY DEF AuditedEndTick, AuditInv
<1>3. energy \in [Names -> Energies] /\ audited \in [Names -> Energies]
  BY DEF AuditInv, EconInv, EconTypeOK
<1>4. CASE interrupted
  BY <1>2, <1>3, <1>4 DEF AuditedEndTick, AuditInv
<1>5. CASE ~interrupted
  <2>1. \A a \in Names : Beside(audited[a], energy[a], silent)
    BY <1>5 DEF AuditInv
  <2>2. \A a \in Names \ roster : audited[a] = MaxEnergy /\ energy[a] = MaxEnergy
    BY <1>5 DEF AuditInv
  <2>3. audited' = IF counted THEN RegenAll(audited) ELSE audited
    BY <1>2, <1>5 DEF AuditedEndTick
  <2>4. ASSUME NEW a \in Names
        PROVE  audited'[a] = IF counted THEN Regened(audited[a]) ELSE audited[a]
    BY <1>2, <2>3 DEF RegenAll
  <2>5. ASSUME NEW a \in Names
        PROVE  energy'[a] = IF a \in roster THEN Regened(energy[a]) ELSE energy[a]
    BY <1>1
  <2>6. ASSUME NEW a \in Names
        PROVE  Beside(audited'[a], energy'[a], silent')
    <3>1. audited[a] \in Energies /\ energy[a] \in Energies /\ Beside(audited[a], energy[a], silent)
      BY <1>3, <2>1
    <3>2. CASE a \in roster /\ counted
      <4>1. Beside(Regened(audited[a]), Regened(energy[a]), silent)
        BY <1>2, <3>1, BesideSteps
      <4> QED BY <1>2, <2>4, <2>5, <3>2, <4>1
    <3>3. CASE a \in roster /\ ~counted
      <4>1. Beside(audited[a], Regened(energy[a]), TRUE)
        BY <1>2, <3>1, BesideSteps
      <4>2. silent' = TRUE
        BY <1>2, <1>5, <3>3
      <4> QED BY <2>4, <2>5, <3>3, <4>1, <4>2
    <3>4. CASE a \notin roster
      <4>1. audited[a] = MaxEnergy /\ energy[a] = MaxEnergy
        BY <2>2, <3>4
      <4>2. audited'[a] = MaxEnergy
        BY <2>4, <4>1, FullStaysFull
      <4>3. energy'[a] = MaxEnergy
        BY <2>5, <3>4, <4>1
      <4> QED BY <4>2, <4>3, FullStaysFull DEF Beside, Energies
    <3> QED BY <3>2, <3>3, <3>4
  <2>7. ASSUME NEW a \in Names \ roster'
        PROVE  audited'[a] = MaxEnergy /\ energy'[a] = MaxEnergy
    <3>1. a \in Names \ roster
      BY <1>1
    <3>2. audited[a] = MaxEnergy /\ energy[a] = MaxEnergy
      BY <2>2, <3>1
    <3> QED BY <2>4, <2>5, <3>1, <3>2, FullStaysFull
  <2>8. audited' \in [Names -> Energies]
    <3>1. \A a \in Names : audited'[a] \in Energies
      BY <2>6 DEF Beside
    <3>2. CASE counted
      <4>1. audited' = [a \in Names |-> Regened(audited[a])]
        BY <2>3, <3>2 DEF RegenAll
      <4> QED BY <3>1, <4>1
    <3>3. CASE ~counted
      BY <1>3, <2>3, <3>3
    <3> QED BY <3>2, <3>3
  <2>9. silent' \in BOOLEAN
    BY <1>2
  <2> QED BY <1>2, <2>6, <2>7, <2>8, <2>9 DEF AuditInv
<1> QED BY <1>4, <1>5

LEMMA AuditInvStep == AuditInv /\ [AuditNext]_allVars => AuditInv'
<1> SUFFICES ASSUME AuditInv, [AuditNext]_allVars PROVE AuditInv'
  OBVIOUS
<1>0. EconInv'
  <2>1. [Next]_vars
    BY DEF AuditNext, Unlogged, AuditedCommit, AuditedSceneTurn, AuditedEndTick,
           AuditedRestart, Next, allVars
  <2> QED BY <2>1, InvStep DEF AuditInv
<1>1. CASE Unlogged
  <2>1. UNCHANGED <<audited, counted, interrupted, silent>>
    BY <1>1 DEF Unlogged, auditVars
  <2>2. UNCHANGED energy /\ UNCHANGED roster
    BY <1>1 DEF Unlogged, Think, ThinkRaises, OpenScene, SceneAborts, ledger
  <2>3. pc' \in {"idle", "commit"} => pc \in {"idle", "commit"}
    BY <1>1 DEF Unlogged, Think, ThinkRaises, OpenScene, SceneAborts
  <2> QED BY <1>0, <2>1, <2>2, <2>3 DEF AuditInv
<1>2. CASE AuditedCommit
  <2>1. /\ Charge(cur, act.verb) /\ Logged(cur, act.verb)
        /\ roster' = roster /\ mode' = mode /\ pc' = "end"
    BY <1>2 DEF AuditedCommit, Commit, agents
  <2>2. cur \in roster /\ act.verb \in Verbs
    BY <1>2 DEF AuditedCommit, Commit, AuditInv, EconInv, EconTypeOK
  <2> QED BY <1>0, <2>1, <2>2, LoggedKeepsAudit
<1>3. CASE AuditedSceneTurn
  <2>1. /\ Charge(Head(authors), "contribute") /\ Logged(Head(authors), "contribute")
        /\ roster' = roster /\ mode' = mode /\ pc = "scene" /\ pc' \in {"scene", "end"}
    BY <1>3 DEF AuditedSceneTurn, SceneTurn, NextTurn
  <2>2. Head(authors) \in roster
    <3>1. authors \in Seq(roster) /\ authors # <<>>
      BY <2>1 DEF AuditInv, EconInv, EconTypeOK
    <3> QED BY <3>1
  <2>3. "contribute" \in Verbs /\ pc' \notin {"idle", "commit"}
    BY <2>1, VerbsAre
  <2> QED BY <1>0, <2>1, <2>2, <2>3, LoggedKeepsAudit
<1>4. CASE AuditedEndTick
  BY <1>0, <1>4, EndTickKeepsAudit
<1>5. CASE AuditedRestart
  BY <1>0, <1>5, FullStaysFull DEF AuditedRestart, AuditInv, Frozen
<1>6. CASE UNCHANGED allVars
  BY <1>0, <1>6 DEF allVars, auditVars, vars, AuditInv
<1> QED BY <1>1, <1>2, <1>3, <1>4, <1>5, <1>6 DEF AuditNext

(* A lower pool shows the hint wherever a higher one does.                 *)
LEMMA LowerPoolHints ==
  ASSUME AuditInv, ~interrupted, NEW a \in Names, HintState(a, energy)
  PROVE  HintState(a, audited)
<1>1. PICK v \in Productive : energy[a] < Cost(a, v)
  BY DEF HintState
<1>2. Cost(a, v) \in Nat
  BY CostType DEF AuditInv, EconInv, EconTypeOK, Productive
<1>3. audited[a] \in Nat /\ energy[a] \in Nat /\ audited[a] <= energy[a]
  BY DEF AuditInv, EconInv, EconTypeOK, Beside, Energies
<1>4. audited[a] < Cost(a, v)
  BY <1>1, <1>2, <1>3
<1> QED BY <1>1, <1>4 DEF HintState

(* In a run without restarts the audit holds each agent at or below its    *)
(* live energy, at it as long as no scene ended without an event, and sees *)
(* every hint that was shown.                                              *)
THEOREM AuditIsSafe == AuditSpec => []AuditNeverGenerous
<1>1. AuditInv => AuditNeverGenerous
  BY LowerPoolHints DEF AuditInv, AuditNeverGenerous, Beside
<1> QED BY <1>1, AuditInvInit, AuditInvStep, PTL DEF AuditSpec

(* The audit only watches: what is proved of Economy holds beside it.      *)
LEMMA AuditRunsEconomy == AuditSpec => Spec
<1>1. AuditInit => Init
  BY DEF AuditInit
<1>2. [AuditNext]_allVars => [Next]_vars
  BY DEF AuditNext, Unlogged, AuditedCommit, AuditedSceneTurn, AuditedEndTick,
         AuditedRestart, Next, allVars
<1> QED BY <1>1, <1>2, PTL DEF AuditSpec, Spec
=============================================================================
