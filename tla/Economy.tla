------------------------------ MODULE Economy ------------------------------
(***************************************************************************)
(* The action economy (src/microverse/world/economy.py), the chain of      *)
(* levers that rewrite what the model chose (agents/base.py, artisan.py,   *)
(* scholar.py) and the places of run() that charge, restore and rebuild    *)
(* the energy of an agent.                                                 *)
(*                                                                         *)
(* Energy is never persisted. `replayed` is what reconstruct_from_events   *)
(* gives for the events logged so far, which is what a restart starts      *)
(* from. Of the log the model keeps whether an agent is in it, and with    *)
(* what kind of events: an agent that has chosen verbs before may have     *)
(* leaned on any of them.                                                  *)
(***************************************************************************)
EXTENDS Integers, Sequences

CONSTANTS
  Agents,      \* the startup roster
  Strangers,   \* the names the Watchdog will give
  Role,        \* the role of each of them
  BaseCost,    \* VERB_COST_BY_ROLE, in the unit in which flat means are whole
  BalContribute, \* ECONOMY_BALANCED_CONTRIBUTE, or the dearest contribute
  MaxEnergy,   \* ENERGY_MAX
  Regen,       \* ENERGY_REGEN_PER_TICK
  RestLimit,   \* ARTISAN_REST_STREAK_LIMIT
  Modes        \* the MICROVERSE_ECONOMY values the run may be started with

Names == Agents \cup Strangers
Roles == {"artisan", "scholar", "stranger"}
VerbOrder == <<"speak", "craft", "study", "rest", "travel", "contribute">>
Verbs == {VerbOrder[i] : i \in 1 .. 6}
Productive == Verbs \ {"rest"}
Payload == {"contribute", "craft"}
Flattened == Verbs \ {"contribute", "rest"}

Gated == {"1", "flat", "throttle"}
Substituting == {"1", "flat", "sub", "adv", "bal"}
ValidModes == Gated \cup Substituting

ASSUME EconomyAssumption ==
  /\ Agents \cap Strangers = {} /\ Agents # {}
  /\ Role \in [Names -> Roles]
  /\ BaseCost \in [Roles -> [Verbs -> Nat]]
  /\ \A r \in Roles : (BaseCost[r]["speak"] + BaseCost[r]["craft"]
                       + BaseCost[r]["study"] + BaseCost[r]["travel"]) % 4 = 0
  /\ BalContribute \in Nat
  /\ \A r \in Roles : BaseCost[r]["contribute"] <= BalContribute
  /\ \A r \in Roles : BaseCost[r]["rest"] = 0
  /\ MaxEnergy \in Nat /\ Regen \in Nat /\ Regen <= MaxEnergy
  /\ RestLimit \in Nat \ {0}
  /\ Modes \subseteq ValidModes

(* Each role has a specialty that one tick pays for (config.py). *)
ASSUME SpecialtyAssumption ==
  \A r \in Roles : \E v \in Flattened : BaseCost[r][v] <= Regen

VARIABLES
  mode,     \* ECONOMY_MODE
  energy,   \* EnergyLedger._pool
  replayed, \* _pool as reconstruct_from_events would give it from the log
  past,     \* what the log holds of an agent: "none", "scenes" (contributes
            \* only) or "choices" (other verbs too)
  ahead,    \* history: regens given by the replay and not yet by the ticks
  roster,   \* sched.agents
  spawned,  \* names given to Strangers so far
  attached, \* agents with _energy
  streak,   \* _consecutive_rest
  pc,       \* "idle", or "commit" / "scene" / "end" in a tick
  cur,      \* the agent of the tick
  act,      \* what think() returned
  authors   \* authors of the scene still to come

vars == <<mode, energy, replayed, past, ahead, roster, spawned, attached, streak,
          pc, cur, act, authors>>
ledger == <<energy, replayed, past, ahead>>
agents == <<roster, spawned, attached, streak>>

-----------------------------------------------------------------------------
(* The ledger. *)

MeanCost(r) ==
  (BaseCost[r]["speak"] + BaseCost[r]["craft"] + BaseCost[r]["study"]
     + BaseCost[r]["travel"]) \div 4

(* build_cost_table, for each mode. *)
CostTable ==
  [m \in ValidModes |-> [r \in Roles |-> [v \in Verbs |->
     IF m = "flat" /\ v \in Flattened THEN MeanCost(r)
     ELSE IF m = "bal" /\ v = "contribute" THEN BalContribute
     ELSE BaseCost[r][v]]]]

Cost(a, v) == CostTable[mode][Role[a]][v]

CanAfford(a, v) == energy[a] >= Cost(a, v)

Affordable(a, candidates) == {v \in candidates : CanAfford(a, v)}

Deducted(x, c) == IF x < c THEN 0 ELSE x - c

(* regen that forgets the cap. *)
RegenUncapped(x) == x + Regen

Regened(x) == IF x + Regen > MaxEnergy THEN MaxEnergy ELSE x + Regen

(* The other order, which the docstring of reconstruct_from_events names.  *)
RegenThenDeduct(x, c) == Deducted(Regened(x), c)

(* One event of reconstruct_from_events. *)
Replay(x, c) == Regened(Deducted(x, c))

Before(v, w) ==
  \E i, j \in 1 .. 6 : VerbOrder[i] = v /\ VerbOrder[j] = w /\ i < j

(* min over (cost, declaration order), of a set that is not empty.         *)
Cheapest(a, S) ==
  CHOOSE v \in S : \A w \in S \ {v} :
    \/ Cost(a, v) < Cost(a, w)
    \/ Cost(a, v) = Cost(a, w) /\ Before(v, w)

(* resolve_executed_verb, of a verb that is out of reach.                  *)
Executed(a) ==
  LET targets == Affordable(a, Productive \ Payload)
  IN IF targets = {} THEN "rest" ELSE Cheapest(a, targets)

(* The verbs _select_easy_verb chooses among. *)
Easy(a) ==
  Affordable(a, IF mode \in {"adv", "bal"} THEN Productive ELSE Productive \ Payload)

(* _compute_energy_hint says that the reserves are spent: some verb is out *)
(* of reach and none comes easily.                                         *)
HintSaysSpent(a) ==
  /\ mode \in Substituting
  /\ Affordable(a, Productive) # Productive
  /\ Easy(a) = {}

-----------------------------------------------------------------------------
(* The levers. Each takes a parsed action to the actions it may become.    *)
(* `thought` and `artifact` say whether the text is there.                 *)

Parsed == [verb : Verbs, thought : BOOLEAN, artifact : BOOLEAN, substituted : {FALSE}]

Replaced(p, v, s) ==
  [verb |-> v, thought |-> TRUE, artifact |-> FALSE, substituted |-> s]

IsRest(p) == p.verb = "rest" /\ p.thought
IsFallback(p) == p.verb = "rest" /\ ~p.thought

(* Stranger inherits from Artisan; Scholar has neither of the next two.    *)
IsArtisan(a) == Role[a] \in {"artisan", "stranger"}

(* _maybe_coerce_empty_craft *)
EmptyCraft(a, p) ==
  IF IsArtisan(a) /\ p.verb = "craft" /\ ~p.artifact
  THEN Replaced(p, "study", FALSE) ELSE p

RestTooLong(a, p) == IsArtisan(a) /\ IsRest(p) /\ streak[a] >= RestLimit

(* _maybe_rate_limit *)
RateLimited(a, p, peers) ==
  IF RestTooLong(a, p)
  THEN Replaced(p, IF peers = {} THEN "study" ELSE "speak", FALSE) ELSE p

StreakAfter(a, p) ==
  IF IsArtisan(a) /\ IsRest(p) /\ ~RestTooLong(a, p) THEN streak[a] + 1 ELSE 0

(* _compute_novelty_hint: the verb may be the one the agent leaned on.      *)
MayDominate(a, v) == v # "contribute" /\ past[a] = "choices"

(* suggest_underused_verb, with some distribution of the other verbs.      *)
Underused(v) == {"speak", "craft", "study", "rest"} \ {v}

(* apply_diversity_lever: the verb dominates the recent choices of the     *)
(* agent, the suggested one is its least used and the coin says so; or not.*)
Diversified(a, p) ==
  IF IsFallback(p) \/ ~MayDominate(a, p.verb) THEN {p}
  ELSE {p} \cup {Replaced(p, v, FALSE) : v \in Underused(p.verb)}

(* apply_economy_lever, for an agent with a ledger. *)
Economized(a, p, has) ==
  IF a \notin has \/ IsFallback(p) \/ CanAfford(a, p.verb) THEN p
  ELSE Replaced(p, Executed(a), TRUE)

(* _maybe_engagement_target may name a peer: the agent is past its warmup.  *)
GateMayFire(a, peers) == peers # {} /\ past[a] # "none"

(* An engagement gate that leaves the economy its credit. *)
EngagedKeepsCredit(a, p, peers) ==
  IF IsFallback(p) \/ ~GateMayFire(a, peers) THEN {p} ELSE {p, [p EXCEPT !.verb = "speak", !.artifact = FALSE]}

(* _maybe_enforce_engagement, with a required peer or without; think()     *)
(* takes the credit of a substitution that the gate overrode.              *)
Engaged(a, p, peers) ==
  IF IsFallback(p) \/ ~GateMayFire(a, peers) THEN {p}
  ELSE {p, [p EXCEPT !.verb = "speak", !.artifact = FALSE,
                     !.substituted = p.substituted /\ p.verb = "speak"]}

-----------------------------------------------------------------------------
(* The tick loop. *)

NoAction == [verb |-> "rest", artifact |-> FALSE, substituted |-> FALSE]
NoAuthors == <<>>

(* A start on an empty log. *)
Init ==
  /\ mode \in Modes
  /\ energy = [a \in Names |-> MaxEnergy]
  /\ replayed = [a \in Names |-> MaxEnergy]
  /\ past = [a \in Names |-> "none"]
  /\ ahead = [a \in Names |-> 0]
  /\ roster = Agents
  /\ spawned = {}
  /\ attached = IF mode \in Substituting THEN Agents ELSE {}
  /\ streak = [a \in Names |-> 0]
  /\ pc = "idle" /\ cur \in Agents /\ act = NoAction /\ authors = NoAuthors

(* A Stranger stays without the ledger. *)
NoLazyAttach(a) == attached

LazyAttach(a) == IF mode \in Substituting THEN attached \cup {a} ELSE attached

(* _compute_peers: the roster, with departed Strangers or without.         *)
Peers(a) == {roster \ {a}, (roster \cup spawned) \ {a}}

(* think() of a tick without a scene. *)
Think(a) ==
  /\ pc = "idle" /\ a \in roster
  /\ attached' = LazyAttach(a)
  /\ \E p \in Parsed, peers \in Peers(a) :
       LET crafted == EmptyCraft(a, p) IN
       /\ streak' = [streak EXCEPT ![a] = StreakAfter(a, crafted)]
       /\ \E d \in Diversified(a, RateLimited(a, crafted, peers)) :
            \E e \in Engaged(a, Economized(a, d, attached'), peers) :
              act' = [verb |-> e.verb, artifact |-> e.artifact, substituted |-> e.substituted]
  /\ cur' = a
  /\ pc' = "commit"
  /\ UNCHANGED <<mode, ledger, roster, spawned, authors>>

(* think() raises: the tick is not counted. *)
ThinkRaises(a) ==
  /\ pc = "idle" /\ a \in roster
  /\ attached' = LazyAttach(a)
  /\ UNCHANGED <<mode, ledger, roster, spawned, streak, pc, cur, act, authors>>

(* The event is in the log, with its role, and its cost is deducted.       *)
Charge(a, v) ==
  /\ energy' = [energy EXCEPT ![a] = Deducted(@, Cost(a, v))]
  /\ replayed' = [replayed EXCEPT ![a] = Replay(@, Cost(a, v))]
  /\ past' = [past EXCEPT ![a] = IF v = "contribute" /\ @ # "choices" THEN "scenes" ELSE "choices"]
  /\ ahead' = [ahead EXCEPT ![a] = Regened(@)]

Commit ==
  /\ pc = "commit"
  /\ Charge(cur, act.verb)
  /\ pc' = "end"
  /\ act' = NoAction
  /\ UNCHANGED <<mode, agents, cur, authors>>

(* pick_authors, with at least one peer. *)
PickAuthors(a) ==
  UNION {{<<a, b, c>> : c \in IF roster = {a, b} THEN {a} ELSE roster \ {a, b}} :
           b \in roster \ {a}}

(* scene_energy_ok *)
MayOpen(a) == mode \in Gated => CanAfford(a, "contribute")

OpenScene(a) ==
  /\ pc = "idle" /\ a \in roster
  /\ MayOpen(a)
  /\ authors' \in PickAuthors(a)
  /\ attached' = LazyAttach(a)
  /\ cur' = a
  /\ pc' = "scene"
  /\ UNCHANGED <<mode, ledger, roster, spawned, streak, act>>

NextTurn == IF Len(authors) = 1 THEN pc' = "end" ELSE UNCHANGED pc

(* A turn whose event the replay does not count. *)
SceneTurnNotReplayed ==
  /\ pc = "scene"
  /\ LET a == Head(authors) IN
       /\ energy' = [energy EXCEPT ![a] = Deducted(@, Cost(a, "contribute"))]
       /\ ahead' = [ahead EXCEPT ![a] = Regened(@)]
       /\ streak' = [streak EXCEPT ![a] = 0]
  /\ authors' = Tail(authors)
  /\ NextTurn
  /\ UNCHANGED <<mode, replayed, past, roster, spawned, attached, cur, act>>

(* _scene_commit: the forced contribute of the next author is paid, with   *)
(* what there is. The economy lever leaves scenes alone.                   *)
SceneTurn ==
  /\ pc = "scene"
  /\ LET a == Head(authors) IN
       /\ Charge(a, "contribute")
       /\ streak' = [streak EXCEPT ![a] = 0]
  /\ authors' = Tail(authors)
  /\ NextTurn
  /\ UNCHANGED <<mode, roster, spawned, attached, cur, act>>

(* The scene is aborted: the turn raised, or its author chose a rest or    *)
(* another verb, which his rest limiter has counted.                       *)
SceneAborts ==
  /\ pc = "scene"
  /\ LET a == Head(authors) IN
       \E n \in {0, streak[a], streak[a] + 1} :
         /\ n <= RestLimit /\ (IsArtisan(a) \/ n = 0)
         /\ streak' = [streak EXCEPT ![a] = n]
  /\ authors' = NoAuthors
  /\ pc' = "end"
  /\ UNCHANGED <<mode, ledger, roster, spawned, attached, cur, act>>

(* Every agent of the roster regenerates once, then the Watchdog may let a *)
(* Stranger in, with a full pool and no ledger.                            *)
EndTick ==
  /\ pc = "end"
  /\ energy' = [a \in Names |-> IF a \in roster THEN Regened(energy[a]) ELSE energy[a]]
  /\ ahead' = [a \in Names |-> IF a \in roster THEN Deducted(ahead[a], Regen) ELSE ahead[a]]
  /\ \/ UNCHANGED <<roster, spawned>>
     \/ \E s \in Strangers \ spawned : roster' = roster \cup {s} /\ spawned' = spawned \cup {s}
  /\ pc' = "idle"
  /\ UNCHANGED <<mode, replayed, past, attached, streak, cur, act, authors>>

(* The process ends or dies anywhere and is started again: the Strangers   *)
(* are gone and the pools are rebuilt from the log.                        *)
Restart ==
  /\ energy' = replayed
  /\ ahead' = [a \in Names |-> 0]
  /\ roster' = Agents
  /\ attached' = IF mode \in Substituting THEN Agents ELSE {}
  /\ streak' = [a \in Names |-> 0]
  /\ pc' = "idle" /\ act' = NoAction /\ authors' = NoAuthors
  /\ UNCHANGED <<mode, replayed, past, spawned, cur>>

Next ==
  \/ \E a \in Names : Think(a) \/ ThinkRaises(a) \/ OpenScene(a)
  \/ Commit \/ SceneTurn \/ SceneAborts \/ EndTick \/ Restart

Spec == Init /\ [][Next]_vars

-----------------------------------------------------------------------------
(* Properties. *)

Energies == 0 .. MaxEnergy

(* Pools stay between empty and ENERGY_MAX; the agent of a tick and the    *)
(* authors of a scene are in the roster.                                   *)
EconTypeOK ==
  /\ mode \in ValidModes
  /\ energy \in [Names -> Energies]
  /\ replayed \in [Names -> Energies]
  /\ past \in [Names -> {"none", "scenes", "choices"}]
  /\ ahead \in [Names -> Energies]
  /\ spawned \subseteq Strangers
  /\ roster \subseteq Agents \cup spawned
  /\ attached \subseteq roster
  /\ streak \in [Names -> 0 .. RestLimit]
  /\ pc \in {"idle", "commit", "scene", "end"}
  /\ cur \in Names /\ (pc # "idle" => cur \in roster)
  /\ act \in [verb : Verbs, artifact : BOOLEAN, substituted : BOOLEAN]
  /\ authors \in Seq(roster) /\ (pc = "scene" => authors # <<>>)

(* config.py: a role can sustain its specialty indefinitely. Between ticks *)
(* every agent of the roster affords a verb that is not a rest, whatever   *)
(* scenes it was drawn into and however often the process was restarted,   *)
(* so an honest hint (adv, bal) always has a verb to name. The flat        *)
(* control has no specialty.                                               *)
SpecialtySustained ==
  pc = "idle" =>
    \A a \in roster :
      /\ mode # "flat" => Affordable(a, Productive) # {}
      /\ mode \in {"adv", "bal"} => ~HintSaysSpent(a)

(* A restart is no rest: it gives an agent at most the regens that the     *)
(* replay gave for its own turns and the ticks have not given yet. With    *)
(* one turn to a tick, that is nothing.                                    *)
RestartAddsLittle ==
  \A a \in Names : replayed[a] <= energy[a] + ahead[a]

(* In the modes that substitute, an agent commits a verb that it cannot    *)
(* pay for only as a speak, which the engagement gate forced after the     *)
(* economy lever had run. A Stranger is no exception.                      *)
OnlyGateOverspends ==
  pc = "commit" /\ mode \in Substituting /\ ~CanAfford(cur, act.verb) =>
    act.verb = "speak"

(* economy_substituted is stamped only on a verb that the agent can pay    *)
(* for and that needs no payload: Gate 9 counts no substitution that never *)
(* reached the log.                                                        *)
SubstitutionCredited ==
  pc = "commit" /\ act.substituted =>
    CanAfford(cur, act.verb) /\ act.verb \notin Payload

(* Why SpecialtySustained holds: a tick leaves its agents, and a replayed  *)
(* event its actor, one regen at least; outside the roster nobody pays.    *)
Reserve ==
  \A a \in Names :
    /\ replayed[a] >= Regen
    /\ pc = "idle" \/ a \notin roster => energy[a] >= Regen

(* The inductive invariant. *)
EconInv ==
  /\ EconTypeOK /\ RestartAddsLittle /\ Reserve
  /\ OnlyGateOverspends /\ SubstitutionCredited

(* artisan.py: "Empty-artifact crafts are coerced to study".               *)
NoHollowCraft ==
  pc = "commit" /\ IsArtisan(cur) /\ act.verb = "craft" => act.artifact
=============================================================================
