------------------------------- MODULE Village -------------------------------
(***************************************************************************)
(* What the agents are told of one another. The episodic log has, next to  *)
(* the workshop, four readers: the inbox of a prompt (memory/__init__.py), *)
(* the engagement gate and the cache of the relationship ledger (run.py),  *)
(* and the Watchdog (ops/watchdog.py). All four read it again and again    *)
(* behind marks and counts that live in memory only.                       *)
(*                                                                         *)
(* An event stands at its position in the log, and a timestamp is the      *)
(* position of the last event that is not later: the clock is taken to     *)
(* rise between two calls of time.time().                                  *)
(***************************************************************************)
EXTENDS Integers, Sequences, FiniteSets

CONSTANTS
  Residents,     \* the startup roster
  Strangers,     \* the names the Watchdog will give
  EngageEvery,   \* PEER_ENGAGEMENT_INTERVAL
  GateLookback,  \* max(interval * 4, 100) of _maybe_engagement_target
  PeerLookback,  \* lookback of _compute_peers
  RefreshEvents, \* REL_LEDGER_REFRESH_EVENTS
  RunawayMax,    \* runaway_max_consecutive
  WatchWindow,   \* max(stagnation_window, diversity_window)
  MaxStrangers,  \* max_strangers
  MaxLog         \* bound: events in the log

Names == Residents \cup Strangers

(* Actors that are no agents, and "nobody". *)
World == "world"
Harvester == "harvester"
SceneActor == "scene"
NoOne == "none"

ASSUME VillageAssumption ==
  /\ Residents \cap Strangers = {} /\ IsFiniteSet(Residents)
  /\ Names \cap {World, Harvester, SceneActor, NoOne} = {}
  /\ EngageEvery \in Nat \ {0} /\ GateLookback \in Nat /\ PeerLookback \in Nat
  /\ RefreshEvents \in Nat \ {0} /\ RunawayMax \in Nat \ {0}
  /\ WatchWindow \in Nat /\ MaxStrangers \in Nat /\ MaxLog \in Nat

VARIABLES
  log,       \* EpisodicMemory: the events
  roster,    \* sched.agents
  spawned,   \* names given to Strangers so far
  mark,      \* last_tick_ts, or Unseeded
  cache,     \* _RelationshipLedgerCache: the log it was derived from, and for whom
  pc,        \* where the tick is
  cur,       \* the agent that is prompted
  inbox,     \* the events its prompt shows
  required,  \* required_target of the prompt, or NoOne
  authors,   \* authors of the scene still to come
  scene,     \* the position of its scene.open, or 0
  owed       \* history: events for an agent since its first prompt, unanswered

vars == <<log, roster, spawned, mark, cache, pc, cur, inbox, required, authors, scene, owed>>
prompt == <<cur, inbox, required>>
memory == <<mark, owed>>
turns == <<authors, scene>>

Unseeded == -1
NoCache == [upto |-> Unseeded, peers |-> {}]

(* What an event is to these readers. `solo` marks the tick of one agent,  *)
(* `clear` a text that is there and does not name the one it is for, and   *)
(* `scene` the position of its scene.open. "rest" stands for every verb    *)
(* but speak and contribute; without a text it is the parse fallback.      *)
Event(actor, action, target, clear, s) ==
  [actor |-> actor, action |-> action, target |-> target, clear |-> clear, scene |-> s]

EventType == [actor  : Names \cup {World, Harvester, SceneActor},
              action : {"weather", "wip.recycled", "scene.open", "scene.abort", "speak",
                        "contribute", "rest"},
              target : Names \cup {NoOne},
              clear  : BOOLEAN,
              scene  : Nat]

Weather == Event(World, "weather", NoOne, TRUE, 0)
Recycle == Event(Harvester, "wip.recycled", NoOne, TRUE, 0)
SceneOpen == Event(SceneActor, "scene.open", NoOne, TRUE, 0)
SceneAbort == Event(SceneActor, "scene.abort", NoOne, TRUE, 0)

Targeted(e) == e.action = "speak" /\ e.target # NoOne
Fallback(e) == e.action = "rest" /\ ~e.clear

(* The last n events. *)
Last(n) == {i \in 1 .. Len(log) : i > Len(log) - n}

-----------------------------------------------------------------------------
(* The readers. *)

(* _build_peer_inbox and _build_world_events: what of the log is for a.    *)
Concerns(a, e) ==
  \/ e.actor = World
  \/ e.action = "speak" /\ e.target = a /\ e.actor # a /\ e.clear

(* The events since a timestamp that concern the agent. *)
Since(a, ts) == {i \in 1 .. Len(log) : i > ts /\ Concerns(a, log[i])}

(* _compute_peers *)
Peers(a) ==
  (roster \cup {log[i].actor : i \in {j \in Last(PeerLookback) :
                                        log[j].action = "speak" /\ log[j].target = a}}) \ {a}

(* The newest EngageEvery actions of the agent within the lookback.        *)
OwnRecent(a) ==
  LET own == {i \in Last(GateLookback) : log[i].actor = a}
  IN {i \in own : Cardinality({j \in own : j > i}) < EngageEvery}

(* A gate that takes a speak to nobody for company. *)
GateFiresOnSilence(a) ==
  /\ Peers(a) # {}
  /\ Cardinality(OwnRecent(a)) = EngageEvery
  /\ \A i \in OwnRecent(a) : log[i].action # "speak"

(* _maybe_engagement_target names a peer. *)
GateFires(a) ==
  /\ Peers(a) # {}
  /\ Cardinality(OwnRecent(a)) = EngageEvery
  /\ \A i \in OwnRecent(a) : ~Targeted(log[i])

(* A cache that does not look at the roster. *)
StaleByCount ==
  cache.upto = Unseeded \/ Len(log) - cache.upto >= RefreshEvents

(* _RelationshipLedgerCache.get *)
Stale ==
  \/ cache.upto = Unseeded
  \/ Len(log) - cache.upto >= RefreshEvents
  \/ cache.peers # roster

(* derive_relationships, of the first n events. *)
Spoken(a, b, n) ==
  Cardinality({i \in 1 .. n : log[i].action = "speak" /\ log[i].actor = a /\ log[i].target = b})

(* scene_contributor_sets, of the scene opened at s *)
SceneContributors(s, n) ==
  {log[i].actor : i \in {j \in 1 .. n : log[j].action = "contribute" /\ log[j].scene = s}}

CoAuthored(a, b, n) ==
  Cardinality({s \in 1 .. n : log[s] = SceneOpen /\ {a, b} \subseteq SceneContributors(s, n)})

(* _check_runaway, of the events l: the actor's newest ones in the window  *)
(* are RunawayMax times the same action.                                   *)
RunsAway(actor, l) ==
  LET own == {i \in 1 .. Len(l) : i > Len(l) - WatchWindow /\ l[i].actor = actor}
      top == {i \in own : Cardinality({j \in own : j > i}) < RunawayMax}
  IN /\ Cardinality(top) = RunawayMax
     /\ \A i, j \in top : l[i].action = l[j].action

(* Watchdog.check leaves out the weather, and an actor "harvest" that no   *)
(* event has.                                                              *)
Watched(l) ==
  {i \in 1 .. Len(l) : i > Len(l) - WatchWindow /\ l[i].actor \notin {World, "harvest"}}

(* The actors whose watchdog_runaway a check would bump. *)
Blamed(l) == {actor \in {l[i].actor : i \in Watched(l)} : RunsAway(actor, l)}

-----------------------------------------------------------------------------
(* The ticks. *)

Init ==
  /\ log = <<>> /\ roster = Residents /\ spawned = {}
  /\ mark = [a \in Names |-> Unseeded] /\ owed = [a \in Names |-> {}]
  /\ cache = NoCache
  /\ pc = "idle" /\ cur = NoOne /\ inbox = {} /\ required = NoOne
  /\ authors = <<>> /\ scene = 0

(* Events are committed: they are owed to the agents that have a mark.     *)
Owe(l) ==
  [a \in Names |->
     IF mark[a] = Unseeded THEN {}
     ELSE owed[a] \cup {i \in Len(log) + 1 .. Len(l) : Concerns(a, l[i])}]

LogIs(l) == Len(l) <= MaxLog /\ log' = l

NoPrompt == cur' = NoOne /\ inbox' = {} /\ required' = NoOne

(* A mark that starts with the log. *)
SeedAtStart(a) == IF mark[a] = Unseeded THEN [mark EXCEPT ![a] = 0] ELSE mark

(* last_tick_ts.setdefault *)
Seed(a) == IF mark[a] = Unseeded THEN [mark EXCEPT ![a] = Len(log)] ELSE mark

(* _build_per_tick_world_base: the inbox, and a look at the ledgers.       *)
BuildPrompt(a) ==
  /\ mark' = Seed(a)
  /\ cur' = a
  /\ inbox' = Since(a, mark'[a])
  /\ cache' = IF Stale THEN [upto |-> Len(log), peers |-> roster] ELSE cache
  /\ UNCHANGED <<log, roster, spawned, owed>>

Prompt(a) ==
  /\ pc = "idle" /\ a \in roster
  /\ BuildPrompt(a)
  /\ required' \in IF GateFires(a) THEN Peers(a) ELSE {NoOne}
  /\ pc' = "prompted"
  /\ UNCHANGED turns

(* think() raises: the next prompt shows the same words again.             *)
ThinkRaises ==
  /\ pc = "prompted"
  /\ NoPrompt
  /\ pc' = "idle"
  /\ UNCHANGED <<log, roster, spawned, memory, cache, turns>>

(* What the agent may have answered by itself (a name that it made up is   *)
(* heard by nobody, as an unclear text is); what _maybe_enforce_engagement *)
(* makes of it under the gate; and the fallback of the parser, which it    *)
(* leaves alone.                                                           *)
FreeAnswers(a) ==
  {Event(a, "rest", NoOne, TRUE, 0), Event(a, "speak", NoOne, TRUE, 0)} \cup
  {Event(a, "speak", b, c, 0) : b \in (roster \cup spawned) \ {a}, c \in BOOLEAN}

GatedAnswers(a) == {Event(a, "speak", required, c, 0) : c \in BOOLEAN}

ParseFallback(a) == Event(a, "rest", NoOne, FALSE, 0)

Answers(a) ==
  {ParseFallback(a)} \cup (IF required # NoOne THEN GatedAnswers(a) ELSE FreeAnswers(a))

(* Its event is committed, and its watermark advanced behind it. *)
Answer(a, e) ==
  /\ LogIs(Append(log, e))
  /\ owed' = [Owe(log') EXCEPT ![a] = @ \ inbox]
  /\ mark' = [mark EXCEPT ![a] = Len(log')]

Commit ==
  /\ pc = "prompted"
  /\ \E e \in Answers(cur) : Answer(cur, e)
  /\ NoPrompt
  /\ pc' = "end"
  /\ UNCHANGED <<roster, spawned, cache, turns>>

(* An event that answers no prompt. *)
Other(e) == LogIs(Append(log, e)) /\ owed' = Owe(log') /\ UNCHANGED mark

(* The prompt of the tick is thrown away for a scene. *)
OpenScene ==
  /\ pc = "prompted" /\ roster # {cur}
  /\ Other(SceneOpen)
  /\ \E b \in roster \ {cur} :
       \E c \in IF roster = {cur, b} THEN {cur} ELSE roster \ {cur, b} :
         authors' = <<cur, b, c>>
  /\ scene' = Len(log')
  /\ NoPrompt
  /\ pc' = "scene"
  /\ UNCHANGED <<roster, spawned, cache>>

(* _scene_world_factory: no gate in a scene. *)
ScenePrompt ==
  /\ pc = "scene"
  /\ BuildPrompt(Head(authors))
  /\ required' = NoOne
  /\ pc' = "turn"
  /\ UNCHANGED turns

SceneTurn ==
  /\ pc = "turn"
  /\ Answer(cur, Event(cur, "contribute", NoOne, TRUE, scene))
  /\ NoPrompt
  /\ authors' = Tail(authors)
  /\ IF Len(authors) = 1 THEN pc' = "end" /\ scene' = 0 ELSE pc' = "scene" /\ UNCHANGED scene
  /\ UNCHANGED <<roster, spawned, cache>>

(* think() raised or the answer was off topic: the author keeps its mark.  *)
SceneAborts ==
  /\ pc = "turn"
  /\ Other(SceneAbort)
  /\ NoPrompt
  /\ authors' = <<>> /\ scene' = 0
  /\ pc' = "end"
  /\ UNCHANGED <<roster, spawned, cache>>

(* _check_echo_chamber, of the events l: where two texts or more are alike *)
(* a Stranger comes in, up to the cap.                                     *)
EchoChamber(l) ==
  /\ Cardinality(Watched(l)) > 1
  /\ Cardinality(roster \cap Strangers) < MaxStrangers
  /\ \E s \in Strangers \ spawned :
       roster' = roster \cup {s} /\ spawned' = spawned \cup {s}

(* The end of a tick that is counted: weather from time to time, then the  *)
(* Watchdog every so many ticks, then the recycles of a flush.             *)
EndTick ==
  /\ pc = "end"
  /\ \E weather \in {<<>>, <<Weather>>}, recycles \in {<<>>, <<Recycle>>} :
       /\ LogIs(log \o weather \o recycles)
       /\ owed' = Owe(log')
       /\ \/ EchoChamber(log \o weather)
          \/ UNCHANGED <<roster, spawned>>
  /\ pc' = "idle"
  /\ UNCHANGED <<mark, cache, prompt, turns>>

(* Names of Strangers that start anew with the process. *)
RestartReusesNames ==
  /\ roster' = Residents /\ spawned' = {}
  /\ mark' = [a \in Names |-> Unseeded] /\ owed' = [a \in Names |-> {}]
  /\ cache' = NoCache
  /\ pc' = "idle" /\ NoPrompt /\ authors' = <<>> /\ scene' = 0
  /\ UNCHANGED log

(* The process ends or dies and is started again: marks, cache and         *)
(* Strangers are gone, the log stays.                                      *)
Restart ==
  /\ roster' = Residents
  /\ mark' = [a \in Names |-> Unseeded] /\ owed' = [a \in Names |-> {}]
  /\ cache' = NoCache
  /\ pc' = "idle" /\ NoPrompt /\ authors' = <<>> /\ scene' = 0
  /\ UNCHANGED <<log, spawned>>

Next ==
  \/ \E a \in Names : Prompt(a)
  \/ ThinkRaises \/ Commit \/ OpenScene \/ ScenePrompt \/ SceneTurn \/ SceneAborts
  \/ EndTick \/ Restart

Spec == Init /\ [][Next]_vars
-----------------------------------------------------------------------------
(* Properties. *)

Prompted == pc \in {"prompted", "turn"}

(* Marks and the cache point into the log, a prompt is that of an agent of *)
(* the roster, and who speaks in the log was registered once.              *)
VillageTypeOK ==
  /\ log \in Seq(EventType) /\ Len(log) <= MaxLog
  /\ \A i \in 1 .. Len(log) :
       /\ log[i].actor \in Residents \cup spawned \cup {World, Harvester, SceneActor}
       /\ log[i].action = "speak" => log[i].actor \in Names
       /\ log[i].scene < i
  /\ spawned \subseteq Strangers
  /\ Residents \subseteq roster /\ roster \subseteq Residents \cup spawned
  /\ Cardinality(roster \cap Strangers) <= MaxStrangers
  /\ mark \in [Names -> Unseeded .. Len(log)]
  /\ owed \in [Names -> SUBSET (1 .. Len(log))]
  /\ cache.upto \in Unseeded .. Len(log) /\ cache.peers \subseteq Names
  /\ pc \in {"idle", "prompted", "scene", "turn", "end"}
  /\ Prompted => cur \in roster
  /\ inbox \subseteq 1 .. Len(log) /\ required \in Names \cup {NoOne}
  /\ scene \in 0 .. Len(log) /\ authors \in Seq(roster)

(* From the prompt that seeds its mark, each event for an agent is in      *)
(* exactly one prompt that it answered, however many of its thoughts raise *)
(* and scenes abort: nothing is shown again once it was answered, and      *)
(* nothing behind the mark was left out.                                   *)
HeardExactlyOnce ==
  /\ Prompted => inbox = owed[cur]
  /\ \A a \in Names : mark[a] # Unseeded => Since(a, mark[a]) = owed[a]

(* run.py: "a few ticks of staleness in the prompt is harmless". What a    *)
(* prompt says of a tie is what the log holds of it, less RefreshEvents - 1*)
(* events at most; and it speaks of nobody but today's roster.             *)
LedgerFresh ==
  Prompted =>
    /\ cache.peers = roster
    /\ \A b \in roster \ {cur} :
         /\ Spoken(b, cur, Len(log)) - Spoken(b, cur, cache.upto) < RefreshEvents
         /\ Spoken(cur, b, Len(log)) - Spoken(cur, b, cache.upto) < RefreshEvents
         /\ CoAuthored(cur, b, Len(log)) - CoAuthored(cur, b, cache.upto) < RefreshEvents

(* The newest EngageEvery events of an agent among the GateLookback ones   *)
(* before its event i.                                                     *)
OwnBefore(i) ==
  {j \in 1 .. i - 1 : j >= i - GateLookback /\ log[j].actor = log[i].actor}

Stretch(i) == {j \in OwnBefore(i) : Cardinality({k \in OwnBefore(i) : k > j}) < EngageEvery}

KeepsCompany(i) ==
  log[i].actor \in Names /\ log[i].scene = 0 /\ ~Fallback(log[i]) /\ ~Targeted(log[i]) =>
    \/ Cardinality(Stretch(i)) # EngageEvery
    \/ \E j \in Stretch(i) : Targeted(log[j])

(* config.py: "peer interaction every ~20 personal ticks". An agent that   *)
(* answers for itself, and addresses nobody, addressed somebody in its     *)
(* EngageEvery events before (or has fewer of them in the lookback);       *)
(* scenes, fallbacks and restarts in between do not set the count back.    *)
NobodyGoesSilent ==
  Cardinality(Residents) > 1 => \A i \in 1 .. Len(log) : KeepsCompany(i)

(* Why these hold: an invariant that every step preserves, proved in       *)
(* VillageProofs.                                                          *)
VillageInv ==
  /\ VillageTypeOK
  /\ IsFiniteSet(roster \cap Strangers)
  /\ HeardExactlyOnce
  /\ NobodyGoesSilent
  /\ \A a \in Names : mark[a] = Unseeded => owed[a] = {}
  /\ Prompted => mark[cur] # Unseeded
  /\ pc \in {"scene", "turn"} => authors # <<>> /\ scene # 0
  /\ pc = "prompted" /\ GateFires(cur) => required \in Peers(cur)

(* Why the ledgers are fresh: a prompt finds the cache young, or makes it. *)
CacheYoung ==
  Prompted =>
    /\ cache.upto # Unseeded /\ cache.peers = roster
    /\ Len(log) - cache.upto < RefreshEvents

(* watchdog.py: "Skip exogenous events - they aren't agent actions".       *)
RunawayBlamesAgents == pc = "end" => Blamed(log) \subseteq Names
=============================================================================
