------------------------------ MODULE TickLoop ------------------------------
(***************************************************************************)
(* The loop of run() in src/microverse/run.py: which agent gets the tick,  *)
(* how failing agents are paused and rehabilitated, when the run gives up, *)
(* and when the harvest is flushed.                                        *)
(*                                                                         *)
(* What an agent says is abstracted to how think() ends, and the workshop  *)
(* to one bit: is there a completion that no flush has seen yet. Scene and *)
(* Harvest model what happens inside a scene and inside a flush.           *)
(***************************************************************************)
EXTENDS Integers, FiniteSets

CONSTANTS
  Agents,             \* the roster at startup
  Strangers,          \* those the watchdog may register later, up to its cap
  MaxTicks,           \* the ticks argument of run()
  MaxConsecutiveFail, \* MAX_CONSECUTIVE_FAIL
  MaxBreaks,          \* MAX_CONSECUTIVE_DEADLOCK_BREAKS
  FlushEvery,         \* HARVEST_FLUSH_EVERY
  Throttle,           \* transition_flush_throttle_ticks
  WatchdogEvery,      \* WATCHDOG_EVERY
  ScenesOn,           \* SCENE_GATE_P > 0
  SceneMinPeers,      \* SCENE_MIN_PEERS
  NoAgent             \* "no agent has the tick"

Everyone == Agents \cup Strangers

ASSUME TickLoopAssumption ==
  /\ Agents # {} /\ Agents \cap Strangers = {} /\ NoAgent \notin Everyone
  /\ IsFiniteSet(Everyone)
  /\ MaxTicks \in Nat
  /\ MaxConsecutiveFail \in Nat \ {0} /\ MaxBreaks \in Nat \ {0}
  /\ FlushEvery \in Nat \ {0} /\ Throttle \in Nat \ {0}
  /\ WatchdogEvery \in Nat \ {0}
  /\ ScenesOn \in BOOLEAN /\ SceneMinPeers \in Nat \ {0}

VARIABLES
  pc,         \* where in an iteration the loop is
  cur,        \* agent
  roster,     \* sched.agents
  fails,      \* the consecutive_fail counters
  skips,      \* consecutive_skips
  breaks,     \* deadlock_breaks_since_success
  executed,   \* executed
  sinceFlush, \* ticks_since_last_flush
  edge,       \* workshop.has_complete_transitions()
  stop,       \* stop["requested"]
  barren,     \* history: deadlock breaks since a think() last returned
  gaveUp      \* history: the loop left through deadlock_break_exit

vars == <<pc, cur, roster, fails, skips, breaks, executed, sinceFlush, edge, stop,
          barren, gaveUp>>

Paused(a) == fails[a] >= MaxConsecutiveFail

AllPaused == \A a \in roster : Paused(a)

Init ==
  /\ pc = "loop" /\ cur = NoAgent
  /\ roster = Agents
  /\ fails = [a \in Everyone |-> 0]
  /\ skips = 0 /\ breaks = 0 /\ executed = 0 /\ sinceFlush = 0
  /\ edge = FALSE /\ stop = FALSE
  /\ barren = 0 /\ gaveUp = FALSE

-----------------------------------------------------------------------------
(* The top of the loop: sched.next() and the pause guard. *)

(* A loop without its tick budget.                                         *)
ScheduledForever(a) == pc = "loop" /\ ~stop /\ a \in roster

Scheduled(a) == pc = "loop" /\ executed < MaxTicks /\ ~stop /\ a \in roster

PickReady(a) ==
  /\ Scheduled(a)
  /\ ~Paused(a)
  /\ cur' = a
  /\ skips' = 0
  /\ pc' = "tick"
  /\ UNCHANGED <<roster, fails, breaks, executed, sinceFlush, edge, stop, barren, gaveUp>>

(* consecutive_skips > max(len(sched.agents), 1) * 3 *)
SkipsSpent == skips + 1 > 3 * Cardinality(roster)

SkipPaused(a) ==
  /\ Scheduled(a)
  /\ Paused(a)
  /\ ~(SkipsSpent /\ AllPaused)
  /\ skips' = IF SkipsSpent THEN 0 ELSE skips + 1
  /\ UNCHANGED <<pc, cur, roster, fails, breaks, executed, sinceFlush, edge, stop,
                 barren, gaveUp>>

(* The deadlock break that is not counted. *)
BreakUncounted(a) ==
  /\ Scheduled(a)
  /\ Paused(a)
  /\ SkipsSpent /\ AllPaused
  /\ fails' = [b \in Everyone |-> IF b \in roster THEN 0 ELSE fails[b]]
  /\ skips' = 0
  /\ UNCHANGED <<pc, cur, roster, breaks, executed, sinceFlush, edge, stop, barren, gaveUp>>

(* The deadlock break: the skips are spent and every agent is paused.      *)
(* All counters are reset; after MaxBreaks of them the loop gives up.      *)
DeadlockBreak(a) ==
  /\ Scheduled(a)
  /\ Paused(a)
  /\ SkipsSpent /\ AllPaused
  /\ fails' = [b \in Everyone |-> IF b \in roster THEN 0 ELSE fails[b]]
  /\ breaks' = breaks + 1
  /\ barren' = barren + 1
  /\ IF breaks + 1 >= MaxBreaks
     THEN pc' = "finally" /\ gaveUp' = TRUE /\ skips' = skips + 1
     ELSE skips' = 0 /\ UNCHANGED <<pc, gaveUp>>
  /\ UNCHANGED <<cur, roster, executed, sinceFlush, edge, stop>>

-----------------------------------------------------------------------------
(* A think() that returns without ending the series of breaks.             *)
ThinkReturnsKeepsBreaks ==
  /\ pc = "tick"
  /\ fails' = [fails EXCEPT ![cur] = 0]
  /\ barren' = 0
  /\ pc' = "commit"
  /\ UNCHANGED <<cur, roster, skips, breaks, executed, sinceFlush, edge, stop, gaveUp>>

(* The single-tick path. parse_action never raises: a malformed answer     *)
(* bumps consecutive_fail and becomes a rest, and think() returns; the run *)
(* loop then resets the counter whatever parse_action did to it.           *)

ThinkRaises ==
  /\ pc = "tick"
  /\ fails' = [fails EXCEPT ![cur] = @ + 1]
  /\ pc' = "loop"
  /\ UNCHANGED <<cur, roster, skips, breaks, executed, sinceFlush, edge, stop, barren, gaveUp>>

ThinkReturns ==
  /\ pc = "tick"
  /\ fails' = [fails EXCEPT ![cur] = 0]
  /\ breaks' = 0
  /\ barren' = 0
  /\ pc' = "commit"
  /\ UNCHANGED <<cur, roster, skips, executed, sinceFlush, edge, stop, gaveUp>>

(* _commit_action; the contribute it commits may complete a WIP.           *)
CommitAction ==
  /\ pc = "commit"
  /\ edge' \in {edge, TRUE}
  /\ executed' = executed + 1
  /\ sinceFlush' = sinceFlush + 1
  /\ pc' = "after"
  /\ UNCHANGED <<cur, roster, fails, skips, breaks, stop, barren, gaveUp>>

(* Anything else that raises on this path (reading the context before the  *)
(* think, the append, consider() after it) is not caught by the loop: the  *)
(* run ends through its finally block.                                     *)
TickRaises ==
  /\ pc \in {"tick", "commit"}
  /\ pc' = "finally"
  /\ edge' \in IF pc = "commit" THEN {edge, TRUE} ELSE {edge}
  /\ UNCHANGED <<cur, roster, fails, skips, breaks, executed, sinceFlush, stop, barren, gaveUp>>

-----------------------------------------------------------------------------
(* The scene path: three turns, the first by cur and the others by peers,  *)
(* paused or not. The first `landed` of them commit; then the scene is     *)
(* over, or its next author ends it. Of the ways to end it, parse_action   *)
(* counts a malformed answer as a failure, resets the counter for one that *)
(* parses, and leaves it alone when it folds the action or never sees one. *)

SceneEligible ==
  ScenesOn /\ Cardinality(roster \ {cur}) >= SceneMinPeers

(* pick_authors: two distinct peers, or the initiator again as third.      *)
SceneAuthors ==
  {s \in {cur} \X (roster \ {cur}) \X roster :
     /\ s[2] # s[3]
     /\ Cardinality(roster) > 2 => s[3] # cur}

SceneEnding == {"raises", "folded", "parsed", "malformed"}

AfterTurns(authors, landed, ending) ==
  LET parsed == [a \in Everyone |->
                   IF \E i \in 1 .. landed : authors[i] = a THEN 0 ELSE fails[a]]
  IN  IF landed = 3 \/ ending \in {"raises", "folded"} THEN parsed
      ELSE [parsed EXCEPT ![authors[landed + 1]] = IF ending = "parsed" THEN 0 ELSE @ + 1]

(* After the scene, even one nobody spoke in, run() resets the counter of  *)
(* the initiator and the number of breaks.                                 *)
SceneTick ==
  /\ pc = "tick"
  /\ SceneEligible
  /\ \E authors \in SceneAuthors, landed \in 0 .. 3, ending \in SceneEnding :
       /\ fails' = [AfterTurns(authors, landed, ending) EXCEPT ![cur] = 0]
       /\ barren' = IF landed = 0 /\ ending = "raises" THEN barren ELSE 0
       /\ edge' \in IF landed = 0 THEN {edge} ELSE {edge, TRUE}
  /\ breaks' = 0
  /\ executed' = executed + 1
  /\ sinceFlush' = sinceFlush + 1
  /\ pc' = "after"
  /\ UNCHANGED <<cur, roster, skips, stop, gaveUp>>

-----------------------------------------------------------------------------
(* The end of a tick: the watchdog, then the flush gate.                   *)

(* watchdog.check(): an echo chamber registers a Stranger.                 *)
Watchdog ==
  IF executed % WatchdogEvery = 0
  THEN \E new \in SUBSET (Strangers \ roster) :
         Cardinality(new) <= 1 /\ roster' = roster \cup new
  ELSE UNCHANGED roster

(* The timer read before the tick was counted.                             *)
TimerFiresEarly == (executed - 1) % FlushEvery = 0

(* A gate with the timer alone, as before ADR 0005.                        *)
TransitionNeverFires == FALSE

TimerFires == executed % FlushEvery = 0

TransitionFires == edge /\ sinceFlush >= Throttle

(* The gate stays shut: the edge, if any, is only peeked at.               *)
PassGate ==
  /\ pc = "after"
  /\ ~(TimerFires \/ TransitionFires)
  /\ Watchdog
  /\ pc' = "loop"
  /\ UNCHANGED <<cur, fails, skips, breaks, executed, sinceFlush, edge, stop, barren, gaveUp>>

(* The gate opens: drain, flush (its exceptions are caught), reset.        *)
FlushHarvest ==
  /\ pc = "after"
  /\ TimerFires \/ TransitionFires
  /\ Watchdog
  /\ edge' = FALSE
  /\ sinceFlush' = 0
  /\ pc' = "loop"
  /\ UNCHANGED <<cur, fails, skips, breaks, executed, stop, barren, gaveUp>>

-----------------------------------------------------------------------------
(* Leaving the loop.                                                       *)

(* SIGINT or SIGTERM only sets a flag, read at the top of the loop.        *)
Signal ==
  /\ pc \notin {"finally", "ended"}
  /\ ~stop
  /\ stop' = TRUE
  /\ UNCHANGED <<pc, cur, roster, fails, skips, breaks, executed, sinceFlush, edge,
                 barren, gaveUp>>

LeaveLoop ==
  /\ pc = "loop"
  /\ executed >= MaxTicks \/ stop
  /\ pc' = "finally"
  /\ UNCHANGED <<cur, roster, fails, skips, breaks, executed, sinceFlush, edge, stop,
                 barren, gaveUp>>

(* The finally block: one more flush, then the databases are closed.       *)
Finish ==
  /\ pc = "finally"
  /\ pc' = "ended"
  /\ UNCHANGED <<cur, roster, fails, skips, breaks, executed, sinceFlush, edge, stop,
                 barren, gaveUp>>

-----------------------------------------------------------------------------

Pick(a) == PickReady(a) \/ SkipPaused(a) \/ DeadlockBreak(a)

Step ==
  \/ \E a \in Everyone : Pick(a)
  \/ ThinkRaises \/ ThinkReturns
  \/ CommitAction \/ TickRaises
  \/ SceneTick
  \/ PassGate \/ FlushHarvest
  \/ LeaveLoop \/ Finish

Next == Step \/ Signal

(* The loop is one thread and every call in it returns or raises (the LLM  *)
(* client has a timeout), and the weighted draw of sched.next() gives each *)
(* registered agent a weight of at least 1, so with probability 1 none is  *)
(* left out for ever. Nothing says that think() ever returns.              *)
Fairness ==
  /\ WF_vars(Step)
  /\ \A a \in Everyone : SF_vars(Pick(a))

Spec == Init /\ [][Next]_vars /\ Fairness

-----------------------------------------------------------------------------

(* Every variable has its type, and the bounded counters their bounds.     *)
TickTypeOK ==
  /\ pc \in {"loop", "tick", "commit", "after", "finally", "ended"}
  /\ cur \in roster \cup {NoAgent}
  /\ Agents \subseteq roster /\ roster \subseteq Everyone
  /\ fails \in [Everyone -> Nat]
  /\ skips \in 0 .. 3 * Cardinality(roster) + 1
  /\ breaks \in 0 .. MaxBreaks /\ barren \in Nat
  /\ executed \in 0 .. MaxTicks /\ sinceFlush \in 0 .. executed
  /\ edge \in BOOLEAN /\ stop \in BOOLEAN /\ gaveUp \in BOOLEAN

(* A completion the throttle holds back is not lost: at the top of the     *)
(* loop an unseen edge is always younger than the throttle, whichever of   *)
(* the two copies of the gate (single tick or scene) each tick went through.*)
EdgesServed == pc = "loop" /\ edge => sinceFlush < Throttle

(* The timer is a ceiling (run.py:1325-1329): transition-triggered flushes *)
(* never push it back, so that a WIP which a flush rejected, and which     *)
(* signals no new edge, is offered again within FlushEvery ticks.          *)
FlushCeiling == pc = "loop" => sinceFlush <= executed % FlushEvery

(* The run gives up only in an outage: MaxBreaks deadlock breaks passed    *)
(* and not one think() returned between them.                              *)
GivesUpOnlyInOutage == gaveUp => barren >= MaxBreaks

(* Why these hold: an invariant that every step preserves, proved in       *)
(* TickLoopProofs. It says what the gate at the end of a tick relies on.   *)
Running == pc \in {"loop", "tick", "commit", "after"}

LoopInv ==
  /\ TickTypeOK
  /\ pc \in {"tick", "commit"} => cur \in roster /\ executed < MaxTicks
  /\ pc \in {"loop", "tick", "commit"} =>
       /\ sinceFlush <= executed % FlushEvery
       /\ edge => sinceFlush < Throttle
  /\ pc = "after" => TimerFires \/ sinceFlush <= executed % FlushEvery
  /\ Running => skips <= 3 * Cardinality(roster) /\ breaks < MaxBreaks /\ ~gaveUp
  /\ breaks <= barren
  /\ GivesUpOnlyInOutage

(* run() ends: no mix of outages, pauses, scenes and arrivals keeps it     *)
(* from spending its ticks or giving up.                                   *)
RunEnds == <>(pc = "ended")

(* config.py:73-75: each deadlock break without a successful think() in    *)
(* between counts, and once there are MaxBreaks the loop exits. A scene    *)
(* in which no think() returned resets the count, see README.              *)
OutageEndsRun == barren >= MaxBreaks => gaveUp
=============================================================================
