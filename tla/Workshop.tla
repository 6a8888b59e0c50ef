------------------------------ MODULE Workshop ------------------------------
(***************************************************************************)
(* The shared workshop (src/microverse/world/workshop.py): the phases of a *)
(* work-in-progress (WIP) and the effect of one episodic event on the      *)
(* projection, a function from WIP names to WIP records.                   *)
(*                                                                         *)
(* A fragment is abstracted to its contributor: no property here reads its *)
(* text, and whether the text is blank is a field of the event.            *)
(* last_activity_ts is left out: nothing below depends on it.              *)
(***************************************************************************)
EXTENDS Integers, Sequences, FiniteSets

CONSTANTS
  WIPs,             \* CONFIGURED_WIPS
  Actors,           \* agents that can contribute
  ContributorFloor, \* DEVELOPING_CONTRIBUTOR_FLOOR
  FragmentFloor,    \* DEVELOPING_FRAGMENT_FLOOR
  CompleteFloor     \* COMPLETE_FRAGMENT_FLOOR

ASSUME WorkshopAssumption ==
  /\ ContributorFloor \in Nat \ {0}
  /\ FragmentFloor \in Nat \ {0}
  /\ CompleteFloor \in Nat
  /\ FragmentFloor <= CompleteFloor

WIPPhase == {"forming", "developing", "complete"}

WIP == [fragments   : Seq(Actors),
        phase       : WIPPhase,
        completedTs : Int,
        attempts    : Nat]

(* A WIP at cold start, and again after every recycle. *)
NewWIP == [fragments |-> <<>>, phase |-> "forming", completedTs |-> 0, attempts |-> 0]

Projection == [WIPs -> WIP]

NewProjection == [w \in WIPs |-> NewWIP]

Contributors(fragments) == {fragments[i] : i \in DOMAIN fragments}

(* _recompute_phase: the phase is a function of the fragments alone. *)
RecomputePhase(fragments) ==
  IF Len(fragments) >= CompleteFloor THEN "complete"
  ELSE IF \/ Len(fragments) >= FragmentFloor
          \/ Cardinality(Contributors(fragments)) >= ContributorFloor
       THEN "developing"
       ELSE "forming"

-----------------------------------------------------------------------------
(* The episodic events the projection reads. `blank` is a fragment that is *)
(* empty after strip; a target outside WIPs is an unknown name.            *)

ContributeEvent(w, a, ts, blank) ==
  [action |-> "contribute", target |-> w, actor |-> a, ts |-> ts, blank |-> blank]

LifecycleEvent(action, w, ts) ==
  [action |-> action, target |-> w, actor |-> "harvester", ts |-> ts, blank |-> FALSE]

RecycleEvent(w, ts) == LifecycleEvent("workshop.recycle", w, ts)

HarvestAttemptEvent(w, ts) == LifecycleEvent("workshop.harvest_attempt", w, ts)

-----------------------------------------------------------------------------
(* Mutants of the event handlers, each a slip a maintainer could make. *)

(* A complete WIP keeps taking fragments. *)
ApplyContributeToComplete(wips, e) ==
  IF e.target \notin WIPs \/ e.blank THEN wips
  ELSE LET fragments == Append(wips[e.target].fragments, e.actor) IN
       [wips EXCEPT ![e.target] = [fragments   |-> fragments,
                                   phase       |-> RecomputePhase(fragments),
                                   completedTs |-> e.ts,
                                   attempts    |-> @.attempts]]

-----------------------------------------------------------------------------

(* _apply_contribute: an unknown name, a blank fragment and a complete WIP *)
(* leave the projection alone.                                             *)
ApplyContribute(wips, e) ==
  IF e.target \notin WIPs \/ e.blank THEN wips
  ELSE IF wips[e.target].phase = "complete" THEN wips
  ELSE LET fragments == Append(wips[e.target].fragments, e.actor)
           phase     == RecomputePhase(fragments)
       IN  [wips EXCEPT ![e.target] =
             [fragments   |-> fragments,
              phase       |-> phase,
              completedTs |-> IF phase = "complete" THEN e.ts ELSE @.completedTs,
              attempts    |-> @.attempts]]

(* _apply_recycle: back to an empty, forming WIP. *)
ApplyRecycle(wips, e) ==
  IF e.target \notin WIPs THEN wips ELSE [wips EXCEPT ![e.target] = NewWIP]

(* _apply_harvest_attempt: counts in any phase. *)
ApplyHarvestAttempt(wips, e) ==
  IF e.target \notin WIPs THEN wips ELSE [wips EXCEPT ![e.target].attempts = @ + 1]

(* _apply: dispatch on the action; every other action is ignored. *)
Apply(wips, e) ==
  IF e.action = "contribute" THEN ApplyContribute(wips, e)
  ELSE IF e.action = "workshop.recycle" THEN ApplyRecycle(wips, e)
  ELSE IF e.action = "workshop.harvest_attempt" THEN ApplyHarvestAttempt(wips, e)
  ELSE wips

(* The WIPs that e moves into `complete`: what _apply_contribute adds to   *)
(* _pending_complete_transitions.                                          *)
CompletedBy(wips, e) ==
  {w \in WIPs : wips[w].phase # "complete" /\ Apply(wips, e)[w].phase = "complete"}

(* open_slots *)
OpenSlots(wips) == {w \in WIPs : wips[w].phase # "complete"}

(* The WIPs is_complete answers TRUE for. *)
CompleteWIPs(wips) == {w \in WIPs : wips[w].phase = "complete"}

-----------------------------------------------------------------------------
(* Reading the log. *)

(* The j-th smallest member of a set of positions. *)
Nth(positions, j) ==
  CHOOSE i \in positions : Cardinality({h \in positions : h <= i}) = j

(* The events of a log at some of its positions, oldest first. *)
EventsAt(events, positions) ==
  [j \in 1 .. Cardinality(positions) |-> events[Nth(positions, j)]]

ActorsOf(events) == [j \in DOMAIN events |-> events[j].actor]
=============================================================================
