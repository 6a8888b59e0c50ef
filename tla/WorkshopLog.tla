----------------------------- MODULE WorkshopLog -----------------------------
(***************************************************************************)
(* The workshop as a read-model over the episodic log (ADR 0003): an event *)
(* is committed to SQLite first (EpisodicMemory.append) and then mirrored  *)
(* into the live projection (WorkshopProjection.on_event); a process that  *)
(* dies in between, or at any other time, rebuilds the projection from the *)
(* log when it starts again.                                               *)
(***************************************************************************)
EXTENDS Workshop, SequencesExt

CONSTANTS
  NoWIP,  \* a name outside CONFIGURED_WIPS
  MaxLog  \* bound: events in the log

ASSUME WorkshopLogAssumption == NoWIP \notin WIPs /\ MaxLog \in Nat

VARIABLES
  log,       \* the events table, oldest first (durable)
  wips,      \* WorkshopProjection._wips (memory)
  pending,   \* _pending_complete_transitions (memory)
  inflight,  \* the committed events not yet mirrored: <<>> or <<e>>
  drainedAt  \* history: length of the log at the last drain or rebuild

vars == <<log, wips, pending, inflight, drainedAt>>

(* The projection after the first n of some events. *)
After(events) ==
  LET after[n \in 0 .. Len(events)] ==
        IF n = 0 THEN NewProjection ELSE Apply(after[n - 1], events[n])
  IN  after

(* _rebuild_from_episodic without the reversed(): since() is newest-first. *)
ReplayNewestFirst(events) == After(Reverse(events))[Len(events)]

(* _rebuild_from_episodic: every event, oldest first, through _apply. *)
Replay(events) == After(events)[Len(events)]

Init ==
  /\ log = <<>>
  /\ wips = NewProjection
  /\ pending = {}
  /\ inflight = <<>>
  /\ drainedAt = 0

(* An append whose mirroring is put off until several events are in.       *)
CommitQueued(e) ==
  /\ Len(log) < MaxLog
  /\ log' = Append(log, e)
  /\ inflight' = Append(inflight, e)
  /\ UNCHANGED <<wips, pending, drainedAt>>

(* EpisodicMemory.append: one INSERT and its COMMIT. *)
Commit(e) ==
  /\ inflight = <<>>
  /\ Len(log) < MaxLog
  /\ log' = Append(log, e)
  /\ inflight' = <<e>>
  /\ UNCHANGED <<wips, pending, drainedAt>>

Now == Len(log) + 1

(* An agent's contribute. Those to a complete WIP are folded before they   *)
(* are committed when the projection is attached, but logs of v0.2 hold    *)
(* them and the projection must ignore them.                               *)
CommitContribute ==
  \E w \in WIPs, a \in Actors : Commit(ContributeEvent(w, a, Now, FALSE))

(* A contribute the projection drops: blank text or an unknown WIP. *)
CommitIgnored ==
  \E a \in Actors, w \in WIPs \cup {NoWIP} : Commit(ContributeEvent(w, a, Now, w # NoWIP))

(* The harvester writes lifecycle events about complete WIPs only. *)
CommitLifecycle ==
  \E w \in CompleteWIPs(wips) :
    \/ Commit(RecycleEvent(w, Now))
    \/ Commit(HarvestAttemptEvent(w, Now))

(* on_event that signals an edge for every fragment of a complete WIP. *)
MirrorLevel ==
  /\ inflight # <<>>
  /\ wips' = Apply(wips, inflight[1])
  /\ pending' = pending \cup CompleteWIPs(wips')
  /\ inflight' = <<>>
  /\ UNCHANGED <<log, drainedAt>>

(* on_event / on_contribute_event, right after the append returned. *)
Mirror ==
  /\ inflight # <<>>
  /\ wips' = Apply(wips, inflight[1])
  /\ pending' = pending \cup CompletedBy(wips, inflight[1])
  /\ inflight' = <<>>
  /\ UNCHANGED <<log, drainedAt>>

(* drain_complete_transitions *)
Drain ==
  /\ inflight = <<>>
  /\ pending # {}
  /\ pending' = {}
  /\ drainedAt' = Len(log)
  /\ UNCHANGED <<log, wips, inflight>>

(* SIGKILL and a new process: memory is gone, __init__ rebuilds from the   *)
(* log and then discards the edges of the replay.                          *)
Restart ==
  /\ wips' = Replay(log)
  /\ pending' = {}
  /\ inflight' = <<>>
  /\ drainedAt' = Len(log)
  /\ UNCHANGED log

Next ==
  \/ CommitContribute
  \/ CommitIgnored
  \/ CommitLifecycle
  \/ Mirror
  \/ Drain
  \/ Restart

Spec == Init /\ [][Next]_vars

-----------------------------------------------------------------------------

(* The events a log may hold. *)
Event ==
  [action : {"contribute"}, target : WIPs \cup {NoWIP}, actor : Actors,
   ts : Nat, blank : BOOLEAN]
  \cup
  [action : {"workshop.recycle", "workshop.harvest_attempt"}, target : WIPs,
   actor : {"harvester"}, ts : Nat, blank : {FALSE}]

(* Every variable has its type; the drain mark is a position of the log. *)
LogTypeOK ==
  /\ log \in Seq(Event)
  /\ wips \in Projection
  /\ pending \subseteq WIPs
  /\ inflight \in Seq(Event) /\ Len(inflight) <= 1
  /\ drainedAt \in 0 .. Len(log)

(* Restart determinism (workshop.py:181-184): whenever no append is in     *)
(* flight, the projection kept event by event is the one a cold rebuild of *)
(* the log would give, however commits, drains and crashes interleaved.    *)
LiveIsReplay == inflight = <<>> => wips = Replay(log)

(* What events say of one WIP, stated without the event handlers: only     *)
(* those after its last recycle count, the first CompleteFloor non-blank   *)
(* fragments are kept, and the one that filled it dates it.                *)
SinceRecycle(events, w) ==
  {i \in DOMAIN events :
     /\ events[i].target = w
     /\ \A j \in i .. Len(events) :
          ~(events[j].action = "workshop.recycle" /\ events[j].target = w)}

Offered(events, w) ==
  {i \in SinceRecycle(events, w) : events[i].action = "contribute" /\ ~events[i].blank}

Rejected(events, w) ==
  {i \in SinceRecycle(events, w) : events[i].action = "workshop.harvest_attempt"}

Kept(offered) ==
  SubSeq(offered, 1, IF Len(offered) >= CompleteFloor THEN CompleteFloor ELSE Len(offered))

WIPOf(events, w) ==
  LET kept == Kept(EventsAt(events, Offered(events, w)))
  IN  [fragments   |-> ActorsOf(kept),
       phase       |-> RecomputePhase(ActorsOf(kept)),
       completedTs |-> IF Len(kept) = CompleteFloor THEN kept[CompleteFloor].ts ELSE 0,
       attempts    |-> Cardinality(Rejected(events, w))]

(* The live projection agrees with that reference: no fragment is lost,    *)
(* duplicated, reordered or taken by a complete WIP (workshop.py:34-36),   *)
(* and nothing of an earlier life of the WIP survives its recycle.         *)
ProjectionMatchesLog == inflight = <<>> => \A w \in WIPs : wips[w] = WIPOf(log, w)

(* The positions at which the log completes w. *)
Completions(w) ==
  {i \in DOMAIN log : w \in CompletedBy(After(log)[i - 1], log[i])}

(* The edge signal (workshop.py:141-150, 162-170): exactly the WIPs the    *)
(* log completed since the last drain or rebuild are pending; none twice   *)
(* for contributes to a WIP that is already complete, none from a replay.  *)
PendingAreUndrainedEdges ==
  inflight = <<>> => pending = {w \in WIPs : \E i \in Completions(w) : i > drainedAt}

(* The inductive invariant: what is in flight is the newest event of the   *)
(* log, and memory is where the events before it have brought it.          *)
Mirrored == Len(log) - Len(inflight)

LogInv ==
  /\ LogTypeOK
  /\ inflight # <<>> => inflight[1] = log[Len(log)] /\ drainedAt < Len(log)
  /\ Len(inflight) <= Len(log)
  /\ wips = After(log)[Mirrored]
  /\ pending = {w \in WIPs : \E i \in Completions(w) : i > drainedAt /\ i <= Mirrored}
=============================================================================
