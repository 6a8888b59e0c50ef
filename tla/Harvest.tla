------------------------------- MODULE Harvest -------------------------------
(***************************************************************************)
(* The harvester (src/microverse/agents/harvester.py) over the workshop    *)
(* projection and the episodic log: buffering artifacts, and flush(), one  *)
(* step per I/O operation so that an exception or a SIGKILL can come       *)
(* between any two of them.                                                *)
(*                                                                         *)
(* `wips` is at once the live projection and what a rebuild of the log     *)
(* gives: the harvester appends an event and mirrors it with nothing that  *)
(* can fail in between, and WorkshopLog checks that the two agree.         *)
(*                                                                         *)
(* Time is relative: now is 0, and a tick of the clock moves the           *)
(* completedTs of every complete WIP one unit into the past, no further    *)
(* than the point where it is overdue.                                     *)
(***************************************************************************)
EXTENDS Workshop

CONSTANTS
  Artifacts,          \* the non-contribute artifacts agents produce
  Crafts,             \* those whose verb is "craft", the one verb with a cap
  NoWIP,              \* "no recycle is owed"
  MaxScore,           \* scores are 0 .. MaxScore, for 0.0 .. 1.0
  AcceptanceFloor,    \* WIP_ACCEPTANCE_FLOOR
  WIPContributorFloor,\* WIP_CONTRIBUTOR_FLOOR
  CraftCap,           \* HARVEST_CRAFT_CAP_PER_FLUSH
  Percentile,         \* the artifact percentile (70 in run.py)
  MaxHarvestAttempts, \* MAX_HARVEST_ATTEMPTS
  PendingTimeout,     \* HARVEST_PENDING_TIMEOUT_S
  MaxFaults,          \* bound: exceptions raised inside flush()
  MaxRestarts         \* bound: process ends, killed or stopped

Candidates == Artifacts \cup WIPs

ASSUME HarvestAssumption ==
  /\ Artifacts \cap WIPs = {} /\ Crafts \subseteq Artifacts
  /\ IsFiniteSet(Artifacts)
  /\ NoWIP \notin WIPs
  /\ MaxScore \in Nat /\ AcceptanceFloor \in Nat
  /\ WIPContributorFloor \in Nat /\ CraftCap \in Nat
  /\ Percentile \in 0 .. 100
  /\ MaxHarvestAttempts \in Nat \ {0} /\ PendingTimeout \in Nat
  /\ MaxFaults \in Nat /\ MaxRestarts \in Nat

VARIABLES
  \* durable
  wips,       \* the projection the episodic log stands for
  copies,     \* inbox files of the present completion of each WIP
  unlogged,   \* inbox files with no accepted line in manifest.jsonl
  resolved,   \* artifacts with a line in manifest.jsonl
  \* memory of the process
  pending,    \* WorkshopProjection._pending_complete_transitions
  harvested,  \* Harvester._harvested_wips
  buffer,     \* Harvester._buffer
  \* locals of flush()
  pc,         \* "idle" outside flush(), else the phase flush() is in
  scores,     \* what Trader.rank returned: a function on the candidates
  todo,       \* candidates the score-descending loop has not reached
  accepted,   \* accepted_set
  owed,       \* the WIP whose recycle the loop emits next, or NoWIP
  logged,     \* candidates with a manifest line from this flush
  \* bounds and history
  stopping,   \* the flush is the one of run()'s finally block
  faults, restarts,
  considered, \* artifacts ever handed to consider()
  dropped     \* artifacts that were in a buffer when a process ended

durable == <<wips, copies, unlogged, resolved>>
memory  == <<pending, harvested, buffer>>
flushVars == <<pc, scores, todo, accepted, owed, logged>>
history == <<stopping, faults, restarts, considered, dropped>>
vars == <<durable, memory, flushVars, history>>

Scores == 0 .. MaxScore

NoScores == [c \in {} |-> 0]

Init ==
  /\ wips = NewProjection
  /\ copies = [w \in WIPs |-> 0]
  /\ unlogged = [c \in Candidates |-> 0]
  /\ resolved = {}
  /\ pending = {} /\ harvested = {} /\ buffer = {}
  /\ pc = "idle" /\ scores = NoScores /\ todo = {} /\ accepted = {}
  /\ owed = NoWIP /\ logged = {}
  /\ stopping = FALSE /\ faults = 0 /\ restarts = 0
  /\ considered = {} /\ dropped = {}

-----------------------------------------------------------------------------
(* What happens between flushes. *)

(* A contribute that passed _validate_contribute is committed and mirrored.*)
Contribute(w, a) ==
  LET e == ContributeEvent(w, a, 0, FALSE) IN
  /\ pc = "idle"
  /\ wips[w].phase # "complete"
  /\ wips' = Apply(wips, e)
  /\ pending' = pending \cup CompletedBy(wips, e)
  /\ UNCHANGED <<copies, unlogged, resolved, harvested, buffer, flushVars, history>>

(* consider() with a trader: buffered, or one reject line if it is blank.  *)
Consider(a) ==
  /\ pc = "idle"
  /\ a \notin considered
  /\ considered' = considered \cup {a}
  /\ \/ /\ buffer' = buffer \cup {a}
        /\ UNCHANGED resolved
     \/ /\ resolved' = resolved \cup {a}
        /\ UNCHANGED buffer
  /\ UNCHANGED <<wips, copies, unlogged, pending, harvested, flushVars,
                 stopping, faults, restarts, dropped>>

Overdue(w) == wips[w].phase = "complete" /\ -wips[w].completedTs > PendingTimeout

(* Wall-clock time goes by; it matters only for WIPs that wait complete.   *)
ClockTick ==
  LET waiting == {w \in CompleteWIPs(wips) : ~Overdue(w)} IN
  /\ pc = "idle"
  /\ waiting # {}
  /\ wips' = [w \in WIPs |->
       IF w \in waiting THEN [wips[w] EXCEPT !.completedTs = @ - 1] ELSE wips[w]]
  /\ UNCHANGED <<copies, unlogged, resolved, memory, flushVars, history>>

-----------------------------------------------------------------------------
(* Mutants of single lines of the flush. *)

(* The run loop flushes on a transition without draining the edges. *)
BeginFlushUndrained ==
  /\ pc = "idle"
  /\ pc' = "timeout"
  /\ UNCHANGED <<durable, memory, scores, todo, accepted, owed, logged, history>>

(* _emit_recycle that forgets _harvested_wips.discard. *)
EmitRecycleKeepsHarvested(w) ==
  /\ wips' = Apply(wips, RecycleEvent(w, 0))
  /\ copies' = [copies EXCEPT ![w] = 0]
  /\ UNCHANGED harvested

(* The timeout pass leaves a WIP alone that was written to the inbox. *)
TimedOutUnharvested(w) == Overdue(w) /\ w \notin harvested

(* The snapshot ignores _harvested_wips. *)
SnapshotAllWIPs == CompleteWIPs(wips)

(* The loop runs in buffer order, not best score first. *)
NextRankedAny == todo

(* The limit on attempts is never tested. *)
AttemptsSpentNever(n) == FALSE

(* A candidate is accepted without its file having been written. *)
WriteFileAfterRecycle(c) ==
  /\ owed' = IF c \in WIPs THEN c ELSE NoWIP
  /\ UNCHANGED <<copies, unlogged, harvested>>

(* flush() as it was before the buffer clear was deferred to its end. *)
RankClearsBuffer == buffer' = {}

-----------------------------------------------------------------------------
(* flush(), in the order of its I/O. Ending it, normally or by exception,  *)
(* discards its locals.                                                    *)

LeaveFlush ==
  /\ pc' = IF stopping THEN "ended" ELSE "idle"
  /\ scores' = NoScores /\ todo' = {} /\ accepted' = {}
  /\ owed' = NoWIP /\ logged' = {}

(* The flush gate of run(): on the 50-tick timer or a pending transition   *)
(* the loop drains the edges and calls flush(). When is TickLoop's affair. *)
BeginFlush ==
  /\ pc = "idle"
  /\ pc' = "timeout"
  /\ pending' = {}
  /\ UNCHANGED <<durable, harvested, buffer, scores, todo, accepted, owed, logged, history>>

(* SIGTERM, or the last tick: run()'s finally block flushes once more,     *)
(* without draining.                                                       *)
BeginFinalFlush ==
  /\ pc = "idle"
  /\ restarts < MaxRestarts
  /\ pc' = "timeout"
  /\ stopping' = TRUE
  /\ UNCHANGED <<durable, memory, scores, todo, accepted, owed, logged,
                 faults, restarts, considered, dropped>>

(* _emit_recycle: append, discard from _harvested_wips, mirror.            *)
EmitRecycle(w) ==
  /\ wips' = Apply(wips, RecycleEvent(w, 0))
  /\ copies' = [copies EXCEPT ![w] = 0]
  /\ harvested' = harvested \ {w}

(* The WIPs _timeout_pending_wips recycles, written to the inbox or not.   *)
TimedOut(w) == Overdue(w)

(* _timeout_pending_wips *)
TimeoutRecycle(w) ==
  /\ pc = "timeout"
  /\ TimedOut(w)
  /\ EmitRecycle(w)
  /\ UNCHANGED <<unlogged, resolved, pending, buffer, flushVars, history>>

(* _snapshot_pending_wips *)
SnapshotPendingWIPs == CompleteWIPs(wips) \ harvested

(* The candidates list: the buffer and the snapshot. *)
Offered == buffer \cup SnapshotPendingWIPs

NothingTimedOut == pc = "timeout" /\ \A w \in WIPs : ~TimedOut(w)

(* flush() with nothing to rank returns before it clears anything. *)
NothingToRank ==
  /\ NothingTimedOut
  /\ Offered = {}
  /\ LeaveFlush
  /\ UNCHANGED <<durable, memory, history>>

(* What rank() does to the buffer: nothing, the clear comes last. *)
RankKeepsBuffer == UNCHANGED buffer

(* Trader.rank: one score for each candidate, whatever the model answered  *)
(* (an artifact it left out scores 0) and whatever was ranked before.      *)
Rankings(S) == [S -> Scores]

(* Trader.rank returned; when it raises, FlushRaises. *)
Rank ==
  /\ NothingTimedOut
  /\ Offered # {}
  /\ scores' \in Rankings(Offered)
  /\ todo' = Offered
  /\ pc' = "settle"
  /\ RankKeepsBuffer
  /\ UNCHANGED <<durable, pending, harvested, accepted, owed, logged, history>>

-----------------------------------------------------------------------------
(* _percentile_cutoff and the comparison with it. The cutoff is the score *)
(* at CutoffIndex (from 0) of the sorted artifact scores, and a score      *)
(* reaches it iff more than CutoffIndex scores are not above it; a lone    *)
(* score is its own cutoff, several tied scores have none.                 *)
Ranked == DOMAIN scores

RankedArtifacts == Ranked \cap Artifacts

CutoffIndex ==
  LET n     == Cardinality(RankedArtifacts)
      index == (n * Percentile) \div 100
  IN  IF index < n THEN index ELSE n - 1

Tied == \A c, d \in RankedArtifacts : scores[c] = scores[d]

AtMost(v) == {d \in RankedArtifacts : scores[d] <= v}

AboveCutoff(c) ==
  /\ Tied => Cardinality(RankedArtifacts) = 1
  /\ CutoffIndex < Cardinality(AtMost(scores[c]))

Accepts(c) ==
  IF c \in WIPs
  THEN /\ Cardinality(Contributors(wips[c].fragments)) >= WIPContributorFloor
       /\ scores[c] >= AcceptanceFloor
  ELSE /\ AboveCutoff(c)
       /\ c \in Crafts => Cardinality(accepted \cap Crafts) < CraftCap

(* The next candidates in score-descending order; ties in either order.    *)
NextRanked == {c \in todo : \A d \in todo : scores[d] <= scores[c]}

Deciding(c) == pc = "settle" /\ owed = NoWIP /\ c \in NextRanked

(* _write_candidate, under a name of its own (_reserve_unique_path); for a *)
(* WIP also the mark in _harvested_wips.                                   *)
WriteFile(c) ==
  /\ unlogged' = [unlogged EXCEPT ![c] = @ + 1]
  /\ IF c \in WIPs
     THEN /\ copies' = [copies EXCEPT ![c] = @ + 1]
          /\ harvested' = harvested \cup {c}
          /\ owed' = c
     ELSE UNCHANGED <<copies, harvested, owed>>

Accept(c) ==
  /\ Deciding(c)
  /\ Accepts(c)
  /\ WriteFile(c)
  /\ accepted' = accepted \cup {c}
  /\ todo' = todo \ {c}
  /\ UNCHANGED <<wips, resolved, pending, buffer, pc, scores, logged, history>>

RejectArtifact(c) ==
  /\ Deciding(c)
  /\ c \in Artifacts
  /\ ~Accepts(c)
  /\ todo' = todo \ {c}
  /\ UNCHANGED <<durable, memory, pc, scores, accepted, owed, logged, history>>

(* wip.harvest_attempts >= MAX_HARVEST_ATTEMPTS *)
AttemptsSpent(n) == n >= MaxHarvestAttempts

(* _emit_harvest_attempt; with the attempts spent, a recycle is owed.      *)
RejectWIP(w) ==
  /\ Deciding(w)
  /\ w \in WIPs
  /\ ~Accepts(w)
  /\ wips' = Apply(wips, HarvestAttemptEvent(w, 0))
  /\ owed' = IF AttemptsSpent(wips[w].attempts + 1) THEN w ELSE NoWIP
  /\ todo' = todo \ {w}
  /\ UNCHANGED <<copies, unlogged, resolved, memory, pc, scores, accepted, logged, history>>

(* The recycle after an accepted write or after the last attempt.          *)
RecycleOwed ==
  /\ pc = "settle"
  /\ owed # NoWIP
  /\ EmitRecycle(owed)
  /\ owed' = NoWIP
  /\ UNCHANGED <<unlogged, resolved, pending, buffer, pc, scores, todo, accepted,
                 logged, history>>

BeginManifest ==
  /\ pc = "settle" /\ owed = NoWIP /\ todo = {}
  /\ pc' = "manifest"
  /\ UNCHANGED <<durable, memory, scores, todo, accepted, owed, logged, history>>

(* _append_manifest, one line per candidate; artifacts come before WIPs.   *)
AppendManifest(c) ==
  /\ pc = "manifest"
  /\ c \in Ranked \ logged
  /\ c \in WIPs => Ranked \cap Artifacts \subseteq logged
  /\ logged' = logged \cup {c}
  /\ unlogged' = IF c \in accepted THEN [unlogged EXCEPT ![c] = @ - 1] ELSE unlogged
  /\ resolved' = resolved \cup ({c} \cap Artifacts)
  /\ UNCHANGED <<wips, copies, memory, pc, scores, todo, accepted, owed, history>>

(* A manifest that knows artifacts only, as before WIPs were candidates.   *)
EndFlushArtifactsLogged ==
  /\ pc = "manifest"
  /\ RankedArtifacts \subseteq logged
  /\ buffer' = {}
  /\ LeaveFlush
  /\ UNCHANGED <<durable, pending, harvested, history>>

(* The end of a flush that raised nothing: only now the buffer is cleared. *)
EndFlush ==
  /\ pc = "manifest"
  /\ logged = Ranked
  /\ buffer' = {}
  /\ LeaveFlush
  /\ UNCHANGED <<durable, pending, harvested, history>>

-----------------------------------------------------------------------------
(* Failures. *)

(* The next I/O operation of the flush raises (the ranker, a file write,   *)
(* an append to the log or the manifest) and run() catches the exception.  *)
FlushRaises ==
  /\ pc \in {"timeout", "settle", "manifest"}
  /\ pc = "timeout" => Offered # {} \/ ~NothingTimedOut
  /\ pc = "manifest" => logged # Ranked
  /\ faults < MaxFaults
  /\ faults' = faults + 1
  /\ LeaveFlush
  /\ UNCHANGED <<durable, memory, stopping, restarts, considered, dropped>>

(* The process ends (by SIGKILL anywhere, or after the final flush) and a  *)
(* new one starts: only what is durable survives.                          *)
Restart ==
  /\ restarts < MaxRestarts
  /\ restarts' = restarts + 1
  /\ pending' = {} /\ harvested' = {} /\ buffer' = {}
  /\ dropped' = dropped \cup buffer
  /\ pc' = "idle" /\ scores' = NoScores /\ todo' = {} /\ accepted' = {}
  /\ owed' = NoWIP /\ logged' = {}
  /\ stopping' = FALSE
  /\ UNCHANGED <<durable, faults, considered>>

-----------------------------------------------------------------------------

Flush ==
  \/ \E w \in WIPs : TimeoutRecycle(w)
  \/ NothingToRank
  \/ Rank
  \/ \E c \in Candidates : Accept(c)
  \/ \E c \in Artifacts : RejectArtifact(c)
  \/ \E w \in WIPs : RejectWIP(w)
  \/ RecycleOwed
  \/ BeginManifest
  \/ \E c \in Candidates : AppendManifest(c)
  \/ EndFlush

Next ==
  \/ \E w \in WIPs, a \in Actors : Contribute(w, a)
  \/ \E a \in Artifacts : Consider(a)
  \/ ClockTick
  \/ BeginFlush
  \/ BeginFinalFlush
  \/ Flush
  \/ FlushRaises
  \/ Restart

(* The loop is one thread: a flush it began runs on, it begins flushes     *)
(* for ever while it runs (the timer is a ceiling), and wall-clock time    *)
(* advances between flushes.                                               *)
Fairness ==
  /\ WF_vars(Flush)
  /\ WF_vars(BeginFlush)
  /\ SF_vars(ClockTick)

Spec == Init /\ [][Next]_vars /\ Fairness

-----------------------------------------------------------------------------

(* Every variable has its type. *)
TypeOK ==
  /\ wips \in Projection
  /\ copies \in [WIPs -> Nat]
  /\ unlogged \in [Candidates -> Nat]
  /\ resolved \subseteq Artifacts
  /\ pending \subseteq WIPs /\ harvested \subseteq WIPs /\ buffer \subseteq Artifacts
  /\ pc \in {"idle", "timeout", "settle", "manifest", "ended"}
  /\ Ranked \subseteq Candidates /\ scores \in [Ranked -> Scores]
  /\ todo \subseteq Ranked /\ accepted \subseteq Ranked /\ logged \subseteq Ranked
  /\ owed \in WIPs \cup {NoWIP}
  /\ stopping \in BOOLEAN
  /\ faults \in 0 .. MaxFaults /\ restarts \in 0 .. MaxRestarts
  /\ considered \subseteq Artifacts /\ dropped \subseteq Artifacts

(* No stale edge: an edge the gate would fire on names a WIP that is       *)
(* complete now, because the gate drains before the flush that recycles    *)
(* (run.py:1335-1337); the final flush is exempt, nothing reads them then. *)
PendingAreComplete == ~stopping => pending \subseteq CompleteWIPs(wips)

(* A WIP is only ever held back from the ranker while it is still the      *)
(* completion that was written: once recycled, its next completion is      *)
(* eligible again (harvester.py:395-397), whatever failed on the way.      *)
HarvestedAreComplete == harvested \subseteq CompleteWIPs(wips)

(* One completion is not written to the inbox twice by one process, even   *)
(* when the recycle that should follow the write raises: each restart can  *)
(* add one copy, because _harvested_wips is not durable.                   *)
OneCopyPerProcess == \A w \in WIPs : copies[w] <= 1 + restarts

(* Between flushes the rejections of a WIP stay below the limit that       *)
(* recycles it (config.py:121-131); only an exception or a kill between    *)
(* the attempt and the recycle lets it pass, by one each time.             *)
AttemptsBounded ==
  pc = "idle" => \A w \in WIPs :
    wips[w].attempts < MaxHarvestAttempts + faults + restarts

(* No artifact is lost inside a process: what consider() took is still     *)
(* buffered or has its line in the manifest, whatever raised during a      *)
(* flush; only the end of a process drops buffered artifacts.              *)
ArtifactsConserved == considered \subseteq buffer \cup resolved \cup dropped

(* Each failed flush or restart leaves at most one file of a candidate     *)
(* without its manifest line, and a flush that runs to its end leaves none.*)
AuditGapBounded ==
  pc = "idle" => \A c \in Candidates : unlogged[c] <= faults + restarts

(* The craft cap takes the top crafts: none is turned away while one with  *)
(* a lower score is accepted (harvester.py:299-301).                       *)
TopCraftsWin ==
  pc = "manifest" =>
    \A a \in accepted \cap Crafts, b \in (Ranked \cap Crafts) \ accepted :
      scores[a] >= scores[b]

(* Fragments are never dropped silently: a WIP leaves `complete` only once *)
(* it was written to the inbox, waited past the timeout, or was rejected   *)
(* MAX_HARVEST_ATTEMPTS times.                                             *)
NoSilentLoss ==
  [][\A w \in WIPs :
       wips[w].phase = "complete" /\ wips'[w].phase # "complete" =>
         \/ copies[w] >= 1
         \/ Overdue(w)
         \/ wips[w].attempts >= MaxHarvestAttempts]_vars

(* Why the invariants above hold: an invariant that every step preserves,  *)
(* proved in HarvestProofs. It names what is true in the middle of a flush.*)

(* What belongs to which phase of flush(). *)
PhaseInv ==
  /\ stopping => pc # "idle"
  /\ pc = "ended" => stopping
  /\ pc \in {"timeout", "settle", "manifest"} /\ ~stopping => pending = {}
  /\ pc \notin {"settle", "manifest"} => Ranked = {} /\ owed = NoWIP
  /\ pc \in {"settle", "manifest"} => buffer \subseteq Ranked
  /\ pc # "manifest" => logged = {}
  /\ pc = "manifest" => todo = {} /\ owed = NoWIP

(* The WIPs the loop still has to settle are complete and not written yet; *)
(* the one whose recycle is owed was written or rejected often enough.     *)
SettleInv ==
  /\ accepted \cap todo = {}
  /\ \A w \in todo \cap WIPs : wips[w].phase = "complete" /\ w \notin harvested
  /\ owed # NoWIP =>
       /\ owed \notin todo
       /\ wips[owed].phase = "complete"
       /\ copies[owed] >= 1 \/ wips[owed].attempts >= MaxHarvestAttempts
  /\ logged \cap Artifacts \subseteq resolved

(* Files, rejections and missing lines never run ahead of the failures.    *)
CountInv ==
  /\ \A w \in WIPs :
       /\ copies[w] <= restarts + (IF w \in harvested THEN 1 ELSE 0)
       /\ wips[w].attempts < MaxHarvestAttempts + faults + restarts
                               + (IF w = owed THEN 1 ELSE 0)
  /\ \A c \in Candidates :
       /\ unlogged[c] <= faults + restarts
                           + (IF c \in accepted \ logged THEN 1 ELSE 0)
       /\ c \in accepted \ logged => unlogged[c] >= 1

(* The loop goes down the scores, and turns a craft away only below the    *)
(* cutoff or at the cap.                                                   *)
RankInv ==
  /\ \A c \in Ranked \ todo, d \in todo : scores[d] <= scores[c]
  /\ \A b \in (Ranked \cap Crafts) \ (todo \cup accepted) :
       \/ ~AboveCutoff(b)
       \/ Cardinality(accepted \cap Crafts) >= CraftCap
  /\ \A a \in accepted \cap Crafts, b \in (Ranked \cap Crafts) \ accepted :
       scores[a] >= scores[b]

Inv ==
  /\ TypeOK
  /\ PhaseInv
  /\ PendingAreComplete
  /\ HarvestedAreComplete
  /\ SettleInv
  /\ CountInv
  /\ ArtifactsConserved
  /\ RankInv

(* The capacity invariant of ADR 0004: no WIP stays complete for ever,     *)
(* even one whose recycle failed and that is held back from the ranker,    *)
(* unless the process is stopped.                                          *)
SlotsReopen ==
  \A w \in WIPs : w \in CompleteWIPs(wips) ~> w \in OpenSlots(wips) \/ pc = "ended"

(* The harvest keeps the promise of module Slot, whatever raises or is     *)
(* killed inside flush(): a completion is delivered at most once by a      *)
(* process, and a slot is reopened, with all its marks and counts, only    *)
(* when it was delivered, waited too long or was rejected too often.       *)
Slots == INSTANCE Slot WITH
  full          <- CompleteWIPs(wips),
  held          <- harvested,
  rejections    <- [w \in WIPs |-> wips[w].attempts],
  waited        <- {w \in WIPs : Overdue(w)},
  MaxRejections <- MaxHarvestAttempts

KeepsSlotPromise == Slots!Spec
=============================================================================
