# Microverse in TLA+

Microverse runs a small society of LLM agents in one Python process. Agents
take ticks; in a tick an agent thinks, its action is appended to an SQLite log
of episodic events, and contributions to shared works in progress (WIPs)
accumulate until a harvester writes complete WIPs to an inbox and reopens them.
The log is the only durability contract. The process is meant to run for weeks,
to be killed at any time, and to come back with the same workshop.

This directory holds TLA+ modules translated from `src/microverse`, TLC
configurations that model-check them on small instances, and TLAPS proofs, for every
value of the constants, of every safety property the runs check and of both refinements.
Source paths below are relative to the repository.

## 1. The system

| Component | State | Operations | What is hard about it |
|---|---|---|---|
| Workshop projection, `world/workshop.py` | per WIP: fragments, phase, completion time, harvest attempts; the undrained completion edges | fold of one event; rebuild from the log; drain; open and complete slots | the live fold and the rebuild after a kill must agree; edges are signalled live only |
| Episodic log, `memory/episodic.py` | the `events` table | `append` (its own commit), queries | it is written first and mirrored after; a kill can come between |
| Harvester, `agents/harvester.py` | `_buffer`, `_harvested_wips`; inbox files and `manifest.jsonl` | `consider`, `flush` (time-outs, rank, accept or reject, recycle, manifest) | a flush is a sequence of durable steps and each of them can raise or be the last |
| Trader, `agents/trader.py` | none | `rank` | scores decide acceptance; ties and small batches at the percentile cut |
| Tick loop, `run.py` | ticks, skips, deadlock breaks, ticks since the last flush | pick an agent, single tick or scene, watchdog, flush gate, maintenance, shutdown | pauses, rehabilitation and give-up; two copies of the trailing gate; signals |
| Scheduler, `world/scheduler.py` | roster, weights | weighted draw, registration | fairness is only probabilistic |
| Metrics, `ops/metrics.py` | counters | bump, reset, `should_pause` | `consecutive_fail` is control state kept in a metrics table |
| Scene runner, `world/scene.py` | scene id, authors, turn | open, three turns, abort | any turn can fail; the WIP can fill up between turns; a kill leaves a scene open |
| Agents and parsing, `agents/*.py` | none that matters here | `think`, `parse_action`, validation of contributes, levers | a malformed answer is folded into a rest and counted as a failure, but does not raise |
| Watchdog, `ops/watchdog.py` | Strangers spawned | `check` | changes the roster during the run; must tell agents from the pseudo-actors of the log |
| Snapshots, `world/snapshot.py` | archives on disk, circuit breaker | `take_snapshot`, `prune_snapshots`, `restore_snapshot` | renames and deletions that can be cut short |
| Energy economy, `world/economy.py` | energy per agent, never persisted | afford, deduct, regenerate, reconstruct | forced turns paid with what there is; a restart rebuilds the pools by other rules than the run |
| Action levers, `agents/base.py`, `artisan.py`, `scholar.py` | rest streak per agent | coerce an empty craft, limit rests, diversify, economize, engage | five levers rewrite one action, each unaware of those after it |
| Verb diversity hint, `run.py`, `world/diversity.py` | none | find the dominant verb, suggest another | its suggestion feeds the levers |
| Prompt context and peer inbox, `memory/__init__.py`, `run.py` | a watermark per agent | build context, redact, engagement gate | marks move after a commit only, on two paths: speech seen twice or never; an agent that nobody makes speak |
| Relationships, `world/relationships.py` and the cache in `run.py` | cached facts | derive, refresh | bounded staleness, a roster that changes under the cache |
| Beliefs and identity, `agents/belief.py`, `memory/identity.py` | one row per agent | summarise, overwrite | - |
| Semantic memory, `memory/semantic.py` | vectors | add, search | - |
| World clock, `world/clock.py` | time of day, weather | advance | - |
| LLM client, `llm/*.py` | - | HTTP calls | time-outs, malformed answers |
| Scripts, `scripts/*.py` | a ledger replayed from the log (`replay_economy.py`) | offline measurement of the log | the audit has to find the ticks of a run in its events |

How they interact: everything runs in the loop thread of `run()`. The loop calls
an agent, appends its action (`_commit_action`) and hands the event to
`WorkshopProjection.note`; it hands artifacts to `Harvester.consider`. The
harvester reads the projection, appends `workshop.recycle` and
`workshop.harvest_attempt` events and mirrors them at once. A scene runs three
such commits in one tick. The watchdog adds agents to the scheduler. Snapshots
archive the data directory from the loop; a restore is a command an operator
runs while the process is down. There is no thread that shares this state, so
the difficulty lies in exceptions, kills, restarts, and in the order of durable
and volatile updates, not in data races.

What correctness means, component by component:

- projection: a function of the log, kept live or rebuilt; edges exact;
- harvester: nothing produced is lost, nothing is harvested twice by a process,
  rejections are bounded, slots reopen, decisions are auditable, the cap keeps
  the best;
- tick loop: the run ends; it gives up only in an outage; completions are flushed after the
  throttle and by the timer;
- scenes: the event contract, whatever fails; no fragment lost to a full WIP;
- snapshots: archives whole, disk bounded, newest kept by retention, restore all or nothing, and
  where it can be neither, nothing lost;
- economy and levers: nobody is starved of a verb that is not a rest, a restart is no
  rest, what reaches the log was paid for, and no lever undoes the promise of another;
- audit: never more energy than the run had, and the same where it can know it;
- inbox, gate and ledgers: what is said to an agent is in exactly one prompt that it answers;
  no agent that the gate sees often enough works on in silence; ties in a prompt are out of date by a bounded number of events
  and never speak of somebody who is not there; the Watchdog blames agents only.

## 2. Modules

    Workshop <--- WorkshopLog <--- MCWorkshopLog, WorkshopLogProofs
       ^  ^  ^
       |  |  +--- Harvest <--- MCHarvest, HarvestProofs      Harvest implements Slot
       |  +------ Scene   <--- MCScene, SceneProofs
       +--------- WorkshopProofs, which the three other proof modules extend
    TickLoop <--- MCTickLoop, TickLoopProofs
    Snapshot <--- MCSnapshot, SnapshotProofs                 Snapshot implements Vault
    Economy  <--- Audit <--- MCEconomy, EconomyProofs
    Village  <--- MCVillage, VillageProofs

**Workshop** is the pure part: the record a WIP is, and `Apply`, the fold of one
event (`_apply_contribute`, `_apply_recycle`, `_apply_harvest_attempt`,
`_recompute_phase`). A fragment is abstracted to its author, or to being blank;
the target of an event is a configured WIP. Every module that touches the
workshop uses these definitions, so that they cannot drift apart.

**WorkshopLog** is the projection as `run.py` keeps it: `Commit...` appends an
event, `Mirror` applies it to the live projection and adds the edge, `Drain`
empties the edges, `Restart` is a kill and a rebuild (`_rebuild_from_episodic`),
which may come between a commit and its mirror. `Replay` is the fold of the whole
log, the last value of `After(log)`, the function from a position to the projection the
events up to it make; it is a recursive function and not an operator, so that the provers can
reason about it. `WIPOf` reads the log without the handlers, as the reference.

**Harvest** is the harvester over the projection. `flush()` is split where it
changes durable state, so an exception or a kill can come after each piece:

| `pc` | code | actions |
|---|---|---|
| `idle` | outside `flush()` | `Contribute`, `Consider`, `ClockTick`, `BeginFlush`, `BeginFinalFlush`, `Restart` |
| `timeout` | `_timeout_pending_wips`, then ranking | `TimeoutRecycle`, `Rank`, `NothingToRank` |
| `settle` | the loop over the candidates, best first | `Accept` and `RejectArtifact`, `RejectWIP`, `RecycleOwed` |
| `manifest` | manifest lines, end | `AppendManifest`, `EndFlush` |

`FlushRaises` is enabled in each phase and does what the `except` of `run()`
does; `Restart` keeps what is on disk. Scores are any assignment of numbers;
the percentile cut, the acceptance floors and the craft cap are the code's. The
projection and the log are one variable here (`wips`): the harvester appends and
mirrors with nothing between that can fail, and WorkshopLog checks that both
readings agree. Time is relative to now (see the module's header). The Trader is
`Rankings`: any score for each candidate.

**Slot** is what the harvest promises the writers of a WIP, with no word on files, manifests
or exceptions: a full slot is delivered at most once by a process, and reopened, with its
marks and counts, only if it was delivered, waited too long or was rejected too often.
`KeepsSlotPromise` says that Harvest implements it: `full` are the complete WIPs, `held` is
`_harvested_wips`, `rejections` the logged attempts, `waited` the overdue WIPs.

**TickLoop** is the loop of `run()`: `pc` names the place in an iteration, `Pick` is
the scheduler's draw with its pause guard, then the single-tick path
(`ThinkRaises`, `ThinkReturns`, `CommitAction`, `TickRaises`) or the scene path
(`SceneTick`), then `PassGate` or `FlushHarvest` with the watchdog before it.
The workshop is one bit: is there an undrained edge. What a think says is how it
ends for the failure counter; `AfterTurns` is what `parse_action` does to the
counters of the three authors of a scene.

**Scene** is `SceneRunner` on the workshop and the log: `OpenScene` with the
authors of `pick_authors`, `TakeTurn`, `TurnFails` (think raises, answers something
else, or the WIP is complete), `Abort`, and the appends that raise, each treated
as its `except` treats it. `BumpRaises` is what no `except` of the runner treats: every tenth
bump of a counter writes to SQLite, and one that raises between the open and the last turn leaves
the scene to the `except` of `run()`, which logs it. `SoloContribute` and `Recycle` are the ticks and
flushes between scenes, `KillAndRestart` a kill at any point.

**Snapshot** is taking, pruning and restoring archives, one file-system operation
an action, and every one of them can raise: the clean-up of a `.tmp` file (`UnlinkRaises`), of an
old staging (`StageRaises`) or of an old backup (`AsideRaises`), and the rename that rolls a failed
restore back (`RollbackRaises`), too. An `rmtree` that is cut short leaves any of the files (`Remains`). Contents are the number of writes they hold, an archive is contents and a
size, and a directory that is half written has the contents `Partial`. The
constant `InsideData` says whether `snapshots_dir` lies in the data directory,
where `run()` puts it.

**Vault** is what snapshots promise an operator: there is one data directory to be found,
under its name or as the backup of a restore that was cut short or could not be rolled back; a restore
swaps it in one step for the archive that was chosen, or does nothing. `KeepsVaultPromise` says that Snapshot
implements it, with `visible` the directory or, while it is moved aside, its backup.

**Economy** is an agent's tick seen by the ledger and the levers. `Think` takes any parsed
action through the chain in the code's order: `EmptyCraft`, `RateLimited`, `Diversified`,
`Economized`, `Engaged`, each an operator from an action to the actions it may become.
`Commit` charges the verb, `OpenScene` and `SceneTurn` are the forced contributes of a
scene, `EndTick` is the regeneration of the roster and the arrival of a Stranger, and
`Restart` rebuilds the pools. The log is not kept: `replayed` is what
`reconstruct_from_events` would give for it, updated with each event, `past` says whether
an agent has events and of what kind, and `ahead` is a history variable: the regenerations
that the replay has already counted and the ticks have not given yet. Whether a
hint names a dominant verb or a peer depends on windows over the log, and is any outcome
that the agent's history allows. Costs are numbers in a unit in which the means of the
`flat` table are whole; `BalContribute` stands for its environment variable or for the
dearest contribute, which is the default. With mode `0` there is no ledger.

**Audit** runs the mechanism audit of `scripts/replay_economy.py` beside the economy: with each
event that is logged its ledger deducts the verb, and at the end of a tick that left
an event it regenerates the roster, as `audit_run` does by grouping events of one scene.
What it cannot see is in history variables: `interrupted` (a restart rebuilt the live pools) and
`silent` (a scene ended before its first event, and its tick gave a regeneration all the same).

**Village** is what agents are told of one another: the log with the four readers that look at
it again and again behind marks of their own. `Prompt` is the path of `run()` before `think()`
(seed the mark, build the inbox and the world events, the gate, the cached ledgers), `Commit` the
answer and the move of the mark, `OpenScene`, `ScenePrompt`, `SceneTurn` and `SceneAborts` the scene
path with a prompt per turn, `EndTick` the weather, the Watchdog and a flush's recycles, `Restart` the loss of
everything but the log. An event keeps its actor, verb, target, scene and one bit, whether its
text is there and does not name its receiver; a timestamp is a position in the log. `owed` is a
history variable: the events for an agent since its first prompt that no answered prompt has shown.
`Stale` and `Blamed` are the cache and the runaway detector, `EchoChamber` any arrival of a Stranger
up to the cap.

Some definitions stand directly before one of the same parameters that the
specification uses, with a comment on what is wrong with them (`ClosersAnyPeer`
before `Closers`): they are the plausible bugs each property has been shown
to detect, listed under `mutants` in PROJECT.json. No specification uses them.

## 3. What the runs show

| Run | States | Shows |
|---|---|---|
| `projection` (MCWorkshopLog) | 339 thousand | `LiveIsReplay`: live fold = cold rebuild. `ProjectionMatchesLog`: both equal a reading of the log without handlers. `PendingAreUndrainedEdges`: edges are the completions since the last drain or rebuild, none twice |
| `harvest` (MCHarvest) | 923 thousand | the safety invariants of the harvester (section 5); `KeepsSlotPromise`: it implements Slot. `SlotsReopen`: a complete WIP is reopened, also when its recycle raised, unless the process ends |
| `tick` (MCTickLoop) | 222 thousand | `EdgesServed`, `FlushCeiling`: no completion waits beyond throttle or timer. `GivesUpOnlyInOutage`. `RunEnds`: no mix of outages, scenes and arrivals makes the loop spin |
| `scene` (MCScene) | 1.9 million | `EventContract`: open, turns in order by the logged authors, at most one abort. `NoBlackHole`: a WIP holds all the log says was contributed since its recycle. `NobodyAnswersThemself`. `OrphansAreExplained`: a scene left open costs a kill, a failed append or a failed flush of the metrics |
| `snapshot` (MCSnapshot) | 2.5 million | `SnapshotTypeOK`: only whole archives under a final name. `DiskBounded`, `PruneKeepsNewest`. `RestoreIsAtomic`: an exception leaves the data as it was, unless the rollback raises as well. `BackupHoldsContents`: that, or a kill, leaves it in one of two places. `KeepsVaultPromise`: it implements Vault |
| `economy` (MCEconomy) | 1.2 million | `SpecialtySustained`: between ticks every agent can pay for a verb that is not a rest, whatever scenes and restarts did to it. `RestartAddsLittle`: a rebuilt pool exceeds the live one by no more than the regenerations still due. `OnlyGateOverspends`, `SubstitutionCredited`: the levers respect the ledger and each other's credit. `AuditNeverGenerous`: the offline audit never sees more energy than there was |
| `village` (MCVillage) | 2.7 million | `HeardExactlyOnce`: what is said to an agent is in exactly one prompt that it answers. `NobodyGoesSilent`: the gate keeps every agent that has `EngageEvery` events in its lookback in company. `LedgerFresh`: the ties in a prompt lag by less than `RefreshEvents` events |
| `outage_exit` | | violation, finding 1 |
| `orphan_scene` | | violation, finding 2 |
| `rollback` | | violation, finding 3 |
| `hollow_craft` | | violation, finding 4 |
| `runaway` | | violation, finding 5 |

### Bounds

- `projection`: two WIPs, two contributors, floors of 2, logs of up to 5 events. A
  life of a WIP takes 3 events (two contributes and a recycle), so logs hold a whole
  life and the next one's completion, or two WIPs' lives interleaved, with drains
  and restarts at any point.
- `harvest`: one WIP and two crafts, scores 0 and 1 with the floor at 1, a craft cap of 1, and a percentile of
  40: the cut of two crafts is then the lower score, which lets both pass unless they tie, so that the
  cap decides between them (a percentile of 50 or more would leave the cap nothing to do; `TopCrafts` proves
  `TopCraftsWin` for every percentile and any number of crafts),
  two attempts, two faults and one restart: a fault can hit the retry
  of a faulted flush, and a restart the flush after it. WIPs do not interact in
  the harvester except through the ranked batch, and the crafts exercise that; the theorems
  are for any number of WIPs. No symmetry, since the run checks liveness.
- `tick`: two agents and one Stranger, six ticks, pause after 2 failures, 2 breaks,
  flush every 4 ticks, throttle 2, watchdog every 2. The timer falls once inside the
  run at a point the throttle reaches, the third agent arrives before or after
  the pauses, and all paths of give-up are shorter than six ticks.
- `scene`: three agents (fewer cannot tell the two rules of `pick_authors` apart: with the
  number two the initiator closes), two WIPs of three fragments, so that a scene
  fits a new WIP and overfills a started one; ticks begin while the log has fewer
  than 5 events, which lets a second scene start after an abandoned one; two failing
  appends or flushes and two kills. Agents are interchangeable, so their symmetry is used.
- `snapshot`: archives of size 1 or 5 against 2 files and 4 bytes, so that either
  bound can bind and one archive alone can exceed it; four snapshots, two restores, three
  faults and two kills, so a failure can hit the restore after a killed restore, and one is left for the
  restore after a rollback that raised, which takes two. `rollback` needs one snapshot, one restore, two faults, and the
  one kill that takes the process down before the restore.
- `economy`: one resident, a Scholar, and one Stranger, which inherits the levers of the
  Artisan: between them every lever runs, and a scene of two gives its opener two turns in one
  tick, the case in which replay and run disagree most. The costs are half of the
  configuration's, some of them one or two off so that the means are whole; the pool of 11 takes
  the dearest contribute and no more, so the clamp, the cap and substitution all bite. One
  rest in a row is allowed. The run starts in mode `flat` or `bal`, the two that change the
  cost table; `hollow_craft` starts in any mode but `sub`, which is `adv` with a narrower hint; the
  theorems are for all of them. The ledger has no further bound.
- `village`: two residents and a Stranger, logs of up to 4 events: two make up a stretch of
  silence (`EngageEvery` is 2), the third is the one that the gate must see to, and one may come in
  between; or an open scene with its three turns; or a speech, an aborted scene and an answer. Lookbacks of
  3 events are shorter than the log, so that old events fall out of them, and the cache is refreshed
  every 2. Thoughts that raise, aborts and restarts are not bounded. The residents are interchangeable, so
  their symmetry is used. `runaway` has no Stranger and a window of the whole log.

`CHECK_DEADLOCK FALSE` is set where the bounds or the program's own end stop the
system: the loop ends, the log is full, or the operator is done. `harvest`
checks for deadlock with an explicit end, and `economy` and `village`, where ticks or
restarts go on for ever, check for it as they are.

### Fairness

- Harvest: `WF(Flush)`, because a flush is straight-line code whose calls return or raise;
  `WF(BeginFlush)`, because the timer fires every `HARVEST_FLUSH_EVERY` ticks;
  `SF(ClockTick)`, because time goes on while other steps happen. No fairness for
  contributions, for faults or for a restart: nobody has to start the process again.
- TickLoop: `WF(Step)`, because the loop is one thread and each call in it ends (the LLM
  client has a time-out); `SF(Pick(a))` for each agent, because the weighted draw gives
  every agent a weight of at least 1, so that with probability 1 none is passed over
  for ever. `think()` is never assumed to return.
- The others check safety only.

## 4. Where code and documents disagree

1. **outage_exit.** `config.py:73-75`: each deadlock break without a successful
   `think()` in between counts towards the exit. A scene resets the count even when
   its first `think()` raised (`run.py:1198-1199`), so with scenes on an outage
   outlives the limit. The run still ends (`RunEnds`), by its ticks.
2. **orphan_scene.** ADR 0005 (184-186) promises a `scene.abort` on process exit, and
   `scripts/verify_kill_drill.py:125-129` calls a scene without one a violation of
   kill safety. A kill between turns leaves such a scene, and startup does not close it.
3. **rollback.** `snapshot.py:251-253`: "If staging.replace fails, restore the backup so the user is never left
   with no data_dir". The backup is restored by a rename of the same kind (264), which nothing guards: when it
   raises too, there is a `.restore.bak` and a `.restore.tmp`, and no data directory, though nothing was killed. A
   process started then creates an empty one (`run.py:827`). Nothing is lost until then: `BackupHoldsContents`.
4. **hollow_craft.** `artisan.py:15-16`: "Empty-artifact crafts are coerced to `study`", and
   `economy.py:34-38` says why a craft without an artifact must not be committed. That guard runs
   first (`artisan.py:134-137`). The diversity lever runs after it, may be told to suggest `craft`
   (`run.py:348`), and excludes only `contribute` from its targets (`base.py:512`): it
   commits a craft with `artifact=None` (`base.py:524`).
5. **runaway.** `watchdog.py:87-96`: "Skip exogenous events - they aren't agent actions", without which
   "the run-length detectors flag the burst as agent-runaway". Line 97 leaves out the actors `world` and
   `harvest`. No component appends as `harvest`: recycles and attempts come from `harvester`
   (`harvester.py:405`), scenes are opened and aborted by `scene` (`world/scene.py:152`). Scenes opened one
   after the other without an abort in between, each completed or cut off by a restart, bump `watchdog_runaway` for `scene`.

More that need no run of their own:

- The docstring of `harvester.py` (13-15) says a flush records every candidate's score in the
  manifest so that decisions are auditable. Files are written and WIPs recycled in one loop (298-344),
  manifest lines only after it (346-354). If one recycle raises, files written before it have no
  line, and none is added later. `AuditGapBounded` says how bad it can be: one file of a candidate for each failure.
- `SceneRunner.run` "Returns a SceneResult either way" (`scene.py:130`), a storage failure included (140-141). The counters
  are bumped outside any `try` (166, 202, 217, 254), and every tenth bump writes to SQLite (`run.py:833`): if that
  raises, the scene stays open, without a kill and without a `scene.abort`. `OrphansAreExplained` says how bad it can be:
  one scene for each such failure.
- A restore of `README.md:256` deletes every archive, with the old data directory they live in. The documents say that the
  directory is replaced, and promise the newest archive to retention only (`config.py:157-160`).
- The docstring of `reconstruct_from_events` names two orders, regen-then-deduct (`economy.py:232-233`)
  and deduct-then-regen (242-243); the code does the second, and the first is the mutant `RegenThenDeduct`,
  which starves an agent over a restart.
- `replay_economy.py:204-206` calls the audit's ledger "exact live arithmetic". It is, but for ticks that leave
  no event: a scene whose first turn fails gives a live regeneration, and the audit has none
  (`AuditNeverGenerous` says "never more" for that reason). A restart is beyond the audit altogether.
- `run.py:950-951`: "on restart every agent's view starts fresh from the new launch time". It starts with the
  agent's first tick after the launch (1042): what is said to it between the two is in no prompt. `HeardExactlyOnce`
  speaks of what comes after that first tick.
- `_maybe_engagement_target` says the lookback is `interval * 4` events; the code takes at least 100 (`run.py:271`). A
  speak to a name that nobody bears resets the gate like any other (`run.py:275`).
- A rest that the limiter coerced can become a rest again by the levers after it (`artisan.py:291`); nothing in the
  repository promises otherwise.

## 5. What is proved

### The harvester

`HarvestProofs` proves with TLAPS, for every value of the constants that satisfies
`WorkshopAssumption` and `HarvestAssumption` (finite sets, floors in the naturals, a percentile
of at most 100), and without the bounds that TLC needs on the
state space:

| Theorem | Property | Meaning |
|---|---|---|
| `Invariance` | `Inv` | the inductive invariant |
| `TypeCorrect` | `TypeOK` | types |
| `PendingCorrect` | `PendingAreComplete` | edges are of complete WIPs |
| `HarvestedCorrect` | `HarvestedAreComplete` | the written mark never outlives its completion |
| `OneCopy` | `OneCopyPerProcess` | one file per completion and process |
| `AttemptsCorrect` | `AttemptsBounded` | rejections bounded by the limit and the failures |
| `NoArtifactLost` | `ArtifactsConserved` | an artifact is buffered, on the manifest, or went with its process |
| `AuditGap` | `AuditGapBounded` | at most one unaudited file of a candidate per failure |
| `TopCrafts` | `TopCraftsWin` | the cap keeps the best crafts |
| `NothingLostSilently` | `NoSilentLoss` | action property: how a WIP may leave `complete` |
| `PromiseKept` | `KeepsSlotPromise` | refinement: every step of the harvester is one of Slot, or a stutter |

The argument. None of these is inductive alone, because they speak of the time
between flushes while a flush breaks them in the middle. `Inv` says what is true inside:

- `PhaseInv`: which local of `flush()` is live in which phase; the buffer is kept until
  ranking returned, and is then among the ranked;
- `SettleInv`: what is still to be settled is complete and not yet written; the WIP
  whose recycle is owed was written, or rejected up to the limit. This is why a recycle
  that raises costs no copy: `_harvested_wips` is marked before it;
- `CountInv`: files, attempts and missing lines exceed their bounds by the one
  the running flush is about to settle, and a fault turns that one into one fault;
- `RankInv`: the loop goes down the scores, so a craft turned away had all better ones
  before it; either it is below the cut, which is monotone, or the cap was spent.

`WorkshopProofs` has the lemmas on the fold: it keeps types, and an attempt or a
contribute never takes a WIP out of `complete`. `TypeStep` and `InvStep` go through the
actions one by one. `Inv`, `HarvestedAreComplete` and `NoSilentLoss` are not among the
properties of `harvest`: the first is the conjunction of named parts, and the others follow from
the refinement, which the run checks. The refinement step takes each action to the one of Slot that it
implements: `Accept` to `Deliver`, `RejectWIP` to `Reject`, `RecycleOwed` and `TimeoutRecycle` to `Reopen`, which
needs `SettleInv` for its grounds, a contribute that completes to `Fill`, the clock to `Wait`, and all that
touches files and manifest only to stutters.

### The economy

`EconomyProofs` proves, from `EconomyAssumption` (cost tables of naturals in which a rest is
free, a cap of at least one regeneration) and `SpecialtyAssumption` (each role
has a verb, neither contribute nor rest, that one regeneration pays for, as the table
in `config.py` has it), for any number of agents and Strangers and every mode:

| Theorem | Property | Meaning |
|---|---|---|
| `EconInvariant` | `EconInv` | the inductive invariant |
| `EconTypeCorrect` | `EconTypeOK` | types; pools between 0 and the cap |
| `SpecialtyIsSustained` | `SpecialtySustained` | no agent is starved |
| `RestartIsNoRest` | `RestartAddsLittle` | what a restart can add |
| `LeversAgree` | `OnlyGateOverspends` | only the engagement gate overspends, on a speak |
| `CreditIsEarned` | `SubstitutionCredited` | a substitution is stamped only on a verb that can be paid for and needs no payload |
| `AuditIsSafe` | `AuditNeverGenerous` | the audit never has more energy than the run |

(`AuditNext` conjoins the actions of the economy with the ledger's, so what is proved of `Spec` holds beside the audit.)

The argument. `SpecialtySustained` is not inductive: it says nothing inside a tick, where a
pool may be empty, nor about what a restart would give. `Reserve` adds both: after a
tick, and after each event of the replay, at least one `Regen` is there, because the regeneration comes
last. With `SpecialtyAssumption` that pays for a specialty (`ReservePays`).
`RestartAddsLittle` is preserved by a charge because the replay's regeneration is
entered in `ahead` in the same step (`ReplayAhead`), and by the end of a tick because what the
tick gives is taken off it (`RegenCatchesUp`); both are facts about clamped sums,
from `PoolSteps`. The levers need one fact that is not arithmetic: the `CHOOSE` of
`Cheapest` picks a member of its set, which needs a least element of a finite order
(`CheapestOfOneMore`, once per verb, gives `CheapestInSet`).

For the audit: between ticks the audited pool equals the live one, or lies below it once `silent` is set; inside a
tick both have the same deductions, because a forced turn and a free one cost the same in both ledgers; the
regeneration at its end keeps the order because clamped sums are monotone, and keeps equality if the tick left an event.

### The tick loop

`TickLoopProofs` proves, for any roster, any number of Strangers and ticks and every value of the limits:

| Theorem | Property | Meaning |
|---|---|---|
| `LoopInvariant` | `LoopInv` | the inductive invariant |
| `LoopTypeCorrect` | `TickTypeOK` | types; the counters within their limits |
| `EdgesAreServed` | `EdgesServed` | an edge is younger than the throttle |
| `TimerIsCeiling` | `FlushCeiling` | transitions never push the timer back |
| `GivingUpIsJustified` | `GivesUpOnlyInOutage` | the limit of breaks was spent without a thought |

The argument. The two flush properties are about the top of the loop, and a tick breaks them before its gate.
`LoopInv` says what holds in between: before the tick is counted, ticks since the flush are at most the remainder of
the executed ones; after it (`NextTick`: the remainder grows by one or is zero) they still are, or the timer fires. A gate that stays shut
therefore leaves an edge younger than the throttle. `breaks <= barren`, because every step that sets `barren` back
to 0 sets `breaks` back too.

### The village

`VillageProofs` proves, for any number of residents and Strangers, every interval, lookback and length of the log:

| Theorem | Property | Meaning |
|---|---|---|
| `VillageInvariant` | `VillageInv` | the inductive invariant |
| `VillageTypeCorrect` | `VillageTypeOK` | types; marks and cache point into the log; Strangers under their cap |
| `NothingIsMissed` | `HeardExactlyOnce` | each event for an agent is in exactly one prompt that it answers |
| `CompanyIsKept` | `NobodyGoesSilent` | no stretch of `EngageEvery` untargeted events within the lookback is followed by another; an agent with fewer in it is exempt, as in the code |
| `TiesAreFresh` | `LedgerFresh` | ties in a prompt lag by fewer than `RefreshEvents` events |

The argument. For the inbox: an agent with a mark owes exactly the events behind it (`Since(a, mark[a]) = owed[a]`);
commits of others add to both (`CommitStep`), its own commit takes its inbox off the one and moves the other to the
end of the log, which is the same because the inbox was all that was owed and nobody else commits between prompt
and answer. For the gate: what a prompt requires was computed on the log that the answer is appended to, so the stretch
before the new event is what the gate looked at (`CompanyOfAnswer`), and events further back do not change their
stretches when the log grows (`LogAfter`).

For the ledgers: `CacheYoung` says that a prompt stands on a cache of today's roster that is younger than
`RefreshEvents`, which nothing disturbs while the prompt stands. A count over the log then exceeds the count over the
cached prefix by no more than the events in between (`GrowsBy`): a speak is one of them, and a scene that counts
anew for a pair has one of its own contributes among them, an event being of one scene only (`CoAuthoredGrows`).

### The projection and its log

`WorkshopLogProofs` proves, for any WIPs, agents and floors and a log of any length:

| Theorem | Property | Meaning |
|---|---|---|
| `LogInvariant` | `LogInv` | the inductive invariant |
| `LogTypeCorrect` | `LogTypeOK` | types |
| `RestartIsDeterministic` | `LiveIsReplay` | memory is what a cold rebuild of the log would make |
| `NoFragmentIsLost` | `ProjectionMatchesLog` | and what the log says when it is read without the handlers |
| `EdgesAreSignalledOnce` | `PendingAreUndrainedEdges` | pending edges are the completions since the last drain or rebuild |

The argument. The three properties speak of the time at which nothing is in flight. `LogInv` adds the moment between
append and mirror: memory is `After(log)[Mirrored]`, the fold of all events but the one in flight. `AfterAppend` says that
an append adds one value to `After` and leaves those before it, so a commit keeps the invariant and a mirror moves it
one event on. `NoFragmentIsLost` needs a second fact, `ReplayMeansLog`: the fold and the reading by positions (what
counts of a WIP are the events since its last recycle) agree on every log, by induction over its length. Each
step of it is a lemma on what one more event does to the reading (`OfferedAppend`, `KeptAppend`, `WIPOfAppend`).

The library's induction theorems take an operator and cannot be used; `AllNaturals` in `WorkshopProofs` states induction
for a set of naturals instead, and is proved from the well-foundedness of `<` on them. From it come `Count` and
`PlaceOfOneMore`: the events of a log at a set of positions, oldest first (`EventsAt`), grow at their end when the log does
(`EventsAtAppend`), which the scenes use as well.

### Scenes

`SceneProofs` proves, for any WIPs and agents and any number of failed appends, failed flushes of the metrics and kills:

| Theorem | Property | Meaning |
|---|---|---|
| `SceneInvariant` | `SceneInv` | the inductive invariant |
| `SceneTypeCorrect` | `SceneTypeOK` | types, events in the log included |
| `ContractIsKept` | `EventContract` | open, turns in order by the logged authors, at most one abort |
| `NoTurnIsLost` | `NoBlackHole` | a WIP holds the contributes of the log since its recycle |
| `ScenesAnswerOthers` | `NobodyAnswersThemself` | nobody answers their own turn |
| `OrphansHaveACause` | `OrphansAreExplained` | no more open scenes than kills, failed appends and failed flushes |

The argument. The contract of the scene in flight is kept only because `run()` knows where it stands: `InFlightLogged`
says that the log has its open with the authors and the WIP of the program, and one turn for each that was
taken. A step writes an event of one scene at most (`SceneReads`), so all others keep their script (`OneSceneStep`), and the
one it writes to goes on with it (`TurnIsScripted`, `AbortIsScripted`). A scene becomes an orphan only
in a step that writes nothing and leaves `run()`, and those are a kill, an abort that raised and a flush of the metrics that raised (`QuietStep`).
`NobodyAnswersThemself` is no step's doing: it follows from the contract and the casts that an open can log.

### Snapshots

`SnapshotProofs` proves, for any retention, any number of operations, faults and kills, and both places of `snapshots_dir`:

| Theorem | Property | Meaning |
|---|---|---|
| `SnapshotInvariant` | `SnapshotInv` | the inductive invariant |
| `SnapshotTypeCorrect` | `SnapshotTypeOK` | types; only whole archives under a final name |
| `DiskIsBounded` | `DiskBounded` | retention, the newest archive, and one for each kill and each operation that raised |
| `NewestIsKept` | `PruneKeepsNewest` | action property: a prune keeps the newest archive and ends with what fits |
| `RestoresAreAtomic` | `RestoreIsAtomic` | a restore did all or nothing, unless a kill or a rollback that raised cut it short between its renames |
| `NothingIsLost` | `BackupHoldsContents` | after a kill, or a rollback that raised, the contents are in one of two places |
| `VaultIsKept` | `KeepsVaultPromise` | refinement: every step is one of Vault, or a stutter |

The argument. `DataInv` says where the contents are at each file operation of a restore: in the data directory, or in the
backup while it is moved aside or where a restore ended there (`torn`); a start makes what it finds the contents that are kept from then on. `DiskInv` counts:
an archive over the retention is the one just taken, or has a kill or a failed prune to answer for it, and what a
rollback brings back from the backup is no more than was moved there. The refinement takes the swap of Vault to the one rename
after which the archive's contents are what an operator finds; that whatever an `rmtree` leaves of a backup holds no archive that
was not in it (`RemainsOf`, `SubSequencesOf`) makes its ends a `Forget` or a `GiveUp`.

### Only model-checked

- `SlotsReopen` and `RunEnds`: liveness under fairness, out of the prover's reach.
- The five violations: a counterexample needs no proof.

## 6. What is not modelled

Of the diversity hint the counting over its window of the log is not modelled, only which verbs it can
name. Text (parsing, scoring, redaction, prompts), vectors, HTTP and the offline scripts other than the audit are not:
they are pure functions on data or I/O without a protocol. Beliefs are one row per agent, overwritten by a
summary of the log; no step of another component waits for it or reads more of it than its text. The Watchdog's
detectors of stagnation and of meta leaks bump a counter each and are left out.

Named gaps inside what is modelled: an `append` whose commit raised leaves its insert in
the open transaction (`episodic.py:90-106`); a file name reserved by a failed write stays
as an empty file (`harvester.py:530`); archive names of two processes can sort against their
age (`snapshot.py:154`); a snapshot taken by hand beside a running process; a flush of
the metrics that raises outside a scene or a think, which ends `run()`; two processes on one data
directory; two calls of `time.time()` that return the same or a smaller number, which Village takes to rise;
a WIP that is ranked again is compared with its own earlier text (`trader.py:191`), which Harvest covers by letting
scores be anything.

## 7. Plan

Done, in this order: Workshop, WorkshopLog, Harvest with its proofs, TickLoop, Scene, Snapshot,
Economy with its proofs; then Slot and Vault with the refinements of them, Audit with its proofs, the proofs of
TickLoop, Village with its proofs; then the proofs of Snapshot with its refinement, of WorkshopLog, of Scene, and of the
ledgers.

Next:

1. **One log** for Scene, Harvest and WorkshopLog: that the steps of Scene and of Harvest on `wips` are commits and
   mirrors of WorkshopLog, as a refinement to prove.
2. **Episodic**: a commit that raises and leaves its transaction open, under the two callers that go on after it.
3. **Archive names**: names of a second and a counter that starts anew with the process, as a refinement of Snapshot.
4. **Clock**: timestamps that can stand still, under Village.
5. **Trader**: the novelty of a WIP against a history that holds its own earlier text.

Runs are few on purpose: each asks one question, and what composes is checked together.
