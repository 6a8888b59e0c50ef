-------------------------------- MODULE Scene --------------------------------
(***************************************************************************)
(* Three-turn scenes (SceneRunner in src/microverse/world/scene.py, called *)
(* by run()) over the workshop: what a scene writes to the episodic log,   *)
(* and what is left of it when a turn, the storage of events or that of    *)
(* metrics fails, or the process is killed in the middle.                  *)
(*                                                                         *)
(* The projection follows the log, as WorkshopLog checks, so a restart     *)
(* leaves `wips` alone. The log keeps here the events of the workshop and  *)
(* of scenes only.                                                         *)
(***************************************************************************)
EXTENDS Workshop, SequencesExt

CONSTANTS
  WIPOrder,  \* CONFIGURED_WIPS as the tuple it is
  MaxLog,    \* bound: no tick begins on a log this long
  MaxFaults, \* bound: appends, and flushes of metrics, that raise
  MaxKills   \* bound: processes killed

ASSUME SceneAssumption ==
  /\ WIPOrder \in Seq(WIPs) /\ {WIPOrder[i] : i \in DOMAIN WIPOrder} = WIPs
  /\ MaxLog \in Nat /\ MaxFaults \in Nat /\ MaxKills \in Nat

VARIABLES
  log,    \* the events table, oldest first
  wips,   \* the workshop projection
  pc,     \* "idle", or "turn" / "abort" inside run()
  scene,  \* scene_id of the last scene opened; 0 before the first
  authors,\* author_names
  turn,   \* turn_index
  wip,    \* wip_name
  faults, kills

vars == <<log, wips, pc, scene, authors, turn, wip, faults, kills>>
sceneVars == <<scene, authors, turn, wip>>

OpenEvent(s, as, w) == [kind |-> "scene.open", scene |-> s, authors |-> as, wip |-> w]
TurnEvent(s, k, a, w) ==
  [kind |-> "contribute", scene |-> s, turn |-> k, actor |-> a, wip |-> w]
AbortEvent(s, k) == [kind |-> "scene.abort", scene |-> s, lastTurn |-> k]
Recycled(w) == [kind |-> "workshop.recycle", scene |-> 0, wip |-> w]

Init ==
  /\ log = <<>>
  /\ wips = NewProjection
  /\ pc = "idle"
  /\ scene = 0 /\ authors = <<>> /\ turn = 0 /\ wip = WIPOrder[1]
  /\ faults = 0 /\ kills = 0

-----------------------------------------------------------------------------
(* Ticks without a scene. *)

Idle == pc = "idle" /\ Len(log) < MaxLog

(* _validate_contribute that does not look at the phase of the target.     *)
AcceptsAnyPhase(w) == TRUE

(* _validate_contribute folds a contribute to a complete WIP into a rest.  *)
AcceptsContribute(w) == wips[w].phase # "complete"

(* _commit_action of a contribute: append, then mirror.                    *)
Contribute(s, k, a, w) ==
  /\ log' = Append(log, TurnEvent(s, k, a, w))
  /\ wips' = Apply(wips, ContributeEvent(w, a, 0, FALSE))

SoloContribute(a, w) ==
  /\ Idle
  /\ AcceptsContribute(w)
  /\ Contribute(0, 0, a, w)
  /\ UNCHANGED <<pc, sceneVars, faults, kills>>

(* A flush recycles a complete WIP (see Harvest). *)
Recycle(w) ==
  /\ Idle
  /\ wips[w].phase = "complete"
  /\ log' = Append(log, Recycled(w))
  /\ wips' = Apply(wips, RecycleEvent(w, 0))
  /\ UNCHANGED <<pc, sceneVars, faults, kills>>

-----------------------------------------------------------------------------
(* The scene. *)

(* Who closes a scene, with the second author not ruled out. *)
ClosersAnyPeer(a, b) == Actors \ {a}

(* The third author: another peer, or the initiator if there is none. *)
Closers(a, b) ==
  LET remaining == Actors \ {a, b} IN IF remaining = {} THEN {a} ELSE remaining

(* pick_authors, with at least one peer (SCENE_MIN_PEERS). *)
PickAuthors(a) == UNION {{<<a, b, c>> : c \in Closers(a, b)} : b \in Actors \ {a}}

(* The WIP run() picks: the first one that is not complete.                *)
FirstOpen(w) ==
  \E i \in DOMAIN WIPOrder :
    /\ WIPOrder[i] = w
    /\ w \in OpenSlots(wips)
    /\ \A j \in 1 .. i - 1 : WIPOrder[j] \notin OpenSlots(wips)

OpenScene(a, w) ==
  /\ Idle
  /\ FirstOpen(w)
  /\ authors' \in PickAuthors(a)
  /\ scene' = scene + 1
  /\ wip' = w
  /\ turn' = 1
  /\ log' = Append(log, OpenEvent(scene', authors', w))
  /\ pc' = "turn"
  /\ UNCHANGED <<wips, faults, kills>>

(* A scene that is over one turn late. *)
LastTurnLate == turn = 4

(* The authors are exhausted. *)
LastTurn == turn = 3

(* The turn's author contributes to the WIP of the scene. *)
TakeTurn ==
  /\ pc = "turn"
  /\ AcceptsContribute(wip)
  /\ Contribute(scene, turn, authors[turn], wip)
  /\ IF LastTurn THEN pc' = "idle" /\ UNCHANGED turn ELSE turn' = turn + 1 /\ UNCHANGED pc
  /\ UNCHANGED <<scene, authors, wip, faults, kills>>

(* The failed turn returns without its scene.abort.                        *)
TurnFailsSilently ==
  /\ pc = "turn"
  /\ pc' = "idle"
  /\ UNCHANGED <<log, wips, sceneVars, faults, kills>>

(* The context or think() raises, or the parsed action is not a contribute *)
(* of some text to this WIP. A WIP that the scene filled itself leaves no  *)
(* other outcome.                                                          *)
TurnFails ==
  /\ pc = "turn"
  /\ pc' = "abort"
  /\ UNCHANGED <<log, wips, sceneVars, faults, kills>>

(* scene.abort written with the turn that failed.                          *)
AbortWithFailedTurn ==
  /\ pc = "abort"
  /\ log' = Append(log, AbortEvent(scene, turn))
  /\ pc' = "idle"
  /\ UNCHANGED <<wips, sceneVars, faults, kills>>

(* _abort: last_turn is the last turn that landed.                         *)
Abort ==
  /\ pc = "abort"
  /\ log' = Append(log, AbortEvent(scene, turn - 1))
  /\ pc' = "idle"
  /\ UNCHANGED <<wips, sceneVars, faults, kills>>

-----------------------------------------------------------------------------
(* Failures. *)

(* The append of scene.open raises: run() returns with nothing logged. *)
OpenRaises ==
  /\ Idle
  /\ OpenSlots(wips) # {}
  /\ faults < MaxFaults
  /\ faults' = faults + 1
  /\ UNCHANGED <<log, wips, pc, sceneVars, kills>>

(* commit_action raises: the scene is aborted. *)
CommitRaises ==
  /\ pc = "turn"
  /\ AcceptsContribute(wip)
  /\ faults < MaxFaults
  /\ faults' = faults + 1
  /\ pc' = "abort"
  /\ UNCHANGED <<log, wips, sceneVars, kills>>

(* A tenth _bump flushes the metrics to SQLite, and the flush raises: after*)
(* scene.open, after a turn that landed, or before the abort of a turn that*)
(* did not. The exception leaves run() there, for the loop to log, and no  *)
(* scene.abort is written. After the third turn, or after _abort, it does  *)
(* no harm.                                                                *)
BumpRaises ==
  /\ pc = "turn"
  /\ faults < MaxFaults
  /\ faults' = faults + 1
  /\ pc' = "idle"
  /\ UNCHANGED <<log, wips, sceneVars, kills>>

(* The append of scene.abort raises: _abort swallows it. *)
AbortRaises ==
  /\ pc = "abort"
  /\ faults < MaxFaults
  /\ faults' = faults + 1
  /\ pc' = "idle"
  /\ UNCHANGED <<log, wips, sceneVars, kills>>

(* SIGKILL and a new process: nothing looks for scenes that were open.     *)
KillAndRestart ==
  /\ kills < MaxKills
  /\ kills' = kills + 1
  /\ pc' = "idle"
  /\ UNCHANGED <<log, wips, sceneVars, faults>>

Next ==
  \/ \E a \in Actors, w \in WIPs : SoloContribute(a, w)
  \/ \E w \in WIPs : Recycle(w)
  \/ \E a \in Actors, w \in WIPs : OpenScene(a, w)
  \/ TakeTurn
  \/ TurnFails
  \/ Abort
  \/ OpenRaises
  \/ CommitRaises
  \/ BumpRaises
  \/ AbortRaises
  \/ KillAndRestart

Spec == Init /\ [][Next]_vars

-----------------------------------------------------------------------------

SceneIds == 1 .. scene

(* The events of a scene, and its turns among them. *)
Of(s) == EventsAt(log, {i \in DOMAIN log : log[i].scene = s})

Turns(s) ==
  EventsAt(log, {i \in DOMAIN log : log[i].scene = s /\ log[i].kind = "contribute"})

Aborted(s) == Last(Of(s)).kind = "scene.abort"

Closed(s) == Aborted(s) \/ Len(Turns(s)) = 3

InFlight(s) == s = scene /\ pc # "idle"

(* The events a log may hold. *)
Casts == UNION {PickAuthors(a) : a \in Actors}

SceneEvent ==
  [kind : {"scene.open"}, scene : Nat, authors : Casts, wip : WIPs]
  \cup [kind : {"contribute"}, scene : Nat, turn : 0 .. 3, actor : Actors, wip : WIPs]
  \cup [kind : {"scene.abort"}, scene : Nat, lastTurn : 0 .. 2]
  \cup [kind : {"workshop.recycle"}, scene : {0}, wip : WIPs]

(* Every variable has its type, and no event is of a scene yet to come. *)
SceneTypeOK ==
  /\ log \in Seq(SceneEvent)
  /\ \A i \in DOMAIN log : log[i].scene <= scene
  /\ wips \in Projection
  /\ pc \in {"idle", "turn", "abort"}
  /\ scene \in Nat /\ turn \in 0 .. 3
  /\ scene > 0 => authors \in Casts /\ wip \in WIPs
  /\ faults \in 0 .. MaxFaults /\ kills \in 0 .. MaxKills

(* The event contract of scene.py:14-31, for every scene whatever became   *)
(* of it: scene.open, then turns 1, 2, 3 or a prefix of them, by the       *)
(* authors the open logged and on its WIP, then at most one scene.abort,   *)
(* which only an unfinished scene has and which counts its turns rightly.  *)
Scripted(s, evs, turns) ==
  /\ evs[1].kind = "scene.open"
  /\ Len(turns) <= 3
  /\ \A k \in DOMAIN turns :
       /\ evs[k + 1] = turns[k]
       /\ turns[k] = TurnEvent(s, k, evs[1].authors[k], evs[1].wip)
  /\ \/ Len(evs) = Len(turns) + 1
     \/ /\ Len(turns) < 3
        /\ Len(evs) = Len(turns) + 2
        /\ Last(evs) = AbortEvent(s, Len(turns))

EventContract == \A s \in SceneIds : Scripted(s, Of(s), Turns(s))

(* No contribute falls into a black hole (ADR 0004): what the log holds    *)
(* for a WIP since its last recycle is, in order, what the WIP holds, with *)
(* turns of scenes that filled the WIP or were abandoned half way.         *)
Held(w) ==
  {i \in DOMAIN log :
     /\ log[i].kind = "contribute" /\ log[i].wip = w
     /\ \A j \in i .. Len(log) : log[j] # Recycled(w)}

NoBlackHole ==
  \A w \in WIPs :
    wips[w].fragments = ActorsOf(EventsAt(log, Held(w)))

(* Scenes are exchanges (scene.py:64-69): no turn answers its own author,  *)
(* and with three agents or more nobody speaks twice in one scene.         *)
NobodyAnswersThemself ==
  \A s \in SceneIds : \A j, k \in DOMAIN Turns(s) :
    Turns(s)[j].actor = Turns(s)[k].actor =>
      \/ j = k
      \/ {j, k} = {1, 3} /\ Cardinality(Actors) = 2

(* A scene that is neither closed nor in flight costs a kill, a failed     *)
(* append or a failed flush of the metrics, each of them one scene at most:*)
(* nothing else the authors or the loop do leaves one behind.              *)
Orphans == {s \in SceneIds : ~Closed(s) /\ ~InFlight(s)}

OrphansAreExplained == Cardinality(Orphans) <= kills + faults

(* The inductive invariant: the log has the scene in flight as far as run()*)
(* has come with it.                                                       *)
InFlightLogged ==
  pc # "idle" =>
    /\ scene > 0 /\ turn > 0
    /\ Of(scene)[1] = OpenEvent(scene, authors, wip)
    /\ Len(Turns(scene)) = turn - 1
    /\ Len(Of(scene)) = turn

SceneInv ==
  /\ SceneTypeOK /\ EventContract /\ NoBlackHole /\ OrphansAreExplained
  /\ InFlightLogged

(* verify_kill_drill.py:127-130 and 153-156: every scene.open is followed  *)
(* by three contributes or a scene.abort. A kill in mid-scene refutes it.  *)
NoOrphanScene == \A s \in SceneIds : Closed(s) \/ InFlight(s)
=============================================================================
