------------------------------- MODULE Audit -------------------------------
(***************************************************************************)
(* The offline mechanism audit (scripts/replay_economy.py): the energy of  *)
(* every agent, computed again from the committed verbs of a finished run, *)
(* beside the ledger of the run itself (Economy).                          *)
(*                                                                         *)
(* audit_run passes over the log once; `audited` is where its ledger       *)
(* stands after the events committed so far, `counted` that it owes the    *)
(* regen of the tick they belong to. A restart rebuilds the live pools     *)
(* by another rule, which the audit does not know of: from then on the two *)
(* are not compared.                                                       *)
(***************************************************************************)
EXTENDS Economy

VARIABLES
  audited,     \* EnergyLedger._pool of the audit
  counted,     \* some event of the current tick is in the log
  interrupted, \* history: the run was restarted
  silent       \* history: a scene ended without an event of its own

auditVars == <<audited, counted, interrupted, silent>>
allVars == <<vars, auditVars>>

(* main seeds a full ledger with the actors of the trace.                  *)
AuditInit ==
  /\ Init
  /\ audited = [a \in Names |-> MaxEnergy]
  /\ counted = FALSE /\ interrupted = FALSE /\ silent = FALSE

-----------------------------------------------------------------------------
(* A regen for every forced turn, as replay_executor once did.             *)
EventRegenerates(a, v, pools) ==
  [b \in Names |-> Regened(IF b = a THEN Deducted(pools[a], Cost(a, v)) ELSE pools[b])]

(* audit_run: an event deducts the logged verb. Its regen is that of the   *)
(* tick: consecutive forced turns of one scene_id have one between them.   *)
AuditEvent(a, v, pools) ==
  [pools EXCEPT ![a] = Deducted(@, Cost(a, v))]

RegenAll(pools) == [a \in Names |-> Regened(pools[a])]

(* _hint_state: some productive verb is out of reach.                      *)
HintState(a, pools) ==
  mode \in Substituting /\ \E v \in Productive : pools[a] < Cost(a, v)

(* After a restart there is nothing to compare. *)
Frozen == [a \in Names |-> MaxEnergy]

-----------------------------------------------------------------------------
(* What the steps of the run leave for the audit.                          *)

Unlogged ==
  /\ \/ \E a \in Names : Think(a) \/ ThinkRaises(a) \/ OpenScene(a)
     \/ SceneAborts
  /\ UNCHANGED auditVars

Logged(a, v) ==
  /\ audited' = IF interrupted THEN Frozen ELSE AuditEvent(a, v, audited)
  /\ counted' = TRUE
  /\ UNCHANGED <<interrupted, silent>>

AuditedCommit == Commit /\ Logged(cur, act.verb)

AuditedSceneTurn == SceneTurn /\ Logged(Head(authors), "contribute")

(* The live roster regenerates after every tick that is counted, the audit *)
(* after those that left an event.                                         *)
AuditedEndTick ==
  /\ EndTick
  /\ audited' = IF interrupted \/ ~counted THEN audited ELSE RegenAll(audited)
  /\ counted' = FALSE
  /\ silent' = (silent \/ (~counted /\ ~interrupted))
  /\ UNCHANGED interrupted

AuditedRestart ==
  /\ Restart
  /\ audited' = Frozen
  /\ counted' = FALSE /\ interrupted' = TRUE /\ silent' = FALSE

AuditNext ==
  \/ Unlogged \/ AuditedCommit \/ AuditedSceneTurn \/ AuditedEndTick
  \/ AuditedRestart

AuditSpec == AuditInit /\ [][AuditNext]_allVars

-----------------------------------------------------------------------------
(* Properties. *)

(* replay_economy.py calls its ledger the "exact live arithmetic". In a    *)
(* run without restarts it is, up to scenes that end before their first    *)
(* event: those give a live regen that the audit never sees. So the audit  *)
(* is never more generous than the run, and a hint that was shown is never *)
(* taken for absent.                                                       *)
AuditNeverGenerous ==
  ~interrupted =>
    \A a \in Names :
      /\ audited[a] <= energy[a]
      /\ ~silent => audited[a] = energy[a]
      /\ HintState(a, energy) => HintState(a, audited)
=============================================================================
