------------------------------- MODULE Vault --------------------------------
(***************************************************************************)
(* What snapshots promise an operator: at any moment there is one data     *)
(* directory to be found, under its name or as the backup of a restore     *)
(* that did not come to its end; a restore replaces it in one step by the  *)
(* archive that was chosen, or does nothing. Snapshot implements it, one   *)
(* file operation at a time.                                               *)
(***************************************************************************)
EXTENDS Integers

CONSTANT None  \* no restore is under way

VARIABLES
  visible,    \* the contents of the directory an operator finds
  shelf,      \* the contents of the archives there are
  chosen,     \* the contents a restore will bring, or None
  interrupted \* a restore ended half way, and left only the backup

vaultVars == <<visible, shelf, chosen, interrupted>>

Init == visible = 0 /\ shelf = {} /\ chosen = None /\ interrupted = FALSE

Write ==
  /\ chosen = None
  /\ visible' = visible + 1
  /\ UNCHANGED <<shelf, chosen, interrupted>>

Archive ==
  /\ chosen = None
  /\ shelf' = shelf \cup {visible}
  /\ UNCHANGED <<visible, chosen, interrupted>>

(* Retention, or a restore that takes archives along with an old directory.*)
Forget ==
  /\ shelf' \subseteq shelf
  /\ UNCHANGED <<visible, chosen, interrupted>>

Choose ==
  /\ chosen = None
  /\ chosen' \in shelf
  /\ UNCHANGED <<visible, shelf, interrupted>>

Restore ==
  /\ chosen # None
  /\ visible' = chosen
  /\ chosen' = None
  /\ interrupted' = FALSE
  /\ UNCHANGED shelf

(* It raises or is killed: nothing has happened, but that archives in an   *)
(* old backup are gone, or that only the backup of this one is left.       *)
GiveUp ==
  /\ chosen' = None
  /\ interrupted' \in {interrupted, TRUE}
  /\ shelf' \subseteq shelf
  /\ UNCHANGED visible

(* run() does not look for the backup that a restore has left: it may begin*)
(* with an empty directory.                                                *)
Start ==
  /\ chosen = None
  /\ visible' \in {visible} \cup (IF interrupted THEN {0} ELSE {})
  /\ interrupted' = FALSE
  /\ UNCHANGED <<shelf, chosen>>

Next == Write \/ Archive \/ Forget \/ Choose \/ Restore \/ GiveUp \/ Start

Spec == Init /\ [][Next]_vaultVars
=============================================================================
