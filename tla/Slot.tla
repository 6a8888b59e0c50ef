-------------------------------- MODULE Slot --------------------------------
(***************************************************************************)
(* What the harvest promises the writers of a WIP (ADR 0004): a complete   *)
(* WIP is read by the ranker, and its slot is opened again only on one of  *)
(* three grounds, after which nothing of it is left. Harvest implements    *)
(* it, one I/O operation at a time.                                        *)
(***************************************************************************)
EXTENDS Integers

CONSTANTS
  WIPs,          \* the slots
  MaxRejections  \* MAX_HARVEST_ATTEMPTS

VARIABLES
  full,       \* slots whose WIP is complete
  copies,     \* how often the present completion was delivered to the inbox
  held,       \* slots this process has delivered and not reopened yet
  rejections, \* how often the ranker turned the present completion away
  waited      \* full slots that were left waiting too long

slotVars == <<full, copies, held, rejections, waited>>

Init ==
  /\ full = {} /\ held = {} /\ waited = {}
  /\ copies = [w \in WIPs |-> 0]
  /\ rejections = [w \in WIPs |-> 0]

(* The last fragment that was missing is contributed. *)
Fill(w) ==
  /\ w \notin full
  /\ full' = full \cup {w}
  /\ UNCHANGED <<copies, held, rejections, waited>>

Offered(w) == w \in full /\ w \notin held

(* Accepted by the ranker: one file, and none again by this process. *)
Deliver(w) ==
  /\ Offered(w)
  /\ copies' = [copies EXCEPT ![w] = @ + 1]
  /\ held' = held \cup {w}
  /\ UNCHANGED <<full, rejections, waited>>

Reject(w) ==
  /\ Offered(w)
  /\ rejections' = [rejections EXCEPT ![w] = @ + 1]
  /\ UNCHANGED <<full, copies, held, waited>>

Wait ==
  /\ waited \subseteq waited' /\ waited' \subseteq full
  /\ UNCHANGED <<full, copies, held, rejections>>

(* Delivered, or waited too long, or rejected too often. *)
MayReopen(w) ==
  \/ copies[w] >= 1
  \/ w \in waited
  \/ rejections[w] >= MaxRejections

Reopen(w) ==
  /\ w \in full
  /\ MayReopen(w)
  /\ full' = full \ {w} /\ held' = held \ {w} /\ waited' = waited \ {w}
  /\ copies' = [copies EXCEPT ![w] = 0]
  /\ rejections' = [rejections EXCEPT ![w] = 0]

(* A new process does not know what the old one delivered. *)
NewProcess ==
  /\ held' = {}
  /\ UNCHANGED <<full, copies, rejections, waited>>

Next ==
  \/ \E w \in WIPs : Fill(w) \/ Deliver(w) \/ Reject(w) \/ Reopen(w)
  \/ Wait
  \/ NewProcess

Spec == Init /\ [][Next]_slotVars
=============================================================================
