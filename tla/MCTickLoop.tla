----------------------------- MODULE MCTickLoop -----------------------------
(* TickLoop on two agents and a Stranger, with every cadence cut short. *)
EXTENDS TickLoop

=============================================================================
