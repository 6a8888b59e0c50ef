---------------------------- MODULE MCWorkshopLog ----------------------------
(* WorkshopLog on two WIPs and two contributors. *)
EXTENDS WorkshopLog

Symmetry == Permutations(Actors) \cup Permutations(WIPs)
=============================================================================
