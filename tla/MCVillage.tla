------------------------------ MODULE MCVillage ------------------------------
(* Two residents and a Stranger, for runs village and runaway. No          *)
(* definition chooses among the residents by name: village takes them as   *)
(* interchangeable.                                                        *)
EXTENDS Village, TLC

Symmetry == Permutations(Residents)
=============================================================================
