------------------------------ MODULE MCHarvest ------------------------------
(* Harvest on one WIP of two contributors and two crafts: the smallest     *)
(* instance in which the percentile and the craft cap both choose.         *)
EXTENDS Harvest
=============================================================================
