------------------------------ MODULE MCEconomy ------------------------------
(* One resident, a Scholar (a MICROVERSE_ROSTER may name one), and a       *)
(* Stranger, which is an Artisan to the levers. The costs are half of      *)
(* config.VERB_COST_BY_ROLE, some of them one or two off, so that the      *)
(* means of the flat table are whole. Run economy starts in mode flat or   *)
(* bal, which change the table the most; run hollow_craft in any mode but  *)
(* sub, which is adv with a narrower hint.                                 *)
EXTENDS Audit

CONSTANTS resident, stranger

(* The instance of the finding: the resident is an Artisan (--solo).       *)
Artisans == [a \in {resident, stranger} |-> IF a = resident THEN "artisan" ELSE "stranger"]

RoleOf == [a \in {resident, stranger} |-> IF a = resident THEN "scholar" ELSE "stranger"]

Costs ==
  [r \in Roles |->
     [v \in Verbs |->
        IF v = "rest" THEN 0
        ELSE IF r = "artisan"
        THEN [craft |-> 3, study |-> 7, speak |-> 8, travel |-> 10, contribute |-> 11][v]
        ELSE IF r = "scholar"
        THEN [study |-> 3, speak |-> 5, contribute |-> 7, travel |-> 7, craft |-> 9][v]
        ELSE [travel |-> 3, speak |-> 5, study |-> 6, contribute |-> 9, craft |-> 10][v]]]
=============================================================================
