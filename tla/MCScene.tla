------------------------------- MODULE MCScene -------------------------------
(* Scene on two WIPs that a scene fits, but not always. The agents are     *)
(* interchangeable: no definition chooses among them by name.              *)
EXTENDS Scene

CONSTANTS w1, w2

TwoWIPs == <<w1, w2>>

AgentSymmetry == Permutations(Actors)
=============================================================================
