--------------------------- MODULE MCEntityCanvas ---------------------------
(* A small instance of EntityCanvas for TLC.                               *)
EXTENDS EntityCanvas

(* The graph as the page has it is as the checked part of it.              *)
ASSUME \A e \in GraphEdges : e.weight = WeightOf(HopOf(e.from))

=============================================================================
