--------------------------- MODULE MCPriorityQueue ---------------------------
(* Model-checking instances of the priority queue. *)
EXTENDS OracleQueue, TLC

Symmetry == Permutations(Requests) \cup Permutations(Workers)

=============================================================================
