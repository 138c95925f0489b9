----------------------------- MODULE MCPRDelivery -----------------------------
(* Instances of PRDelivery for TLC. *)
EXTENDS PRDelivery, TLC

\* Job rows, workers and requests are interchangeable.
Symmetry == Permutations(Jobs) \cup Permutations(Workers) \cup Permutations(Callers)

=============================================================================
