------------------------------ MODULE MCJobQueue ------------------------------
(* Instances of JobQueue, with its refinement, for TLC. *)
EXTENDS JobQueueRefinement, TLC

\* Rows, workers, requests, keys and deliveries are interchangeable.
Symmetry == Permutations(Jobs) \cup Permutations(Workers) \cup Permutations(Callers)
            \cup Permutations(Keys) \cup Permutations(Deliveries)

=============================================================================
