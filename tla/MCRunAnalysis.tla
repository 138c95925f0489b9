---------------------------- MODULE MCRunAnalysis ----------------------------
(* Instances of RunAnalysis for TLC. *)
EXTENDS RunAnalysis, TLC

\* Job rows, workers, API processes and runs are interchangeable.
Symmetry == Permutations(Jobs) \cup Permutations(Workers) \cup Permutations(API)
            \cup Permutations(Runs)

=============================================================================
