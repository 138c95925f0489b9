-------------------------- MODULE MCPatchGeneration --------------------------
(* Instances of PatchGeneration for TLC. *)
EXTENDS PatchGeneration, TLC

\* Patches, job rows, workers and requests are interchangeable.
Symmetry == Permutations(Patches) \cup Permutations(Jobs) \cup Permutations(Workers)
            \cup Permutations(Callers) \cup Permutations(Reviewers)

=============================================================================
