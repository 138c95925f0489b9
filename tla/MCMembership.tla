----------------------------- MODULE MCMembership -----------------------------
(* Instances of Membership for TLC. *)
EXTENDS Membership, TLC

\* Users, invitations and requests are interchangeable.
Symmetry == Permutations(Users) \cup Permutations(Invitations) \cup Permutations(Managers)
            \cup Permutations(Guests)

=============================================================================
