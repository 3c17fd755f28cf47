----------------------------- MODULE MCMembership ------------------------------
(* Membership on three people.                                             *)
EXTENDS Membership, TLC

CONSTANTS olga, rui, eva

\* Request slots, invitations and the people who join later are interchangeable.
Symmetry == Permutations(Requests) \cup Permutations(Invitations)
                \cup Permutations(Users \ {Founder})
================================================================================
