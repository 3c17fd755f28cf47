------------------------------- MODULE MCTenancy --------------------------------
(* Tenancy with interchangeable organizations and request slots.           *)
EXTENDS Tenancy, TLC

Symmetry == Permutations(Organizations) \cup Permutations(Requests)
================================================================================
