------------------------------- MODULE MCAccounts -------------------------------
(* Accounts with interchangeable request slots.                            *)
EXTENDS Accounts, TLC

Symmetry == Permutations(Requests)
================================================================================
