-------------------------- MODULE MCOAuthConnection ----------------------------
(* OAuthConnection with interchangeable accounts, consents and handlers.   *)
EXTENDS OAuthConnection, TLC

Symmetry == Permutations(Accounts) \cup Permutations(Authorizations) \cup Permutations(Requests)
================================================================================
