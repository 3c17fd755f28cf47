-------------------------- MODULE MCSignatureDispatch --------------------------
(* SignatureDispatch on one or two contracts.                              *)
EXTENDS SignatureDispatch, TLC

\* The request slots of one kind are interchangeable, and so are the contracts.
Symmetry == Permutations(Senders) \cup Permutations(Contracts)
================================================================================
