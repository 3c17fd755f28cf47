------------------------- MODULE MCContractLifecycle -------------------------
(* ContractLifecycle on small organizations.                               *)
EXTENDS ContractLifecycle, TLC

CONSTANTS olga, rui, eva, Anybody

\* A designated approver first, then anybody who may review; or one open step.
Chains == {<<rui, Anybody>>, <<Anybody>>}

\* Three people: the owner and a reviewer, who may both approve, and an editor who
\* may be removed and taken back at any time.
EditorOnProbation ==
    [u \in Users |-> CASE u = olga -> {"admin"}
                       [] u = rui -> {"reviewer"}
                       [] OTHER -> {"editor", "none"}]

\* Request slots and identifiers of contracts are interchangeable.
Symmetry == Permutations(Requests) \cup Permutations(Contracts)
==============================================================================
