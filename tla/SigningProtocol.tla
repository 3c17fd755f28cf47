---------------------------- MODULE SigningProtocol ----------------------------
(***************************************************************************)
(* What the signing of contracts promises, without handlers, notices or    *)
(* copies of rows: a contract is sent once, DocuSign makes one envelope of *)
(* it, and the contract shows a status which that envelope has reached.    *)
(* Until an administrator reconciles, an outcome that is shown is final;   *)
(* after that, any status that was reached may be shown again.  Module     *)
(* SignatureDispatch is shown to implement this one.                       *)
(***************************************************************************)
CONSTANTS
    Contracts,
    EnvelopeStatuses,   \* what an envelope goes through, "sent" first
    Outcomes,           \* the statuses in which it ends
    ContractStatusFor   \* how a contract shows the status of its envelope

VARIABLES
    shown,      \* the status of each contract
    sent,       \* the contracts that were sent
    reached,    \* the statuses each contract's envelope has gone through
    reconciled  \* whether an administrator has reconciled

vars == <<shown, sent, reached, reconciled>>

Init ==
    /\ shown = [c \in Contracts |-> "approved"]
    /\ sent = {}
    /\ reached = [c \in Contracts |-> {}]
    /\ reconciled = FALSE

Send(c) ==
    /\ shown[c] = "approved"
    /\ c \notin sent
    /\ shown' = [shown EXCEPT ![c] = "sending"]
    /\ sent' = sent \cup {c}
    /\ UNCHANGED <<reached, reconciled>>

Accept(c) ==
    /\ c \in sent
    /\ reached[c] = {}
    /\ reached' = [reached EXCEPT ![c] = {"sent"}]
    /\ UNCHANGED <<shown, sent, reconciled>>

Progress(c, status) ==
    /\ reached[c] # {} /\ reached[c] \cap Outcomes = {}
    /\ reached' = [reached EXCEPT ![c] = @ \cup {status}]
    /\ UNCHANGED <<shown, sent, reconciled>>

\* The contract follows its envelope, forwards unless somebody reconciles.
Show(c, status) ==
    /\ c \in sent
    /\ status \in reached[c]
    /\ shown[c] \in {"sending", "signature_pending"} \/ reconciled
    /\ shown' = [shown EXCEPT ![c] = ContractStatusFor[status]]
    /\ UNCHANGED <<sent, reached, reconciled>>

Archive(c) ==
    /\ shown[c] \in {"approved", "signed", "signature_declined"}
    /\ shown' = [shown EXCEPT ![c] = "archived"]
    /\ UNCHANGED <<sent, reached, reconciled>>

Reconcile ==
    /\ reconciled' = TRUE
    /\ UNCHANGED <<shown, sent, reached>>

Next ==
    \/ \E c \in Contracts : Send(c) \/ Accept(c) \/ Archive(c)
    \/ \E c \in Contracts, status \in EnvelopeStatuses : Progress(c, status) \/ Show(c, status)
    \/ Reconcile

Spec == Init /\ [][Next]_vars
================================================================================
