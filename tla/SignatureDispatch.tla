--------------------------- MODULE SignatureDispatch ---------------------------
(***************************************************************************)
(* Sending an approved contract to DocuSign and following its envelope     *)
(* (src/openclm/api.py: send_signature, docusign_webhook, reconcile).      *)
(*                                                                         *)
(* Three kinds of handlers work on two rows, the contract and its          *)
(* signature request, and each keeps copies of what it read.  The contract *)
(* has a revision that a commit checks; the signature request has none, and*)
(* a commit writes only the columns that differ from the handler's copy.   *)
(* Between its reads and its commit a handler may wait for DocuSign.       *)
(*                                                                         *)
(* DocuSign is external.  It accepts a request at most once, names the     *)
(* envelope after it (field openclm_request_id: an envelope is identified  *)
(* here by the contract whose request it carries) and delivers a notice of *)
(* every status the envelope goes through: late, repeatedly, in any order. *)
(***************************************************************************)
EXTENDS Naturals, FiniteSets

CONSTANTS
    Contracts,      \* contracts whose approval is complete
    Foreign,        \* bound: completed envelopes that carry no request of these contracts
    Unknown,        \* the envelope of a request that none is known for
    Senders,        \* request slots for send_signature
    Reconcilers,    \* request slots for reconcile
    Copies,         \* deliveries of one notice whose bodies differ
    MaxRevision     \* bound: revisions of a contract that a reconcile replaces

ASSUME DispatchAssumption ==
    /\ Unknown \notin Contracts \cup Foreign
    /\ Contracts \cap Foreign = {}
    /\ MaxRevision \in Nat

VARIABLES
    contract,   \* status and revision of each contract's row
    signature,  \* the signature_requests row of each contract, if any
    events,     \* the webhook_events table: digests of the notices applied
    posts,      \* how often "create an envelope" was called for a contract
    posted,     \* calls that have not reached DocuSign yet
    envelope,   \* external: the statuses each envelope has gone through
    sender,     \* the send_signature handlers in flight
    webhook,    \* the docusign_webhook handler, one at a time (async def)
    reconciler, \* the reconcile handlers in flight
    reconciled  \* whether an administrator has called reconcile

rows == <<contract, signature, events>>
docusign == <<posts, posted, envelope>>
handlers == <<sender, webhook, reconciler, reconciled>>
vars == <<rows, docusign, handlers>>

--------------------------------------------------------------------------------
(* Rows and handlers.                                                       *)

Outcomes == {"completed", "declined", "voided"}

EnvelopeStatuses == {"sent", "delivered"} \cup Outcomes

\* The mapping of apply_signature_status.
ContractStatusFor ==
    [s \in EnvelopeStatuses |->
        CASE s = "completed" -> "signed"
          [] s \in {"declined", "voided"} -> "signature_declined"
          [] OTHER -> "signature_pending"]

ContractStatuses == {"approved", "sending", "signature_pending", "signed",
                     "signature_declined", "archived"}

Row == [status: ContractStatuses, revision: Nat]

SignatureStatuses == {"dispatching", "dispatch_uncertain"} \cup EnvelopeStatuses

Signature == [status: SignatureStatuses, envelope: Contracts \cup {Unknown}]

NoSignature == [status |-> "none"]

Notices == [envelope: Contracts, status: EnvelopeStatuses, copy: Copies]

Idle == [pc |-> "idle"]

Sending == [pc: {"loaded", "reserved", "waiting"}, contract: Contracts, revision: Nat]
NoticeRead == [pc: {"read"}, notice: Notices, contract: Contracts,
               seen: SignatureStatuses]
NoticeLoaded == [pc: {"loaded"}, notice: Notices, contract: Contracts,
                 seen: SignatureStatuses, row: Row]
Inspecting == [pc: {"inspecting"}, contract: Contracts, envelope: Contracts \cup Foreign,
               seen: SignatureStatuses]
Inspected == [pc: {"inspected"}, contract: Contracts, envelope: Contracts,
              seen: SignatureStatuses, status: EnvelopeStatuses]
Applying == [pc: {"applying"}, contract: Contracts, envelope: Contracts,
             seen: SignatureStatuses, status: EnvelopeStatuses, row: Row]

Current(statuses) ==
    IF statuses \cap Outcomes # {} THEN CHOOSE s \in statuses : s \in Outcomes
    ELSE IF "delivered" \in statuses THEN "delivered" ELSE "sent"

Bound(c, e) == signature[c] # NoSignature /\ signature[c].envelope = e

\* Three commits made a contract approved: its creation, its submission and at
\* least one approval.
Init ==
    /\ contract = [c \in Contracts |-> [status |-> "approved", revision |-> 3]]
    /\ signature = [c \in Contracts |-> NoSignature]
    /\ events = {}
    /\ posts = [c \in Contracts |-> 0]
    /\ posted = {}
    /\ envelope = [e \in Contracts \cup Foreign |->
         IF e \in Contracts THEN {} ELSE {"sent", "delivered", "completed"}]
    /\ sender = [s \in Senders |-> Idle]
    /\ webhook = Idle
    /\ reconciler = [r \in Reconcilers |-> Idle]
    /\ reconciled = FALSE

\* UPDATE contracts SET status WHERE revision = <the one loaded>, if the status
\* differs from the one loaded; otherwise the row is neither written nor checked.
Write(c, row, status) ==
    \/ status = row.status /\ UNCHANGED contract
    \/ /\ status # row.status
       /\ contract[c].revision = row.revision
       /\ contract' = [contract EXCEPT ![c] =
                         [status |-> status, revision |-> row.revision + 1]]

--------------------------------------------------------------------------------
(* send_signature.                                                          *)

LoadForSend(s, c) ==
    /\ sender[s] = Idle
    /\ contract[c].status = "approved"
    /\ signature[c] = NoSignature
    /\ sender' = [sender EXCEPT ![s] =
         [pc |-> "loaded", contract |-> c, revision |-> contract[c].revision]]
    /\ UNCHANGED <<rows, docusign, webhook, reconciler, reconciled>>

\* The reservation is committed before DocuSign is called.
Reserve(s) ==
    LET c == sender[s].contract IN
    /\ sender[s].pc = "loaded"
    /\ signature[c] = NoSignature
    /\ Write(c, [status |-> "approved", revision |-> sender[s].revision], "sending")
    /\ signature' = [signature EXCEPT ![c] =
         [status |-> "dispatching", envelope |-> Unknown]]
    /\ sender' = [sender EXCEPT ![s] =
         [pc |-> "reserved", contract |-> c, revision |-> sender[s].revision + 1]]
    /\ UNCHANGED <<events, docusign, webhook, reconciler, reconciled>>

Post(s) ==
    LET c == sender[s].contract IN
    /\ sender[s].pc = "reserved"
    /\ posts' = [posts EXCEPT ![c] = @ + 1]
    /\ posted' = posted \cup {c}
    /\ sender' = [sender EXCEPT ![s].pc = "waiting"]
    /\ UNCHANGED <<rows, envelope, webhook, reconciler, reconciled>>

Confirm(s) ==
    LET c == sender[s].contract IN
    /\ sender[s].pc = "waiting"
    /\ envelope[c] # {}
    /\ Write(c, [status |-> "sending", revision |-> sender[s].revision],
             "signature_pending")
    /\ signature' = [signature EXCEPT ![c] = [status |-> "sent", envelope |-> c]]
    /\ sender' = [sender EXCEPT ![s] = Idle]
    /\ UNCHANGED <<events, docusign, webhook, reconciler, reconciled>>

\* Faulty: the call is made again after an uncertain answer.
UncertainRetries(s) ==
    /\ sender[s].pc \in {"reserved", "waiting"}
    /\ sender' = [sender EXCEPT ![s].pc = "reserved"]
    /\ UNCHANGED <<rows, docusign, webhook, reconciler, reconciled>>

\* Faulty: the reservation is given up after an uncertain answer.
UncertainReleases(s) ==
    LET c == sender[s].contract IN
    /\ sender[s].pc \in {"reserved", "waiting"}
    /\ Write(c, [status |-> "sending", revision |-> sender[s].revision], "approved")
    /\ signature' = [signature EXCEPT ![c] = NoSignature]
    /\ sender' = [sender EXCEPT ![s] = Idle]
    /\ UNCHANGED <<events, docusign, webhook, reconciler, reconciled>>

\* A timeout, a refusal or an answer without an envelope: only the status of the
\* signature request is written, and no revision is checked.
Uncertain(s) ==
    LET c == sender[s].contract IN
    /\ sender[s].pc \in {"reserved", "waiting"}
    /\ signature' = [signature EXCEPT ![c].status = "dispatch_uncertain"]
    /\ sender' = [sender EXCEPT ![s] = Idle]
    /\ UNCHANGED <<contract, events, docusign, webhook, reconciler, reconciled>>

\* StaleDataError, which the handler does not catch, a lost database or a crash.
SenderFails(s) ==
    /\ sender[s] # Idle
    /\ sender' = [sender EXCEPT ![s] = Idle]
    /\ UNCHANGED <<rows, docusign, webhook, reconciler, reconciled>>

--------------------------------------------------------------------------------
(* DocuSign.                                                                *)

Accept(c) ==
    /\ c \in posted
    /\ envelope[c] = {}
    /\ envelope' = [envelope EXCEPT ![c] = {"sent"}]
    /\ posted' = posted \ {c}
    /\ UNCHANGED <<rows, posts, handlers>>

Lose(c) ==
    /\ c \in posted
    /\ posted' = posted \ {c}
    /\ UNCHANGED <<rows, posts, envelope, handlers>>

\* The signers open the document and decide; the sender may void it before.
Progress(c, status) ==
    /\ envelope[c] # {} /\ envelope[c] \cap Outcomes = {}
    /\ status \notin envelope[c]
    /\ status \in {"completed", "declined"} => "delivered" \in envelope[c]
    /\ envelope' = [envelope EXCEPT ![c] = @ \cup {status}]
    /\ UNCHANGED <<rows, posts, posted, handlers>>

--------------------------------------------------------------------------------
(* docusign_webhook.                                                        *)

\* Faulty: the digest is recorded although the envelope is not known yet.
WebhookReadOnce(n, c) ==
    /\ webhook = Idle
    /\ n.status \in envelope[n.envelope]
    /\ n \notin events
    /\ \/ /\ Bound(c, n.envelope)
          /\ webhook' = [pc |-> "read", notice |-> n, contract |-> c,
                         seen |-> signature[c].status]
          /\ UNCHANGED events
       \/ /\ \A d \in Contracts : ~Bound(d, n.envelope)
          /\ events' = events \cup {n}
          /\ UNCHANGED webhook
    /\ UNCHANGED <<contract, signature, docusign, sender, reconciler, reconciled>>

\* An unknown envelope is answered with 503 and an identical body is acknowledged
\* as a duplicate: neither changes anything, and DocuSign sends the first again.
WebhookRead(n, c) ==
    /\ webhook = Idle
    /\ n.status \in envelope[n.envelope]
    /\ n \notin events
    /\ Bound(c, n.envelope)
    /\ webhook' = [pc |-> "read", notice |-> n, contract |-> c,
                   seen |-> signature[c].status]
    /\ UNCHANGED <<rows, docusign, sender, reconciler, reconciled>>

WebhookLoad ==
    /\ webhook.pc = "read"
    /\ webhook' = [pc |-> "loaded", notice |-> webhook.notice,
                   contract |-> webhook.contract, seen |-> webhook.seen,
                   row |-> contract[webhook.contract]]
    /\ UNCHANGED <<rows, docusign, sender, reconciler, reconciled>>

\* Faulty: no status is terminal for the contract.
ApplyStatusAlways(c, seen, row, status) == Write(c, row, ContractStatusFor[status])

\* Faulty: only a completed envelope is final.
ApplyStatusUnlessCompleted(c, seen, row, status) ==
    \/ /\ seen = "completed"
       /\ UNCHANGED contract
    \/ /\ seen # "completed"
       /\ Write(c, row, ContractStatusFor[status])

\* apply_signature_status over the copies: a terminal status is left alone.
ApplyStatus(c, seen, row, status) ==
    \/ /\ seen \in Outcomes
       /\ UNCHANGED contract
    \/ /\ seen \notin Outcomes
       /\ Write(c, row, ContractStatusFor[status])

\* The status column after the commit, of which only a change is written.
StatusWritten(c, seen, status) ==
    IF seen \in Outcomes \/ status = seen THEN signature[c].status ELSE status

WebhookCommit ==
    LET c == webhook.contract
        status == webhook.notice.status IN
    /\ webhook.pc = "loaded"
    /\ ApplyStatus(c, webhook.seen, webhook.row, status)
    /\ signature' = [signature EXCEPT ![c].status =
                       StatusWritten(c, webhook.seen, status)]
    /\ events' = events \cup {webhook.notice}
    /\ webhook' = Idle
    /\ UNCHANGED <<docusign, sender, reconciler, reconciled>>

\* StaleDataError or a crash: DocuSign is not answered with 200.
WebhookFails ==
    /\ webhook # Idle
    /\ webhook' = Idle
    /\ UNCHANGED <<rows, docusign, sender, reconciler, reconciled>>

--------------------------------------------------------------------------------
(* reconcile: an administrator names an envelope for a contract's request.  *)

\* Faulty: only a request that is marked as uncertain can be reconciled.
ReconcileReadUncertain(r, c, e) ==
    /\ reconciler[r] = Idle
    /\ Bound(c, e) \/ Bound(c, Unknown)
    /\ signature[c].status = "dispatch_uncertain"
    /\ reconciler' = [reconciler EXCEPT ![r] =
         [pc |-> "inspecting", contract |-> c, envelope |-> e,
          seen |-> signature[c].status]]
    /\ reconciled' = TRUE
    /\ UNCHANGED <<rows, docusign, sender, webhook>>

ReconcileRead(r, c, e) ==
    /\ reconciler[r] = Idle
    /\ Bound(c, e) \/ Bound(c, Unknown)
    /\ reconciler' = [reconciler EXCEPT ![r] =
         [pc |-> "inspecting", contract |-> c, envelope |-> e,
          seen |-> signature[c].status]]
    /\ reconciled' = TRUE
    /\ UNCHANGED <<rows, docusign, sender, webhook>>

\* Faulty: the field openclm_request_id is not compared.
InspectAny(r) ==
    LET q == reconciler[r] IN
    /\ q.pc = "inspecting"
    /\ envelope[q.envelope] # {}
    /\ reconciler' = [reconciler EXCEPT ![r] =
         [pc |-> "inspected", contract |-> q.contract, envelope |-> q.envelope,
          seen |-> q.seen, status |-> Current(envelope[q.envelope])]]
    /\ UNCHANGED <<rows, docusign, sender, webhook, reconciled>>

\* DocuSign.inspect refuses an envelope that carries another request.
Inspect(r) ==
    LET q == reconciler[r] IN
    /\ q.pc = "inspecting"
    /\ envelope[q.envelope] # {}
    /\ q.envelope = q.contract
    /\ reconciler' = [reconciler EXCEPT ![r] =
         [pc |-> "inspected", contract |-> q.contract, envelope |-> q.envelope,
          seen |-> q.seen, status |-> Current(envelope[q.envelope])]]
    /\ UNCHANGED <<rows, docusign, sender, webhook, reconciled>>

\* The contract is read after the answer, the signature request was read before.
ReconcileLoad(r) ==
    LET q == reconciler[r] IN
    /\ q.pc = "inspected"
    /\ reconciler' = [reconciler EXCEPT ![r] =
         [pc |-> "applying", contract |-> q.contract, envelope |-> q.envelope,
          seen |-> q.seen, status |-> q.status, row |-> contract[q.contract]]]
    /\ UNCHANGED <<rows, docusign, sender, webhook, reconciled>>

\* UniqueConstraint on envelope_id.
ReconcileCommit(r) ==
    LET q == reconciler[r] IN
    /\ q.pc = "applying"
    /\ q.row.revision < MaxRevision
    /\ \A d \in Contracts \ {q.contract} : ~Bound(d, q.envelope)
    /\ ApplyStatus(q.contract, q.seen, q.row, q.status)
    /\ signature' = [signature EXCEPT ![q.contract] =
         [status |-> StatusWritten(q.contract, q.seen, q.status),
          envelope |-> q.envelope]]
    /\ reconciler' = [reconciler EXCEPT ![r] = Idle]
    /\ UNCHANGED <<events, docusign, sender, webhook, reconciled>>

ReconcileFails(r) ==
    /\ reconciler[r] # Idle
    /\ reconciler' = [reconciler EXCEPT ![r] = Idle]
    /\ UNCHANGED <<rows, docusign, sender, webhook, reconciled>>

--------------------------------------------------------------------------------

\* transition's "archive" checks the row it loaded and that row's revision when it
\* commits (ContractLifecycle!DecidedOnRowReplaced), so it is a single step here.
Archive(c) ==
    /\ contract[c].status \in {"approved", "signed", "signature_declined"}
    /\ Write(c, contract[c], "archived")
    /\ UNCHANGED <<signature, events, docusign, handlers>>

Next ==
    \/ \E s \in Senders, c \in Contracts : LoadForSend(s, c)
    \/ \E s \in Senders : Reserve(s)
    \/ \E s \in Senders : Post(s)
    \/ \E s \in Senders : Confirm(s)
    \/ \E s \in Senders : Uncertain(s)
    \/ \E s \in Senders : SenderFails(s)
    \/ \E c \in Contracts : Accept(c)
    \/ \E c \in Contracts : Lose(c)
    \/ \E c \in Contracts, status \in EnvelopeStatuses : Progress(c, status)
    \/ \E n \in Notices, c \in Contracts : WebhookRead(n, c)
    \/ WebhookLoad
    \/ WebhookCommit
    \/ WebhookFails
    \/ \E r \in Reconcilers, c \in Contracts, e \in Contracts \cup Foreign :
          ReconcileRead(r, c, e)
    \/ \E r \in Reconcilers : Inspect(r)
    \/ \E r \in Reconcilers : ReconcileLoad(r)
    \/ \E r \in Reconcilers : ReconcileCommit(r)
    \/ \E r \in Reconcilers : ReconcileFails(r)
    \/ \E c \in Contracts : Archive(c)

Spec == Init /\ [][Next]_vars

\* DocuSign repeats a notice until it is acknowledged (requireAcknowledgment), and
\* not every delivery fails.
Redelivery ==
    /\ WF_vars(\E n \in Notices, c \in Contracts : WebhookRead(n, c))
    /\ SF_vars(WebhookLoad)
    /\ SF_vars(WebhookCommit)

\* inspect refuses an envelope of another request.
InspectRefused(r) ==
    /\ reconciler[r].pc = "inspecting"
    /\ reconciler[r].envelope # reconciler[r].contract
    /\ ReconcileFails(r)

\* An administrator calls reconcile until a request without an envelope has one
\* (docs/docusign.md:60), names the right envelope again and again, and not every
\* call fails.  Nobody has to reconcile a request whose envelope is known.
Recover(r) == \E c \in Contracts : Bound(c, Unknown) /\ ReconcileRead(r, c, c)

Diligence ==
    \A r \in Reconcilers :
        /\ SF_vars(Recover(r))
        /\ WF_vars(InspectRefused(r))
        /\ SF_vars(Inspect(r))
        /\ SF_vars(ReconcileLoad(r))
        /\ SF_vars(ReconcileCommit(r))

FairSpec == Spec /\ Redelivery /\ Diligence

--------------------------------------------------------------------------------
(* Properties.                                                              *)

\* Every row and every handler is of its type.
TypeOK ==
    /\ contract \in [Contracts -> Row]
    /\ signature \in [Contracts -> Signature \cup {NoSignature}]
    /\ events \subseteq Notices
    /\ posts \in [Contracts -> Nat]
    /\ posted \subseteq Contracts
    /\ envelope \in [Contracts \cup Foreign -> SUBSET EnvelopeStatuses]
    /\ sender \in [Senders -> Sending \cup {Idle}]
    /\ webhook \in NoticeRead \cup NoticeLoaded \cup {Idle}
    /\ reconciler \in [Reconcilers -> Inspecting \cup Inspected \cup Applying \cup {Idle}]
    /\ reconciled \in BOOLEAN

\* Whatever times out, fails or is pressed twice, DocuSign is asked at most once to
\* create an envelope for a contract (send_signature reserves before it calls).
OneEnvelope == \A c \in Contracts : posts[c] <= 1

\* What DocuSign may hold is on record here: a call that is out, or an envelope
\* that exists, has a signature request that reconcile can find, and its contract
\* is no longer waiting to be sent.
EnvelopeOnRecord ==
    \A c \in Contracts :
        c \in posted \/ envelope[c] # {} =>
            /\ signature[c] # NoSignature
            /\ contract[c].status # "approved"

\* Nothing is shown as signed or declined that the envelope of this very contract
\* did not reach, whichever handler wrote it and whatever it had read before.
TruthfulOutcome ==
    \A c \in Contracts :
        /\ contract[c].status = "signed" => "completed" \in envelope[c]
        /\ contract[c].status = "signature_declined" =>
              envelope[c] \cap {"declined", "voided"} # {}
        /\ signature[c].status \in EnvelopeStatuses =>
              signature[c].status \in envelope[c]

\* As long as only the sender and the webhook write, the contract and its signature
\* request tell the same story, the archive aside.
RowsInStep ==
    ~reconciled => \A c \in Contracts :
        LET shown == contract[c].status
            known == signature[c].status IN
        /\ known \in EnvelopeStatuses =>
              shown \in {ContractStatusFor[known]} \cup
                        (IF known \in Outcomes THEN {"archived"} ELSE {})
        /\ known \in {"dispatching", "dispatch_uncertain"} => shown = "sending"

\* A late or repeated notice, with the same body or another, never brings a
\* contract back from the archive (the terminal test of apply_signature_status).
ArchiveIsFinal ==
    [][\A c \in Contracts :
          contract[c].status = "archived" /\ ~reconciled =>
              contract'[c].status = "archived"]_vars

\* Under redelivery alone, the outcome of an envelope that is bound to its request
\* is shown on the contract sooner or later, however early its notice first came:
\* nobody has to reconcile (and a reconcile may undo it, see TerminalNotRegressed).
OutcomeShown ==
    \A c \in Contracts :
        (Bound(c, c) /\ envelope[c] \cap Outcomes # {})
            ~> \/ contract[c].status \in {"signed", "signature_declined", "archived"}
               \/ reconciled

\* An envelope whose creation was never confirmed (a timeout, a crash after the
\* call) is bound to its request once an administrator is diligent.
LostAnswerRecovered ==
    \A c \in Contracts : envelope[c] # {} ~> Bound(c, c)

\* "Do not regress terminal state on delayed/duplicate callbacks": once a contract
\* is signed or declined, the archive is its only way on.
TerminalNotRegressed ==
    [][\A c \in Contracts :
          contract[c].status \in {"signed", "signature_declined"} =>
              contract'[c].status \in {contract[c].status, "archived"}]_vars

--------------------------------------------------------------------------------
(* The abstract specification this module implements.                       *)

Shown == [c \in Contracts |-> contract[c].status]
Requested == {c \in Contracts : signature[c] # NoSignature}
Reached == [c \in Contracts |-> envelope[c]]

Signing == INSTANCE SigningProtocol WITH
    shown <- Shown, sent <- Requested, reached <- Reached

\* Senders, notices and reconciles that overlap, on copies that age, behave as if each
\* contract were sent once and then shown what its envelope has reached: forwards and
\* with a final outcome, unless somebody reconciles.
ImplementsSigningProtocol == Signing!Spec

================================================================================
