------------------------ MODULE SignatureDispatchProofs ------------------------
(***************************************************************************)
(* Sending and following envelopes, for any number of contracts, senders,  *)
(* reconciles and notices and any delays, losses and repetitions: one      *)
(* envelope per contract, every envelope on record, no outcome shown that  *)
(* the contract's own envelope did not reach.                              *)
(*                                                                         *)
(* Nothing is deleted and DocuSign forgets nothing, so what a handler has  *)
(* read of the signature request and of the envelope stays true while it   *)
(* waits (Lasting); only its copy of the contract ages, and until somebody *)
(* reconciles, not even that one, because a contract that waits for its    *)
(* envelope has one writer at a time (Quiet).                              *)
(***************************************************************************)
EXTENDS SignatureDispatch, TLAPS

USE DispatchAssumption

--------------------------------------------------------------------------------
(* The invariant.                                                           *)

Called == {"reserved", "waiting"}

\* The row of a request for signature is there before DocuSign is called, and the
\* contract's row has left "approved" with it.
Filed(c) ==
    /\ signature[c] = NoSignature =>
         /\ posts[c] = 0 /\ c \notin posted /\ envelope[c] = {}
         /\ contract[c].status \in {"approved", "archived"}
    /\ signature[c] # NoSignature =>
         contract[c].status # "approved" /\ signature[c].envelope \in {c, Unknown}
    /\ posts[c] <= 1
    /\ envelope[c] # {} => "sent" \in envelope[c]

\* TruthfulOutcome for one contract.
Truthful(c) ==
    /\ contract[c].status = "signed" => "completed" \in envelope[c]
    /\ contract[c].status = "signature_declined" =>
          envelope[c] \cap {"declined", "voided"} # {}
    /\ signature[c].status \in EnvelopeStatuses =>
          signature[c].status \in envelope[c]

\* A sender that has read the contract can tell from its revision whether it is still
\* approved; one that has reserved it is alone, and calls once.
SenderKnows(s) ==
    LET q == sender[s]
        c == q.contract IN
    /\ q.pc = "loaded" =>
         /\ q.revision <= contract[c].revision
         /\ q.revision = contract[c].revision => contract[c].status = "approved"
    /\ q.pc \in Called =>
         /\ signature[c] # NoSignature
         /\ \A t \in Senders : sender[t].pc \in Called /\ sender[t].contract = c => t = s
    /\ q.pc = "reserved" => posts[c] = 0

\* A notice is about the envelope of its contract's request.
NoticeKnows ==
    LET q == webhook IN
    q.pc # "idle" =>
        /\ q.notice.envelope = q.contract /\ q.notice.status \in envelope[q.contract]
        /\ signature[q.contract] # NoSignature /\ signature[q.contract].envelope = q.contract

\* A reconcile goes on only with the envelope of its contract's request.
ReconcileKnows(r) ==
    LET q == reconciler[r] IN
    /\ q.pc # "idle" => reconciled /\ signature[q.contract] # NoSignature
    /\ q.pc \in {"inspected", "applying"} =>
         q.envelope = q.contract /\ q.status \in envelope[q.contract]

\* RowsInStep for one contract, and where its envelope is known.
InStep(c) ==
    LET shown == contract[c].status
        known == signature[c].status IN
    /\ known \in EnvelopeStatuses =>
         /\ signature[c].envelope = c
         /\ shown \in {ContractStatusFor[known]} \cup
                      (IF known \in Outcomes THEN {"archived"} ELSE {})
    /\ known \in {"dispatching", "dispatch_uncertain"} =>
         signature[c].envelope = Unknown /\ shown = "sending"

\* Until somebody reconciles, a contract has one writer at a time.
Quiet ==
    ~reconciled =>
        /\ \A c \in Contracts : InStep(c)
        /\ \A s \in Senders : sender[s].pc \in Called =>
             signature[sender[s].contract].status = "dispatching"
        /\ webhook.pc # "idle" => webhook.seen = signature[webhook.contract].status
        /\ webhook.pc = "loaded" /\ webhook.seen \notin Outcomes =>
             webhook.row.status = "signature_pending"

Inv ==
    /\ TypeOK
    /\ \A c \in Contracts : Filed(c) /\ Truthful(c)
    /\ \A s \in Senders : SenderKnows(s)
    /\ NoticeKnows
    /\ \A r \in Reconcilers : ReconcileKnows(r)
    /\ Quiet

--------------------------------------------------------------------------------
(* Rows, statuses and handlers.                                             *)

LEMMA SignatureRow ==
    ASSUME TypeOK, NEW c \in Contracts
    PROVE  /\ signature[c] = NoSignature <=> signature[c].status = "none"
           /\ signature[c] # NoSignature <=> signature[c] \in Signature
BY DEF TypeOK, Signature, NoSignature, SignatureStatuses, EnvelopeStatuses, Outcomes

LEMMA ShownFor ==
    ASSUME NEW s \in EnvelopeStatuses
    PROVE  /\ ContractStatusFor[s] \in {"signature_pending", "signed", "signature_declined"}
           /\ ContractStatusFor[s] = "signed" <=> s = "completed"
           /\ ContractStatusFor[s] = "signature_declined" <=> s \in {"declined", "voided"}
           /\ ContractStatusFor[s] = "signature_pending" <=> s \notin Outcomes
BY DEF ContractStatusFor, EnvelopeStatuses, Outcomes

LEMMA CurrentReached ==
    ASSUME NEW S \in SUBSET EnvelopeStatuses, "sent" \in S
    PROVE  Current(S) \in S
BY DEF Current

LEMMA SenderPc ==
    ASSUME TypeOK, NEW s \in Senders
    PROVE  /\ sender[s] = Idle <=> sender[s].pc = "idle"
           /\ sender[s] \in Sending <=> sender[s].pc # "idle"
BY DEF TypeOK, Idle, Sending

LEMMA WebhookPc ==
    ASSUME TypeOK
    PROVE  /\ webhook = Idle <=> webhook.pc = "idle"
           /\ webhook \in NoticeRead <=> webhook.pc = "read"
           /\ webhook \in NoticeLoaded <=> webhook.pc = "loaded"
BY DEF TypeOK, Idle, NoticeRead, NoticeLoaded

LEMMA ReconcilerPc ==
    ASSUME TypeOK, NEW r \in Reconcilers
    PROVE  /\ reconciler[r] = Idle <=> reconciler[r].pc = "idle"
           /\ reconciler[r] \in Inspecting <=> reconciler[r].pc = "inspecting"
           /\ reconciler[r] \in Inspected <=> reconciler[r].pc = "inspected"
           /\ reconciler[r] \in Applying <=> reconciler[r].pc = "applying"
BY DEF TypeOK, Idle, Inspecting, Inspected, Applying

\* What an UPDATE of a contract does, if it is one.
LEMMA Written ==
    ASSUME TypeOK, NEW c \in Contracts, NEW row \in Row, NEW status \in ContractStatuses,
           Write(c, row, status)
    PROVE  /\ contract' \in [Contracts -> Row]
           /\ \A d \in Contracts : d # c => contract'[d] = contract[d]
           /\ \/ contract'[c] = contract[c] /\ status = row.status
              \/ /\ contract'[c].status = status /\ status # row.status
                 /\ contract[c].revision = row.revision
                 /\ contract'[c].revision = contract[c].revision + 1
BY DEF Write, TypeOK, Row

--------------------------------------------------------------------------------
(* What every step keeps.                                                   *)

Lasting ==
    /\ reconciled => reconciled'
    /\ \A c \in Contracts :
         /\ signature[c] # NoSignature => signature'[c] # NoSignature
         /\ signature[c] # NoSignature /\ signature[c].envelope = c =>
              signature'[c].envelope = c
         /\ envelope[c] \subseteq envelope'[c]
         /\ \/ contract'[c] = contract[c]
            \/ contract'[c].revision = contract[c].revision + 1

LEMMA NoticeLasts ==
    ASSUME Inv, Lasting, UNCHANGED webhook
    PROVE  NoticeKnows'
<1>1. webhook.pc # "idle" => webhook.contract \in Contracts
  BY WebhookPc DEF Inv, TypeOK, NoticeRead, NoticeLoaded, Idle
<1> QED  BY <1>1 DEF Inv, NoticeKnows, Lasting

LEMMA ReconcileLasts ==
    ASSUME Inv, Lasting, NEW r \in Reconcilers, reconciler'[r] = reconciler[r]
    PROVE  ReconcileKnows(r)'
<1>1. reconciler[r].pc # "idle" => reconciler[r].contract \in Contracts
  BY DEF Inv, TypeOK, Inspecting, Inspected, Applying, Idle
<1> QED  BY <1>1 DEF Inv, ReconcileKnows, Lasting

LEMMA SenderLasts ==
    ASSUME Inv, Lasting, NEW s \in Senders, sender'[s] = sender[s],
           sender[s].pc = "reserved" => posts'[sender[s].contract] = posts[sender[s].contract],
           \A t \in Senders :
              sender'[t].pc \in Called /\ sender'[t].contract = sender[s].contract =>
                 \/ sender[t].pc \in Called /\ sender[t].contract = sender[s].contract
                 \/ signature[sender[s].contract] = NoSignature
    PROVE  SenderKnows(s)'
<1> PICK q, c : q = sender[s] /\ c = sender[s].contract  OBVIOUS
<1>1. q.pc # "idle" => q \in Sending /\ c \in Contracts  BY SenderPc DEF Inv, Sending
<1>2. SenderKnows(s)  BY DEF Inv
<1>3. CASE q.pc = "loaded"
  <2>1. q.revision \in Nat /\ contract[c] \in Row  BY <1>1, <1>3 DEF Sending, Inv, TypeOK
  <2>2. /\ q.revision <= contract[c].revision
        /\ q.revision = contract[c].revision => contract[c].status = "approved"
    BY <1>2, <1>3 DEF SenderKnows
  <2>3. /\ q.revision <= contract'[c].revision
        /\ q.revision = contract'[c].revision => contract'[c].status = "approved"
    BY <1>1, <1>3, <2>1, <2>2 DEF Lasting, Row
  <2> QED  BY <1>3, <2>3 DEF SenderKnows, Called
<1>4. CASE q.pc \in Called
  <2>1. c \in Contracts /\ signature[c] # NoSignature
    BY <1>1, <1>2, <1>4 DEF SenderKnows, Called
  <2> QED  BY <1>2, <1>4, <2>1 DEF SenderKnows, Called, Lasting
<1>5. CASE q.pc \notin {"loaded"} \cup Called  BY <1>5 DEF SenderKnows, Called
<1> QED  BY <1>3, <1>4, <1>5

--------------------------------------------------------------------------------
(* send_signature.                                                          *)

\* Handlers move; rows and DocuSign do not.
LEMMA RowsStay ==
    ASSUME Inv, UNCHANGED <<rows, docusign>>, reconciled => reconciled'
    PROVE  /\ Lasting
           /\ \A c \in Contracts : (Filed(c) /\ Truthful(c))'
           /\ \A c \in Contracts : InStep(c) => InStep(c)'
<1> USE DEF rows, docusign
<1>1. Lasting  BY DEF Lasting
<1>2. ASSUME NEW c \in Contracts PROVE (Filed(c) /\ Truthful(c))' /\ (InStep(c) => InStep(c)')
  BY DEF Inv, Filed, Truthful, InStep
<1> QED  BY <1>1, <1>2

\* One sender moves, and what all handlers know stays true.
LEMMA OneSender ==
    ASSUME Inv, Lasting, NEW s \in Senders, NEW h \in Sending \cup {Idle},
           sender' = [sender EXCEPT ![s] = h], UNCHANGED <<webhook, reconciler>>,
           \A t \in Senders : t # s /\ sender[t].pc = "reserved" =>
              posts'[sender[t].contract] = posts[sender[t].contract],
           h.pc \in Called =>
              \/ sender[s].pc \in Called /\ sender[s].contract = h.contract
              \/ signature[h.contract] = NoSignature,
           SenderKnows(s)'
    PROVE  /\ sender' \in [Senders -> Sending \cup {Idle}]
           /\ \A t \in Senders : SenderKnows(t)'
           /\ NoticeKnows' /\ \A r \in Reconcilers : ReconcileKnows(r)'
<1>1. sender' \in [Senders -> Sending \cup {Idle}] /\ sender'[s] = h
  BY DEF Inv, TypeOK
<1>2. \A t \in Senders : t # s => sender'[t] = sender[t]  BY DEF Inv, TypeOK
<1>3. ASSUME NEW t \in Senders, t # s PROVE SenderKnows(t)'
  <2>1. \A u \in Senders :
          sender'[u].pc \in Called /\ sender'[u].contract = sender[t].contract =>
             \/ sender[u].pc \in Called /\ sender[u].contract = sender[t].contract
             \/ signature[sender[t].contract] = NoSignature
    BY <1>1, <1>2
  <2> QED  BY <1>2, <1>3, <2>1, SenderLasts
<1> QED  BY <1>1, <1>3, NoticeLasts, ReconcileLasts

LEMMA LoadForSendStep ==
    ASSUME Inv, NEW s \in Senders, NEW c \in Contracts, LoadForSend(s, c)
    PROVE  Inv'
<1> PICK h : h = [pc |-> "loaded", contract |-> c, revision |-> contract[c].revision]  OBVIOUS
<1>1. /\ h \in Sending /\ h.pc = "loaded" /\ h.contract = c
      /\ h.revision = contract[c].revision
  BY DEF Inv, TypeOK, Row, Sending
<1>2. /\ contract[c].status = "approved" /\ sender' = [sender EXCEPT ![s] = h]
      /\ UNCHANGED <<rows, docusign, webhook, reconciler, reconciled>>
  BY DEF LoadForSend
<1>3. sender'[s] = h  BY <1>2 DEF Inv, TypeOK
<1>4. /\ Lasting /\ \A d \in Contracts : (Filed(d) /\ Truthful(d))'
      /\ \A d \in Contracts : InStep(d) => InStep(d)'
  BY <1>2, RowsStay
<1>5. SenderKnows(s)'
  BY <1>1, <1>2, <1>3 DEF SenderKnows, Called, rows, Inv, TypeOK, Row
<1>6. /\ sender' \in [Senders -> Sending \cup {Idle}]
      /\ \A t \in Senders : SenderKnows(t)'
      /\ NoticeKnows' /\ \A r \in Reconcilers : ReconcileKnows(r)'
  BY <1>1, <1>2, <1>4, <1>5, OneSender DEF Called, docusign
<1>7. TypeOK'  BY <1>2, <1>6 DEF Inv, TypeOK, rows, docusign
<1>8. Quiet'
  BY <1>1, <1>2, <1>3, <1>4 DEF Inv, TypeOK, Quiet, Called, rows
<1> QED  BY <1>4, <1>6, <1>7, <1>8 DEF Inv

LEMMA SenderFailsStep == ASSUME Inv, NEW s \in Senders, SenderFails(s) PROVE Inv'
<1>1. Idle.pc = "idle"  BY DEF Idle
<1>2. /\ sender' = [sender EXCEPT ![s] = Idle]
      /\ UNCHANGED <<rows, docusign, webhook, reconciler, reconciled>>
  BY DEF SenderFails
<1>3. sender'[s] = Idle  BY <1>2 DEF Inv, TypeOK
<1>4. /\ Lasting /\ \A d \in Contracts : (Filed(d) /\ Truthful(d))'
      /\ \A d \in Contracts : InStep(d) => InStep(d)'
  BY <1>2, RowsStay
<1>5. SenderKnows(s)'  BY <1>1, <1>3 DEF SenderKnows, Called
<1>6. /\ sender' \in [Senders -> Sending \cup {Idle}]
      /\ \A t \in Senders : SenderKnows(t)'
      /\ NoticeKnows' /\ \A r \in Reconcilers : ReconcileKnows(r)'
  BY <1>1, <1>2, <1>4, <1>5, OneSender DEF Called, docusign
<1>7. TypeOK'  BY <1>2, <1>6 DEF Inv, TypeOK, rows, docusign
<1>8. Quiet'
  BY <1>1, <1>2, <1>3, <1>4 DEF Inv, TypeOK, Quiet, Called, rows
<1> QED  BY <1>4, <1>6, <1>7, <1>8 DEF Inv

LEMMA ReserveStep == ASSUME Inv, NEW s \in Senders, Reserve(s) PROVE Inv'
<1> PICK c, h : /\ c = sender[s].contract
                /\ h = [pc |-> "reserved", contract |-> sender[s].contract,
                        revision |-> sender[s].revision + 1]
  OBVIOUS
<1> PICK row : row = [status |-> "approved", revision |-> sender[s].revision]  OBVIOUS
<1>1. sender[s].pc = "loaded" /\ sender[s] \in Sending /\ c \in Contracts
  BY SenderPc DEF Inv, Reserve, Sending
<1>2. /\ h \in Sending /\ h.pc = "reserved" /\ h.contract = c
      /\ row \in Row /\ row.status = "approved"
  BY <1>1 DEF Sending, Row, ContractStatuses
<1>3. sender' = [sender EXCEPT ![s] = h]  BY DEF Reserve
<1>4. /\ signature[c] = NoSignature /\ Write(c, row, "sending")
      /\ signature' = [signature EXCEPT ![c] = [status |-> "dispatching", envelope |-> Unknown]]
      /\ UNCHANGED <<events, docusign, webhook, reconciler, reconciled>>
  BY DEF Reserve
<1>5. /\ contract' \in [Contracts -> Row]
      /\ \A d \in Contracts : d # c => contract'[d] = contract[d]
      /\ contract'[c].status = "sending" /\ contract'[c].revision = contract[c].revision + 1
  BY <1>1, <1>2, <1>4, Written DEF ContractStatuses, Inv
<1>6. /\ signature' \in [Contracts -> Signature \cup {NoSignature}]
      /\ \A d \in Contracts : d # c => signature'[d] = signature[d]
      /\ signature'[c] # NoSignature
      /\ signature'[c].status = "dispatching" /\ signature'[c].envelope = Unknown
  BY <1>1, <1>4 DEF Inv, TypeOK, Signature, NoSignature, SignatureStatuses
<1>7. sender'[s] = h /\ \A t \in Senders : t # s => sender'[t] = sender[t]
  BY <1>3 DEF Inv, TypeOK
<1>8. Lasting  BY <1>1, <1>4, <1>5, <1>6 DEF Lasting, docusign
<1>9. \A t \in Senders : sender[t].pc \in Called => sender[t].contract # c
  BY <1>4 DEF Inv, SenderKnows
<1>10. SenderKnows(s)'
  BY <1>2, <1>4, <1>6, <1>7, <1>9, <1>1 DEF SenderKnows, Called, Inv, Filed, docusign
<1>11. /\ sender' \in [Senders -> Sending \cup {Idle}]
       /\ \A t \in Senders : SenderKnows(t)'
       /\ NoticeKnows' /\ \A r \in Reconcilers : ReconcileKnows(r)'
  BY <1>2, <1>3, <1>4, <1>8, <1>10, OneSender DEF docusign
<1>12. TypeOK'  BY <1>4, <1>5, <1>6, <1>11 DEF Inv, TypeOK, docusign
<1>13. ASSUME NEW d \in Contracts PROVE (Filed(d) /\ Truthful(d))'
  <2>1. Filed(d) /\ Truthful(d)  BY DEF Inv
  <2>2. CASE d = c
    BY <1>4, <1>5, <1>6, <2>1, <2>2 DEF Filed, Truthful, docusign, EnvelopeStatuses, Outcomes
  <2>3. CASE d # c  BY <1>4, <1>5, <1>6, <2>1, <2>3 DEF Filed, Truthful, docusign
  <2> QED  BY <2>2, <2>3
<1>14. Quiet'
  <2> SUFFICES ASSUME ~reconciled' PROVE Quiet'  BY DEF Quiet
  <2>1. ~reconciled /\ Quiet  BY <1>4 DEF Inv
  <2>2. \A d \in Contracts : InStep(d)'
    BY <1>5, <1>6, <2>1 DEF Quiet, InStep, EnvelopeStatuses, Outcomes
  <2>3. \A t \in Senders : sender'[t].pc \in Called =>
          signature'[sender'[t].contract].status = "dispatching"
    <3> TAKE t \in Senders
    <3>1. CASE t = s  BY <1>2, <1>6, <1>7, <3>1
    <3>2. CASE t # s
      BY <1>6, <1>7, <1>9, <2>1, <3>2, SenderPc DEF Quiet, Inv, Sending, Called
    <3> QED  BY <3>1, <3>2
  <2>4. webhook.pc # "idle" => webhook.contract \in Contracts /\ webhook.contract # c
    BY <1>4, WebhookPc DEF Inv, TypeOK, NoticeKnows, NoticeRead, NoticeLoaded, Idle
  <2> QED  BY <1>4, <1>6, <2>1, <2>2, <2>3, <2>4 DEF Quiet
<1> QED  BY <1>11, <1>12, <1>13, <1>14 DEF Inv

LEMMA PostStep == ASSUME Inv, NEW s \in Senders, Post(s) PROVE Inv'
<1>h. PICK h : h = [sender[s] EXCEPT !.pc = "waiting"]  OBVIOUS
<1> PICK c : c = sender[s].contract  OBVIOUS
<1>1. sender[s].pc = "reserved" /\ sender[s] \in Sending /\ c \in Contracts
  BY SenderPc DEF Inv, Post, Sending
<1>2. h \in Sending /\ h.pc = "waiting" /\ h.contract = c  BY <1>1, <1>h DEF Sending
<1>3. sender' = [sender EXCEPT ![s] = h]  BY <1>h, Zenon DEF Post
<1>4. /\ posts' = [posts EXCEPT ![c] = @ + 1] /\ posted' = posted \cup {c}
      /\ UNCHANGED <<rows, envelope, webhook, reconciler, reconciled>>
  BY DEF Post
<1>5. sender'[s] = h /\ \A t \in Senders : t # s => sender'[t] = sender[t]
  BY <1>3 DEF Inv, TypeOK
<1>6. posts[c] = 0 /\ signature[c] # NoSignature /\ SenderKnows(s)
  BY <1>1 DEF Inv, SenderKnows, Called
<1>7. /\ posts' \in [Contracts -> Nat] /\ posts'[c] = 1
      /\ \A d \in Contracts : d # c => posts'[d] = posts[d]
  BY <1>1, <1>4, <1>6 DEF Inv, TypeOK
<1>8. Lasting  BY <1>4 DEF Lasting, rows
<1>9. \A t \in Senders : sender[t].pc \in Called /\ sender[t].contract = c => t = s
  BY <1>1, <1>6 DEF SenderKnows, Called
<1>10. SenderKnows(s)'
  BY <1>2, <1>4, <1>5, <1>6, <1>9 DEF SenderKnows, Called, rows
<1>11. \A t \in Senders : t # s /\ sender[t].pc = "reserved" =>
         posts'[sender[t].contract] = posts[sender[t].contract]
  BY <1>7, <1>9, SenderPc DEF Called, Inv, Sending
<1>12. /\ sender' \in [Senders -> Sending \cup {Idle}]
       /\ \A t \in Senders : SenderKnows(t)'
       /\ NoticeKnows' /\ \A r \in Reconcilers : ReconcileKnows(r)'
  BY <1>1, <1>2, <1>3, <1>4, <1>8, <1>10, <1>11, OneSender DEF Called
<1>13. TypeOK'  BY <1>1, <1>4, <1>7, <1>12 DEF Inv, TypeOK, rows
<1>14. ASSUME NEW d \in Contracts PROVE (Filed(d) /\ Truthful(d))'
  <2>1. Filed(d) /\ Truthful(d)  BY DEF Inv
  <2>2. CASE d = c  BY <1>4, <1>6, <1>7, <2>1, <2>2 DEF Filed, Truthful, rows
  <2>3. CASE d # c  BY <1>4, <1>7, <2>1, <2>3 DEF Filed, Truthful, rows
  <2> QED  BY <2>2, <2>3
<1>15. Quiet'
  <2>1. \A d \in Contracts : InStep(d) => InStep(d)'  BY <1>4 DEF InStep, rows
  <2>2. ASSUME ~reconciled, NEW t \in Senders, sender'[t].pc \in Called
        PROVE  signature[sender'[t].contract].status = "dispatching"
    <3>1. CASE t = s  BY <1>1, <1>2, <1>5, <2>2, <3>1 DEF Inv, Quiet, Called
    <3>2. CASE t # s  BY <1>5, <2>2, <3>2 DEF Inv, Quiet
    <3> QED  BY <3>1, <3>2
  <2> QED  BY <1>4, <2>1, <2>2 DEF Inv, Quiet, rows
<1> QED  BY <1>12, <1>13, <1>14, <1>15 DEF Inv

\* A sender answers for the only call of its contract, and goes.
LEMMA Answered ==
    ASSUME Inv, NEW s \in Senders, sender[s].pc \in Called, NEW c, c = sender[s].contract,
           NEW x \in Signature, x.envelope \in {c, signature[c].envelope},
           signature' = [signature EXCEPT ![c] = x],
           x.status \in EnvelopeStatuses => x.status \in envelope[c],
           contract' \in [Contracts -> Row],
           \A d \in Contracts : d # c => contract'[d] = contract[d],
           \/ contract'[c] = contract[c]
           \/ /\ contract'[c].status = "signature_pending"
              /\ contract'[c].revision = contract[c].revision + 1,
           sender' = [sender EXCEPT ![s] = Idle],
           UNCHANGED <<events, docusign, webhook, reconciler, reconciled>>,
           ~reconciled => InStep(c)'
    PROVE  Inv'
<1>1. sender[s] \in Sending /\ c \in Contracts /\ SenderKnows(s) /\ Idle.pc = "idle"
  BY SenderPc DEF Inv, Sending, Called, Idle
<1>2. /\ signature[c] # NoSignature /\ signature[c] \in Signature /\ signature[c].envelope \in {c, Unknown}
      /\ \A t \in Senders : sender[t].pc \in Called /\ sender[t].contract = c => t = s
  BY <1>1, SignatureRow DEF SenderKnows, Inv, Filed
<1>3. /\ signature' \in [Contracts -> Signature \cup {NoSignature}] /\ signature'[c] = x
      /\ \A d \in Contracts : d # c => signature'[d] = signature[d]
  BY <1>1 DEF Inv, TypeOK
<1>4. x # NoSignature
  BY DEF Signature, NoSignature, SignatureStatuses, EnvelopeStatuses, Outcomes
<1>5. Lasting  BY <1>1, <1>2, <1>3, <1>4 DEF Lasting, docusign, DispatchAssumption
<1>6. sender'[s] = Idle /\ \A t \in Senders : t # s => sender'[t] = sender[t]
  BY DEF Inv, TypeOK
<1>7. SenderKnows(s)'  BY <1>1, <1>6 DEF SenderKnows, Called
<1>8. /\ sender' \in [Senders -> Sending \cup {Idle}]
      /\ \A t \in Senders : SenderKnows(t)'
      /\ NoticeKnows' /\ \A r \in Reconcilers : ReconcileKnows(r)'
  BY <1>1, <1>5, <1>7, OneSender DEF Called, docusign
<1>9. TypeOK'  BY <1>3, <1>8 DEF Inv, TypeOK, docusign
<1>10. ASSUME NEW d \in Contracts PROVE (Filed(d) /\ Truthful(d))'
  <2>1. Filed(d) /\ Truthful(d)  BY DEF Inv
  <2>2. CASE d = c
    <3>1. Filed(d)'  BY <1>2, <1>3, <1>4, <2>1, <2>2 DEF Filed, docusign
    <3>2. Truthful(d)'  BY <1>3, <2>1, <2>2 DEF Truthful, docusign
    <3> QED  BY <3>1, <3>2
  <2>3. CASE d # c  BY <1>3, <2>1, <2>3 DEF Filed, Truthful, docusign
  <2> QED  BY <2>2, <2>3
<1>11. Quiet'
  <2> SUFFICES ASSUME ~reconciled PROVE Quiet'  BY DEF Quiet
  <2>1. Quiet  BY DEF Inv
  <2>2. \A d \in Contracts : InStep(d)'
    BY <1>3, <2>1 DEF Quiet, InStep
  <2>3. \A t \in Senders : sender'[t].pc \in Called =>
          signature'[sender'[t].contract].status = "dispatching"
    BY <1>1, <1>2, <1>3, <1>6, <2>1, SenderPc DEF Quiet, Inv, Sending, Called
  <2>4. signature[c].status = "dispatching" /\ InStep(c)  BY <1>1, <2>1 DEF Quiet
  <2>5. webhook.pc # "idle" => webhook.contract \in Contracts /\ webhook.contract # c
    BY <2>4, WebhookPc DEF Inv, TypeOK, NoticeKnows, NoticeRead, NoticeLoaded, Idle, InStep,
                           DispatchAssumption
  <2> QED  BY <1>3, <2>1, <2>2, <2>3, <2>5 DEF Quiet
<1> QED  BY <1>8, <1>9, <1>10, <1>11 DEF Inv

LEMMA ConfirmStep == ASSUME Inv, NEW s \in Senders, Confirm(s) PROVE Inv'
<1> PICK c, x, row : /\ c = sender[s].contract /\ x = [status |-> "sent", envelope |-> sender[s].contract]
                     /\ row = [status |-> "sending", revision |-> sender[s].revision]
  OBVIOUS
<1>1. sender[s].pc = "waiting" /\ sender[s] \in Sending /\ c \in Contracts
  BY SenderPc DEF Inv, Confirm, Sending
<1>2. x \in Signature /\ x.envelope = c /\ x.status = "sent" /\ row \in Row /\ row.status = "sending"
  BY <1>1 DEF Signature, SignatureStatuses, EnvelopeStatuses, Sending, Row, ContractStatuses
<1>3. "sent" \in envelope[c]  BY <1>1 DEF Confirm, Inv, Filed
<1>4. /\ Write(c, row, "signature_pending") /\ signature' = [signature EXCEPT ![c] = x]
      /\ sender' = [sender EXCEPT ![s] = Idle]
      /\ UNCHANGED <<events, docusign, webhook, reconciler, reconciled>>
  BY DEF Confirm
<1>5. /\ contract' \in [Contracts -> Row]
      /\ \A d \in Contracts : d # c => contract'[d] = contract[d]
      /\ contract'[c].status = "signature_pending"
      /\ contract'[c].revision = contract[c].revision + 1
  BY <1>1, <1>2, <1>4, Written DEF ContractStatuses, Inv
<1>6. signature'[c] = x  BY <1>1, <1>4 DEF Inv, TypeOK
<1>7. InStep(c)'
  BY <1>2, <1>5, <1>6, ShownFor DEF InStep, EnvelopeStatuses, Outcomes
<1> QED  BY <1>1, <1>2, <1>3, <1>4, <1>5, <1>7, Answered DEF Called

LEMMA UncertainStep == ASSUME Inv, NEW s \in Senders, Uncertain(s) PROVE Inv'
<1> PICK c : c = sender[s].contract  OBVIOUS
<1> PICK x : x = [signature[c] EXCEPT !.status = "dispatch_uncertain"]  OBVIOUS
<1>1. sender[s].pc \in Called /\ sender[s] \in Sending /\ c \in Contracts
  BY SenderPc DEF Inv, Uncertain, Sending, Called
<1>2. signature[c] # NoSignature /\ signature[c] \in Signature
  BY <1>1, SignatureRow DEF Inv, SenderKnows
<1>3. /\ x \in Signature /\ x.envelope = signature[c].envelope
      /\ x.status = "dispatch_uncertain" /\ x.status \notin EnvelopeStatuses
  BY <1>2 DEF Signature, SignatureStatuses, EnvelopeStatuses, Outcomes
<1>4. signature' = [signature EXCEPT ![c] = x]  BY Zenon DEF Uncertain
<1>5. /\ sender' = [sender EXCEPT ![s] = Idle]
      /\ UNCHANGED <<contract, events, docusign, webhook, reconciler, reconciled>>
  BY DEF Uncertain
<1>6. signature'[c] = x  BY <1>1, <1>4 DEF Inv, TypeOK
<1>7. ~reconciled => InStep(c)'
  <2> SUFFICES ASSUME ~reconciled PROVE InStep(c)'  OBVIOUS
  <2>1. InStep(c) /\ signature[c].status = "dispatching"  BY <1>1 DEF Inv, Quiet
  <2> QED  BY <1>3, <1>5, <1>6, <2>1 DEF InStep
<1> QED  BY <1>1, <1>3, <1>4, <1>5, <1>7, Answered DEF Inv, TypeOK

--------------------------------------------------------------------------------
(* DocuSign.                                                                *)

\* Envelopes only gain statuses; rows and handlers stay.
LEMMA EnvelopesGrow ==
    ASSUME Inv, UNCHANGED <<rows, posts, handlers>>, posted' \subseteq posted,
           envelope' \in [Contracts \cup Foreign -> SUBSET EnvelopeStatuses],
           \A c \in Contracts :
              /\ envelope[c] \subseteq envelope'[c]
              /\ envelope'[c] # {} => "sent" \in envelope'[c] /\ (c \in posted \/ envelope[c] # {})
    PROVE  Inv'
<1> USE DEF rows, handlers
<1>1. Lasting  BY DEF Lasting
<1>2. ASSUME NEW c \in Contracts PROVE (Filed(c) /\ Truthful(c))'
  <2>1. Filed(c) /\ Truthful(c)  BY DEF Inv
  <2>2. Filed(c)'  BY <2>1 DEF Filed
  <2>3. Truthful(c)'
    <3>1. envelope[c] \subseteq envelope'[c]  OBVIOUS
    <3> QED  BY <2>1, <3>1 DEF Truthful
  <2> QED  BY <2>2, <2>3
<1>3. TypeOK'  BY DEF Inv, TypeOK
<1>4. \A s \in Senders : SenderKnows(s)'  BY DEF Inv, SenderKnows
<1>5. NoticeKnows' /\ \A r \in Reconcilers : ReconcileKnows(r)'
  BY <1>1, NoticeLasts, ReconcileLasts
<1>6. Quiet'  BY DEF Inv, Quiet, InStep
<1> QED  BY <1>2, <1>3, <1>4, <1>5, <1>6 DEF Inv

LEMMA AcceptStep == ASSUME Inv, NEW c \in Contracts, Accept(c) PROVE Inv'
<1>1. /\ c \in posted /\ envelope' = [envelope EXCEPT ![c] = {"sent"}]
      /\ envelope[c] = {} /\ posted' \subseteq posted /\ UNCHANGED <<rows, posts, handlers>>
  BY DEF Accept
<1>2. envelope' \in [Contracts \cup Foreign -> SUBSET EnvelopeStatuses]
  BY <1>1 DEF Inv, TypeOK, EnvelopeStatuses
<1>3. \A d \in Contracts :
        /\ envelope[d] \subseteq envelope'[d]
        /\ envelope'[d] # {} => "sent" \in envelope'[d] /\ (d \in posted \/ envelope[d] # {})
  BY <1>1 DEF Inv, TypeOK, Filed
<1> QED  BY <1>1, <1>2, <1>3, EnvelopesGrow

LEMMA LoseStep == ASSUME Inv, NEW c \in Contracts, Lose(c) PROVE Inv'
<1>1. posted' \subseteq posted /\ UNCHANGED <<rows, posts, envelope, handlers>>  BY DEF Lose
<1> QED  BY <1>1, EnvelopesGrow DEF Inv, TypeOK, Filed

LEMMA ProgressStep ==
    ASSUME Inv, NEW c \in Contracts, NEW status \in EnvelopeStatuses, Progress(c, status)
    PROVE  Inv'
<1>1. /\ envelope[c] # {} /\ envelope' = [envelope EXCEPT ![c] = @ \cup {status}]
      /\ UNCHANGED <<rows, posts, posted, handlers>>
  BY DEF Progress
<1>2. envelope' \in [Contracts \cup Foreign -> SUBSET EnvelopeStatuses]
  BY <1>1 DEF Inv, TypeOK
<1>3. \A d \in Contracts :
        /\ envelope[d] \subseteq envelope'[d]
        /\ envelope'[d] # {} => "sent" \in envelope'[d] /\ (d \in posted \/ envelope[d] # {})
  BY <1>1 DEF Inv, TypeOK, Filed
<1> QED  BY <1>1, <1>2, <1>3, EnvelopesGrow

--------------------------------------------------------------------------------
(* Handlers that read: the webhook and the reconciles.                      *)

\* A sender knows nothing of the other handlers.
LEMMA SendersStay ==
    ASSUME Inv, Lasting, UNCHANGED <<sender, posts>>
    PROVE  \A s \in Senders : SenderKnows(s)'
<1> TAKE s \in Senders
<1> QED  BY SenderLasts

\* The webhook reads.
LEMMA NoticeReads ==
    ASSUME Inv, UNCHANGED <<rows, docusign, sender, reconciler, reconciled>>,
           webhook' \in NoticeRead \cup NoticeLoaded \cup {Idle}, NoticeKnows',
           ~reconciled =>
              /\ webhook'.pc # "idle" => webhook'.seen = signature[webhook'.contract].status
              /\ webhook'.pc = "loaded" /\ webhook'.seen \notin Outcomes =>
                   webhook'.row.status = "signature_pending"
    PROVE  Inv'
<1>1. /\ Lasting /\ \A d \in Contracts : (Filed(d) /\ Truthful(d))'
      /\ \A d \in Contracts : InStep(d) => InStep(d)'
  BY RowsStay
<1>2. (\A s \in Senders : SenderKnows(s)') /\ \A r \in Reconcilers : ReconcileKnows(r)'
  BY <1>1, SendersStay, ReconcileLasts DEF docusign
<1>3. TypeOK'  BY DEF Inv, TypeOK, rows, docusign
<1>4. Quiet'  BY <1>1 DEF Inv, Quiet, rows
<1> QED  BY <1>1, <1>2, <1>3, <1>4 DEF Inv

LEMMA WebhookReadStep ==
    ASSUME Inv, NEW n \in Notices, NEW c \in Contracts, WebhookRead(n, c)
    PROVE  Inv'
<1> PICK h : h = [pc |-> "read", notice |-> n, contract |-> c, seen |-> signature[c].status]
  OBVIOUS
<1>1. /\ n.status \in envelope[n.envelope] /\ Bound(c, n.envelope) /\ webhook' = h
      /\ UNCHANGED <<rows, docusign, sender, reconciler, reconciled>>
  BY DEF WebhookRead
<1>2. signature[c] # NoSignature /\ signature[c] \in Signature /\ signature[c].envelope = n.envelope
  BY <1>1, SignatureRow DEF Bound, Inv
<1>3. n.envelope = c
  <2>1. n.envelope \in Contracts  BY DEF Notices
  <2>2. signature[c].envelope \in {c, Unknown}  BY <1>2 DEF Inv, Filed
  <2> QED  BY <1>2, <2>1, <2>2, DispatchAssumption
<1>4. /\ h \in NoticeRead /\ h.pc = "read" /\ h.notice = n /\ h.contract = c
      /\ h.seen = signature[c].status
  BY <1>2 DEF NoticeRead, Signature
<1>5. NoticeKnows'  BY <1>1, <1>2, <1>3, <1>4 DEF NoticeKnows, rows, docusign
<1> QED  BY <1>1, <1>4, <1>5, NoticeReads

LEMMA WebhookLoadStep == ASSUME Inv, WebhookLoad PROVE Inv'
<1> PICK h, c : /\ c = webhook.contract
                /\ h = [pc |-> "loaded", notice |-> webhook.notice, contract |-> webhook.contract,
                        seen |-> webhook.seen, row |-> contract[webhook.contract]]
  OBVIOUS
<1>1. /\ webhook \in NoticeRead /\ webhook.pc = "read" /\ c \in Contracts /\ webhook' = h
      /\ UNCHANGED <<rows, docusign, sender, reconciler, reconciled>>
  BY WebhookPc DEF WebhookLoad, Inv, NoticeRead
<1>2. /\ h \in NoticeLoaded /\ h.pc = "loaded" /\ h.notice = webhook.notice /\ h.contract = c
      /\ h.seen = webhook.seen /\ h.row = contract[c]
  BY <1>1 DEF NoticeRead, NoticeLoaded, Inv, TypeOK
<1>3. /\ webhook.notice.envelope = c /\ webhook.notice.status \in envelope[c]
      /\ signature[c] # NoSignature /\ signature[c].envelope = c
  BY <1>1 DEF Inv, NoticeKnows
<1>4. NoticeKnows'  BY <1>1, <1>2, <1>3 DEF NoticeKnows, rows, docusign
<1>5. ASSUME ~reconciled
      PROVE  /\ h.seen = signature[c].status
             /\ h.seen \notin Outcomes => h.row.status = "signature_pending"
  <2>1. InStep(c) /\ h.seen = signature[c].status
    BY <1>1, <1>2, <1>5 DEF Inv, Quiet
  <2>2. signature[c].status \in EnvelopeStatuses
    <3>1. signature[c].status \in SignatureStatuses
      BY <1>1, <1>3, SignatureRow DEF Inv, Signature
    <3>2. c # Unknown  BY <1>1, DispatchAssumption
    <3> QED  BY <1>3, <2>1, <3>1, <3>2 DEF InStep, SignatureStatuses
  <2> QED  BY <1>2, <2>1, <2>2, ShownFor DEF InStep
<1> QED  BY <1>1, <1>2, <1>4, <1>5, NoticeReads

LEMMA WebhookFailsStep == ASSUME Inv, WebhookFails PROVE Inv'
<1>1. Idle.pc = "idle"  BY DEF Idle
<1>2. NoticeKnows'  BY <1>1 DEF WebhookFails, NoticeKnows
<1> QED  BY <1>1, <1>2, NoticeReads DEF WebhookFails

\* A reconcile reads, asks DocuSign or gives up.
LEMMA ReconcileReads ==
    ASSUME Inv, NEW r \in Reconcilers,
           NEW h \in Inspecting \cup Inspected \cup Applying \cup {Idle},
           reconciler' = [reconciler EXCEPT ![r] = h],
           UNCHANGED <<rows, docusign, sender, webhook>>,
           reconciled => reconciled', reconciled' \in BOOLEAN,
           h.pc # "idle" => reconciled' /\ signature[h.contract] # NoSignature,
           h.pc \in {"inspected", "applying"} =>
              h.envelope = h.contract /\ h.status \in envelope[h.contract]
    PROVE  Inv'
<1>1. /\ Lasting /\ \A d \in Contracts : (Filed(d) /\ Truthful(d))'
      /\ \A d \in Contracts : InStep(d) => InStep(d)'
  BY RowsStay
<1>2. (\A s \in Senders : SenderKnows(s)') /\ NoticeKnows'
  BY <1>1, SendersStay, NoticeLasts DEF docusign
<1>3. TypeOK'  BY DEF Inv, TypeOK, rows, docusign
<1>4. Quiet'  BY <1>1 DEF Inv, Quiet, rows
<1>5. ASSUME NEW q \in Reconcilers PROVE ReconcileKnows(q)'
  <2>1. CASE q = r
    <3>1. reconciler'[q] = h  BY <2>1 DEF Inv, TypeOK
    <3> QED  BY <3>1 DEF ReconcileKnows, rows, docusign
  <2>2. CASE q # r
    <3>1. reconciler'[q] = reconciler[q]  BY <2>2 DEF Inv, TypeOK
    <3> QED  BY <1>1, <3>1, ReconcileLasts
  <2> QED  BY <2>1, <2>2
<1> QED  BY <1>1, <1>2, <1>3, <1>4, <1>5 DEF Inv

LEMMA ReconcileReadStep ==
    ASSUME Inv, NEW r \in Reconcilers, NEW c \in Contracts, NEW e \in Contracts \cup Foreign,
           ReconcileRead(r, c, e)
    PROVE  Inv'
<1> PICK h : h = [pc |-> "inspecting", contract |-> c, envelope |-> e,
                  seen |-> signature[c].status]
  OBVIOUS
<1>1. /\ reconciler' = [reconciler EXCEPT ![r] = h] /\ reconciled' = TRUE
      /\ UNCHANGED <<rows, docusign, sender, webhook>>
  BY DEF ReconcileRead
<1>2. signature[c] # NoSignature /\ signature[c] \in Signature
  BY SignatureRow DEF ReconcileRead, Bound, Inv
<1>3. h \in Inspecting /\ h.pc = "inspecting" /\ h.contract = c
  BY <1>2 DEF Inspecting, Signature
<1> QED  BY <1>1, <1>2, <1>3, ReconcileReads

LEMMA InspectStep == ASSUME Inv, NEW r \in Reconcilers, Inspect(r) PROVE Inv'
<1> PICK q, h : /\ q = reconciler[r]
                /\ h = [pc |-> "inspected", contract |-> reconciler[r].contract,
                        envelope |-> reconciler[r].envelope, seen |-> reconciler[r].seen,
                        status |-> Current(envelope[reconciler[r].envelope])]
  OBVIOUS
<1>1. /\ q \in Inspecting /\ q.pc = "inspecting" /\ q.envelope = q.contract
      /\ q.contract \in Contracts /\ envelope[q.contract] # {}
      /\ reconciler' = [reconciler EXCEPT ![r] = h]
      /\ UNCHANGED <<rows, docusign, sender, webhook, reconciled>>
  BY ReconcilerPc DEF Inspect, Inv, Inspecting
<1>2. envelope[q.contract] \in SUBSET EnvelopeStatuses /\ "sent" \in envelope[q.contract]
  BY <1>1 DEF Inv, TypeOK, Filed
<1>3. Current(envelope[q.contract]) \in envelope[q.contract]  BY <1>2, CurrentReached
<1>4. /\ h \in Inspected /\ h.pc = "inspected" /\ h.contract = q.contract
      /\ h.envelope = q.contract /\ h.status \in envelope[q.contract]
  BY <1>1, <1>2, <1>3 DEF Inspecting, Inspected
<1>5. reconciled /\ signature[q.contract] # NoSignature  BY <1>1 DEF Inv, ReconcileKnows
<1> QED  BY <1>1, <1>4, <1>5, ReconcileReads DEF Inv, TypeOK

LEMMA ReconcileLoadStep == ASSUME Inv, NEW r \in Reconcilers, ReconcileLoad(r) PROVE Inv'
<1> PICK q, h : /\ q = reconciler[r]
                /\ h = [pc |-> "applying", contract |-> reconciler[r].contract,
                        envelope |-> reconciler[r].envelope, seen |-> reconciler[r].seen,
                        status |-> reconciler[r].status,
                        row |-> contract[reconciler[r].contract]]
  OBVIOUS
<1>1. /\ q \in Inspected /\ q.pc = "inspected" /\ q.contract \in Contracts
      /\ reconciler' = [reconciler EXCEPT ![r] = h]
      /\ UNCHANGED <<rows, docusign, sender, webhook, reconciled>>
  BY ReconcilerPc DEF ReconcileLoad, Inv, Inspected
<1>2. /\ h \in Applying /\ h.pc = "applying" /\ h.contract = q.contract
      /\ h.envelope = q.envelope /\ h.status = q.status
  BY <1>1 DEF Inspected, Applying, Inv, TypeOK
<1>3. /\ reconciled /\ signature[q.contract] # NoSignature
      /\ q.envelope = q.contract /\ q.status \in envelope[q.contract]
  BY <1>1 DEF Inv, ReconcileKnows
<1> QED  BY <1>1, <1>2, <1>3, ReconcileReads DEF Inv, TypeOK

LEMMA ReconcileFailsStep == ASSUME Inv, NEW r \in Reconcilers, ReconcileFails(r) PROVE Inv'
<1>1. Idle.pc = "idle"  BY DEF Idle
<1> QED  BY <1>1, ReconcileReads DEF ReconcileFails, Inv, TypeOK

--------------------------------------------------------------------------------
(* Handlers that write the outcome.                                         *)

\* The row of c is left alone, or its status is written with the next revision.
Becomes(c, shown) ==
    \/ contract'[c] = contract[c]
    \/ contract'[c].status = shown /\ contract'[c].revision = contract[c].revision + 1

\* An outcome leaves the row alone; any other status is shown unless row shows it.
Shows(c, seen, row, shown) ==
    /\ seen \in Outcomes => contract' = contract
    /\ seen \notin Outcomes /\ shown = row.status => contract'[c] = contract[c]
    /\ seen \notin Outcomes /\ shown # row.status => contract'[c].status = shown

LEMMA OutcomeWritten ==
    ASSUME TypeOK, NEW c \in Contracts, NEW seen, NEW row \in Row, NEW status \in EnvelopeStatuses,
           ApplyStatus(c, seen, row, status)
    PROVE  /\ contract' \in [Contracts -> Row]
           /\ \A d \in Contracts : d # c => contract'[d] = contract[d]
           /\ Becomes(c, ContractStatusFor[status])
           /\ Shows(c, seen, row, ContractStatusFor[status])
<1>1. CASE seen \in Outcomes  BY <1>1 DEF ApplyStatus, TypeOK, Becomes, Shows
<1>2. CASE seen \notin Outcomes
  <2>1. ContractStatusFor[status] \in ContractStatuses  BY ShownFor DEF ContractStatuses
  <2>2. Write(c, row, ContractStatusFor[status])  BY <1>2 DEF ApplyStatus
  <2> HIDE DEF ContractStatusFor
  <2> QED  BY <1>2, <2>1, <2>2, Written DEF Becomes, Shows
<1> QED  BY <1>1, <1>2

\* A status that the envelope of c has reached is written to c and its request.
LEMMA Applied ==
    ASSUME Inv, NEW c \in Contracts, signature[c] # NoSignature,
           NEW status \in EnvelopeStatuses, status \in envelope[c],
           NEW x \in Signature, x.envelope \in {c, signature[c].envelope},
           x.status \in {signature[c].status, status},
           signature' = [signature EXCEPT ![c] = x],
           contract' \in [Contracts -> Row],
           \A d \in Contracts : d # c => contract'[d] = contract[d],
           Becomes(c, ContractStatusFor[status]),
           UNCHANGED <<docusign, sender, reconciled>>
    PROVE  /\ Lasting
           /\ \A d \in Contracts : (Filed(d) /\ Truthful(d))'
           /\ \A s \in Senders : SenderKnows(s)'
           /\ signature' \in [Contracts -> Signature \cup {NoSignature}]
<1>1. x # NoSignature
  BY DEF Signature, NoSignature, SignatureStatuses, EnvelopeStatuses, Outcomes
<1>2. signature[c].envelope \in {c, Unknown} /\ Filed(c) /\ Truthful(c)  BY DEF Inv, Filed
<1>3. /\ signature' \in [Contracts -> Signature \cup {NoSignature}] /\ signature'[c] = x
      /\ \A d \in Contracts : d # c => signature'[d] = signature[d]
  BY DEF Inv, TypeOK
<1>4. Lasting  BY <1>1, <1>2, <1>3 DEF Lasting, Becomes, docusign
<1>5. /\ ContractStatusFor[status] # "approved"
      /\ ContractStatusFor[status] = "signed" <=> status = "completed"
      /\ ContractStatusFor[status] = "signature_declined" <=> status \in {"declined", "voided"}
  BY ShownFor
<1> HIDE DEF ContractStatusFor
<1>6. ASSUME NEW d \in Contracts PROVE (Filed(d) /\ Truthful(d))'
  <2>1. CASE d = c
    <3>1. contract'[c].status \in {contract[c].status, ContractStatusFor[status]}  BY DEF Becomes
    <3>2. Filed(c)'  BY <1>1, <1>2, <1>3, <1>5, <3>1 DEF Filed, docusign
    <3>3. Truthful(c)'  BY <1>2, <1>3, <1>5, <3>1 DEF Truthful, docusign
    <3> QED  BY <2>1, <3>2, <3>3
  <2>2. CASE d # c  BY <1>3, <2>2 DEF Inv, Filed, Truthful, docusign
  <2> QED  BY <2>1, <2>2
<1>7. \A s \in Senders : SenderKnows(s)'  BY <1>4, SendersStay DEF docusign
<1> QED  BY <1>3, <1>4, <1>6, <1>7

LEMMA WebhookCommitStep == ASSUME Inv, WebhookCommit PROVE Inv'
<1> PICK c, q : c = webhook.contract /\ q = webhook  OBVIOUS
<1> PICK status : status = webhook.notice.status  OBVIOUS
<1>1. /\ q \in NoticeLoaded /\ q.pc = "loaded" /\ c \in Contracts /\ q.row \in Row
      /\ q.notice \in Notices /\ status \in EnvelopeStatuses /\ q.seen \in SignatureStatuses
  BY WebhookPc DEF WebhookCommit, Inv, NoticeLoaded, Notices
<1>2. /\ status \in envelope[c] /\ signature[c] # NoSignature /\ signature[c].envelope = c
      /\ signature[c] \in Signature
  BY <1>1, SignatureRow DEF Inv, NoticeKnows
<1>3. /\ ApplyStatus(c, q.seen, q.row, status) /\ webhook' = Idle
      /\ events' = events \cup {q.notice}
      /\ UNCHANGED <<docusign, sender, reconciler, reconciled>>
  BY DEF WebhookCommit
<1>x. PICK x : x = [signature[c] EXCEPT !.status = StatusWritten(c, q.seen, status)]  OBVIOUS
<1>4. signature' = [signature EXCEPT ![c] = x]  BY <1>x, Zenon DEF WebhookCommit
<1>5. PICK y : y = StatusWritten(c, q.seen, status)  OBVIOUS
<1>6. /\ y \in {signature[c].status, status}
      /\ y = IF q.seen \in Outcomes \/ status = q.seen THEN signature[c].status ELSE status
      /\ y \in SignatureStatuses
  BY <1>1, <1>2, <1>5 DEF StatusWritten, SignatureStatuses, Signature
<1>7. x \in Signature /\ x.envelope = c /\ x.status = y
  BY <1>2, <1>x, <1>5, <1>6 DEF Signature
<1>8. /\ contract' \in [Contracts -> Row]
      /\ \A d \in Contracts : d # c => contract'[d] = contract[d]
      /\ Becomes(c, ContractStatusFor[status])
      /\ Shows(c, q.seen, q.row, ContractStatusFor[status])
  BY <1>1, <1>3, OutcomeWritten DEF Inv
<1>9. /\ Lasting /\ \A d \in Contracts : (Filed(d) /\ Truthful(d))'
      /\ \A s \in Senders : SenderKnows(s)'
      /\ signature' \in [Contracts -> Signature \cup {NoSignature}]
  BY <1>1, <1>2, <1>3, <1>4, <1>6, <1>7, <1>8, Applied
<1>10. NoticeKnows' /\ \A r \in Reconcilers : ReconcileKnows(r)'
  BY <1>3, <1>9, ReconcileLasts DEF NoticeKnows, Idle
<1>11. TypeOK'  BY <1>1, <1>3, <1>8, <1>9 DEF Inv, TypeOK, docusign
<1>12. Quiet'
  <2> SUFFICES ASSUME ~reconciled PROVE Quiet'  BY <1>3 DEF Quiet
  <2>1. /\ InStep(c) /\ q.seen = signature[c].status
        /\ q.seen \notin Outcomes => q.row.status = "signature_pending"
    BY <1>1 DEF Inv, Quiet
  <2>2. /\ signature'[c] = x
        /\ \A d \in Contracts : d # c => signature'[d] = signature[d]
    BY <1>1, <1>4 DEF Inv, TypeOK
  <2>3. q.seen \in EnvelopeStatuses
    BY <1>1, <1>2, <2>1, DispatchAssumption DEF InStep, SignatureStatuses
  <2>4. InStep(c)'
    <3>1. y \in EnvelopeStatuses /\ y \notin {"dispatching", "dispatch_uncertain"}
      BY <1>1, <1>6, <2>1, <2>3 DEF EnvelopeStatuses, Outcomes
    <3>2. CASE q.seen \in Outcomes
      BY <1>6, <1>7, <1>8, <2>1, <2>2, <2>3, <3>1, <3>2 DEF InStep, Shows
    <3>3. CASE q.seen \notin Outcomes
      <4>1. ContractStatusFor[q.seen] = "signature_pending"  BY <2>3, <3>3, ShownFor
      <4>2. contract[c].status = "signature_pending"
        BY <2>1, <2>3, <3>3, <4>1 DEF InStep
      <4>3. contract'[c].status = ContractStatusFor[y]
        BY <1>6, <1>8, <2>1, <3>3, <4>1, <4>2 DEF Shows
      <4> QED  BY <1>7, <2>2, <3>1, <4>3 DEF InStep
    <3> QED  BY <3>2, <3>3
  <2>5. \A d \in Contracts : InStep(d)'
    BY <1>8, <2>2, <2>4 DEF Inv, Quiet, InStep
  <2>6. \A s \in Senders : sender[s].pc \in Called =>
          sender[s].contract \in Contracts /\ sender[s].contract # c
    <3> SUFFICES ASSUME NEW s \in Senders, sender[s].pc \in Called
                 PROVE  sender[s].contract \in Contracts /\ sender[s].contract # c
      OBVIOUS
    <3>1. sender[s].contract \in Contracts  BY SenderPc DEF Inv, Called, Sending
    <3>2. signature[sender[s].contract].status = "dispatching"  BY DEF Inv, Quiet
    <3> QED  BY <2>1, <2>3, <3>1, <3>2 DEF EnvelopeStatuses, Outcomes
  <2> QED  BY <1>3, <2>2, <2>5, <2>6 DEF Inv, Quiet, Idle
<1> QED  BY <1>9, <1>10, <1>11, <1>12 DEF Inv

LEMMA ReconcileCommitStep == ASSUME Inv, NEW r \in Reconcilers, ReconcileCommit(r) PROVE Inv'
<1> PICK c, q : c = reconciler[r].contract /\ q = reconciler[r]  OBVIOUS
<1> PICK status : status = reconciler[r].status  OBVIOUS
<1>1. /\ q \in Applying /\ q.pc = "applying" /\ c \in Contracts /\ q.row \in Row
      /\ status \in EnvelopeStatuses
  BY ReconcilerPc DEF ReconcileCommit, Inv, Applying
<1>2. /\ reconciled /\ signature[c] # NoSignature /\ q.envelope = c /\ status \in envelope[c]
      /\ signature[c] \in Signature
  BY <1>1, SignatureRow DEF Inv, ReconcileKnows
<1> PICK y : y = StatusWritten(c, q.seen, status)  OBVIOUS
<1> PICK x : x = [status |-> y, envelope |-> q.envelope]  OBVIOUS
<1>3. /\ ApplyStatus(c, q.seen, q.row, status) /\ signature' = [signature EXCEPT ![c] = x]
      /\ reconciler' = [reconciler EXCEPT ![r] = Idle]
      /\ UNCHANGED <<events, docusign, sender, webhook, reconciled>>
  BY DEF ReconcileCommit
<1>4. y \in {signature[c].status, status} /\ y \in SignatureStatuses
  BY <1>1, <1>2 DEF StatusWritten, SignatureStatuses, Signature
<1>5. x \in Signature /\ x.envelope = c /\ x.status = y  BY <1>1, <1>2, <1>4 DEF Signature
<1>6. /\ contract' \in [Contracts -> Row]
      /\ \A d \in Contracts : d # c => contract'[d] = contract[d]
      /\ Becomes(c, ContractStatusFor[status])
  BY <1>1, <1>3, OutcomeWritten DEF Inv
<1>7. /\ Lasting /\ \A d \in Contracts : (Filed(d) /\ Truthful(d))'
      /\ \A s \in Senders : SenderKnows(s)'
      /\ signature' \in [Contracts -> Signature \cup {NoSignature}]
  BY <1>1, <1>2, <1>3, <1>4, <1>5, <1>6, Applied
<1>8. NoticeKnows'  BY <1>3, <1>7, NoticeLasts
<1>9. ASSUME NEW t \in Reconcilers PROVE ReconcileKnows(t)'
  <2>1. CASE t = r
    <3>1. reconciler'[t] = Idle  BY <1>3, <2>1 DEF Inv, TypeOK
    <3> QED  BY <3>1 DEF ReconcileKnows, Idle
  <2>2. CASE t # r
    <3>1. reconciler'[t] = reconciler[t]  BY <1>3, <2>2 DEF Inv, TypeOK
    <3> QED  BY <1>7, <3>1, ReconcileLasts
  <2> QED  BY <2>1, <2>2
<1>10. TypeOK'  BY <1>3, <1>6, <1>7 DEF Inv, TypeOK, docusign
<1>11. Quiet'  BY <1>2, <1>3 DEF Quiet
<1> QED  BY <1>7, <1>8, <1>9, <1>10, <1>11 DEF Inv

LEMMA ArchiveStep == ASSUME Inv, NEW c \in Contracts, Archive(c) PROVE Inv'
<1>1. /\ contract[c].status \in {"approved", "signed", "signature_declined"}
      /\ Write(c, contract[c], "archived") /\ UNCHANGED <<signature, events, docusign, handlers>>
  BY DEF Archive
<1>2. /\ contract' \in [Contracts -> Row]
      /\ \A d \in Contracts : d # c => contract'[d] = contract[d]
      /\ contract'[c].status = "archived" /\ contract'[c].revision = contract[c].revision + 1
  BY <1>1, Written DEF Inv, TypeOK, ContractStatuses
<1>3. Lasting  BY <1>1, <1>2 DEF Lasting, docusign, handlers
<1>4. ASSUME NEW d \in Contracts PROVE (Filed(d) /\ Truthful(d))'
  <2>1. Filed(d) /\ Truthful(d)  BY DEF Inv
  <2> QED  BY <1>1, <1>2, <2>1 DEF Filed, Truthful, docusign
<1>5. TypeOK'  BY <1>1, <1>2 DEF Inv, TypeOK, docusign, handlers
<1>6. /\ \A s \in Senders : SenderKnows(s)'
      /\ NoticeKnows'
      /\ \A r \in Reconcilers : ReconcileKnows(r)'
  BY <1>1, <1>3, SendersStay, NoticeLasts, ReconcileLasts DEF docusign, handlers
<1>7. Quiet'
  <2> SUFFICES ASSUME ~reconciled PROVE Quiet'  BY <1>1 DEF Quiet, handlers
  <2>1. InStep(c)'
    <3>1. InStep(c) /\ Filed(c)  BY DEF Inv, Quiet
    <3>2. signature[c].status \in EnvelopeStatuses => signature[c].status \in Outcomes
      BY <1>1, <3>1, ShownFor, SignatureRow DEF InStep, Filed, Inv
    <3>3. signature[c].status \notin {"dispatching", "dispatch_uncertain"}
      BY <1>1, <3>1 DEF InStep
    <3> QED  BY <1>1, <1>2, <3>1, <3>2, <3>3 DEF InStep
  <2>2. \A d \in Contracts : InStep(d)'  BY <1>1, <1>2, <2>1 DEF Inv, Quiet, InStep
  <2> QED  BY <1>1, <2>2 DEF Inv, Quiet, handlers
<1> QED  BY <1>4, <1>5, <1>6, <1>7 DEF Inv

--------------------------------------------------------------------------------
(* The invariant holds.                                                     *)

LEMMA Initially == Init => Inv
<1> SUFFICES ASSUME Init PROVE Inv  OBVIOUS
<1>1. NoSignature.status = "none" /\ Idle.pc = "idle"  BY DEF NoSignature, Idle
<1>2. TypeOK
  <2>1. 3 \in Nat  OBVIOUS
  <2>2. contract \in [Contracts -> Row]  BY <2>1 DEF Init, Row, ContractStatuses
  <2>3. envelope \in [Contracts \cup Foreign -> SUBSET EnvelopeStatuses]
    BY DEF Init, EnvelopeStatuses, Outcomes
  <2> QED  BY <2>2, <2>3 DEF Init, TypeOK
<1>3. \A c \in Contracts :
        /\ contract[c].status = "approved" /\ signature[c] = NoSignature
        /\ posts[c] = 0 /\ c \notin posted /\ envelope[c] = {}
  BY DEF Init
<1>4. \A c \in Contracts : Filed(c) /\ Truthful(c)
  BY <1>1, <1>3 DEF Filed, Truthful, EnvelopeStatuses, Outcomes
<1>5. /\ \A s \in Senders : sender[s].pc = "idle"
      /\ webhook.pc = "idle"
      /\ \A r \in Reconcilers : reconciler[r].pc = "idle"
  BY <1>1 DEF Init
<1>6. /\ \A s \in Senders : SenderKnows(s)
      /\ NoticeKnows
      /\ \A r \in Reconcilers : ReconcileKnows(r)
  BY <1>5 DEF SenderKnows, Called, NoticeKnows, ReconcileKnows
<1>7. Quiet
  BY <1>1, <1>3, <1>5 DEF Quiet, InStep, Called, EnvelopeStatuses, Outcomes
<1> QED  BY <1>2, <1>4, <1>6, <1>7 DEF Inv

LEMMA Stutter == ASSUME Inv, UNCHANGED vars PROVE Inv'
<1> USE DEF vars, rows, docusign, handlers
<1>1. TypeOK'  BY DEF Inv, TypeOK
<1>2. \A c \in Contracts : (Filed(c) /\ Truthful(c))'  BY DEF Inv, Filed, Truthful
<1>3. \A s \in Senders : SenderKnows(s)'  BY DEF Inv, SenderKnows
<1>4. NoticeKnows' /\ \A r \in Reconcilers : ReconcileKnows(r)'
  BY DEF Inv, NoticeKnows, ReconcileKnows
<1>5. Quiet'  BY DEF Inv, Quiet, InStep
<1> QED  BY <1>1, <1>2, <1>3, <1>4, <1>5 DEF Inv

LEMMA Steps == Inv /\ [Next]_vars => Inv'
<1> SUFFICES ASSUME Inv, [Next]_vars PROVE Inv'  OBVIOUS
<1>1. CASE UNCHANGED vars  BY <1>1, Stutter
<1>2. CASE Next
  BY <1>2, LoadForSendStep, ReserveStep, PostStep, ConfirmStep, UncertainStep,
     SenderFailsStep, AcceptStep, LoseStep, ProgressStep, WebhookReadStep,
     WebhookLoadStep, WebhookCommitStep, WebhookFailsStep, ReconcileReadStep,
     InspectStep, ReconcileLoadStep, ReconcileCommitStep, ReconcileFailsStep, ArchiveStep
  DEF Next
<1> QED  BY <1>1, <1>2

LEMMA InvariantHolds == Spec => []Inv
BY Initially, Steps, PTL DEF Spec

\* What the invariant says of the rows.
LEMMA InvariantRows ==
    ASSUME Inv
    PROVE  OneEnvelope /\ EnvelopeOnRecord /\ TruthfulOutcome /\ RowsInStep
<1>1. OneEnvelope  BY DEF Inv, Filed, OneEnvelope
<1>2. EnvelopeOnRecord  BY DEF Inv, Filed, EnvelopeOnRecord
<1>3. TruthfulOutcome  BY DEF Inv, Truthful, TruthfulOutcome
<1>4. RowsInStep  BY DEF Inv, Quiet, InStep, RowsInStep
<1> QED  BY <1>1, <1>2, <1>3, <1>4

--------------------------------------------------------------------------------
(* The archive.                                                             *)

StaysArchived(c) ==
    contract[c].status = "archived" /\ ~reconciled => contract'[c].status = "archived"

LEMMA ReserveArchive ==
    ASSUME Inv, NEW s \in Senders, Reserve(s), NEW c \in Contracts PROVE StaysArchived(c)
<1> PICK q, d, row : /\ q = sender[s] /\ d = sender[s].contract
                     /\ row = [status |-> "approved", revision |-> sender[s].revision]
  OBVIOUS
<1>1. q \in Sending /\ q.pc = "loaded" /\ d \in Contracts /\ q.revision \in Nat
  BY SenderPc DEF Reserve, Inv, Sending
<1>2. Write(d, row, "sending")  BY DEF Reserve
<1>3. row \in Row /\ row.revision = q.revision  BY <1>1 DEF Row, ContractStatuses
<1>4. "sending" \in ContractStatuses /\ row.status # "sending"  BY DEF ContractStatuses
<1>5. /\ \A e \in Contracts : e # d => contract'[e] = contract[e]
      /\ contract[d].revision = q.revision
  BY <1>1, <1>2, <1>3, <1>4, Written DEF Inv
<1>6. contract[d].status = "approved"  BY <1>1, <1>5 DEF Inv, SenderKnows
<1> QED  BY <1>5, <1>6 DEF StaysArchived

LEMMA ConfirmArchive ==
    ASSUME Inv, NEW s \in Senders, Confirm(s), NEW c \in Contracts PROVE StaysArchived(c)
<1> PICK q, d, row : /\ q = sender[s] /\ d = sender[s].contract
                     /\ row = [status |-> "sending", revision |-> sender[s].revision]
  OBVIOUS
<1>1. q \in Sending /\ q.pc = "waiting" /\ d \in Contracts /\ q.revision \in Nat
  BY SenderPc DEF Confirm, Inv, Sending
<1>2. Write(d, row, "signature_pending")  BY DEF Confirm
<1>3. row \in Row /\ "signature_pending" \in ContractStatuses
  BY <1>1 DEF Row, ContractStatuses
<1>4. \A e \in Contracts : e # d => contract'[e] = contract[e]
  BY <1>1, <1>2, <1>3, Written DEF Inv
<1>5. ~reconciled => contract[d].status = "sending"
  BY <1>1 DEF Inv, Quiet, InStep, Called
<1> QED  BY <1>4, <1>5 DEF StaysArchived

LEMMA WebhookArchive ==
    ASSUME Inv, WebhookCommit, NEW c \in Contracts PROVE StaysArchived(c)
<1> PICK q, d, status : q = webhook /\ d = webhook.contract /\ status = webhook.notice.status
  OBVIOUS
<1>1. /\ q \in NoticeLoaded /\ q.pc = "loaded" /\ d \in Contracts /\ q.row \in Row
      /\ status \in EnvelopeStatuses /\ q.seen \in SignatureStatuses
  BY WebhookPc DEF WebhookCommit, Inv, NoticeLoaded, Notices
<1>2. ApplyStatus(d, q.seen, q.row, status)  BY DEF WebhookCommit
<1>3. /\ \A e \in Contracts : e # d => contract'[e] = contract[e]
      /\ Shows(d, q.seen, q.row, ContractStatusFor[status])
  BY <1>1, <1>2, OutcomeWritten DEF Inv
<1>4. CASE q.seen \in Outcomes  BY <1>3, <1>4 DEF Shows, StaysArchived
<1>5. CASE q.seen \notin Outcomes /\ ~reconciled
  <2>1. InStep(d) /\ q.seen = signature[d].status /\ signature[d].envelope = d
    BY <1>1, <1>5 DEF Inv, Quiet, NoticeKnows
  <2>2. contract[d].status # "archived"
    BY <1>1, <1>5, <2>1, ShownFor, DispatchAssumption DEF InStep, SignatureStatuses
  <2> QED  BY <1>3, <2>2 DEF StaysArchived
<1> QED  BY <1>4, <1>5 DEF StaysArchived

LEMMA ArchiveSteps == Inv /\ [Next]_vars => \A c \in Contracts : StaysArchived(c)
<1> SUFFICES ASSUME Inv, [Next]_vars, NEW c \in Contracts PROVE StaysArchived(c)
  OBVIOUS
<1>1. CASE UNCHANGED contract  BY <1>1 DEF StaysArchived
<1>2. CASE \E s \in Senders : Reserve(s)  BY <1>2, ReserveArchive
<1>3. CASE \E s \in Senders : Confirm(s)  BY <1>3, ConfirmArchive
<1>4. CASE WebhookCommit  BY <1>4, WebhookArchive
<1>5. CASE \E r \in Reconcilers : ReconcileCommit(r)
  BY <1>5 DEF ReconcileCommit, Inv, ReconcileKnows, StaysArchived
<1>6. CASE \E d \in Contracts : Archive(d)
  BY <1>6 DEF Archive, Write, Inv, TypeOK, StaysArchived
<1> QED
  BY <1>1, <1>2, <1>3, <1>4, <1>5, <1>6
  DEF Next, vars, rows, LoadForSend, Post, Uncertain, SenderFails, Accept, Lose, Progress,
      WebhookRead, WebhookLoad, WebhookFails, ReconcileRead, Inspect, ReconcileLoad,
      ReconcileFails

--------------------------------------------------------------------------------
(* The theorems.                                                            *)

\* Every row and every handler is of its type, whatever the number of handlers and the
\* order of notices.
THEOREM DispatchTypeCorrect == Spec => []TypeOK
BY InvariantHolds, PTL DEF Inv

\* DocuSign is asked at most once to create an envelope for a contract (send_signature
\* commits its reservation before the call and never repeats the call).
THEOREM OneEnvelopeEach == Spec => []OneEnvelope
BY InvariantHolds, InvariantRows, PTL

\* What DocuSign may hold has a signature request that reconcile can find.
THEOREM EnvelopesOnRecord == Spec => []EnvelopeOnRecord
BY InvariantHolds, InvariantRows, PTL

\* An outcome that is shown was reached by the envelope of that contract, though handlers
\* write from copies that may be old (apply_signature_status, inspect).
THEOREM OutcomesTruthful == Spec => []TruthfulOutcome
BY InvariantHolds, InvariantRows, PTL

\* Until somebody reconciles, a contract and its signature request agree.
THEOREM RowsStayInStep == Spec => []RowsInStep
BY InvariantHolds, InvariantRows, PTL

\* No late or repeated notice brings a contract back from the archive.
THEOREM ArchivedForGood == Spec => ArchiveIsFinal
<1>1. Inv /\ [Next]_vars =>
        [\A c \in Contracts :
           contract[c].status = "archived" /\ ~reconciled =>
              contract'[c].status = "archived"]_vars
  BY ArchiveSteps DEF StaysArchived
<1> QED  BY <1>1, InvariantHolds, PTL DEF Spec, ArchiveIsFinal

--------------------------------------------------------------------------------
(* The refinement: every step is one step of the protocol of signing, or none. *)

LEMMA SeenContract ==
    ASSUME NEW c \in Contracts
    PROVE  /\ Shown[c] = contract[c].status /\ Reached[c] = envelope[c]
           /\ c \in Requested <=> signature[c] # NoSignature
BY DEF Shown, Reached, Requested

\* A change of one row is a change of one contract's status.
LEMMA ShownChanges ==
    ASSUME NEW c \in Contracts, \A d \in Contracts : d # c => contract'[d] = contract[d]
    PROVE  Shown' = [Shown EXCEPT ![c] = contract'[c].status]
BY DEF Shown

LEMMA ReachedChanges ==
    ASSUME TypeOK, NEW c \in Contracts, NEW reached, envelope' = [envelope EXCEPT ![c] = reached]
    PROVE  Reached' = [Reached EXCEPT ![c] = reached]
BY DEF Reached, TypeOK

LEMMA SeenAlike ==
    ASSUME UNCHANGED <<contract, envelope, reconciled>>,
           \A c \in Contracts : (signature'[c] = NoSignature <=> signature[c] = NoSignature)
    PROVE  UNCHANGED Signing!vars
<1>1. Shown' = Shown /\ Reached' = Reached  BY DEF Shown, Reached
<1>2. Requested' = Requested  BY DEF Requested
<1> QED  BY <1>1, <1>2 DEF Signing!vars

\* A handler writes a status that the envelope has reached, or leaves the row alone.
LEMMA Followed ==
    ASSUME NEW c \in Contracts, signature[c] # NoSignature, signature'[c] # NoSignature,
           \A d \in Contracts : d # c =>
              contract'[d] = contract[d] /\ signature'[d] = signature[d],
           UNCHANGED <<envelope, reconciled>>,
           NEW status \in EnvelopeStatuses, status \in envelope[c],
           contract'[c].status \in {contract[c].status, ContractStatusFor[status]},
           contract'[c].status # contract[c].status =>
              contract[c].status \in {"sending", "signature_pending"} \/ reconciled
    PROVE  Signing!Next \/ UNCHANGED Signing!vars
<1> HIDE DEF ContractStatusFor
<1>1. Requested' = Requested  BY DEF Requested
<1>2. Reached' = Reached  BY DEF Reached
<1>3. Shown' = [Shown EXCEPT ![c] = contract'[c].status]  BY ShownChanges
<1>4. CASE contract'[c].status = contract[c].status
  <2>1. Shown' = Shown  BY <1>3, <1>4 DEF Shown
  <2> QED  BY <1>1, <1>2, <2>1 DEF Signing!vars
<1>5. CASE contract'[c].status # contract[c].status
  <2>1. Signing!Show(c, status)
    BY <1>1, <1>2, <1>3, <1>5, SeenContract DEF Signing!Show
  <2> QED  BY <2>1 DEF Signing!Next
<1> QED  BY <1>4, <1>5

\* Whoever reserves found the contract approved and without a request.
LEMMA ReserveSends ==
    ASSUME Inv, NEW s \in Senders, Reserve(s)
    PROVE  \E c \in Contracts : Signing!Send(c)
<1> PICK q, c, row : /\ q = sender[s] /\ c = sender[s].contract
                     /\ row = [status |-> "approved", revision |-> sender[s].revision]
  OBVIOUS
<1>1. /\ q \in Sending /\ q.pc = "loaded" /\ c \in Contracts /\ q.revision \in Nat
      /\ signature[c] = NoSignature
  BY SenderPc DEF Reserve, Inv, Sending
<1>2. Write(c, row, "sending")  BY DEF Reserve
<1>3. row \in Row /\ row.revision = q.revision  BY <1>1 DEF Row, ContractStatuses
<1>4. "sending" \in ContractStatuses /\ row.status # "sending"  BY DEF ContractStatuses
<1>5. /\ \A d \in Contracts : d # c => contract'[d] = contract[d]
      /\ contract[c].revision = q.revision /\ contract'[c].status = "sending"
  BY <1>1, <1>2, <1>3, <1>4, Written DEF Inv
<1>6. contract[c].status = "approved"  BY <1>1, <1>5 DEF Inv, SenderKnows
<1>7. Requested' = Requested \cup {c}
  <2>1. PICK x : x = [status |-> "dispatching", envelope |-> Unknown]  OBVIOUS
  <2>2. x # NoSignature  BY <2>1 DEF NoSignature
  <2>3. signature' = [signature EXCEPT ![c] = x]  BY <2>1 DEF Reserve
  <2>4. \A d \in Contracts : signature'[d] = IF d = c THEN x ELSE signature[d]
    BY <2>3 DEF Inv, TypeOK
  <2> QED  BY <1>1, <2>2, <2>4 DEF Requested
<1>8. Reached' = Reached /\ reconciled' = reconciled
  BY DEF Reserve, Reached, docusign
<1>9. Shown' = [Shown EXCEPT ![c] = "sending"]  BY <1>1, <1>5, ShownChanges
<1>10. Signing!Send(c)  BY <1>1, <1>6, <1>7, <1>8, <1>9, SeenContract DEF Signing!Send
<1> QED  BY <1>1, <1>10

LEMMA ConfirmShows ==
    ASSUME Inv, NEW s \in Senders, Confirm(s)
    PROVE  Signing!Next \/ UNCHANGED Signing!vars
<1> PICK q, c, row : /\ q = sender[s] /\ c = sender[s].contract
                     /\ row = [status |-> "sending", revision |-> sender[s].revision]
  OBVIOUS
<1>1. /\ q \in Sending /\ q.pc = "waiting" /\ c \in Contracts /\ q.revision \in Nat
  BY SenderPc DEF Confirm, Inv, Sending
<1>2. Write(c, row, "signature_pending")  BY DEF Confirm
<1>3. row \in Row /\ row.status = "sending" /\ "signature_pending" \in ContractStatuses
  BY <1>1 DEF Row, ContractStatuses
<1>4. /\ \A d \in Contracts : d # c => contract'[d] = contract[d]
      /\ contract'[c].status = "signature_pending"
  BY <1>1, <1>2, <1>3, Written DEF Inv
<1>5. ~reconciled => contract[c].status = "sending"
  BY <1>1 DEF Inv, Quiet, InStep, Called
<1>6. /\ "sent" \in EnvelopeStatuses /\ ContractStatusFor["sent"] = "signature_pending"
      /\ "sent" \in envelope[c]
  <2>1. "sent" \in EnvelopeStatuses /\ "sent" \notin Outcomes  BY DEF EnvelopeStatuses, Outcomes
  <2>2. "sent" \in envelope[c]  BY <1>1 DEF Confirm, Inv, Filed
  <2> QED  BY <2>1, <2>2, ShownFor
<1>7. signature[c] # NoSignature  BY <1>1 DEF Inv, SenderKnows, Called
<1>8. /\ signature'[c] # NoSignature
      /\ \A d \in Contracts : d # c => signature'[d] = signature[d]
  <2>1. PICK x : x = [status |-> "sent", envelope |-> c]  OBVIOUS
  <2>2. x # NoSignature  BY <2>1 DEF NoSignature
  <2>3. signature' = [signature EXCEPT ![c] = x]  BY <2>1 DEF Confirm
  <2> QED  BY <1>1, <2>2, <2>3 DEF Inv, TypeOK
<1>9. UNCHANGED <<envelope, reconciled>>  BY DEF Confirm, docusign
<1> HIDE DEF ContractStatusFor
<1> QED  BY <1>1, <1>4, <1>5, <1>6, <1>7, <1>8, <1>9, Followed

\* Until somebody reconciles, a notice that is applied found the contract pending.
LEMMA NoticeShows ==
    ASSUME Inv, WebhookCommit
    PROVE  Signing!Next \/ UNCHANGED Signing!vars
<1> PICK q, c, status : q = webhook /\ c = webhook.contract /\ status = webhook.notice.status
  OBVIOUS
<1>1. /\ q \in NoticeLoaded /\ q.pc = "loaded" /\ c \in Contracts /\ q.row \in Row
      /\ status \in EnvelopeStatuses /\ q.seen \in SignatureStatuses
  BY WebhookPc DEF WebhookCommit, Inv, NoticeLoaded, Notices
<1>2. ApplyStatus(c, q.seen, q.row, status)  BY DEF WebhookCommit
<1>3. /\ \A d \in Contracts : d # c => contract'[d] = contract[d]
      /\ Becomes(c, ContractStatusFor[status])
      /\ Shows(c, q.seen, q.row, ContractStatusFor[status])
  BY <1>1, <1>2, OutcomeWritten DEF Inv
<1>4. signature[c] # NoSignature /\ status \in envelope[c] /\ signature[c].envelope = c
  BY <1>1 DEF Inv, NoticeKnows
<1>5. ASSUME contract'[c].status # contract[c].status, ~reconciled
      PROVE  contract[c].status = "signature_pending"
  <2>1. q.seen \notin Outcomes  BY <1>3, <1>5 DEF Shows
  <2>2. InStep(c) /\ q.seen = signature[c].status
    BY <1>1, <1>5 DEF Inv, Quiet
  <2> QED
    BY <1>1, <1>4, <2>1, <2>2, ShownFor, DispatchAssumption DEF InStep, SignatureStatuses
<1>6. /\ signature'[c] # NoSignature
      /\ \A d \in Contracts : d # c => signature'[d] = signature[d]
  <2>1. signature' = [signature EXCEPT ![c].status = StatusWritten(c, q.seen, status)]
    BY DEF WebhookCommit
  <2>2. signature[c] \in Signature  BY <1>1, <1>4, SignatureRow DEF Inv
  <2>3. PICK x : x = [signature[c] EXCEPT !.status = StatusWritten(c, q.seen, status)]
    OBVIOUS
  <2>4. signature' = [signature EXCEPT ![c] = x]  BY <2>1, <2>3, Zenon
  <2>5. x.envelope = c  BY <1>4, <2>2, <2>3 DEF Signature
  <2>6. x.status = StatusWritten(c, q.seen, status)  BY <2>2, <2>3 DEF Signature
  <2>7. StatusWritten(c, q.seen, status) \in {signature[c].status, status}
    BY DEF StatusWritten
  <2>8. x.status # "none"
    BY <1>1, <1>4, <2>6, <2>7, SignatureRow
    DEF Inv, EnvelopeStatuses, Outcomes
  <2>9. x # NoSignature  BY <2>8 DEF NoSignature
  <2> QED  BY <1>1, <2>4, <2>9 DEF Inv, TypeOK
<1>7. UNCHANGED <<envelope, reconciled>>  BY DEF WebhookCommit, docusign
<1>8. contract'[c].status \in {contract[c].status, ContractStatusFor[status]}
  BY <1>3 DEF Becomes
<1> HIDE DEF ContractStatusFor
<1> QED  BY <1>1, <1>3, <1>4, <1>5, <1>6, <1>7, <1>8, Followed

LEMMA ReconcileShows ==
    ASSUME Inv, NEW r \in Reconcilers, ReconcileCommit(r)
    PROVE  Signing!Next \/ UNCHANGED Signing!vars
<1> PICK q, c, status : /\ q = reconciler[r] /\ c = reconciler[r].contract
                        /\ status = reconciler[r].status
  OBVIOUS
<1>1. /\ q \in Applying /\ q.pc = "applying" /\ c \in Contracts /\ q.row \in Row
      /\ status \in EnvelopeStatuses
  BY ReconcilerPc DEF ReconcileCommit, Inv, Applying
<1>2. ApplyStatus(c, q.seen, q.row, status)  BY DEF ReconcileCommit
<1>3. /\ \A d \in Contracts : d # c => contract'[d] = contract[d]
      /\ Becomes(c, ContractStatusFor[status])
  BY <1>1, <1>2, OutcomeWritten DEF Inv
<1>4. signature[c] # NoSignature /\ status \in envelope[c] /\ reconciled
  BY <1>1 DEF Inv, ReconcileKnows
<1>5. /\ signature'[c] # NoSignature
      /\ \A d \in Contracts : d # c => signature'[d] = signature[d]
  <2>1. PICK x : x = [status |-> StatusWritten(c, q.seen, status), envelope |-> q.envelope]
    OBVIOUS
  <2>2. x # NoSignature  BY <2>1 DEF NoSignature
  <2>3. signature' = [signature EXCEPT ![c] = x]  BY <2>1 DEF ReconcileCommit
  <2> QED  BY <1>1, <2>2, <2>3 DEF Inv, TypeOK
<1>6. UNCHANGED <<envelope, reconciled>>  BY DEF ReconcileCommit, docusign
<1>7. contract'[c].status \in {contract[c].status, ContractStatusFor[status]}
  BY <1>3 DEF Becomes
<1> HIDE DEF ContractStatusFor
<1> QED  BY <1>1, <1>3, <1>4, <1>5, <1>6, <1>7, Followed

LEMMA UncertainHides ==
    ASSUME Inv, NEW s \in Senders, Uncertain(s)
    PROVE  UNCHANGED Signing!vars
<1> PICK c : c = sender[s].contract  OBVIOUS
<1>1. c \in Contracts /\ signature[c] # NoSignature
  BY SenderPc DEF Uncertain, Inv, SenderKnows, Called, Sending
<1>2. PICK x : x = [signature[c] EXCEPT !.status = "dispatch_uncertain"]  OBVIOUS
<1>3. signature' = [signature EXCEPT ![c] = x]  BY <1>2 DEF Uncertain
<1>4. x.status = "dispatch_uncertain"
  BY <1>1, <1>2, SignatureRow DEF Inv, Signature
<1>5. x # NoSignature  BY <1>4 DEF NoSignature
<1>6. \A d \in Contracts : (signature'[d] = NoSignature <=> signature[d] = NoSignature)
  BY <1>1, <1>3, <1>5 DEF Inv, TypeOK
<1>7. UNCHANGED <<contract, envelope, reconciled>>  BY DEF Uncertain, docusign
<1> QED  BY <1>6, <1>7, SeenAlike

LEMMA AcceptAccepts ==
    ASSUME Inv, NEW c \in Contracts, Accept(c)
    PROVE  Signing!Accept(c)
<1>1. c \in Requested /\ Reached[c] = {}
  BY SeenContract DEF Accept, Inv, Filed
<1>2. Reached' = [Reached EXCEPT ![c] = {"sent"}]
  BY ReachedChanges DEF Accept, Inv
<1>3. UNCHANGED <<Shown, Requested, reconciled>>
  BY DEF Accept, rows, handlers, Shown, Requested
<1> QED  BY <1>1, <1>2, <1>3 DEF Signing!Accept

LEMMA ProgressProgresses ==
    ASSUME Inv, NEW c \in Contracts, NEW status \in EnvelopeStatuses, Progress(c, status)
    PROVE  Signing!Progress(c, status)
<1>1. Reached[c] = envelope[c] /\ envelope[c] # {} /\ envelope[c] \cap Outcomes = {}
  BY SeenContract DEF Progress
<1>2. envelope' = [envelope EXCEPT ![c] = envelope[c] \cup {status}]  BY DEF Progress
<1>3. Reached' = [Reached EXCEPT ![c] = envelope[c] \cup {status}]
  BY <1>2, ReachedChanges DEF Inv
<1>4. Reached' = [Reached EXCEPT ![c] = @ \cup {status}]  BY <1>1, <1>3
<1>5. UNCHANGED <<Shown, Requested, reconciled>>
  BY DEF Progress, rows, handlers, Shown, Requested
<1> QED  BY <1>1, <1>4, <1>5 DEF Signing!Progress

LEMMA ArchiveArchives ==
    ASSUME Inv, NEW c \in Contracts, Archive(c)
    PROVE  Signing!Archive(c)
<1>1. contract[c] \in Row /\ "archived" \in ContractStatuses
  BY DEF Inv, TypeOK, ContractStatuses
<1>2. /\ contract[c].status \in {"approved", "signed", "signature_declined"}
      /\ Write(c, contract[c], "archived")
      /\ UNCHANGED <<signature, envelope, reconciled>>
  BY DEF Archive, docusign, handlers
<1>3. /\ \A d \in Contracts : d # c => contract'[d] = contract[d]
      /\ contract'[c].status = "archived"
  BY <1>1, <1>2, Written DEF Inv
<1>4. Shown' = [Shown EXCEPT ![c] = "archived"]  BY <1>3, ShownChanges
<1>5. UNCHANGED <<Requested, Reached, reconciled>>  BY <1>2 DEF Requested, Reached
<1> QED  BY <1>2, <1>4, <1>5, SeenContract DEF Signing!Archive

LEMMA SigningInit == Init => Signing!Init
<1> SUFFICES ASSUME Init PROVE Signing!Init  OBVIOUS
<1>1. Shown = [c \in Contracts |-> "approved"]  BY DEF Init, Shown
<1>2. Requested = {}  BY DEF Init, Requested
<1>3. Reached = [c \in Contracts |-> {}]  BY DEF Init, Reached
<1> QED  BY <1>1, <1>2, <1>3 DEF Init, Signing!Init

LEMMA SigningStep == Inv /\ [Next]_vars => [Signing!Next]_(Signing!vars)
<1> SUFFICES ASSUME Inv, [Next]_vars PROVE Signing!Next \/ UNCHANGED Signing!vars
  OBVIOUS
<1>1. CASE UNCHANGED <<contract, signature, envelope, reconciled>>
  BY <1>1, SeenAlike
<1>2. CASE \E s \in Senders : Reserve(s)
  BY <1>2, ReserveSends DEF Signing!Next
<1>3. CASE \E s \in Senders : Confirm(s)  BY <1>3, ConfirmShows
<1>4. CASE \E s \in Senders : Uncertain(s)  BY <1>4, UncertainHides
<1>5. CASE \E c \in Contracts : Accept(c)
  BY <1>5, AcceptAccepts DEF Signing!Next
<1>6. CASE \E c \in Contracts, status \in EnvelopeStatuses : Progress(c, status)
  BY <1>6, ProgressProgresses DEF Signing!Next
<1>7. CASE WebhookCommit  BY <1>7, NoticeShows
<1>8. CASE \E r \in Reconcilers, c \in Contracts, e \in Contracts \cup Foreign :
              ReconcileRead(r, c, e)
  <2>1. Shown' = Shown /\ Requested' = Requested /\ Reached' = Reached
    BY <1>8 DEF ReconcileRead, rows, docusign, Shown, Requested, Reached
  <2>2. reconciled' = TRUE  BY <1>8 DEF ReconcileRead
  <2> QED  BY <2>1, <2>2 DEF Signing!Reconcile, Signing!Next
<1>9. CASE \E r \in Reconcilers : ReconcileCommit(r)  BY <1>9, ReconcileShows
<1>10. CASE \E c \in Contracts : Archive(c)
  BY <1>10, ArchiveArchives DEF Signing!Next
<1> QED
  BY <1>1, <1>2, <1>3, <1>4, <1>5, <1>6, <1>7, <1>8, <1>9, <1>10
  DEF Next, vars, rows, docusign, handlers, LoadForSend, Post, SenderFails, Lose,
      WebhookRead, WebhookLoad, WebhookFails, Inspect, ReconcileLoad, ReconcileFails

\* Handlers that overlap and forget, notices that are lost, late and repeated: what the
\* contracts show is what they would show if each were sent once and then followed its
\* envelope, forwards and to a final outcome until somebody reconciles.
THEOREM HandlersImplementSigning == Spec => ImplementsSigningProtocol
<1>1. Spec => Signing!Init /\ [][Signing!Next]_(Signing!vars)
  BY SigningInit, SigningStep, InvariantHolds, PTL DEF Spec
<1> QED  BY <1>1 DEF ImplementsSigningProtocol, Signing!Spec

--------------------------------------------------------------------------------
(* The interface with the approval: what is dispatched was approved there, and the *)
(* author, chain, last step and version that it was approved with stay as they are. *)

Document(approved) ==
    [c \in Contracts |->
        [owner |-> approved[c].owner, workflow |-> approved[c].workflow,
         status |-> Shown[c], step |-> approved[c].step, version |-> approved[c].version]]

Dispatched(approved) ==
    {[contract |-> c, version |-> approved[c].version] : c \in Requested}

Approval(approved) == INSTANCE ApprovalProtocol WITH
    Users <- {}, Workflows <- {}, Anyone <- Unknown,
    doc <- Document(approved), approvals <- {}, sent <- Dispatched(approved)

LEMMA DocumentMoves ==
    ASSUME NEW approved, NEW c \in Contracts, NEW status,
           Shown' = [Shown EXCEPT ![c] = status]
    PROVE  Approval(approved)!Become(c, status, Document(approved)[c].step,
                                     Document(approved)[c].version)
<1>1. \A d \in Contracts : Shown'[d] = IF d = c THEN status ELSE Shown[d]
  BY DEF Shown
<1> QED  BY <1>1 DEF Document, Approval!Become

LEMMA DispatchedOnes ==
    ASSUME NEW approved, NEW c \in Contracts
    PROVE  (\E s \in Dispatched(approved) : s.contract = c) <=> c \in Requested
<1>1. ASSUME NEW s \in Dispatched(approved), s.contract = c
      PROVE  c \in Requested
  <2>1. PICK d \in Requested : s = [contract |-> d, version |-> approved[d].version]
    BY <1>1 DEF Dispatched
  <2> QED  BY <1>1, <2>1
<1>2. ASSUME c \in Requested
      PROVE  \E s \in Dispatched(approved) : s.contract = c
  <2>1. PICK s : s = [contract |-> c, version |-> approved[c].version]  OBVIOUS
  <2>2. s \in Dispatched(approved)  BY <1>2, <2>1 DEF Dispatched
  <2> QED  BY <2>1, <2>2
<1> QED  BY <1>1, <1>2

\* The protocol of signing goes on where that of approval has ended.
LEMMA SigningContinues ==
    ASSUME NEW approved, [Signing!Next]_(Signing!vars)
    PROVE  [Approval(approved)!Next]_(Approval(approved)!vars)
<1>1. ASSUME UNCHANGED <<Shown, Requested>>
      PROVE  UNCHANGED Approval(approved)!vars
  BY <1>1 DEF Document, Dispatched, Approval!vars
<1>2. ASSUME NEW c \in Contracts, Signing!Send(c)
      PROVE  Approval(approved)!Send(c)
  <2>1. /\ Shown[c] = "approved" /\ c \notin Requested
        /\ Shown' = [Shown EXCEPT ![c] = "sending"] /\ Requested' = Requested \cup {c}
    BY <1>2 DEF Signing!Send
  <2>2. Dispatched(approved)' = Dispatched(approved) \cup
          {[contract |-> c, version |-> approved[c].version]}
    BY <2>1 DEF Dispatched
  <2>3. Document(approved)[c].status = "approved"
        /\ Document(approved)[c].version = approved[c].version
    BY <2>1 DEF Document
  <2> QED
    BY <2>1, <2>2, <2>3, DocumentMoves, DispatchedOnes DEF Approval!Send, Approval!Move
<1>3. ASSUME NEW c \in Contracts, Signing!Archive(c)
      PROVE  Approval(approved)!Archive(c)
  <2>1. /\ Shown[c] \in {"approved", "signed", "signature_declined"}
        /\ Shown' = [Shown EXCEPT ![c] = "archived"] /\ UNCHANGED Requested
    BY <1>3 DEF Signing!Archive
  <2>2. Document(approved)[c].status = Shown[c]  BY DEF Document
  <2> QED
    BY <2>1, <2>2, DocumentMoves DEF Approval!Archive, Approval!Move, Dispatched
<1>4. ASSUME NEW c \in Contracts, NEW status \in EnvelopeStatuses, Signing!Show(c, status)
      PROVE  Approval(approved)!Resolve(c, ContractStatusFor[status])
  <2>1. /\ c \in Requested /\ UNCHANGED Requested
        /\ Shown' = [Shown EXCEPT ![c] = ContractStatusFor[status]]
    BY <1>4 DEF Signing!Show
  <2> HIDE DEF ContractStatusFor
  <2> QED
    BY <2>1, DocumentMoves, DispatchedOnes DEF Approval!Resolve, Dispatched
<1>5. ASSUME NEW c \in Contracts, NEW status \in EnvelopeStatuses,
             Signing!Accept(c) \/ Signing!Progress(c, status)
      PROVE  UNCHANGED <<Shown, Requested>>
  BY <1>5 DEF Signing!Accept, Signing!Progress
<1>6. CASE UNCHANGED Signing!vars \/ Signing!Reconcile
  BY <1>1, <1>6 DEF Signing!vars, Signing!Reconcile
<1>7. CASE \E c \in Contracts : Signing!Send(c) \/ Signing!Archive(c)
  BY <1>2, <1>3, <1>7 DEF Approval!Next
<1>8. CASE \E c \in Contracts, status \in EnvelopeStatuses : Signing!Show(c, status)
  BY <1>4, <1>8, ShownFor DEF Approval!Next
<1>9. CASE \/ \E c \in Contracts : Signing!Accept(c)
           \/ \E c \in Contracts, status \in EnvelopeStatuses : Signing!Progress(c, status)
  <2>1. "sent" \in EnvelopeStatuses  BY DEF EnvelopeStatuses
  <2> QED  BY <1>1, <1>5, <1>9, <2>1
<1> QED  BY <1>6, <1>7, <1>8, <1>9 DEF Signing!Next

\* With whatever author, chain and version the contracts were approved: sending them and
\* following their envelopes does to them nothing but what the protocol of approval
\* allows, which is what ContractLifecycle takes for granted of SignatureOutcome.
THEOREM DispatchContinuesApproval ==
    ASSUME NEW CONSTANT approved
    PROVE  Spec => [][Approval(approved)!Next]_(Approval(approved)!vars)
BY SigningStep, SigningContinues, InvariantHolds, PTL DEF Spec

================================================================================
