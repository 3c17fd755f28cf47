---------------------------- MODULE ApprovalProtocol ----------------------------
(***************************************************************************)
(* What the approval of contracts promises, with every operation atomic:   *)
(* no handlers, no revisions, no copies of rows.  The states and arrows    *)
(* are those the handlers of src/openclm/api.py implement; module          *)
(* ContractLifecycle is shown to implement this one.                       *)
(***************************************************************************)
EXTENDS Naturals, Sequences

CONSTANTS Users, Contracts, Workflows, Anyone

VARIABLES
    doc,        \* per contract: author, chain, status, step and version
    approvals,  \* who approved which step of which version
    sent        \* the version of a contract that was sent for signature

vars == <<doc, approvals, sent>>

NoDoc == [status |-> "absent"]

Init ==
    /\ doc = [c \in Contracts |-> NoDoc]
    /\ approvals = {}
    /\ sent = {}

\* Contract c changes its status, step and version, and never its author or chain.
Become(c, status, step, version) ==
    doc' = [doc EXCEPT ![c] =
      [owner |-> doc[c].owner, workflow |-> doc[c].workflow,
       status |-> status, step |-> step, version |-> version]]

Move(c, from, to) ==
    /\ doc[c].status \in from
    /\ Become(c, to, doc[c].step, doc[c].version)

Create(c, u, w) ==
    /\ doc[c] = NoDoc
    /\ \A i \in 1..Len(w) : w[i] # u
    /\ doc' = [doc EXCEPT ![c] =
         [owner |-> u, workflow |-> w, status |-> "draft", step |-> 0, version |-> 1]]
    /\ UNCHANGED <<approvals, sent>>

\* A new version starts its approval again from the first step.
Revise(c) ==
    /\ doc[c].status \in {"draft", "rejected"}
    /\ Become(c, "draft", 0, doc[c].version + 1)
    /\ UNCHANGED <<approvals, sent>>

Submit(c) ==
    /\ Move(c, {"draft"}, "in_review")
    /\ doc[c].step = 0
    /\ UNCHANGED <<approvals, sent>>

MayDecide(c, u) ==
    /\ doc[c].status = "in_review"
    /\ u # doc[c].owner
    /\ doc[c].workflow[doc[c].step + 1] \in {Anyone, u}

Approve(c, u) ==
    LET next == doc[c].step + 1 IN
    /\ MayDecide(c, u)
    /\ approvals' = approvals \cup
         {[contract |-> c, version |-> doc[c].version, step |-> next, actor |-> u]}
    /\ Become(c, IF next = Len(doc[c].workflow) THEN "approved" ELSE "in_review",
              next, doc[c].version)
    /\ UNCHANGED sent

Return(c) ==
    /\ \E u \in Users : MayDecide(c, u)
    /\ Move(c, {"in_review"}, "rejected")
    /\ UNCHANGED <<approvals, sent>>

Archive(c) ==
    /\ Move(c, {"draft", "rejected", "approved", "signed", "signature_declined"}, "archived")
    /\ UNCHANGED <<approvals, sent>>

\* At most one version of a contract is ever sent, and only a fully approved one.
Send(c) ==
    /\ \A s \in sent : s.contract # c
    /\ Move(c, {"approved"}, "sending")
    /\ sent' = sent \cup {[contract |-> c, version |-> doc[c].version]}
    /\ UNCHANGED approvals

\* Signing follows the provider: only a contract that was sent can be signed.
Resolve(c, status) ==
    /\ \E s \in sent : s.contract = c
    /\ Become(c, status, doc[c].step, doc[c].version)
    /\ UNCHANGED <<approvals, sent>>

Next ==
    \/ \E c \in Contracts, u \in Users, w \in Workflows : Create(c, u, w)
    \/ \E c \in Contracts : Revise(c) \/ Submit(c) \/ Return(c) \/ Archive(c) \/ Send(c)
    \/ \E c \in Contracts, u \in Users : Approve(c, u)
    \/ \E c \in Contracts, status \in {"signature_pending", "signed", "signature_declined"} :
          Resolve(c, status)

Spec == Init /\ [][Next]_vars
================================================================================
