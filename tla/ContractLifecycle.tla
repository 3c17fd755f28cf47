--------------------------- MODULE ContractLifecycle ---------------------------
(***************************************************************************)
(* The contract lifecycle of OpenCLM (src/openclm/api.py).                 *)
(*                                                                         *)
(* Handlers run concurrently in a thread pool, each with its own database  *)
(* session.  A handler authenticates (security.current_user copies the     *)
(* member's role), loads the contract row, checks its guards against the   *)
(* COPY, and commits.  The commit succeeds only if the row still has the   *)
(* revision that was loaded (models.Contract.version_id_col); otherwise    *)
(* SQLAlchemy raises StaleDataError and nothing is written.  Creation is   *)
(* different: it holds the organization row's lock until it commits        *)
(* (accounts.lock_organization).                                           *)
(***************************************************************************)
EXTENDS Naturals, Sequences, FiniteSets

CONSTANTS
    Users,          \* the people who are or may become members
    OrgOwner,       \* the organization's owner, always an administrator
    Contracts,      \* identifiers of contracts
    Texts,          \* contents a contract may be rendered to
    Workflows,      \* the approval chains: sequences of approvers
    Anyone,         \* a step without a designated approver
    Requests,       \* request slots of the thread pool
    Assignable,     \* bound: the roles each user may be given, "none" for removal
    MaxContracts,   \* settings.max_contracts_per_organization
    MaxVersion,     \* bound: document versions per contract
    MaxRevision     \* bound: committed changes per contract

Roles == {"admin", "editor", "reviewer", "viewer"}

ASSUME ConstantsAssumption ==
    /\ OrgOwner \in Users
    /\ Assignable \in [Users -> SUBSET (Roles \cup {"none"})]
    /\ Assignable[OrgOwner] = {"admin"}
    /\ Anyone \notin Users
    /\ Workflows \subseteq Seq(Users \cup {Anyone})
    /\ \A w \in Workflows : Len(w) > 0
    /\ MaxContracts \in Nat
    /\ MaxVersion \in Nat
    /\ MaxRevision \in Nat

VARIABLES
    role,       \* Membership.role, "none" while the membership is inactive
    orgLock,    \* the request that holds the organization row's lock, if any
    contract,   \* the contracts table
    versions,   \* the document_versions table
    signatures, \* the signature_requests table (contract and version sent)
    audit,      \* the audit_events table
    request     \* the handlers in flight

vars == <<role, orgLock, contract, versions, signatures, audit, request>>

--------------------------------------------------------------------------------
(* Rows, requests and their types.                                          *)

Statuses == {"draft", "in_review", "rejected", "approved", "sending",
             "signature_pending", "signed", "signature_declined", "archived"}

\* What apply_signature_status and the sender's last commit write.
SigningOutcomes == {"signature_pending", "signed", "signature_declined"}

\* The operations on an existing contract.
Actions == {"edit", "submit", "approve", "reject", "archive", "send"}

Row == [owner: Users, workflow: Workflows, status: Statuses, step: Nat,
        version: Nat, revision: Nat, content: Texts]

NoRow == [status |-> "absent"]

DocumentVersion == [contract: Contracts, version: Nat, content: Texts]

SignatureRequest == [contract: Contracts, version: Nat]

AuditEvent == [contract: Contracts, action: Actions \cup {"create"},
               actor: Users, version: Nat, step: Nat]

\* Authenticated: the role was read and the client sent the revision it saw.
\* Loaded: the row was read, the guards passed, the commit is to come.
\* Locked: create_contract between taking the lock and its commit.
Idle == [pc |-> "idle"]
Authenticated == [pc: {"authenticated"}, user: Users, role: Roles,
                  contract: Contracts, revision: Nat]
Loaded == [pc: {"loaded"}, user: Users, role: Roles, contract: Contracts,
           revision: Nat, action: Actions, row: Row]
Creating == [pc: {"creating"}, user: Users, role: Roles]
Locked == [pc: {"locked"}, user: Users, workflow: Workflows]

Existing == {c \in Contracts : contract[c] # NoRow}

Approvers(w) == {w[i] : i \in 1..Len(w)}

Sent(c) == \E s \in signatures : s.contract = c

Init ==
    /\ role \in {f \in [Users -> Roles \cup {"none"}] : \A u \in Users : f[u] \in Assignable[u]}
    /\ orgLock = {}
    /\ contract = [c \in Contracts |-> NoRow]
    /\ versions = {}
    /\ signatures = {}
    /\ audit = {}
    /\ request = [r \in Requests |-> Idle]

--------------------------------------------------------------------------------
(* The start and the failure of a handler.                                  *)

\* current_user reads the membership; the client acts on the revision of its
\* page.  A page older than this one is refused by check_revision anyway.
Authenticate(r, u, c) ==
    /\ request[r] = Idle
    /\ role[u] # "none"
    /\ contract[c] # NoRow
    /\ request' = [request EXCEPT ![r] =
         [pc |-> "authenticated", user |-> u, role |-> role[u],
          contract |-> c, revision |-> contract[c].revision]]
    /\ UNCHANGED <<role, orgLock, contract, versions, signatures, audit>>

\* A guard that fails, StaleDataError, IntegrityError, a lost connection or a
\* crash: the session rolls back, which also releases the lock it may hold.
Fail(r) ==
    /\ request[r] # Idle
    /\ request' = [request EXCEPT ![r] = Idle]
    /\ orgLock' = orgLock \ {r}
    /\ UNCHANGED <<role, contract, versions, signatures, audit>>

--------------------------------------------------------------------------------
(* Creation, under the organization's lock.                                 *)

BeginCreate(r, u) ==
    /\ request[r] = Idle
    /\ role[u] \in {"admin", "editor"}
    /\ request' = [request EXCEPT ![r] =
         [pc |-> "creating", user |-> u, role |-> role[u]]]
    /\ UNCHANGED <<role, orgLock, contract, versions, signatures, audit>>

\* Faulty: the quota is counted without waiting for the lock.
LockForCreateCountFirst(r, w) ==
    /\ request[r].pc = "creating"
    /\ role[request[r].user] = request[r].role
    /\ Cardinality(Existing) < MaxContracts
    /\ request[r].user \notin Approvers(w)
    /\ orgLock' = {r}
    /\ request' = [request EXCEPT ![r] =
         [pc |-> "locked", user |-> request[r].user, workflow |-> w]]
    /\ UNCHANGED <<role, contract, versions, signatures, audit>>

\* Faulty: the membership is not read again once the lock is held.
LockForCreateTrusting(r, w) ==
    /\ request[r].pc = "creating"
    /\ orgLock = {}
    /\ Cardinality(Existing) < MaxContracts
    /\ request[r].user \notin Approvers(w)
    /\ orgLock' = {r}
    /\ request' = [request EXCEPT ![r] =
         [pc |-> "locked", user |-> request[r].user, workflow |-> w]]
    /\ UNCHANGED <<role, contract, versions, signatures, audit>>

\* lock_organization, which reads the membership again, then the quota and the
\* author's exclusion from the designated approvers.
LockForCreate(r, w) ==
    /\ request[r].pc = "creating"
    /\ orgLock = {}
    /\ role[request[r].user] = request[r].role
    /\ Cardinality(Existing) < MaxContracts
    /\ request[r].user \notin Approvers(w)
    /\ orgLock' = {r}
    /\ request' = [request EXCEPT ![r] =
         [pc |-> "locked", user |-> request[r].user, workflow |-> w]]
    /\ UNCHANGED <<role, contract, versions, signatures, audit>>

Create(r, c, text) ==
    LET u == request[r].user IN
    /\ request[r].pc = "locked"
    /\ contract[c] = NoRow
    /\ contract' = [contract EXCEPT ![c] =
         [owner |-> u, workflow |-> request[r].workflow, status |-> "draft",
          step |-> 0, version |-> 1, revision |-> 1, content |-> text]]
    /\ versions' = versions \cup {[contract |-> c, version |-> 1, content |-> text]}
    /\ audit' = audit \cup
         {[contract |-> c, action |-> "create", actor |-> u, version |-> 1, step |-> 0]}
    /\ orgLock' = orgLock \ {r}
    /\ request' = [request EXCEPT ![r] = Idle]
    /\ UNCHANGED <<role, signatures>>

\* update_member, remove_member and accept_invitation take the lock and commit.
ChangeRole(u, newRole) ==
    /\ orgLock = {}
    /\ u # OrgOwner
    /\ newRole \in Assignable[u]
    /\ role' = [role EXCEPT ![u] = newRole]
    /\ UNCHANGED <<orgLock, contract, versions, signatures, audit, request>>

--------------------------------------------------------------------------------
(* The guards of the operations on a contract, over the row that was loaded. *)

OwnerOrAdmin(u, userRole, row) == userRole = "admin" \/ row.owner = u

MayEdit(u, userRole, row) ==
    /\ userRole \in {"admin", "editor"}
    /\ OwnerOrAdmin(u, userRole, row)
    /\ row.status \in {"draft", "rejected"}

MaySubmit(u, userRole, row) ==
    /\ OwnerOrAdmin(u, userRole, row)
    /\ userRole \in {"admin", "editor"}
    /\ row.status = "draft"

\* Faulty: a returned version can be decided again.
MayDecideAgain(u, userRole, row) ==
    /\ row.status \in {"in_review", "rejected"}
    /\ userRole \in {"admin", "reviewer"}
    /\ u # row.owner
    /\ row.workflow[row.step + 1] \in {Anyone, u}

\* Faulty: the owner may approve too.
MayDecideOwn(u, userRole, row) ==
    /\ row.status = "in_review"
    /\ userRole \in {"admin", "reviewer"}
    /\ row.workflow[row.step + 1] \in {Anyone, u}

MayDecide(u, userRole, row) ==
    /\ row.status = "in_review"
    /\ userRole \in {"admin", "reviewer"}
    /\ u # row.owner
    /\ row.workflow[row.step + 1] \in {Anyone, u}

MayArchive(u, userRole, row) ==
    /\ OwnerOrAdmin(u, userRole, row)
    /\ userRole \in {"admin", "editor"}
    /\ row.status \in {"draft", "rejected", "approved", "signed", "signature_declined"}

\* Faulty: sending does not wait for the last approval.
MaySendEarly(u, userRole, row) ==
    /\ userRole \in {"admin", "editor"}
    /\ OwnerOrAdmin(u, userRole, row)
    /\ row.status \in {"in_review", "approved"}

MaySend(u, userRole, row) ==
    /\ userRole \in {"admin", "editor"}
    /\ OwnerOrAdmin(u, userRole, row)
    /\ row.status = "approved"

Permitted(action, u, userRole, row) ==
    \/ action = "edit" /\ MayEdit(u, userRole, row)
    \/ action = "submit" /\ MaySubmit(u, userRole, row)
    \/ action \in {"approve", "reject"} /\ MayDecide(u, userRole, row)
    \/ action = "archive" /\ MayArchive(u, userRole, row)
    \/ action = "send" /\ MaySend(u, userRole, row)

\* get_contract, check_revision and the operation's guards.
Load(r, action) ==
    LET q == request[r]
        row == contract[q.contract] IN
    /\ q.pc = "authenticated"
    /\ row.revision = q.revision
    /\ Permitted(action, q.user, q.role, row)
    /\ action = "send" => ~Sent(q.contract)
    /\ request' = [request EXCEPT ![r] =
         [pc |-> "loaded", user |-> q.user, role |-> q.role,
          contract |-> q.contract, revision |-> q.revision,
          action |-> action, row |-> row]]
    /\ UNCHANGED <<role, orgLock, contract, versions, signatures, audit>>

--------------------------------------------------------------------------------
(* The commits.                                                             *)

\* Faulty: the row has no version_id_col, the last writer wins.
CommitUnchecked(r, action, row) ==
    LET q == request[r] IN
    /\ q.pc = "loaded"
    /\ q.action = action
    /\ q.row.revision < MaxRevision
    /\ contract' = [contract EXCEPT ![q.contract] = [row EXCEPT !.revision = @ + 1]]
    /\ audit' = audit \cup
         {[contract |-> q.contract, action |-> action, actor |-> q.user,
           version |-> row.version, step |-> row.step]}
    /\ request' = [request EXCEPT ![r] = Idle]
    /\ UNCHANGED <<role, orgLock>>

\* UPDATE contracts ... WHERE revision = <the one loaded>, plus the audit row.
Commit(r, action, row) ==
    LET q == request[r] IN
    /\ q.pc = "loaded"
    /\ q.action = action
    /\ contract[q.contract].revision = q.row.revision
    /\ q.row.revision < MaxRevision
    /\ contract' = [contract EXCEPT ![q.contract] = [row EXCEPT !.revision = @ + 1]]
    /\ audit' = audit \cup
         {[contract |-> q.contract, action |-> action, actor |-> q.user,
           version |-> row.version, step |-> row.step]}
    /\ request' = [request EXCEPT ![r] = Idle]
    /\ UNCHANGED <<role, orgLock>>

\* Faulty: the new version takes the approvals of the old one along.
EditKeepingSteps(r, text) ==
    LET q == request[r]
        row == q.row
        edited == [row EXCEPT !.status = "draft", !.version = @ + 1, !.content = text] IN
    /\ Commit(r, "edit", edited)
    /\ row.version < MaxVersion
    /\ ~ \E d \in versions : d.contract = q.contract /\ d.version = edited.version
    /\ versions' = versions \cup
         {[contract |-> q.contract, version |-> edited.version, content |-> text]}
    /\ UNCHANGED signatures

\* Faulty: no snapshot of the new version is kept.
EditWithoutSnapshot(r, text) ==
    LET row == request[r].row
        edited == [row EXCEPT !.status = "draft", !.step = 0,
                              !.version = @ + 1, !.content = text] IN
    /\ Commit(r, "edit", edited)
    /\ row.version < MaxVersion
    /\ UNCHANGED <<versions, signatures>>

\* UniqueConstraint("contract_id", "version") on the snapshot's row.
Edit(r, text) ==
    LET q == request[r]
        row == q.row
        edited == [row EXCEPT !.status = "draft", !.step = 0,
                              !.version = @ + 1, !.content = text] IN
    /\ Commit(r, "edit", edited)
    /\ row.version < MaxVersion
    /\ ~ \E d \in versions : d.contract = q.contract /\ d.version = edited.version
    /\ versions' = versions \cup
         {[contract |-> q.contract, version |-> edited.version, content |-> text]}
    /\ UNCHANGED signatures

Submit(r) ==
    /\ Commit(r, "submit", [request[r].row EXCEPT !.status = "in_review", !.step = 0])
    /\ UNCHANGED <<versions, signatures>>

Approved(row) ==
    [row EXCEPT !.step = @ + 1,
                !.status = IF row.step + 1 = Len(row.workflow) THEN "approved" ELSE @]

Approve(r) ==
    /\ Commit(r, "approve", Approved(request[r].row))
    /\ UNCHANGED <<versions, signatures>>

Reject(r) ==
    /\ Commit(r, "reject", [request[r].row EXCEPT !.status = "rejected"])
    /\ UNCHANGED <<versions, signatures>>

Archive(r) ==
    /\ Commit(r, "archive", [request[r].row EXCEPT !.status = "archived"])
    /\ UNCHANGED <<versions, signatures>>

\* The reservation of send_signature: SignatureRequest.contract_id is unique.
ReserveSend(r) ==
    LET q == request[r] IN
    /\ Commit(r, "send", [q.row EXCEPT !.status = "sending"])
    /\ ~Sent(q.contract)
    /\ signatures' = signatures \cup
         {[contract |-> q.contract, version |-> q.row.version]}
    /\ UNCHANGED versions

\* The sender's last commit and apply_signature_status, of which nothing is kept
\* here but what they may write: they look at the signature's status, never at
\* the contract's.  Module SignatureDispatch has the detail.
SignatureOutcome(c, status) ==
    /\ Sent(c)
    /\ contract[c].status # status
    /\ contract[c].revision < MaxRevision
    /\ contract' = [contract EXCEPT ![c].status = status, ![c].revision = @ + 1]
    /\ UNCHANGED <<role, orgLock, versions, signatures, audit, request>>

--------------------------------------------------------------------------------

Next ==
    \/ \E r \in Requests, u \in Users, c \in Contracts : Authenticate(r, u, c)
    \/ \E r \in Requests : Fail(r)
    \/ \E r \in Requests, u \in Users : BeginCreate(r, u)
    \/ \E r \in Requests, w \in Workflows : LockForCreate(r, w)
    \/ \E r \in Requests, c \in Contracts, text \in Texts : Create(r, c, text)
    \/ \E u \in Users, newRole \in Roles \cup {"none"} : ChangeRole(u, newRole)
    \/ \E r \in Requests, action \in Actions : Load(r, action)
    \/ \E r \in Requests, text \in Texts : Edit(r, text)
    \/ \E r \in Requests : Submit(r)
    \/ \E r \in Requests : Approve(r)
    \/ \E r \in Requests : Reject(r)
    \/ \E r \in Requests : Archive(r)
    \/ \E r \in Requests : ReserveSend(r)
    \/ \E c \in Contracts, status \in SigningOutcomes : SignatureOutcome(c, status)

Spec == Init /\ [][Next]_vars

--------------------------------------------------------------------------------
(* Properties.                                                              *)

\* Every table holds rows of its type, every handler is in one of its stages.
TypeOK ==
    /\ role \in [Users -> Roles \cup {"none"}]
    /\ orgLock \subseteq Requests
    /\ contract \in [Contracts -> Row \cup {NoRow}]
    /\ versions \subseteq DocumentVersion
    /\ signatures \subseteq SignatureRequest
    /\ audit \subseteq AuditEvent
    /\ request \in [Requests -> {Idle} \cup Authenticated \cup Loaded
                                   \cup Creating \cup Locked]

\* Step i of the chain was approved for version v by somebody the chain accepts.
ApprovedBy(c, v, i) ==
    \E e \in audit :
        /\ e.contract = c /\ e.action = "approve" /\ e.version = v /\ e.step = i
        /\ e.actor # contract[c].owner
        /\ contract[c].workflow[i] \in {Anyone, e.actor}

\* However the handlers interleave, current_step never runs ahead of the
\* approvals on record: each step passed was approved, for the version that is
\* current now, by an accepted approver other than the owner (transition).
ApprovalChain ==
    \A c \in Existing :
        \A i \in 1..contract[c].step : ApprovedBy(c, contract[c].version, i)

\* Two reviewers who press "approve" together never both count for one step,
\* so no step of the chain is skipped by an approval counted twice.
OneApprovalPerStep ==
    \A d, e \in audit :
        /\ d.action = "approve" /\ e.action = "approve"
        /\ d.contract = e.contract /\ d.version = e.version /\ d.step = e.step
        => d = e

\* What is reserved for DocuSign is the current version, and that very version
\* went through the whole approval chain (send_signature); it is the only one.
SentVersionApproved ==
    \A s \in signatures :
        LET row == contract[s.contract] IN
        /\ row # NoRow
        /\ s.version = row.version
        /\ \A i \in 1..Len(row.workflow) : ApprovedBy(s.contract, s.version, i)
        /\ \A t \in signatures : t.contract = s.contract => t = s

\* A version that a reviewer returned is never approved or sent afterwards: the
\* only ways on are a new version (edit_contract) and the archive.
ReturnedStaysReturned ==
    \A e \in audit :
        LET row == contract[e.contract] IN
        e.action = "reject" /\ e.version = row.version
            => row.status \in {"rejected", "archived"}

\* The history of document versions has no gap and no fork, and the contract
\* shows the text of its newest version (snapshot in create and edit).
VersionsMatch ==
    \A c \in Existing :
        /\ \A v \in 1..contract[c].version :
              \E d \in versions : d.contract = c /\ d.version = v
        /\ \A d \in versions :
              /\ d.contract = c
              => /\ d.version <= contract[c].version
                 /\ d.version = contract[c].version => d.content = contract[c].content

\* Concurrent creations never exceed the organization's quota (create_contract
\* counts under the organization's lock).
ContractQuota == Cardinality(Existing) <= MaxContracts

DecidedOnRow ==
    \A c \in Existing :
        contract'[c] # contract[c] =>
            \/ Sent(c) /\ contract'[c].status \in SigningOutcomes
            \/ \E r \in Requests :
                  /\ request[r].pc = "loaded" /\ request'[r] = Idle
                  /\ request[r].contract = c
                  /\ request[r].revision = contract[c].revision
                  /\ request[r].row = contract[c]

\* A row changes only by the commit of a handler that decided on exactly the row
\* that is overwritten, at the revision its client saw: no lost update, no
\* decision about a page that went stale (check_revision, version_id_col).
DecidedOnRowReplaced == [][DecidedOnRow]_vars

BornOfEditor ==
    \A c \in Contracts :
        contract[c] = NoRow /\ contract'[c] # NoRow
            => role[contract'[c].owner] \in {"admin", "editor"}

\* A contract is never created for somebody whose right to create was taken away
\* while the handler waited for the lock (lock_organization reads it again).
CreatedByEditor == [][BornOfEditor]_vars

--------------------------------------------------------------------------------
(* The abstract specification this module implements.                       *)

AbstractDoc(row) ==
    IF row = NoRow THEN NoRow
    ELSE [owner |-> row.owner, workflow |-> row.workflow, status |-> row.status,
          step |-> row.step, version |-> row.version]

AbstractApproval(e) ==
    [contract |-> e.contract, version |-> e.version, step |-> e.step, actor |-> e.actor]

Documents == [c \in Contracts |-> AbstractDoc(contract[c])]
Approvals == {AbstractApproval(e) : e \in {f \in audit : f.action = "approve"}}

Protocol == INSTANCE ApprovalProtocol WITH
    doc <- Documents, approvals <- Approvals, sent <- signatures

\* Handlers that work on copies of rows behave as if every operation were atomic:
\* each commit is one step of the protocol, taken in the state it is committed in.
ImplementsApprovalProtocol == Protocol!Spec
================================================================================
