------------------------ MODULE ContractLifecycleProofs ------------------------
(***************************************************************************)
(* Proofs about ContractLifecycle, for every value of its constants.       *)
(*                                                                         *)
(* The invariant is proved in layers, each using the ones before it:       *)
(*   Typed    rows have their types, and what refers to a contract refers  *)
(*            to one that exists;                                          *)
(*   Copies   a handler's copy is the row itself as long as the row still  *)
(*            has the copy's revision, and passed the guards;              *)
(*   Stages   how status, step and reservation of a contract go together;  *)
(*   Trail    what the audit events and snapshots say of the row.          *)
(***************************************************************************)
EXTENDS ContractLifecycle, FiniteSetTheorems, TLAPS

\* Rows have their types, and what refers to a contract refers to one that exists.
Typed ==
    /\ TypeOK
    /\ \A r \in Requests :
          request[r].pc \in {"authenticated", "loaded"}
              => contract[request[r].contract] # NoRow
    /\ \A s \in signatures : contract[s.contract] # NoRow

\* A loaded row with fields of the right types, by shape of the request.
LEMMA LoadedShape ==
    ASSUME TypeOK, NEW r \in Requests, request[r].pc = "loaded"
    PROVE  /\ request[r] \in Loaded
           /\ request[r].row \in Row
           /\ request[r].contract \in Contracts
           /\ request[r].user \in Users
    BY DEF TypeOK, Idle, Authenticated, Loaded, Creating, Locked

\* An authenticated request names a contract and the revision of its client's page.
LEMMA AuthenticatedShape ==
    ASSUME TypeOK, NEW r \in Requests, request[r].pc = "authenticated"
    PROVE  /\ request[r] \in Authenticated
           /\ request[r].contract \in Contracts
    BY DEF TypeOK, Idle, Authenticated, Loaded, Creating, Locked

\* What a row is after several of its fields were assigned.
LEMMA RowFields ==
    ASSUME NEW row \in Row
    PROVE  /\ row.owner \in Users /\ row.workflow \in Workflows
           /\ row.status \in Statuses /\ row.content \in Texts
           /\ row.step \in Nat /\ row.version \in Nat /\ row.revision \in Nat
    BY DEF Row

\* A submitted row is a row in review at its first step, the rest unchanged.
LEMMA SubmittedRow ==
    ASSUME NEW row \in Row, NEW new,
           new = [row EXCEPT !.status = "in_review", !.step = 0]
    PROVE  /\ new \in Row
           /\ new.owner = row.owner /\ new.workflow = row.workflow
           /\ new.status = "in_review" /\ new.step = 0
           /\ new.version = row.version /\ new.revision = row.revision
           /\ new.content = row.content
    BY 0 \in Nat, Zenon DEF Row, Statuses

\* An edited row is a draft of the next version, with its approval to start again.
LEMMA EditedRow ==
    ASSUME NEW row \in Row, NEW text \in Texts, NEW new,
           new = [row EXCEPT !.status = "draft", !.step = 0,
                             !.version = @ + 1, !.content = text]
    PROVE  /\ new \in Row
           /\ new.owner = row.owner /\ new.workflow = row.workflow
           /\ new.status = "draft" /\ new.step = 0
           /\ new.version = row.version + 1 /\ new.revision = row.revision
           /\ new.content = text
PROOF
<1>1. row.version + 1 \in Nat /\ 0 \in Nat
    BY RowFields
<1> QED BY <1>1, Zenon DEF Row, Statuses

\* An approval moves the row one step on; the last one makes it approved.
LEMMA ApprovedRow ==
    ASSUME NEW row \in Row, NEW new, new = Approved(row)
    PROVE  /\ new \in Row
           /\ new.owner = row.owner /\ new.workflow = row.workflow
           /\ new.status = IF row.step + 1 = Len(row.workflow) THEN "approved" ELSE row.status
           /\ new.step = row.step + 1
           /\ new.version = row.version /\ new.revision = row.revision
           /\ new.content = row.content
PROOF
<1>1. row.step + 1 \in Nat /\ row.status \in Statuses /\ "approved" \in Statuses
    BY RowFields DEF Statuses
<1> DEFINE status == IF row.step + 1 = Len(row.workflow) THEN "approved" ELSE row.status
<1>2. status \in Statuses
    BY <1>1
<1>3. new = [row EXCEPT !.step = row.step + 1, !.status = status]
    BY Zenon DEF Approved, Row
<1> HIDE DEF status
<1>4. /\ new \in Row
      /\ new.owner = row.owner /\ new.workflow = row.workflow
      /\ new.status = status
      /\ new.step = row.step + 1
      /\ new.version = row.version /\ new.revision = row.revision
      /\ new.content = row.content
    BY <1>1, <1>2, <1>3, Zenon DEF Row
<1> QED BY <1>4 DEF status

\* Returning, archiving and reserving change the status of the row only.
LEMMA StatusRow ==
    ASSUME NEW row \in Row, NEW status \in Statuses, NEW new,
           new = [row EXCEPT !.status = status]
    PROVE  /\ new \in Row
           /\ new.owner = row.owner /\ new.workflow = row.workflow
           /\ new.status = status /\ new.step = row.step
           /\ new.version = row.version /\ new.revision = row.revision
           /\ new.content = row.content
    BY DEF Row

\* Nothing refers to a contract before there is one.
LEMMA TypedInit == Init => Typed
    BY ConstantsAssumption
    DEF Init, Typed, TypeOK, NoRow, Idle

\* The commit of one handler keeps every row and event well typed.
LEMMA CommitTyped ==
    ASSUME Typed, NEW r \in Requests, NEW action \in Actions, NEW row \in Row,
           Commit(r, action, row),
           versions' \subseteq DocumentVersion, signatures' \subseteq SignatureRequest,
           \A s \in signatures' : s \in signatures \/ s.contract = request[r].contract
    PROVE  Typed'
PROOF
<1> DEFINE q == request[r]
           c == q.contract
<1>1. /\ q.pc = "loaded" /\ c \in Contracts /\ q.user \in Users
      /\ contract[c] # NoRow /\ contract[c] \in Row
    BY LoadedShape DEF Typed, Commit, TypeOK
<1> DEFINE new == [row EXCEPT !.revision = @ + 1]
<1>2. new \in Row /\ new # NoRow
    BY DEF Row, NoRow, Statuses
<1>3. /\ contract' = [contract EXCEPT ![c] = new]
      /\ request' = [request EXCEPT ![r] = Idle]
      /\ role' = role /\ orgLock' = orgLock
      /\ audit' = audit \cup
            {[contract |-> c, action |-> action, actor |-> q.user,
              version |-> row.version, step |-> row.step]}
    BY DEF Commit
<1>4. contract' \in [Contracts -> Row \cup {NoRow}]
    BY <1>1, <1>2, <1>3 DEF Typed, TypeOK
<1>5. \A d \in Contracts : contract[d] # NoRow => contract'[d] # NoRow
    BY <1>1, <1>2, <1>3 DEF Typed, TypeOK
<1>6. audit' \subseteq AuditEvent
    BY <1>1, <1>3 DEF Typed, TypeOK, AuditEvent, Row
<1>7. request' \in [Requests -> {Idle} \cup Authenticated \cup Loaded \cup Creating \cup Locked]
    BY <1>3 DEF Typed, TypeOK
<1>8. TypeOK'
    BY <1>3, <1>4, <1>6, <1>7 DEF Typed, TypeOK
<1>9. ASSUME NEW t \in Requests, request'[t].pc \in {"authenticated", "loaded"}
      PROVE  contract'[request'[t].contract] # NoRow
    <2>1. t # r
        BY <1>3, <1>9 DEF Typed, TypeOK, Idle
    <2>2. request'[t] = request[t]
        BY <1>3, <2>1 DEF Typed, TypeOK
    <2>3. request[t].contract \in Contracts
        BY <1>9, <2>2, LoadedShape, AuthenticatedShape DEF Typed
    <2> QED BY <1>5, <1>9, <2>2, <2>3 DEF Typed
<1>10. ASSUME NEW s \in signatures'
       PROVE  contract'[s.contract] # NoRow
    <2>1. s.contract \in Contracts
        BY DEF SignatureRequest
    <2> QED BY <1>1, <1>5, <2>1 DEF Typed
<1> QED BY <1>8, <1>9, <1>10 DEF Typed

\* Steps that only start, load or end a handler, or change a role.
LEMMA TypedStep == Typed /\ [Next]_vars => Typed'
PROOF
<1> SUFFICES ASSUME Typed, [Next]_vars PROVE Typed'
    OBVIOUS
<1> USE ConstantsAssumption
<1>1. ASSUME NEW r \in Requests, NEW u \in Users, NEW c \in Contracts, Authenticate(r, u, c)
      PROVE  Typed'
    <2>1. contract[c].revision \in Nat
        BY <1>1 DEF Authenticate, Typed, TypeOK, Row
    <2>2. request'[r] \in Authenticated
        BY <1>1, <2>1 DEF Authenticate, Typed, TypeOK, Authenticated
    <2> QED BY <1>1, <2>2 DEF Authenticate, Typed, TypeOK
<1>2. ASSUME NEW r \in Requests, Fail(r) PROVE Typed'
    BY <1>2 DEF Fail, Typed, TypeOK, Idle
<1>3. ASSUME NEW r \in Requests, NEW u \in Users, BeginCreate(r, u) PROVE Typed'
    BY <1>3 DEF BeginCreate, Typed, TypeOK, Creating, Roles
<1>4. ASSUME NEW r \in Requests, NEW w \in Workflows, LockForCreate(r, w) PROVE Typed'
    <2>1. request[r].user \in Users
        BY <1>4 DEF LockForCreate, Typed, TypeOK, Idle, Authenticated, Loaded, Creating, Locked
    <2> QED BY <1>4, <2>1 DEF LockForCreate, Typed, TypeOK, Locked
<1>5. ASSUME NEW r \in Requests, NEW c \in Contracts, NEW text \in Texts, Create(r, c, text)
      PROVE  Typed'
    <2>1. request[r].user \in Users /\ request[r].workflow \in Workflows
        BY <1>5 DEF Create, Typed, TypeOK, Idle, Authenticated, Loaded, Creating, Locked
    <2>2. contract'[c] \in Row /\ contract'[c] # NoRow
        BY <1>5, <2>1 DEF Create, Typed, TypeOK, Row, NoRow, Statuses
    <2>3. contract' \in [Contracts -> Row \cup {NoRow}]
        BY <1>5, <2>2 DEF Create, Typed, TypeOK
    <2>4. versions' \subseteq DocumentVersion /\ audit' \subseteq AuditEvent
        BY <1>5, <2>1 DEF Create, Typed, TypeOK, DocumentVersion, AuditEvent
    <2>5. TypeOK'
        BY <1>5, <2>3, <2>4 DEF Create, Typed, TypeOK
    <2>6. \A d \in Contracts : contract[d] # NoRow => contract'[d] # NoRow
        BY <1>5, <2>2 DEF Create, Typed, TypeOK
    <2>7. ASSUME NEW t \in Requests, request'[t].pc \in {"authenticated", "loaded"}
          PROVE  contract'[request'[t].contract] # NoRow
        <3>1. request'[t] = request[t]
            BY <1>5, <2>7 DEF Create, Typed, TypeOK, Idle
        <3>2. request[t].contract \in Contracts
            BY <2>7, <3>1, LoadedShape, AuthenticatedShape DEF Typed
        <3> QED BY <2>6, <2>7, <3>1, <3>2 DEF Typed
    <2>8. \A s \in signatures' : contract'[s.contract] # NoRow
        BY <1>5, <2>6 DEF Create, Typed, TypeOK, SignatureRequest
    <2> QED BY <2>5, <2>7, <2>8 DEF Typed
<1>6. ASSUME NEW u \in Users, NEW newRole \in Roles \cup {"none"}, ChangeRole(u, newRole)
      PROVE  Typed'
    BY <1>6 DEF ChangeRole, Typed, TypeOK
<1>7. ASSUME NEW r \in Requests, NEW action \in Actions, Load(r, action) PROVE Typed'
    <2>1. request[r] \in Authenticated /\ request[r].contract \in Contracts
        BY <1>7, AuthenticatedShape DEF Load, Typed
    <2>2. contract[request[r].contract] \in Row
        BY <1>7, <2>1 DEF Load, Typed, TypeOK
    <2>3. request'[r] \in Loaded /\ request'[r].contract = request[r].contract
        BY <1>7, <2>1, <2>2 DEF Load, Typed, TypeOK, Authenticated, Loaded
    <2> QED BY <1>7, <2>1, <2>3 DEF Load, Typed, TypeOK
<1>8. ASSUME NEW r \in Requests, NEW text \in Texts, Edit(r, text) PROVE Typed'
    <2> DEFINE edited == [request[r].row EXCEPT !.status = "draft", !.step = 0,
                             !.version = @ + 1, !.content = text]
    <2>1. request[r].row \in Row /\ request[r].contract \in Contracts
        BY <1>8, LoadedShape DEF Edit, Commit, Typed
    <2>2. edited \in Row
        BY <2>1, EditedRow
    <2>3. Commit(r, "edit", edited) /\ signatures' = signatures
        BY <1>8 DEF Edit
    <2>4. versions' \subseteq DocumentVersion
        BY <1>8, <2>1, <2>2 DEF Edit, Typed, TypeOK, DocumentVersion, Row
    <2> HIDE DEF edited
    <2> QED BY <2>2, <2>3, <2>4, CommitTyped DEF Typed, TypeOK, Actions
<1>9. ASSUME NEW r \in Requests, NEW action \in {"submit", "approve", "reject", "archive"},
             NEW row \in Row, Commit(r, action, row), UNCHANGED <<versions, signatures>>
      PROVE  Typed'
    BY <1>9, CommitTyped DEF Typed, TypeOK, Actions
<1>10. ASSUME NEW r \in Requests, Submit(r) \/ Approve(r) \/ Reject(r) \/ Archive(r)
       PROVE  Typed'
    <2>1. request[r].row \in Row
        BY <1>10, LoadedShape DEF Submit, Approve, Reject, Archive, Commit, Typed
    <2>2. [request[r].row EXCEPT !.status = "in_review", !.step = 0] \in Row
        BY <2>1, SubmittedRow, Zenon
    <2>3. Approved(request[r].row) \in Row
        BY <2>1, ApprovedRow
    <2>4. /\ [request[r].row EXCEPT !.status = "rejected"] \in Row
          /\ [request[r].row EXCEPT !.status = "archived"] \in Row
        BY <2>1 DEF Row, Statuses
    <2> QED BY <1>9, <1>10, <2>2, <2>3, <2>4, Zenon DEF Submit, Approve, Reject, Archive
<1>11. ASSUME NEW r \in Requests, ReserveSend(r) PROVE Typed'
    <2> DEFINE sending == [request[r].row EXCEPT !.status = "sending"]
    <2>1. request[r].row \in Row /\ request[r].contract \in Contracts
        BY <1>11, LoadedShape DEF ReserveSend, Commit, Typed
    <2>2. sending \in Row
        BY <2>1 DEF Row, Statuses
    <2>3. Commit(r, "send", sending) /\ versions' = versions
        BY <1>11 DEF ReserveSend
    <2>4. /\ signatures' \subseteq SignatureRequest
          /\ \A s \in signatures' : s \in signatures \/ s.contract = request[r].contract
        BY <1>11, <2>1 DEF ReserveSend, Typed, TypeOK, SignatureRequest, Row
    <2> HIDE DEF sending
    <2> QED BY <2>2, <2>3, <2>4, CommitTyped DEF Typed, TypeOK, Actions
<1>12. ASSUME NEW c \in Contracts, NEW status \in SigningOutcomes, SignatureOutcome(c, status)
       PROVE  Typed'
    <2>1. contract[c] \in Row /\ contract[c] # NoRow
        BY <1>12 DEF SignatureOutcome, Sent, Typed, TypeOK
    <2>2. contract'[c] \in Row
        BY <1>12, <2>1 DEF SignatureOutcome, Typed, TypeOK, Row, SigningOutcomes, Statuses
    <2>3. contract'[c] # NoRow
        BY <2>2 DEF Row, NoRow, Statuses
    <2>4. /\ contract' \in [Contracts -> Row \cup {NoRow}]
          /\ \A d \in Contracts : contract[d] # NoRow => contract'[d] # NoRow
        BY <1>12, <2>2, <2>3 DEF SignatureOutcome, Typed, TypeOK
    <2>5. \A t \in Requests : request[t].pc \in {"authenticated", "loaded"}
              => request[t].contract \in Contracts
        BY LoadedShape, AuthenticatedShape DEF Typed
    <2>6. \A s \in signatures : s.contract \in Contracts
        BY DEF Typed, TypeOK, SignatureRequest
    <2> QED BY <1>12, <2>4, <2>5, <2>6 DEF SignatureOutcome, Typed, TypeOK
<1>13. ASSUME UNCHANGED vars PROVE Typed'
    BY <1>13 DEF vars, Typed, TypeOK
<1> QED
    BY <1>1, <1>2, <1>3, <1>4, <1>5, <1>6, <1>7, <1>8, <1>10, <1>11, <1>12, <1>13 DEF Next

--------------------------------------------------------------------------------
(* Second layer: the copies handlers decide on.                             *)

\* A loaded copy is never newer than the row, equals it while the revisions are
\* equal, is the revision the client saw, and passed the guards.
CopyOf(q, row) ==
    /\ q.row.revision = q.revision
    /\ q.row.revision <= row.revision
    /\ q.row.revision = row.revision => q.row = row
    /\ Permitted(q.action, q.user, q.role, q.row)

Copies ==
    \A r \in Requests :
        /\ request[r].pc = "loaded" => CopyOf(request[r], contract[request[r].contract])
        /\ request[r].pc = "locked" => request[r].user \notin Approvers(request[r].workflow)

\* A row that exists is only ever replaced by one with the next revision.
LEMMA RowsAdvance ==
    Typed /\ [Next]_vars =>
        \A c \in Contracts :
            contract[c] # NoRow =>
                contract'[c] = contract[c] \/ contract'[c].revision = contract[c].revision + 1
PROOF
<1> SUFFICES ASSUME Typed, [Next]_vars, NEW c \in Contracts, contract[c] # NoRow,
                    contract'[c] # contract[c]
             PROVE  contract'[c].revision = contract[c].revision + 1
    OBVIOUS
<1>1. ASSUME NEW r \in Requests, NEW action \in Actions, NEW row \in Row,
             row.revision = request[r].row.revision, Commit(r, action, row)
      PROVE  contract'[c].revision = contract[c].revision + 1
    <2>1. contract' = [contract EXCEPT ![request[r].contract] = [row EXCEPT !.revision = @ + 1]]
        BY <1>1 DEF Commit
    <2>2. c = request[r].contract
        BY <2>1 DEF Typed, TypeOK
    <2>3. contract'[c] = [row EXCEPT !.revision = @ + 1]
        BY <2>1, <2>2 DEF Typed, TypeOK
    <2>4. contract'[c].revision = row.revision + 1
        BY <2>3 DEF Row
    <2> QED BY <1>1, <2>2, <2>4 DEF Commit
<1>2. ASSUME NEW r \in Requests, request[r].pc = "loaded" PROVE request[r].row \in Row
    BY <1>2, LoadedShape DEF Typed
<1>3. CASE \E r \in Requests, text \in Texts : Edit(r, text)
    <2> PICK r \in Requests, text \in Texts : Edit(r, text)
        BY <1>3
    <2> DEFINE edited == [request[r].row EXCEPT !.status = "draft", !.step = 0,
                             !.version = @ + 1, !.content = text]
    <2>1. Commit(r, "edit", edited)
        BY DEF Edit
    <2>2. request[r].row \in Row
        BY <1>2, <2>1 DEF Commit
    <2>3. edited \in Row
        BY <2>2, EditedRow
    <2>4. edited.revision = request[r].row.revision
        BY <2>2 DEF Row
    <2> HIDE DEF edited
    <2> QED BY <1>1, <2>1, <2>3, <2>4 DEF Actions
<1>4. CASE \E r \in Requests : Submit(r)
    <2> PICK r \in Requests : Submit(r)
        BY <1>4
    <2> DEFINE new == [request[r].row EXCEPT !.status = "in_review", !.step = 0]
    <2>1. Commit(r, "submit", new)
        BY DEF Submit
    <2>2. new \in Row /\ new.revision = request[r].row.revision
        BY <1>2, <2>1, SubmittedRow DEF Commit
    <2> HIDE DEF new
    <2> QED BY <1>1, <2>1, <2>2 DEF Actions
<1>5. CASE \E r \in Requests : Approve(r)
    <2> PICK r \in Requests : Approve(r)
        BY <1>5
    <2>1. Commit(r, "approve", Approved(request[r].row))
        BY DEF Approve
    <2>2. /\ Approved(request[r].row) \in Row
          /\ Approved(request[r].row).revision = request[r].row.revision
        BY <1>2, <2>1, ApprovedRow DEF Commit
    <2> QED BY <1>1, <2>1, <2>2 DEF Actions
<1>6. ASSUME NEW r \in Requests, NEW action \in Actions, NEW status \in Statuses,
             Commit(r, action, [request[r].row EXCEPT !.status = status])
      PROVE  contract'[c].revision = contract[c].revision + 1
    <2> DEFINE new == [request[r].row EXCEPT !.status = status]
    <2>1. new \in Row /\ new.revision = request[r].row.revision
        BY <1>2, <1>6, StatusRow DEF Commit
    <2> HIDE DEF new
    <2> QED BY <1>1, <1>6, <2>1 DEF new
<1>7. CASE \E r \in Requests : Reject(r) \/ Archive(r) \/ ReserveSend(r)
    <2> PICK r \in Requests : Reject(r) \/ Archive(r) \/ ReserveSend(r)
        BY <1>7
    <2> QED BY <1>6 DEF Reject, Archive, ReserveSend, Actions, Statuses
<1>8. CASE \E d \in Contracts, status \in SigningOutcomes : SignatureOutcome(d, status)
    <2> PICK d \in Contracts, status \in SigningOutcomes : SignatureOutcome(d, status)
        BY <1>8
    <2>1. contract[d] \in Row
        BY DEF SignatureOutcome, Sent, Typed, TypeOK
    <2>2. c = d
        BY DEF SignatureOutcome, Typed, TypeOK
    <2> QED BY <2>1, <2>2 DEF SignatureOutcome, Typed, TypeOK, Row
<1>9. CASE \E r \in Requests, d \in Contracts, text \in Texts : Create(r, d, text)
    BY <1>9 DEF Create, Typed, TypeOK
<1>10. CASE UNCHANGED contract
    BY <1>10
<1> QED
    BY <1>3, <1>4, <1>5, <1>7, <1>8, <1>9, <1>10
    DEF Next, vars, Authenticate, Fail, BeginCreate, LockForCreate, ChangeRole, Load

\* A request that is loaded (or locked) after a step was so before, or the step
\* is the one that brought it there.
LEMMA RequestsMove ==
    Typed /\ [Next]_vars =>
        \A r \in Requests :
            \/ request'[r] = request[r]
            \/ request'[r].pc \notin {"loaded", "locked"}
            \/ \E action \in Actions : Load(r, action)
            \/ \E w \in Workflows : LockForCreate(r, w)
PROOF
<1> SUFFICES ASSUME Typed, [Next]_vars, NEW r \in Requests,
                    request'[r] # request[r], request'[r].pc \in {"loaded", "locked"}
             PROVE  \/ \E action \in Actions : Load(r, action)
                    \/ \E w \in Workflows : LockForCreate(r, w)
    OBVIOUS
<1>1. request \in [Requests -> {Idle} \cup Authenticated \cup Loaded \cup Creating \cup Locked]
    BY DEF Typed, TypeOK
<1>2. ASSUME NEW t \in Requests,
             \/ request' = [request EXCEPT ![t] = Idle]
             \/ \E u \in Users, c \in Contracts : Authenticate(t, u, c)
             \/ \E u \in Users : BeginCreate(t, u)
      PROVE  FALSE
    BY <1>1, <1>2 DEF Idle, Authenticate, BeginCreate
<1>3. ASSUME NEW t \in Requests, NEW action \in Actions, Load(t, action) PROVE t = r
    BY <1>1, <1>3 DEF Load
<1>4. ASSUME NEW t \in Requests, NEW w \in Workflows, LockForCreate(t, w) PROVE t = r
    BY <1>1, <1>4 DEF LockForCreate
<1> QED
    BY <1>2, <1>3, <1>4
    DEF Next, vars, Fail, Create, ChangeRole, Edit, Submit, Approve, Reject, Archive,
        ReserveSend, Commit, SignatureOutcome

\* No handler holds a copy at first.
LEMMA CopiesInit == Init => Copies
    BY DEF Init, Copies, Idle

\* No step makes a copy differ from the row while they have the same revision:
\* whatever writes a row gives it a revision that no copy has (version_id_col).
LEMMA CopiesStep == Typed /\ Copies /\ [Next]_vars => Copies'
PROOF
<1> SUFFICES ASSUME Typed, Copies, [Next]_vars, NEW r \in Requests
             PROVE  /\ request'[r].pc = "loaded"
                          => CopyOf(request'[r], contract'[request'[r].contract])
                    /\ request'[r].pc = "locked"
                          => request'[r].user \notin Approvers(request'[r].workflow)
    BY DEF Copies
<1>1. CASE request'[r].pc \notin {"loaded", "locked"}
    BY <1>1
<1>2. CASE request'[r] = request[r] /\ request[r].pc = "locked"
    BY <1>2 DEF Copies
<1>3. CASE request'[r] = request[r] /\ request[r].pc = "loaded"
    <2> DEFINE q == request[r]
               row == contract[q.contract]
    <2>1. /\ q.contract \in Contracts /\ row # NoRow /\ row \in Row
          /\ q.row \in Row /\ CopyOf(q, row)
        BY <1>3, LoadedShape DEF Typed, TypeOK, Copies
    <2>2. contract'[q.contract] = row \/ contract'[q.contract].revision = row.revision + 1
        BY <2>1, RowsAdvance
    <2>3. row.revision \in Nat /\ q.row.revision \in Nat
        BY <2>1, RowFields
    <2> QED BY <1>3, <2>1, <2>2, <2>3 DEF CopyOf
<1>4. CASE \E action \in Actions : Load(r, action)
    <2> PICK action \in Actions : Load(r, action)
        BY <1>4
    <2> DEFINE q == request[r]
               row == contract[q.contract]
    <2>1. q.contract \in Contracts /\ row \in Row
        BY AuthenticatedShape DEF Load, Typed, TypeOK
    <2>2. /\ request'[r] = [pc |-> "loaded", user |-> q.user, role |-> q.role,
                            contract |-> q.contract, revision |-> q.revision,
                            action |-> action, row |-> row]
          /\ contract' = contract
          /\ row.revision = q.revision
          /\ Permitted(action, q.user, q.role, row)
        BY DEF Load, Typed, TypeOK
    <2>3. row.revision \in Nat
        BY <2>1, RowFields
    <2> QED BY <2>2, <2>3 DEF CopyOf
<1>5. CASE \E w \in Workflows : LockForCreate(r, w)
    BY <1>5 DEF LockForCreate, Typed, TypeOK
<1> QED BY <1>1, <1>2, <1>3, <1>4, <1>5, RequestsMove

--------------------------------------------------------------------------------
(* What a step does to the tables, with no handler and no copy in sight.    *)

tables == <<contract, versions, signatures, audit>>

\* Contract c becomes a row with these fields, and action is on record for u.
Becomes(c, u, action, status, step, version, text) ==
    /\ contract[c] # NoRow
    /\ \E new \in Row :
          /\ new.owner = contract[c].owner
          /\ new.workflow = contract[c].workflow
          /\ new.status = status /\ new.step = step
          /\ new.version = version /\ new.content = text
          /\ contract' = [contract EXCEPT ![c] = new]
    /\ audit' = audit \cup
         {[contract |-> c, action |-> action, actor |-> u,
           version |-> version, step |-> step]}

AtomicCreate(c, u, w, text) ==
    /\ contract[c] = NoRow
    /\ u \notin Approvers(w)
    /\ contract' = [contract EXCEPT ![c] =
         [owner |-> u, workflow |-> w, status |-> "draft",
          step |-> 0, version |-> 1, revision |-> 1, content |-> text]]
    /\ versions' = versions \cup {[contract |-> c, version |-> 1, content |-> text]}
    /\ audit' = audit \cup
         {[contract |-> c, action |-> "create", actor |-> u, version |-> 1, step |-> 0]}
    /\ signatures' = signatures

AtomicEdit(c, u, text) ==
    /\ contract[c].status \in {"draft", "rejected"}
    /\ Becomes(c, u, "edit", "draft", 0, contract[c].version + 1, text)
    /\ versions' = versions \cup
         {[contract |-> c, version |-> contract[c].version + 1, content |-> text]}
    /\ signatures' = signatures

\* The operations that leave version and text alone.
AtomicMove(c, u, action, from, status, step) ==
    /\ contract[c].status \in from
    /\ Becomes(c, u, action, status, step, contract[c].version, contract[c].content)
    /\ versions' = versions

AtomicSubmit(c, u) ==
    AtomicMove(c, u, "submit", {"draft"}, "in_review", 0) /\ signatures' = signatures

MayDecideNow(c, u) ==
    u # contract[c].owner /\ contract[c].workflow[contract[c].step + 1] \in {Anyone, u}

AtomicApprove(c, u) ==
    /\ MayDecideNow(c, u)
    /\ AtomicMove(c, u, "approve", {"in_review"},
         IF contract[c].step + 1 = Len(contract[c].workflow) THEN "approved" ELSE "in_review",
         contract[c].step + 1)
    /\ signatures' = signatures

AtomicReject(c, u) ==
    /\ MayDecideNow(c, u)
    /\ AtomicMove(c, u, "reject", {"in_review"}, "rejected", contract[c].step)
    /\ signatures' = signatures

AtomicArchive(c, u) ==
    /\ AtomicMove(c, u, "archive",
         {"draft", "rejected", "approved", "signed", "signature_declined"},
         "archived", contract[c].step)
    /\ signatures' = signatures

AtomicSend(c, u) ==
    /\ ~Sent(c)
    /\ AtomicMove(c, u, "send", {"approved"}, "sending", contract[c].step)
    /\ signatures' = signatures \cup {[contract |-> c, version |-> contract[c].version]}

AtomicOutcome(c, status) ==
    /\ Sent(c)
    /\ contract[c] # NoRow
    /\ \E new \in Row :
          /\ new.owner = contract[c].owner
          /\ new.workflow = contract[c].workflow
          /\ new.status = status /\ new.step = contract[c].step
          /\ new.version = contract[c].version /\ new.content = contract[c].content
          /\ contract' = [contract EXCEPT ![c] = new]
    /\ UNCHANGED <<versions, signatures, audit>>

AtomicChange ==
    \/ \E c \in Contracts, u \in Users, text \in Texts : AtomicEdit(c, u, text)
    \/ \E c \in Contracts, u \in Users : AtomicSubmit(c, u)
    \/ \E c \in Contracts, u \in Users : AtomicApprove(c, u)
    \/ \E c \in Contracts, u \in Users : AtomicReject(c, u)
    \/ \E c \in Contracts, u \in Users : AtomicArchive(c, u)
    \/ \E c \in Contracts, u \in Users : AtomicSend(c, u)
    \/ \E c \in Contracts, status \in SigningOutcomes : AtomicOutcome(c, status)

AtomicStep ==
    \/ \E c \in Contracts, u \in Users, w \in Workflows, text \in Texts : AtomicCreate(c, u, w, text)
    \/ AtomicChange

\* The version check makes a commit act on the row itself, not on a copy of it.
LEMMA CommitIsAtomic ==
    ASSUME Typed, Copies, NEW r \in Requests, NEW action \in Actions, NEW row \in Row,
           Commit(r, action, row),
           row.owner = request[r].row.owner, row.workflow = request[r].row.workflow
    PROVE  LET c == request[r].contract
               u == request[r].user IN
           /\ c \in Contracts /\ u \in Users
           /\ contract[c] \in Row /\ contract[c] # NoRow
           /\ request[r].row = contract[c]
           /\ Permitted(action, u, request[r].role, contract[c])
           /\ Becomes(c, u, action, row.status, row.step, row.version, row.content)
PROOF
<1> DEFINE q == request[r]
           c == q.contract
           new == [row EXCEPT !.revision = @ + 1]
<1>1. /\ c \in Contracts /\ q.user \in Users /\ q.row \in Row
      /\ contract[c] # NoRow /\ contract[c] \in Row /\ CopyOf(q, contract[c])
    BY LoadedShape DEF Typed, TypeOK, Commit, Copies
<1>2. q.row = contract[c]
    BY <1>1 DEF Commit, CopyOf
<1>3. Permitted(action, q.user, q.role, contract[c])
    BY <1>1, <1>2 DEF Commit, CopyOf
<1>4. /\ new \in Row
      /\ new.owner = row.owner /\ new.workflow = row.workflow
      /\ new.status = row.status /\ new.step = row.step
      /\ new.version = row.version /\ new.content = row.content
    BY DEF Row
<1>5. contract' = [contract EXCEPT ![c] = new]
    BY DEF Commit
<1>6. Becomes(c, q.user, action, row.status, row.step, row.version, row.content)
    <2> HIDE DEF new
    <2> QED BY <1>1, <1>2, <1>4, <1>5 DEF Becomes, Commit
<1> QED BY <1>1, <1>2, <1>3, <1>6

\* Every step creates, changes one contract atomically, or leaves the tables alone.
LEMMA EveryStepCreatesOrChanges ==
    Typed /\ Copies /\ [Next]_vars =>
        \/ \E r \in Requests, c \in Contracts, text \in Texts : Create(r, c, text)
        \/ AtomicChange
        \/ UNCHANGED tables
PROOF
<1> SUFFICES ASSUME Typed, Copies, [Next]_vars
             PROVE  \/ \E r \in Requests, c \in Contracts, text \in Texts : Create(r, c, text)
                    \/ AtomicChange
                    \/ UNCHANGED tables
    OBVIOUS
<1>1. ASSUME NEW r \in Requests, request[r].pc = "loaded" PROVE request[r].row \in Row
    BY <1>1, LoadedShape DEF Typed
<1>2. CASE \E r \in Requests, c \in Contracts, text \in Texts : Create(r, c, text)
    BY <1>2
<1>3. CASE \E r \in Requests, text \in Texts : Edit(r, text)
    <2> PICK r \in Requests, text \in Texts : Edit(r, text)
        BY <1>3
    <2> DEFINE c == request[r].contract
               edited == [request[r].row EXCEPT !.status = "draft", !.step = 0,
                             !.version = @ + 1, !.content = text]
    <2>1. Commit(r, "edit", edited)
        BY DEF Edit
    <2>2. request[r].row \in Row
        BY <1>1, <2>1 DEF Commit
    <2>3. edited \in Row
        BY <2>2, EditedRow
    <2>4. /\ edited.owner = request[r].row.owner
          /\ edited.workflow = request[r].row.workflow
          /\ edited.status = "draft" /\ edited.step = 0
          /\ edited.version = request[r].row.version + 1 /\ edited.content = text
        BY <2>2 DEF Row
    <2>5. /\ signatures' = signatures
          /\ versions' = versions \cup
               {[contract |-> c, version |-> edited.version, content |-> text]}
        BY DEF Edit
    <2> HIDE DEF edited
    <2>6. /\ c \in Contracts /\ request[r].user \in Users
          /\ request[r].row = contract[c]
          /\ Permitted("edit", request[r].user, request[r].role, contract[c])
          /\ Becomes(c, request[r].user, "edit", "draft", 0, contract[c].version + 1, text)
        BY <2>1, <2>3, <2>4, CommitIsAtomic DEF Actions
    <2>7. AtomicEdit(c, request[r].user, text)
        BY <2>4, <2>5, <2>6 DEF AtomicEdit, Permitted, MayEdit
    <2> QED BY <2>6, <2>7 DEF AtomicChange
<1>4. CASE \E r \in Requests : Submit(r)
    <2> PICK r \in Requests : Submit(r)
        BY <1>4
    <2> DEFINE c == request[r].contract
               new == [request[r].row EXCEPT !.status = "in_review", !.step = 0]
    <2>1. Commit(r, "submit", new)
        BY DEF Submit
    <2>2. request[r].row \in Row
        BY <1>1, <2>1 DEF Commit
    <2>3. /\ new \in Row /\ new.owner = request[r].row.owner
          /\ new.workflow = request[r].row.workflow
          /\ new.status = "in_review" /\ new.step = 0
          /\ new.version = request[r].row.version /\ new.content = request[r].row.content
        BY <2>2, SubmittedRow
    <2> HIDE DEF new
    <2>4. /\ c \in Contracts /\ request[r].user \in Users
          /\ Permitted("submit", request[r].user, request[r].role, contract[c])
          /\ Becomes(c, request[r].user, "submit", "in_review", 0,
                     contract[c].version, contract[c].content)
        BY <2>1, <2>3, CommitIsAtomic DEF Actions
    <2>5. AtomicSubmit(c, request[r].user)
        BY <2>4 DEF Submit, AtomicSubmit, AtomicMove, Permitted, MaySubmit
    <2> QED BY <2>4, <2>5 DEF AtomicChange
<1>5. CASE \E r \in Requests : Approve(r)
    <2> PICK r \in Requests : Approve(r)
        BY <1>5
    <2> DEFINE c == request[r].contract
               new == Approved(request[r].row)
    <2>1. Commit(r, "approve", new)
        BY DEF Approve
    <2>2. request[r].row \in Row
        BY <1>1, <2>1 DEF Commit
    <2>3. /\ new \in Row /\ new.owner = request[r].row.owner
          /\ new.workflow = request[r].row.workflow
          /\ new.status = IF request[r].row.step + 1 = Len(request[r].row.workflow)
                          THEN "approved" ELSE request[r].row.status
          /\ new.step = request[r].row.step + 1
          /\ new.version = request[r].row.version /\ new.content = request[r].row.content
        BY <2>2, ApprovedRow
    <2> HIDE DEF new
    <2>4. /\ c \in Contracts /\ request[r].user \in Users
          /\ request[r].row = contract[c]
          /\ Permitted("approve", request[r].user, request[r].role, contract[c])
          /\ Becomes(c, request[r].user, "approve", new.status, new.step, new.version, new.content)
        BY <2>1, <2>3, CommitIsAtomic DEF Actions
    <2>5. MayDecide(request[r].user, request[r].role, contract[c])
        BY <2>4 DEF Permitted
    <2>6. Becomes(c, request[r].user, "approve",
             IF contract[c].step + 1 = Len(contract[c].workflow) THEN "approved" ELSE "in_review",
             contract[c].step + 1, contract[c].version, contract[c].content)
        BY <2>3, <2>4, <2>5 DEF MayDecide
    <2>7. AtomicApprove(c, request[r].user)
        BY <2>5, <2>6 DEF Approve, AtomicApprove, AtomicMove, MayDecide, MayDecideNow
    <2> QED BY <2>4, <2>7 DEF AtomicChange
<1>6. ASSUME NEW r \in Requests, NEW action \in Actions, NEW status \in Statuses,
             Commit(r, action, [request[r].row EXCEPT !.status = status])
      PROVE  LET c == request[r].contract IN
             /\ c \in Contracts /\ request[r].user \in Users
             /\ request[r].row = contract[c]
             /\ Permitted(action, request[r].user, request[r].role, contract[c])
             /\ Becomes(c, request[r].user, action, status, contract[c].step,
                        contract[c].version, contract[c].content)
    <2> DEFINE new == [request[r].row EXCEPT !.status = status]
    <2>1. request[r].row \in Row
        BY <1>1, <1>6 DEF Commit
    <2>2. /\ new \in Row /\ new.owner = request[r].row.owner
          /\ new.workflow = request[r].row.workflow
          /\ new.status = status /\ new.step = request[r].row.step
          /\ new.version = request[r].row.version /\ new.content = request[r].row.content
        BY <2>1, StatusRow
    <2>3. Commit(r, action, new)
        BY <1>6
    <2> HIDE DEF new
    <2> QED BY <2>2, <2>3, CommitIsAtomic
<1>7. CASE \E r \in Requests : Reject(r)
    <2> PICK r \in Requests : Reject(r)
        BY <1>7
    <2> QED BY <1>6 DEF Reject, Actions, Statuses, Permitted, MayDecide, MayDecideNow,
                        AtomicReject, AtomicMove, AtomicChange
<1>8. CASE \E r \in Requests : Archive(r)
    <2> PICK r \in Requests : Archive(r)
        BY <1>8
    <2> QED BY <1>6 DEF Archive, Actions, Statuses, Permitted, MayArchive,
                        AtomicArchive, AtomicMove, AtomicChange
<1>9. CASE \E r \in Requests : ReserveSend(r)
    <2> PICK r \in Requests : ReserveSend(r)
        BY <1>9
    <2> QED BY <1>6 DEF ReserveSend, Actions, Statuses, Permitted, MaySend,
                        AtomicSend, AtomicMove, AtomicChange
<1>10. CASE \E c \in Contracts, status \in SigningOutcomes : SignatureOutcome(c, status)
    <2> PICK c \in Contracts, status \in SigningOutcomes : SignatureOutcome(c, status)
        BY <1>10
    <2>1. contract[c] \in Row /\ contract[c] # NoRow
        BY DEF SignatureOutcome, Sent, Typed, TypeOK
    <2> DEFINE new == [contract[c] EXCEPT !.status = status, !.revision = @ + 1]
    <2>2. contract[c].revision + 1 \in Nat /\ status \in Statuses
        BY <2>1, RowFields DEF SigningOutcomes, Statuses
    <2>3. /\ new \in Row
          /\ new.owner = contract[c].owner /\ new.workflow = contract[c].workflow
          /\ new.status = status /\ new.step = contract[c].step
          /\ new.version = contract[c].version /\ new.content = contract[c].content
        BY <2>1, <2>2, Zenon DEF Row
    <2>4. contract' = [contract EXCEPT ![c] = new]
        BY Zenon DEF SignatureOutcome
    <2> HIDE DEF new
    <2>5. AtomicOutcome(c, status)
        BY <2>1, <2>3, <2>4 DEF SignatureOutcome, AtomicOutcome
    <2> QED BY <2>5 DEF AtomicChange
<1> QED
    BY <1>2, <1>3, <1>4, <1>5, <1>7, <1>8, <1>9, <1>10
    DEF Next, vars, tables, Authenticate, Fail, BeginCreate, LockForCreate, ChangeRole, Load

\* Every step of the handlers is one atomic change of the tables or none, creation
\* included: what the proofs below go through instead of the handlers.
LEMMA EveryStepIsAtomic ==
    Typed /\ Copies /\ [Next]_vars => AtomicStep \/ UNCHANGED tables
PROOF
<1> SUFFICES ASSUME Typed, Copies, [Next]_vars PROVE AtomicStep \/ UNCHANGED tables
    OBVIOUS
<1>1. ASSUME NEW r \in Requests, NEW c \in Contracts, NEW text \in Texts, Create(r, c, text)
      PROVE  AtomicStep
    <2>1. request[r].user \in Users /\ request[r].workflow \in Workflows
        BY <1>1 DEF Create, Typed, TypeOK, Idle, Authenticated, Loaded, Creating, Locked
    <2>2. AtomicCreate(c, request[r].user, request[r].workflow, text)
        BY <1>1 DEF Create, AtomicCreate, Copies
    <2> QED BY <2>1, <2>2 DEF AtomicStep
<1> QED BY <1>1, EveryStepCreatesOrChanges DEF AtomicStep

--------------------------------------------------------------------------------
(* Third layer: status, step and reservation of a contract go together.     *)

\* A contract that was reserved for sending never needs an approval again.
AfterReservation == {"sending", "signature_pending", "signed", "signature_declined", "archived"}

StageOf(row, isSent) ==
    /\ row.step <= Len(row.workflow)
    /\ row.status = "draft" => row.step = 0
    /\ row.status = "in_review" => row.step < Len(row.workflow)
    /\ row.status = "approved" => row.step = Len(row.workflow)
    /\ isSent => row.step = Len(row.workflow) /\ row.status \in AfterReservation

\* Every contract is at such a stage, and is sent at most once, as its newest version.
Stages ==
    /\ \A c \in Existing : StageOf(contract[c], Sent(c))
    /\ \A s \in signatures : s.version = contract[s.contract].version
    /\ \A s, t \in signatures : s.contract = t.contract => s = t

\* A chain has at least one step.
LEMMA WorkflowLength ==
    ASSUME NEW row \in Row
    PROVE  Len(row.workflow) \in Nat /\ Len(row.workflow) > 0 /\ row.step \in Nat
    BY ConstantsAssumption DEF Row

\* Becomes touches one row and leaves the others alone.
LEMMA BecomesEffect ==
    ASSUME Typed, NEW c \in Contracts, NEW u, NEW action, NEW status, NEW step,
           NEW version, NEW text, Becomes(c, u, action, status, step, version, text)
    PROVE  /\ c \in Existing /\ contract[c] \in Row /\ contract'[c] \in Row
           /\ contract'[c] # NoRow
           /\ contract'[c].owner = contract[c].owner
           /\ contract'[c].workflow = contract[c].workflow
           /\ contract'[c].status = status /\ contract'[c].step = step
           /\ contract'[c].version = version /\ contract'[c].content = text
           /\ \A d \in Contracts : d # c => contract'[d] = contract[d]
           /\ Existing' = Existing
PROOF
<1>1. PICK new \in Row :
          /\ new.owner = contract[c].owner
          /\ new.workflow = contract[c].workflow
          /\ new.status = status /\ new.step = step
          /\ new.version = version /\ new.content = text
          /\ contract' = [contract EXCEPT ![c] = new]
    BY DEF Becomes
<1>2. contract'[c] = new /\ \A d \in Contracts : d # c => contract'[d] = contract[d]
    BY <1>1 DEF Typed, TypeOK
<1>3. new # NoRow
    BY DEF Row, NoRow, Statuses
<1>4. contract[c] # NoRow /\ contract[c] \in Row
    BY DEF Becomes, Typed, TypeOK
<1> QED BY <1>1, <1>2, <1>3, <1>4 DEF Existing

\* The outcome of a signature touches the status of one row and no more.
LEMMA OutcomeEffect ==
    ASSUME Typed, NEW c \in Contracts, NEW status, AtomicOutcome(c, status)
    PROVE  /\ c \in Existing /\ contract[c] \in Row /\ contract'[c] \in Row
           /\ contract'[c] # NoRow
           /\ contract'[c].owner = contract[c].owner
           /\ contract'[c].workflow = contract[c].workflow
           /\ contract'[c].status = status /\ contract'[c].step = contract[c].step
           /\ contract'[c].version = contract[c].version
           /\ contract'[c].content = contract[c].content
           /\ \A d \in Contracts : d # c => contract'[d] = contract[d]
           /\ Existing' = Existing
PROOF
<1>1. PICK new \in Row :
          /\ new.owner = contract[c].owner
          /\ new.workflow = contract[c].workflow
          /\ new.status = status /\ new.step = contract[c].step
          /\ new.version = contract[c].version /\ new.content = contract[c].content
          /\ contract' = [contract EXCEPT ![c] = new]
    BY DEF AtomicOutcome
<1>2. contract'[c] = new /\ \A d \in Contracts : d # c => contract'[d] = contract[d]
    BY <1>1 DEF Typed, TypeOK
<1>3. new # NoRow
    BY DEF Row, NoRow, Statuses
<1>4. contract[c] # NoRow /\ contract[c] \in Row
    BY DEF AtomicOutcome, Typed, TypeOK
<1> QED BY <1>1, <1>2, <1>3, <1>4 DEF Existing

\* A creation adds one row and leaves the others alone.
LEMMA CreateEffect ==
    ASSUME Typed, NEW c \in Contracts, NEW u \in Users, NEW w \in Workflows,
           NEW text \in Texts, AtomicCreate(c, u, w, text)
    PROVE  /\ c \notin Existing /\ ~Sent(c) /\ contract'[c] \in Row /\ contract'[c] # NoRow
           /\ contract'[c].owner = u /\ contract'[c].workflow = w
           /\ contract'[c].status = "draft" /\ contract'[c].step = 0
           /\ contract'[c].version = 1 /\ contract'[c].content = text
           /\ \A d \in Contracts : d # c => contract'[d] = contract[d]
           /\ Existing' = Existing \cup {c}
PROOF
<1>1. /\ contract'[c] = [owner |-> u, workflow |-> w, status |-> "draft",
                         step |-> 0, version |-> 1, revision |-> 1, content |-> text]
      /\ \A d \in Contracts : d # c => contract'[d] = contract[d]
    BY DEF AtomicCreate, Typed, TypeOK
<1>2. contract'[c] \in Row
    BY <1>1 DEF Row, Statuses
<1>3. contract'[c] # NoRow
    BY <1>2 DEF Row, NoRow, Statuses
<1>4. ~Sent(c) /\ c \notin Existing
    BY DEF AtomicCreate, Sent, Typed, Existing
<1> QED BY <1>1, <1>2, <1>3, <1>4 DEF Existing

\* Nothing is sent before there is a contract.
LEMMA StagesInit == Init => Stages
    BY DEF Init, Stages, Existing

\* One row changed and no reservation was added: the new row is all there is to see.
LEMMA StagesFromRow ==
    ASSUME Stages, NEW c \in Contracts,
           \A d \in Contracts : d # c => contract'[d] = contract[d],
           Existing' = Existing \cup {c},
           signatures' = signatures, signatures \subseteq SignatureRequest,
           StageOf(contract'[c], Sent(c)),
           Sent(c) => contract'[c].version = contract[c].version
    PROVE  Stages'
    BY DEF Stages, Sent, Existing, SignatureRequest

\* Every atomic change takes a contract from a stage to a stage.
LEMMA StagesStep ==
    ASSUME Typed, Typed', Stages, AtomicStep \/ UNCHANGED tables
    PROVE  Stages'
PROOF
<1>0. signatures \subseteq SignatureRequest
    BY DEF Typed, TypeOK
<1>1. ASSUME NEW c \in Contracts, NEW u \in Users, NEW w \in Workflows, NEW text \in Texts,
             AtomicCreate(c, u, w, text)
      PROVE  Stages'
    <2>1. StageOf(contract'[c], Sent(c))
        BY <1>1, CreateEffect, WorkflowLength DEF StageOf
    <2> QED BY <1>0, <1>1, <2>1, CreateEffect, StagesFromRow DEF AtomicCreate
<1>2. ASSUME NEW c \in Contracts, NEW u \in Users, NEW text \in Texts, AtomicEdit(c, u, text)
      PROVE  Stages'
    <2>1. /\ contract[c].status \in {"draft", "rejected"} /\ signatures' = signatures
          /\ Becomes(c, u, "edit", "draft", 0, contract[c].version + 1, text)
        BY <1>2 DEF AtomicEdit
    <2>2. ~Sent(c)
        BY <2>1 DEF Stages, StageOf, Becomes, Existing, AfterReservation
    <2>3. StageOf(contract'[c], Sent(c))
        BY <2>1, <2>2, BecomesEffect, WorkflowLength DEF StageOf
    <2> QED BY <1>0, <2>1, <2>2, <2>3, BecomesEffect, StagesFromRow
<1>3. ASSUME NEW c \in Contracts, NEW u \in Users, AtomicSubmit(c, u) PROVE Stages'
    <2>1. /\ contract[c].status = "draft" /\ signatures' = signatures
          /\ Becomes(c, u, "submit", "in_review", 0, contract[c].version, contract[c].content)
        BY <1>3 DEF AtomicSubmit, AtomicMove
    <2>2. ~Sent(c)
        BY <2>1 DEF Stages, StageOf, Becomes, Existing, AfterReservation
    <2>3. StageOf(contract'[c], Sent(c))
        BY <2>1, <2>2, BecomesEffect, WorkflowLength DEF StageOf
    <2> QED BY <1>0, <2>1, <2>2, <2>3, BecomesEffect, StagesFromRow
<1>4. ASSUME NEW c \in Contracts, NEW u \in Users, AtomicApprove(c, u) PROVE Stages'
    <2> DEFINE status == IF contract[c].step + 1 = Len(contract[c].workflow)
                         THEN "approved" ELSE "in_review"
    <2>1. /\ contract[c].status = "in_review" /\ signatures' = signatures
          /\ Becomes(c, u, "approve", status, contract[c].step + 1,
                     contract[c].version, contract[c].content)
        BY <1>4 DEF AtomicApprove, AtomicMove
    <2>2. ~Sent(c) /\ contract[c].step < Len(contract[c].workflow)
        BY <2>1 DEF Stages, StageOf, Becomes, Existing, AfterReservation
    <2>3. /\ contract'[c].status = status /\ contract'[c].step = contract[c].step + 1
          /\ contract'[c].workflow = contract[c].workflow
        BY <2>1, BecomesEffect
    <2>4. contract[c].step \in Nat /\ Len(contract[c].workflow) \in Nat
        BY <2>1, BecomesEffect, WorkflowLength
    <2>5. StageOf(contract'[c], Sent(c))
        BY <2>2, <2>3, <2>4 DEF StageOf
    <2> QED BY <1>0, <2>1, <2>2, <2>5, BecomesEffect, StagesFromRow
<1>5. ASSUME NEW c \in Contracts, NEW u \in Users, AtomicReject(c, u) PROVE Stages'
    <2>1. /\ contract[c].status = "in_review" /\ signatures' = signatures
          /\ Becomes(c, u, "reject", "rejected", contract[c].step,
                     contract[c].version, contract[c].content)
        BY <1>5 DEF AtomicReject, AtomicMove
    <2>2. ~Sent(c) /\ contract[c].step <= Len(contract[c].workflow)
        BY <2>1 DEF Stages, StageOf, Becomes, Existing, AfterReservation
    <2>3. StageOf(contract'[c], Sent(c))
        BY <2>1, <2>2, BecomesEffect DEF StageOf
    <2> QED BY <1>0, <2>1, <2>2, <2>3, BecomesEffect, StagesFromRow
<1>6. ASSUME NEW c \in Contracts, NEW u \in Users, AtomicArchive(c, u) PROVE Stages'
    <2>1. /\ signatures' = signatures
          /\ Becomes(c, u, "archive", "archived", contract[c].step,
                     contract[c].version, contract[c].content)
        BY <1>6 DEF AtomicArchive, AtomicMove
    <2>2. StageOf(contract[c], Sent(c))
        BY <2>1 DEF Stages, Becomes, Existing
    <2>3. StageOf(contract'[c], Sent(c))
        BY <2>1, <2>2, BecomesEffect DEF StageOf, AfterReservation
    <2> QED BY <1>0, <2>1, <2>3, BecomesEffect, StagesFromRow
<1>7. ASSUME NEW c \in Contracts, NEW u \in Users, AtomicSend(c, u) PROVE Stages'
    <2>1. /\ contract[c].status = "approved" /\ ~Sent(c)
          /\ signatures' = signatures \cup {[contract |-> c, version |-> contract[c].version]}
          /\ Becomes(c, u, "send", "sending", contract[c].step,
                     contract[c].version, contract[c].content)
        BY <1>7 DEF AtomicSend, AtomicMove
    <2>2. StageOf(contract[c], Sent(c))
        BY <2>1 DEF Stages, Becomes, Existing
    <2>3. StageOf(contract'[c], TRUE)
        BY <2>1, <2>2, BecomesEffect, WorkflowLength DEF StageOf, AfterReservation
    <2>4. Existing' = Existing /\ \A d \in Contracts : d # c => contract'[d] = contract[d]
        BY <2>1, BecomesEffect
    <2>5. ASSUME NEW d \in Existing' PROVE StageOf(contract'[d], Sent(d)')
        <3>1. CASE d = c
            BY <2>3, <3>1 DEF StageOf
        <3>2. CASE d # c
            <4>1. Sent(d)' <=> Sent(d)
                BY <2>1, <3>2 DEF Sent
            <4>2. d \in Existing /\ contract'[d] = contract[d]
                BY <2>4, <3>2 DEF Existing
            <4>3. StageOf(contract[d], Sent(d))
                BY <4>2 DEF Stages
            <4> QED BY <4>1, <4>2, <4>3 DEF StageOf
        <3> QED BY <3>1, <3>2
    <2>6. \A s \in signatures' : s.version = contract'[s.contract].version
        BY <1>0, <2>1, <2>4, BecomesEffect DEF Stages, Sent, SignatureRequest
    <2>7. \A s, t \in signatures' : s.contract = t.contract => s = t
        BY <2>1 DEF Stages, Sent
    <2> QED BY <2>5, <2>6, <2>7 DEF Stages
<1>8. ASSUME NEW c \in Contracts, NEW status \in SigningOutcomes, AtomicOutcome(c, status)
      PROVE  Stages'
    <2>1. Sent(c) /\ signatures' = signatures
        BY <1>8 DEF AtomicOutcome
    <2>2. StageOf(contract[c], TRUE)
        BY <1>8, <2>1, OutcomeEffect DEF Stages
    <2>3. StageOf(contract'[c], TRUE)
        BY <1>8, <2>2, OutcomeEffect, WorkflowLength DEF StageOf, AfterReservation, SigningOutcomes
    <2> QED BY <1>0, <1>8, <2>1, <2>3, OutcomeEffect, StagesFromRow
<1>9. ASSUME UNCHANGED tables PROVE Stages'
    BY <1>9 DEF tables, Stages, Existing, Sent
<1> QED BY <1>1, <1>2, <1>3, <1>4, <1>5, <1>6, <1>7, <1>8, <1>9 DEF AtomicStep, AtomicChange

--------------------------------------------------------------------------------
(* Fourth layer: the trail of audit events and snapshots.                   *)

\* An event is about a version the contract has reached, an approval about a step
\* it has reached, and a return is the last word about its version.
EventOf(e, row, isSent) ==
    /\ row # NoRow
    /\ e.version <= row.version
    /\ e.version = row.version =>
          /\ e.action = "approve" => e.step <= row.step
          /\ e.action = "reject" => row.status \in {"rejected", "archived"} /\ ~isSent

Events == \A e \in audit : EventOf(e, contract[e.contract], Sent(e.contract))

SnapshotsExist == \A d \in versions : contract[d.contract] # NoRow

Trail ==
    /\ Events
    /\ ApprovalChain
    /\ OneApprovalPerStep
    /\ VersionsMatch
    /\ SnapshotsExist

\* The trail is empty at first.
LEMMA TrailInit == Init => Trail
    BY DEF Init, Trail, Events, ApprovalChain, OneApprovalPerStep, VersionsMatch,
           SnapshotsExist, Existing

\* An audit event names a contract, a version and a step.
LEMMA EventTypes ==
    ASSUME Typed, NEW e \in audit
    PROVE  /\ e.contract \in Contracts /\ e.version \in Nat /\ e.step \in Nat
           /\ contract[e.contract] # NoRow =>
                /\ contract[e.contract].version \in Nat
                /\ contract[e.contract].step \in Nat
    BY DEF Typed, TypeOK, AuditEvent, Row

\* Events of the contracts that a step leaves alone stay in order.
LEMMA EventsFromRow ==
    ASSUME Typed, Events, NEW c \in Contracts, NEW e0,
           \A d \in Contracts : d # c => contract'[d] = contract[d],
           \A d \in Contracts : d # c => (Sent(d)' <=> Sent(d)),
           audit' \subseteq audit \cup {e0}, e0.contract = c,
           EventOf(e0, contract'[c], Sent(c)'),
           \A e \in audit : e.contract = c => EventOf(e, contract'[c], Sent(c)')
    PROVE  Events'
PROOF
<1> SUFFICES ASSUME NEW e \in audit'
             PROVE  EventOf(e, contract'[e.contract], Sent(e.contract)')
    BY DEF Events, Sent
<1>1. CASE e = e0
    BY <1>1
<1>2. CASE e \in audit /\ e.contract = c
    BY <1>2
<1>3. CASE e \in audit /\ e.contract # c
    <2>1. e.contract \in Contracts /\ EventOf(e, contract[e.contract], Sent(e.contract))
        BY <1>3, EventTypes DEF Events
    <2> QED BY <1>3, <2>1 DEF EventOf
<1> QED BY <1>1, <1>2, <1>3

\* No atomic change contradicts an event that is on record: the version and the
\* step only grow, and a version that was returned is not taken up again.
LEMMA EventsStep ==
    ASSUME Typed, Stages, Events, AtomicStep \/ UNCHANGED tables
    PROVE  Events'
PROOF
<1>1. ASSUME NEW c \in Contracts, NEW u \in Users, NEW w \in Workflows, NEW text \in Texts,
             AtomicCreate(c, u, w, text)
      PROVE  Events'
    <2> DEFINE e0 == [contract |-> c, action |-> "create", actor |-> u, version |-> 1, step |-> 0]
    <2>1. \A e \in audit : e.contract # c
        BY <1>1, CreateEffect DEF Events, EventOf, Existing
    <2>2. EventOf(e0, contract'[c], Sent(c)')
        BY <1>1, CreateEffect DEF EventOf
    <2>3. \A d \in Contracts : Sent(d)' <=> Sent(d)
        BY <1>1 DEF AtomicCreate, Sent
    <2>4. audit' \subseteq audit \cup {e0} /\ e0.contract = c
        BY <1>1 DEF AtomicCreate
    <2> HIDE DEF e0
    <2> QED BY <1>1, <2>1, <2>2, <2>3, <2>4, CreateEffect, EventsFromRow
<1>2. ASSUME NEW c \in Contracts, NEW u \in Users, NEW action, NEW status, NEW step,
             NEW version \in Nat, NEW text,
             Becomes(c, u, action, status, step, version, text),
             version > contract[c].version, action # "reject"
      PROVE  /\ \A e \in audit : e.contract = c => EventOf(e, contract'[c], Sent(c)')
             /\ action = "edit" =>
                  EventOf([contract |-> c, action |-> action, actor |-> u,
                           version |-> version, step |-> step], contract'[c], Sent(c)')
    <2>1. /\ contract'[c] # NoRow /\ contract'[c].version = version
          /\ contract[c].version \in Nat
        BY <1>2, BecomesEffect, RowFields
    <2>2. \A e \in audit : e.contract = c => e.version <= contract[c].version /\ e.version \in Nat
        BY EventTypes DEF Events, EventOf
    <2> QED BY <1>2, <2>1, <2>2 DEF EventOf
<1>3. ASSUME NEW c \in Contracts, NEW u \in Users, NEW text \in Texts, AtomicEdit(c, u, text)
      PROVE  Events'
    <2> DEFINE version == contract[c].version + 1
               e0 == [contract |-> c, action |-> "edit", actor |-> u,
                      version |-> version, step |-> 0]
    <2>1. /\ Becomes(c, u, "edit", "draft", 0, version, text)
          /\ signatures' = signatures
        BY <1>3 DEF AtomicEdit
    <2>2. contract[c].version \in Nat
        BY <2>1, BecomesEffect, RowFields
    <2>3. /\ \A e \in audit : e.contract = c => EventOf(e, contract'[c], Sent(c)')
          /\ EventOf(e0, contract'[c], Sent(c)')
        BY <1>2, <2>1, <2>2
    <2>4. audit' \subseteq audit \cup {e0} /\ e0.contract = c
        BY <2>1 DEF Becomes
    <2>5. \A d \in Contracts : Sent(d)' <=> Sent(d)
        BY <2>1 DEF Sent
    <2>6. \A d \in Contracts : d # c => contract'[d] = contract[d]
        BY <2>1, BecomesEffect
    <2> HIDE DEF e0
    <2> QED BY <2>3, <2>4, <2>5, <2>6, EventsFromRow
\* The operations that keep the version: what they must not do is lower the step
\* or leave "rejected" for anything but the archive.
<1>4. ASSUME NEW c \in Contracts, NEW u \in Users, NEW action, NEW status, NEW step \in Nat,
             Becomes(c, u, action, status, step, contract[c].version, contract[c].content),
             contract[c].step <= step,
             contract[c].status \in {"rejected", "archived"} /\ ~Sent(c)
                => status \in {"rejected", "archived"} /\ ~Sent(c)',
             action = "reject" => status = "rejected" /\ ~Sent(c)',
             \A d \in Contracts : d # c => (Sent(d)' <=> Sent(d))
      PROVE  Events'
    <2> DEFINE e0 == [contract |-> c, action |-> action, actor |-> u,
                      version |-> contract[c].version, step |-> step]
    <2>1. /\ contract'[c] # NoRow /\ contract[c] # NoRow
          /\ contract'[c].version = contract[c].version
          /\ contract'[c].status = status /\ contract'[c].step = step
          /\ contract[c].version \in Nat /\ contract[c].step \in Nat
        <3>1. c \in Existing /\ contract[c] \in Row
            BY <1>4, BecomesEffect
        <3>2. /\ contract'[c] # NoRow
              /\ contract'[c].version = contract[c].version
              /\ contract'[c].status = status /\ contract'[c].step = step
            BY <1>4, BecomesEffect
        <3> QED BY <3>1, <3>2, RowFields DEF Existing
    <2>2. EventOf(e0, contract'[c], Sent(c)')
        BY <1>4, <2>1 DEF EventOf
    <2>3. ASSUME NEW e \in audit, e.contract = c PROVE EventOf(e, contract'[c], Sent(c)')
        <3>1. EventOf(e, contract[c], Sent(c)) /\ e.version \in Nat /\ e.step \in Nat
            BY <2>3, EventTypes DEF Events
        <3> QED BY <1>4, <2>1, <3>1 DEF EventOf
    <2>4. audit' \subseteq audit \cup {e0} /\ e0.contract = c
        BY <1>4 DEF Becomes
    <2>5. \A d \in Contracts : d # c => contract'[d] = contract[d]
        BY <1>4, BecomesEffect
    <2> HIDE DEF e0
    <2> QED BY <1>4, <2>2, <2>3, <2>4, <2>5, EventsFromRow
<1>5. ASSUME NEW c \in Contracts, NEW u \in Users,
             AtomicSubmit(c, u) \/ AtomicApprove(c, u) \/ AtomicReject(c, u) \/ AtomicArchive(c, u)
      PROVE  Events'
    <2>1. \A d \in Contracts : Sent(d)' <=> Sent(d)
        BY <1>5 DEF AtomicSubmit, AtomicApprove, AtomicReject, AtomicArchive, Sent
    <2>2. contract[c] \in Row /\ c \in Existing
        BY <1>5 DEF AtomicSubmit, AtomicApprove, AtomicReject, AtomicArchive, AtomicMove,
                    Becomes, Typed, TypeOK, Existing
    <2>3. contract[c].step \in Nat /\ StageOf(contract[c], Sent(c))
        BY <2>2, RowFields DEF Stages
    <2>4. CASE AtomicSubmit(c, u)
        <3>1. /\ Becomes(c, u, "submit", "in_review", 0, contract[c].version, contract[c].content)
              /\ contract[c].status = "draft" /\ contract[c].step <= 0
            BY <2>3, <2>4 DEF AtomicSubmit, AtomicMove, StageOf
        <3> QED BY <1>4, <2>1, <3>1 DEF Sent
    <2>5. CASE AtomicApprove(c, u)
        <3> DEFINE status == IF contract[c].step + 1 = Len(contract[c].workflow)
                             THEN "approved" ELSE "in_review"
        <3>1. /\ Becomes(c, u, "approve", status, contract[c].step + 1,
                         contract[c].version, contract[c].content)
              /\ contract[c].status = "in_review"
            BY <2>5 DEF AtomicApprove, AtomicMove
        <3>2. contract[c].step + 1 \in Nat /\ contract[c].step <= contract[c].step + 1
            BY <2>3
        <3> HIDE DEF status
        <3> QED BY <1>4, <2>1, <3>1, <3>2
    <2>6. CASE AtomicReject(c, u)
        <3>1. /\ Becomes(c, u, "reject", "rejected", contract[c].step,
                         contract[c].version, contract[c].content)
              /\ contract[c].status = "in_review"
            BY <2>6 DEF AtomicReject, AtomicMove
        <3>2. ~Sent(c) /\ ~Sent(c)' /\ contract[c].step <= contract[c].step
            BY <2>1, <2>3, <3>1 DEF StageOf, AfterReservation
        <3> QED BY <1>4, <2>1, <2>3, <3>1, <3>2 DEF Sent
    <2>7. CASE AtomicArchive(c, u)
        <3>1. Becomes(c, u, "archive", "archived", contract[c].step,
                      contract[c].version, contract[c].content)
            BY <2>7 DEF AtomicArchive, AtomicMove
        <3>2. /\ contract[c].step <= contract[c].step
              /\ ~Sent(c) => ~Sent(c)'
              /\ \A d \in Contracts : d # c => (Sent(d)' <=> Sent(d))
            BY <2>1, <2>3
        <3> QED BY <1>4, <2>3, <3>1, <3>2
    <2> QED BY <1>5, <2>4, <2>5, <2>6, <2>7
<1>6. ASSUME NEW c \in Contracts, NEW u \in Users, AtomicSend(c, u) PROVE Events'
    <2>1. /\ contract[c].status = "approved"
          /\ signatures' = signatures \cup {[contract |-> c, version |-> contract[c].version]}
          /\ Becomes(c, u, "send", "sending", contract[c].step,
                     contract[c].version, contract[c].content)
        BY <1>6 DEF AtomicSend, AtomicMove
    <2>2. \A d \in Contracts : d # c => (Sent(d)' <=> Sent(d))
        BY <2>1 DEF Sent
    <2>3. contract[c].step \in Nat
        BY <2>1, BecomesEffect, RowFields
    <2>4. /\ contract[c].step <= contract[c].step
          /\ ~ (contract[c].status \in {"rejected", "archived"})
        BY <2>1, <2>3
    <2> QED BY <1>4, <2>1, <2>2, <2>3, <2>4
<1>7. ASSUME NEW c \in Contracts, NEW status \in SigningOutcomes, AtomicOutcome(c, status)
      PROVE  Events'
    <2>1. /\ audit' = audit /\ Sent(c)
          /\ \A d \in Contracts : Sent(d)' <=> Sent(d)
        BY <1>7 DEF AtomicOutcome, Sent
    <2>2. ASSUME NEW e \in audit PROVE EventOf(e, contract'[e.contract], Sent(e.contract)')
        <3>1. /\ EventOf(e, contract[e.contract], Sent(e.contract))
              /\ e.contract \in Contracts
            BY EventTypes DEF Events
        <3>2. CASE e.contract = c
            <4>1. /\ contract'[c] # NoRow /\ contract'[c].version = contract[c].version
                  /\ contract'[c].step = contract[c].step
                BY <1>7, OutcomeEffect
            <4> QED BY <2>1, <3>1, <3>2, <4>1 DEF EventOf
        <3>3. CASE e.contract # c
            <4>1. contract'[e.contract] = contract[e.contract]
                BY <1>7, <3>1, <3>3, OutcomeEffect
            <4> QED BY <2>1, <3>1, <4>1 DEF EventOf
        <3> QED BY <3>2, <3>3
    <2> QED BY <2>1, <2>2 DEF Events, Sent
<1>8. ASSUME UNCHANGED tables PROVE Events'
    BY <1>8 DEF tables, Events, Sent
<1> QED BY <1>1, <1>3, <1>5, <1>6, <1>7, <1>8 DEF AtomicStep, AtomicChange

--------------------------------------------------------------------------------

ChainOf(c) ==
    \A i \in 1..contract[c].step : ApprovedBy(c, contract[c].version, i)

\* A row changed: the chains of the others stay on record.
LEMMA ChainFromRow ==
    ASSUME Typed, ApprovalChain, NEW c \in Contracts, audit \subseteq audit',
           \A d \in Contracts : d # c => contract'[d] = contract[d],
           Existing' = Existing \cup {c}, ChainOf(c)'
    PROVE  ApprovalChain'
PROOF
<1> SUFFICES ASSUME NEW d \in Existing' PROVE ChainOf(d)'
    BY DEF ApprovalChain, ChainOf
<1>1. CASE d = c
    BY <1>1
<1>2. CASE d # c
    <2>1. d \in Existing /\ contract'[d] = contract[d]
        BY <1>2 DEF Existing
    <2>2. ASSUME NEW i \in 1..contract[d].step
          PROVE  ApprovedBy(d, contract[d].version, i)
        BY <2>1 DEF ApprovalChain
    <2> QED BY <2>1, <2>2 DEF ChainOf, ApprovedBy
<1> QED BY <1>1, <1>2

\* Only an approval moves current_step on, and it leaves its event; an edit, which
\* starts a new version, sets it back to zero.
LEMMA ChainStep ==
    ASSUME Typed, ApprovalChain, AtomicStep \/ UNCHANGED tables
    PROVE  ApprovalChain'
PROOF
<1>1. ASSUME NEW c \in Contracts, NEW u \in Users, NEW w \in Workflows, NEW text \in Texts,
             AtomicCreate(c, u, w, text)
      PROVE  ApprovalChain'
    <2>1. /\ contract'[c].step = 0 /\ Existing' = Existing \cup {c}
          /\ \A d \in Contracts : d # c => contract'[d] = contract[d]
        BY <1>1, CreateEffect
    <2>2. audit \subseteq audit'
        BY <1>1 DEF AtomicCreate
    <2>3. ChainOf(c)'
        BY <2>1 DEF ChainOf
    <2> QED BY <2>1, <2>2, <2>3, ChainFromRow
\* The operations that start the chain again.
<1>2. ASSUME NEW c \in Contracts, NEW u, NEW action, NEW status, NEW version, NEW text,
             Becomes(c, u, action, status, 0, version, text)
      PROVE  ApprovalChain'
    <2>1. /\ contract'[c].step = 0 /\ Existing' = Existing /\ c \in Existing
          /\ \A d \in Contracts : d # c => contract'[d] = contract[d]
        BY <1>2, BecomesEffect
    <2>2. audit \subseteq audit' /\ Existing' = Existing \cup {c}
        BY <1>2, <2>1 DEF Becomes
    <2>3. ChainOf(c)'
        BY <2>1 DEF ChainOf
    <2> QED BY <2>1, <2>2, <2>3, ChainFromRow
\* The operations that leave step and version where they are.
<1>3. ASSUME NEW c \in Existing, audit \subseteq audit', Existing' = Existing,
             contract'[c].owner = contract[c].owner,
             contract'[c].workflow = contract[c].workflow,
             contract'[c].version = contract[c].version,
             contract'[c].step = contract[c].step,
             \A d \in Contracts : d # c => contract'[d] = contract[d]
      PROVE  ApprovalChain'
    <2>1. ChainOf(c)
        BY DEF ApprovalChain, ChainOf
    <2>2. ChainOf(c)'
        BY <1>3, <2>1 DEF ChainOf, ApprovedBy
    <2> QED BY <1>3, <2>2, ChainFromRow DEF Existing
<1>4. ASSUME NEW c \in Contracts, NEW u \in Users, AtomicApprove(c, u) PROVE ApprovalChain'
    <2> DEFINE next == contract[c].step + 1
               v == contract[c].version
               e0 == [contract |-> c, action |-> "approve", actor |-> u,
                      version |-> v, step |-> next]
               status == IF next = Len(contract[c].workflow) THEN "approved" ELSE "in_review"
    <2>1. /\ Becomes(c, u, "approve", status, next, v, contract[c].content)
          /\ MayDecideNow(c, u)
        BY <1>4 DEF AtomicApprove, AtomicMove
    <2> HIDE DEF status
    <2>2. /\ c \in Existing /\ Existing' = Existing
          /\ contract'[c].owner = contract[c].owner
          /\ contract'[c].workflow = contract[c].workflow
          /\ contract'[c].version = v /\ contract'[c].step = next
          /\ \A d \in Contracts : d # c => contract'[d] = contract[d]
        BY <2>1, BecomesEffect
    <2>3. audit' = audit \cup {e0}
        BY <2>1 DEF Becomes
    <2>4. contract[c].step \in Nat
        BY <2>1, BecomesEffect, RowFields
    <2>5. ASSUME NEW i \in 1..next
          PROVE  \E e \in audit' :
                    /\ e.contract = c /\ e.action = "approve" /\ e.version = v /\ e.step = i
                    /\ e.actor # contract[c].owner
                    /\ contract[c].workflow[i] \in {Anyone, e.actor}
        <3>1. CASE i = next
            <4>1. /\ e0 \in audit' /\ e0.contract = c /\ e0.action = "approve"
                  /\ e0.version = v /\ e0.step = i /\ e0.actor = u
                BY <2>3, <3>1
            <4> HIDE DEF e0
            <4> QED BY <2>1, <3>1, <4>1 DEF MayDecideNow
        <3>2. CASE i # next
            <4>1. i \in 1..contract[c].step
                BY <2>4, <3>2
            <4>2. ApprovedBy(c, v, i)
                BY <2>2, <4>1 DEF ApprovalChain
            <4> QED BY <2>3, <4>2 DEF ApprovedBy
        <3> QED BY <3>1, <3>2
    <2>6. ChainOf(c)'
        BY <2>2, <2>5 DEF ChainOf, ApprovedBy
    <2>7. audit \subseteq audit' /\ Existing' = Existing \cup {c}
        BY <2>2, <2>3
    <2> QED BY <2>2, <2>6, <2>7, ChainFromRow
<1>5. ASSUME NEW c \in Contracts, NEW u, NEW action, NEW status,
             Becomes(c, u, action, status, contract[c].step, contract[c].version,
                     contract[c].content)
      PROVE  ApprovalChain'
    <2>1. audit \subseteq audit'
        BY <1>5 DEF Becomes
    <2> QED BY <1>3, <1>5, <2>1, BecomesEffect
<1>6. ASSUME NEW c \in Contracts, NEW status \in SigningOutcomes, AtomicOutcome(c, status)
      PROVE  ApprovalChain'
    <2>1. audit' = audit
        BY <1>6 DEF AtomicOutcome
    <2> QED BY <1>3, <1>6, <2>1, OutcomeEffect
<1>7. ASSUME UNCHANGED tables PROVE ApprovalChain'
    BY <1>7 DEF tables, ApprovalChain, ApprovedBy, Existing
<1> QED
    BY <1>1, <1>2, <1>4, <1>5, <1>6, <1>7
    DEF AtomicStep, AtomicChange, AtomicEdit, AtomicSubmit, AtomicReject, AtomicArchive, AtomicSend, AtomicMove

\* A step approves only a step beyond those that have an approval.
LEMMA OneApprovalStep ==
    ASSUME Typed, Events, OneApprovalPerStep, AtomicStep \/ UNCHANGED tables
    PROVE  OneApprovalPerStep'
PROOF
<1>1. ASSUME NEW e0, audit' \subseteq audit \cup {e0}, e0.action # "approve"
      PROVE  OneApprovalPerStep'
    BY <1>1 DEF OneApprovalPerStep
<1>2. ASSUME NEW c \in Contracts, NEW u \in Users, AtomicApprove(c, u)
      PROVE  OneApprovalPerStep'
    <2> DEFINE next == contract[c].step + 1
               v == contract[c].version
               e0 == [contract |-> c, action |-> "approve", actor |-> u,
                      version |-> v, step |-> next]
    <2>1. audit' = audit \cup {e0} /\ contract[c] # NoRow
        BY <1>2 DEF AtomicApprove, AtomicMove, Becomes
    <2>2. contract[c].step \in Nat
        BY <2>1, RowFields DEF Typed, TypeOK
    <2>3. ASSUME NEW e \in audit, e.action = "approve", e.contract = c, e.version = v
          PROVE  e.step # next
        <3>1. e.step <= contract[c].step /\ e.step \in Nat
            BY <2>3, EventTypes DEF Events, EventOf
        <3> QED BY <2>2, <3>1
    <2> QED BY <2>1, <2>3 DEF OneApprovalPerStep
<1>3. ASSUME NEW c, NEW u, NEW action, NEW status, NEW step, NEW version, NEW text,
             Becomes(c, u, action, status, step, version, text), action # "approve"
      PROVE  OneApprovalPerStep'
    <2> DEFINE e0 == [contract |-> c, action |-> action, actor |-> u,
                      version |-> version, step |-> step]
    <2>1. audit' \subseteq audit \cup {e0} /\ e0.action # "approve"
        BY <1>3 DEF Becomes
    <2> HIDE DEF e0
    <2> QED BY <1>1, <2>1
<1>4. ASSUME NEW c \in Contracts, NEW u \in Users, NEW w \in Workflows, NEW text \in Texts,
             AtomicCreate(c, u, w, text)
      PROVE  OneApprovalPerStep'
    <2> DEFINE e0 == [contract |-> c, action |-> "create", actor |-> u, version |-> 1, step |-> 0]
    <2>1. audit' \subseteq audit \cup {e0} /\ e0.action # "approve"
        BY <1>4 DEF AtomicCreate
    <2> HIDE DEF e0
    <2> QED BY <1>1, <2>1
<1>5. ASSUME \/ UNCHANGED tables
             \/ \E c \in Contracts, status \in SigningOutcomes : AtomicOutcome(c, status)
      PROVE  OneApprovalPerStep'
    <2>1. audit' = audit
        BY <1>5 DEF tables, AtomicOutcome
    <2> QED BY <2>1 DEF OneApprovalPerStep
<1>6. ASSUME NEW c \in Contracts, NEW u \in Users, NEW text \in Texts, AtomicEdit(c, u, text)
      PROVE  OneApprovalPerStep'
    <2>1. Becomes(c, u, "edit", "draft", 0, contract[c].version + 1, text)
        BY <1>6 DEF AtomicEdit
    <2> QED BY <1>3, <2>1
<1>7. ASSUME NEW c \in Contracts, NEW u \in Users, NEW action, NEW from, NEW status, NEW step,
             AtomicMove(c, u, action, from, status, step), action # "approve"
      PROVE  OneApprovalPerStep'
    <2>1. Becomes(c, u, action, status, step, contract[c].version, contract[c].content)
        BY <1>7 DEF AtomicMove
    <2> QED BY <1>3, <1>7, <2>1
<1>8. ASSUME NEW c \in Contracts, NEW u \in Users,
             \/ AtomicSubmit(c, u) \/ AtomicReject(c, u)
             \/ AtomicArchive(c, u) \/ AtomicSend(c, u)
      PROVE  OneApprovalPerStep'
    BY <1>7, <1>8 DEF AtomicSubmit, AtomicReject, AtomicArchive, AtomicSend
<1> QED
    BY <1>2, <1>4, <1>5, <1>6, <1>8 DEF AtomicStep, AtomicChange

--------------------------------------------------------------------------------

\* One row changed; the snapshots of the others are theirs still.
LEMMA SnapshotsFromRow ==
    ASSUME Typed, VersionsMatch, SnapshotsExist, NEW c \in Contracts,
           \A d \in Contracts : d # c => contract'[d] = contract[d],
           Existing' = Existing \cup {c}, contract'[c] # NoRow,
           versions \subseteq versions',
           \A s \in versions' : s \in versions \/ s.contract = c,
           \A v \in 1..contract'[c].version :
              \E s \in versions' : s.contract = c /\ s.version = v,
           \A s \in versions' :
              s.contract = c =>
                 /\ s.version <= contract'[c].version
                 /\ s.version = contract'[c].version => s.content = contract'[c].content
    PROVE  VersionsMatch' /\ SnapshotsExist'
PROOF
<1>1. \A s \in versions : s.contract \in Contracts
    BY DEF Typed, TypeOK, DocumentVersion
<1>2. SnapshotsExist'
    BY <1>1 DEF SnapshotsExist, Existing
<1>3. ASSUME NEW d \in Existing', d # c
      PROVE  /\ \A v \in 1..contract'[d].version :
                   \E s \in versions' : s.contract = d /\ s.version = v
             /\ \A s \in versions' :
                   s.contract = d =>
                      /\ s.version <= contract'[d].version
                      /\ s.version = contract'[d].version => s.content = contract'[d].content
    <2>1. d \in Existing /\ contract'[d] = contract[d]
        BY <1>3 DEF Existing
    <2> QED BY <1>3, <2>1 DEF VersionsMatch
<1> QED BY <1>2, <1>3 DEF VersionsMatch

\* The snapshots when a row keeps its version and text.
LEMMA SnapshotsKept ==
    ASSUME Typed, VersionsMatch, SnapshotsExist, NEW c \in Existing,
           \A d \in Contracts : d # c => contract'[d] = contract[d],
           Existing' = Existing, contract'[c] # NoRow, versions' = versions,
           contract'[c].version = contract[c].version,
           contract'[c].content = contract[c].content
    PROVE  VersionsMatch' /\ SnapshotsExist'
    BY SnapshotsFromRow DEF VersionsMatch, Existing

\* Every version gets its snapshot in the commit that makes it current.
LEMMA SnapshotsStep ==
    ASSUME Typed, VersionsMatch, SnapshotsExist, AtomicStep \/ UNCHANGED tables
    PROVE  VersionsMatch' /\ SnapshotsExist'
PROOF
<1>1. ASSUME NEW c \in Contracts, NEW u \in Users, NEW w \in Workflows, NEW text \in Texts,
             AtomicCreate(c, u, w, text)
      PROVE  VersionsMatch' /\ SnapshotsExist'
    <2> DEFINE s0 == [contract |-> c, version |-> 1, content |-> text]
    <2>1. versions' = versions \cup {s0}
        BY <1>1 DEF AtomicCreate
    <2>2. /\ s0.contract = c /\ s0.version = 1 /\ s0.content = text
          /\ \A s \in versions : s.contract # c
        BY <1>1, CreateEffect DEF SnapshotsExist, Existing
    <2>3. /\ contract'[c].version = 1 /\ contract'[c].content = text /\ contract'[c] # NoRow
          /\ Existing' = Existing \cup {c}
          /\ \A d \in Contracts : d # c => contract'[d] = contract[d]
        BY <1>1, CreateEffect
    <2> HIDE DEF s0
    <2>4. \A v \in 1..contract'[c].version :
             \E s \in versions' : s.contract = c /\ s.version = v
        BY <2>1, <2>2, <2>3
    <2>5. \A s \in versions' :
             s.contract = c =>
                /\ s.version <= contract'[c].version
                /\ s.version = contract'[c].version => s.content = contract'[c].content
        BY <2>1, <2>2, <2>3
    <2> QED BY <2>1, <2>2, <2>3, <2>4, <2>5, SnapshotsFromRow
<1>2. ASSUME NEW c \in Contracts, NEW u \in Users, NEW text \in Texts, AtomicEdit(c, u, text)
      PROVE  VersionsMatch' /\ SnapshotsExist'
    <2> DEFINE v1 == contract[c].version + 1
               s0 == [contract |-> c, version |-> v1, content |-> text]
    <2>1. versions' = versions \cup {s0} /\ Becomes(c, u, "edit", "draft", 0, v1, text)
        BY <1>2 DEF AtomicEdit
    <2>2. s0.contract = c /\ s0.version = v1 /\ s0.content = text
        OBVIOUS
    <2>3. /\ contract'[c].version = v1 /\ contract'[c].content = text /\ contract'[c] # NoRow
          /\ Existing' = Existing /\ c \in Existing
          /\ \A d \in Contracts : d # c => contract'[d] = contract[d]
        BY <2>1, BecomesEffect
    <2>4. contract[c].version \in Nat
        BY <2>1, BecomesEffect, RowFields
    <2>5. \A s \in versions : s.version \in Nat
        BY DEF Typed, TypeOK, DocumentVersion
    <2> HIDE DEF s0
    <2>6. ASSUME NEW v \in 1..v1
          PROVE  \E s \in versions' : s.contract = c /\ s.version = v
        <3>1. CASE v = v1
            BY <2>1, <2>2, <3>1
        <3>2. CASE v # v1
            <4>1. v \in 1..contract[c].version
                BY <2>4, <3>2
            <4> QED BY <2>1, <2>3, <4>1 DEF VersionsMatch
        <3> QED BY <3>1, <3>2
    <2>7. \A s \in versions : s.contract = c => s.version <= contract[c].version
        BY <2>3 DEF VersionsMatch
    <2>8. \A s \in versions' :
             s.contract = c =>
                /\ s.version <= contract'[c].version
                /\ s.version = contract'[c].version => s.content = contract'[c].content
        BY <2>1, <2>2, <2>3, <2>4, <2>5, <2>7
    <2>9. /\ Existing' = Existing \cup {c} /\ versions \subseteq versions'
          /\ \A s \in versions' : s \in versions \/ s.contract = c
        BY <2>1, <2>2, <2>3
    <2>10. \A v \in 1..contract'[c].version :
              \E s \in versions' : s.contract = c /\ s.version = v
        BY <2>3, <2>6
    <2> QED BY <2>3, <2>8, <2>9, <2>10, SnapshotsFromRow
<1>3. ASSUME NEW c \in Contracts, NEW u \in Users, NEW action, NEW from, NEW status, NEW step,
             AtomicMove(c, u, action, from, status, step)
      PROVE  VersionsMatch' /\ SnapshotsExist'
    <2>1. /\ Becomes(c, u, action, status, step, contract[c].version, contract[c].content)
          /\ versions' = versions
        BY <1>3 DEF AtomicMove
    <2> QED BY <2>1, BecomesEffect, SnapshotsKept
<1>4. ASSUME NEW c \in Contracts, NEW u \in Users,
             \/ AtomicSubmit(c, u) \/ AtomicApprove(c, u) \/ AtomicReject(c, u)
             \/ AtomicArchive(c, u) \/ AtomicSend(c, u)
      PROVE  VersionsMatch' /\ SnapshotsExist'
    BY <1>3, <1>4 DEF AtomicSubmit, AtomicApprove, AtomicReject, AtomicArchive, AtomicSend
<1>5. ASSUME NEW c \in Contracts, NEW status \in SigningOutcomes, AtomicOutcome(c, status)
      PROVE  VersionsMatch' /\ SnapshotsExist'
    <2>1. versions' = versions
        BY <1>5 DEF AtomicOutcome
    <2> QED BY <1>5, <2>1, OutcomeEffect, SnapshotsKept
<1>6. ASSUME UNCHANGED tables PROVE VersionsMatch' /\ SnapshotsExist'
    BY <1>6 DEF tables, VersionsMatch, SnapshotsExist, Existing
<1> QED BY <1>1, <1>2, <1>4, <1>5, <1>6 DEF AtomicStep, AtomicChange

--------------------------------------------------------------------------------
(* The invariant and what follows from it.                                  *)

\* The four layers together are inductive; ApprovalChain alone is not, because a
\* commit writes a copy and only Copies says that it is the row.
Invariant == Typed /\ Copies /\ Stages /\ Trail

\* The initial state satisfies all the layers.
LEMMA InvariantInit == Init => Invariant
    BY TypedInit, CopiesInit, StagesInit, TrailInit DEF Invariant

\* Each layer is preserved, by the layers before it and the atomic reading of the step.
LEMMA InvariantStep == Invariant /\ [Next]_vars => Invariant'
PROOF
<1> SUFFICES ASSUME Invariant, [Next]_vars PROVE Invariant'
    OBVIOUS
<1>1. Typed /\ Copies /\ Stages /\ Trail
    BY DEF Invariant
<1>2. Typed'
    BY <1>1, TypedStep
<1>3. Copies'
    BY <1>1, CopiesStep
<1>4. AtomicStep \/ UNCHANGED tables
    BY <1>1, EveryStepIsAtomic
<1>5. Stages'
    BY <1>1, <1>2, <1>4, StagesStep
<1>6. Trail'
    BY <1>1, <1>4, EventsStep, ChainStep, OneApprovalStep, SnapshotsStep DEF Trail
<1> QED BY <1>2, <1>3, <1>5, <1>6 DEF Invariant

\* The inductive invariant: copies, stages and trail of every contract agree in every
\* reachable state, for any number of people, contracts and handlers.
THEOREM InvariantHolds == Spec => []Invariant
    BY InvariantInit, InvariantStep, PTL DEF Spec

\* Contracts never wander outside their types, however the handlers interleave.
THEOREM TypeCorrect == Spec => []TypeOK
PROOF
<1>1. Invariant => TypeOK
    BY DEF Invariant, Typed
<1> QED BY <1>1, InvariantHolds, PTL

\* current_step never runs ahead of the approvals on record (transition).
THEOREM ApprovalsOnRecord == Spec => []ApprovalChain
PROOF
<1>1. Invariant => ApprovalChain
    BY DEF Invariant, Trail
<1> QED BY <1>1, InvariantHolds, PTL

\* Approvals that race are never both counted for the same step.
THEOREM ApprovalsDistinct == Spec => []OneApprovalPerStep
PROOF
<1>1. Invariant => OneApprovalPerStep
    BY DEF Invariant, Trail
<1> QED BY <1>1, InvariantHolds, PTL

\* The version handed to DocuSign went through the whole chain (send_signature).
THEOREM OnlyApprovedIsSent == Spec => []SentVersionApproved
PROOF
<1>1. Invariant => SentVersionApproved
    <2> SUFFICES ASSUME Invariant, NEW s \in signatures
                 PROVE  LET row == contract[s.contract] IN
                        /\ row # NoRow
                        /\ s.version = row.version
                        /\ \A i \in 1..Len(row.workflow) : ApprovedBy(s.contract, s.version, i)
                        /\ \A t \in signatures : t.contract = s.contract => t = s
        BY DEF SentVersionApproved
    <2> DEFINE row == contract[s.contract]
    <2>1. s.contract \in Existing /\ Sent(s.contract)
        BY DEF Invariant, Typed, TypeOK, SignatureRequest, Existing, Sent
    <2>2. /\ s.version = row.version
          /\ \A t \in signatures : t.contract = s.contract => t = s
          /\ row.step = Len(row.workflow)
        BY <2>1 DEF Invariant, Stages, StageOf
    <2>3. \A i \in 1..row.step : ApprovedBy(s.contract, row.version, i)
        BY <2>1 DEF Invariant, Trail, ApprovalChain
    <2> QED BY <2>1, <2>2, <2>3 DEF Existing
<1> QED BY <1>1, InvariantHolds, PTL

\* A returned version is never approved or sent afterwards.
THEOREM ReturnsAreFinal == Spec => []ReturnedStaysReturned
PROOF
<1>1. Invariant => ReturnedStaysReturned
    BY DEF Invariant, Trail, Events, EventOf, ReturnedStaysReturned
<1> QED BY <1>1, InvariantHolds, PTL

\* The version history has no gap, and the contract shows its newest version.
THEOREM SnapshotsComplete == Spec => []VersionsMatch
PROOF
<1>1. Invariant => VersionsMatch
    BY DEF Invariant, Trail
<1> QED BY <1>1, InvariantHolds, PTL

\* No lost update: a commit replaces exactly the row that was decided on.
THEOREM NoLostUpdate == Spec => DecidedOnRowReplaced
PROOF
<1>1. Invariant /\ [Next]_vars => [DecidedOnRow]_vars
    <2> SUFFICES ASSUME Invariant, [Next]_vars, NEW c \in Existing, contract'[c] # contract[c]
                 PROVE  \/ Sent(c) /\ contract'[c].status \in SigningOutcomes
                        \/ \E r \in Requests :
                              /\ request[r].pc = "loaded" /\ request'[r] = Idle
                              /\ request[r].contract = c
                              /\ request[r].revision = contract[c].revision
                              /\ request[r].row = contract[c]
        BY DEF DecidedOnRow
    <2>1. contract \in [Contracts -> Row \cup {NoRow}] /\ c \in Contracts /\ contract[c] # NoRow
        BY DEF Invariant, Typed, TypeOK, Existing
    <2>2. ASSUME NEW r \in Requests, NEW action, NEW row, Commit(r, action, row)
          PROVE  /\ request[r].pc = "loaded" /\ request'[r] = Idle
                 /\ request[r].contract = c
                 /\ request[r].revision = contract[c].revision
                 /\ request[r].row = contract[c]
        <3>1. request[r].contract \in Contracts
            BY <2>2, LoadedShape DEF Commit, Invariant, Typed
        <3>2. request[r].contract = c
            BY <2>1, <2>2, <3>1 DEF Commit
        <3>3. CopyOf(request[r], contract[c])
            BY <2>2, <3>2 DEF Commit, Invariant, Copies
        <3>4. request'[r] = Idle
            BY <2>2 DEF Commit, Invariant, Typed, TypeOK
        <3> QED BY <2>2, <3>2, <3>3, <3>4 DEF Commit, CopyOf
    <2>3. ASSUME NEW d \in Contracts, NEW status \in SigningOutcomes, SignatureOutcome(d, status)
          PROVE  Sent(c) /\ contract'[c].status \in SigningOutcomes
        <3>1. contract[d] \in Row
            BY <2>3 DEF SignatureOutcome, Sent, Invariant, Typed, TypeOK
        <3>2. c = d
            BY <2>1, <2>3 DEF SignatureOutcome
        <3> QED BY <2>1, <2>3, <3>1, <3>2 DEF SignatureOutcome, Row
    <2>4. ASSUME NEW r \in Requests, NEW d \in Contracts, NEW text \in Texts, Create(r, d, text)
          PROVE  FALSE
        BY <2>1, <2>4 DEF Create
    <2> QED
        BY <2>2, <2>3, <2>4
        DEF Next, vars, Authenticate, Fail, BeginCreate, LockForCreate, ChangeRole, Load,
            Edit, Submit, Approve, Reject, Archive, ReserveSend
<1> QED BY <1>1, InvariantHolds, PTL DEF Spec, DecidedOnRowReplaced

--------------------------------------------------------------------------------
(* Creation: the lock makes the count and the author's role hold at commit.  *)

\* A handler past its checks holds the lock, nobody else does, and what it
\* checked is still true.
Locking ==
    /\ \A r \in Requests :
          /\ request[r].pc = "creating" => request[r].role \in {"admin", "editor"}
          /\ request[r].pc = "locked" =>
                /\ r \in orgLock
                /\ role[request[r].user] \in {"admin", "editor"}
                /\ Cardinality(Existing) < MaxContracts
    /\ \A r, s \in orgLock : r = s
    /\ IsFiniteSet(Existing)
    /\ Cardinality(Existing) <= MaxContracts

\* Nobody holds the lock and there is nothing to count at first.
LEMMA LockingInit == Init => Locking
PROOF
<1> SUFFICES ASSUME Init PROVE Locking
    OBVIOUS
<1>1. Existing = {}
    BY DEF Init, Existing
<1> QED BY <1>1, FS_EmptySet, ConstantsAssumption DEF Init, Locking, Idle

\* Handlers in flight that do not create, and rows that do not appear.
LEMMA LockingKept ==
    ASSUME Locking, NEW r \in Requests,
           request' = [request EXCEPT ![r] = Idle],
           request \in [Requests -> {Idle} \cup Authenticated \cup Loaded \cup Creating \cup Locked],
           orgLock' \subseteq orgLock, orgLock \ {r} \subseteq orgLock',
           role' = role, Existing' = Existing
    PROVE  Locking'
    BY DEF Locking, Idle

\* What create_contract checked under the lock stays true until it commits.
LEMMA LockingStep ==
    ASSUME Typed, Copies, Locking, [Next]_vars
    PROVE  Locking'
PROOF
<1>0. request \in [Requests -> {Idle} \cup Authenticated \cup Loaded \cup Creating \cup Locked]
    BY DEF Typed, TypeOK
<1>1. CASE \E r \in Requests, c \in Contracts, text \in Texts : Create(r, c, text)
    <2> PICK r \in Requests, c \in Contracts, text \in Texts : Create(r, c, text)
        BY <1>1
    <2>1. request[r].user \in Users /\ request[r].workflow \in Workflows
        BY DEF Create, Typed, TypeOK, Idle, Authenticated, Loaded, Creating, Locked
    <2>2. AtomicCreate(c, request[r].user, request[r].workflow, text)
        BY DEF Create, AtomicCreate, Copies
    <2>3. Existing' = Existing \cup {c} /\ c \notin Existing
        BY <2>1, <2>2, CreateEffect
    <2>4. IsFiniteSet(Existing') /\ Cardinality(Existing') = Cardinality(Existing) + 1
        BY <2>3, FS_AddElement DEF Locking
    <2>5. r \in orgLock /\ Cardinality(Existing) < MaxContracts
        BY DEF Create, Locking
    <2>6. Cardinality(Existing) \in Nat
        BY FS_CardinalityType DEF Locking
    <2>7. Cardinality(Existing') <= MaxContracts
        BY <2>4, <2>5, <2>6, ConstantsAssumption
    <2>8. \A t \in Requests : t # r => request[t].pc # "locked"
        BY <2>5 DEF Locking
    <2>9. orgLock' \subseteq orgLock /\ role' = role /\ request' = [request EXCEPT ![r] = Idle]
        BY DEF Create
    <2> QED BY <1>0, <2>4, <2>7, <2>8, <2>9 DEF Locking, Idle
<1>2. CASE \E r \in Requests, w \in Workflows : LockForCreate(r, w)
    <2> PICK r \in Requests, w \in Workflows : LockForCreate(r, w)
        BY <1>2
    <2>1. request' = [request EXCEPT ![r] =
             [pc |-> "locked", user |-> request[r].user, workflow |-> w]]
        BY DEF LockForCreate
    <2>2. Existing' = Existing /\ role' = role /\ orgLock' = {r} /\ orgLock = {}
        BY DEF LockForCreate, Existing
    <2>3. /\ role[request[r].user] \in {"admin", "editor"}
          /\ Cardinality(Existing) < MaxContracts
        BY DEF LockForCreate, Locking
    <2> QED BY <1>0, <2>1, <2>2, <2>3 DEF Locking
<1>3. CASE \E r \in Requests, u \in Users : BeginCreate(r, u)
    BY <1>0, <1>3 DEF BeginCreate, Locking, Existing
<1>4. CASE \E r \in Requests, u \in Users, c \in Contracts : Authenticate(r, u, c)
    BY <1>0, <1>4 DEF Authenticate, Locking, Existing
<1>5. CASE \E r \in Requests, action \in Actions : Load(r, action)
    BY <1>0, <1>5 DEF Load, Locking, Existing
<1>6. CASE \E r \in Requests : Fail(r)
    <2> PICK r \in Requests : Fail(r)
        BY <1>6
    <2>1. /\ request' = [request EXCEPT ![r] = Idle] /\ orgLock' = orgLock \ {r}
          /\ role' = role /\ Existing' = Existing
        BY DEF Fail, Existing
    <2> QED BY <1>0, <2>1, LockingKept
<1>7. CASE \E u \in Users, newRole \in Roles \cup {"none"} : ChangeRole(u, newRole)
    <2>1. orgLock = {} /\ UNCHANGED <<orgLock, contract, request>>
        BY <1>7 DEF ChangeRole
    <2> QED BY <2>1 DEF Locking, Existing
<1>8. ASSUME NEW r \in Requests, NEW action, NEW row, Commit(r, action, row), Existing' = Existing
      PROVE  Locking'
    <2>1. /\ request' = [request EXCEPT ![r] = Idle]
          /\ UNCHANGED <<role, orgLock>>
        BY <1>8 DEF Commit
    <2> QED BY <1>0, <1>8, <2>1, LockingKept
<1>9. ASSUME UNCHANGED <<role, orgLock, request>>, Existing' = Existing
      PROVE  Locking'
    BY <1>9 DEF Locking
<1>10. ASSUME AtomicChange PROVE Existing' = Existing
    <2>1. ASSUME NEW c \in Contracts, NEW u, NEW action, NEW from, NEW status, NEW step,
                 AtomicMove(c, u, action, from, status, step)
          PROVE  Existing' = Existing
        <3>1. Becomes(c, u, action, status, step, contract[c].version, contract[c].content)
            BY <2>1 DEF AtomicMove
        <3> QED BY <3>1, BecomesEffect
    <2>2. ASSUME NEW c \in Contracts, NEW u \in Users, NEW text \in Texts, AtomicEdit(c, u, text)
          PROVE  Existing' = Existing
        <3>1. Becomes(c, u, "edit", "draft", 0, contract[c].version + 1, text)
            BY <2>2 DEF AtomicEdit
        <3> QED BY <3>1, BecomesEffect
    <2>3. ASSUME NEW c \in Contracts, NEW status \in SigningOutcomes, AtomicOutcome(c, status)
          PROVE  Existing' = Existing
        BY <2>3, OutcomeEffect
    <2>4. ASSUME NEW c \in Contracts, NEW u \in Users,
                 \/ AtomicSubmit(c, u) \/ AtomicApprove(c, u) \/ AtomicReject(c, u)
                 \/ AtomicArchive(c, u) \/ AtomicSend(c, u)
          PROVE  Existing' = Existing
        BY <2>1, <2>4 DEF AtomicSubmit, AtomicApprove, AtomicReject, AtomicArchive, AtomicSend
    <2> QED BY <1>10, <2>2, <2>3, <2>4 DEF AtomicChange
<1>11. CASE AtomicChange \/ UNCHANGED tables
    <2>1. Existing' = Existing
        BY <1>10, <1>11 DEF tables, Existing
    <2> QED
        BY <1>1, <1>2, <1>3, <1>4, <1>5, <1>6, <1>7, <1>8, <1>9, <2>1
        DEF Next, vars, Edit, Submit, Approve, Reject, Archive, ReserveSend, SignatureOutcome
<1> QED BY <1>1, <1>11, EveryStepCreatesOrChanges

\* The lock's invariant holds in every reachable state.
LEMMA LockingHolds == Spec => []Locking
PROOF
<1>1. Invariant /\ Locking /\ [Next]_vars => Locking'
    BY LockingStep DEF Invariant
<1> QED BY <1>1, LockingInit, InvariantHolds, PTL DEF Spec

\* Concurrent creations never exceed the quota of the organization.
THEOREM QuotaHolds == Spec => []ContractQuota
PROOF
<1>1. Locking => ContractQuota
    BY DEF Locking, ContractQuota
<1> QED BY <1>1, LockingHolds, PTL

\* Whoever owns a new contract still has the right to create at that moment.
THEOREM CreatorsAreEditors == Spec => CreatedByEditor
PROOF
<1>1. Invariant /\ Locking /\ [Next]_vars => [BornOfEditor]_vars
    <2> SUFFICES ASSUME Invariant, Locking, [Next]_vars, NEW c \in Contracts,
                        contract[c] = NoRow, contract'[c] # NoRow
                 PROVE  role[contract'[c].owner] \in {"admin", "editor"}
        BY DEF BornOfEditor
    <2>1. Typed /\ Copies
        BY DEF Invariant
    <2>2. CASE \E r \in Requests, d \in Contracts, text \in Texts : Create(r, d, text)
        <3> PICK r \in Requests, d \in Contracts, text \in Texts : Create(r, d, text)
            BY <2>2
        <3>1. c = d
            BY <2>1 DEF Create, Typed, TypeOK
        <3>2. contract'[c].owner = request[r].user
            BY <2>1, <3>1 DEF Create, Typed, TypeOK
        <3>3. role[request[r].user] \in {"admin", "editor"}
            BY DEF Create, Locking
        <3> QED BY <3>2, <3>3
    <2>3. CASE AtomicChange \/ UNCHANGED tables
        <3>1. ASSUME NEW d \in Contracts, NEW row, contract' = [contract EXCEPT ![d] = row],
                     contract[d] # NoRow
              PROVE  FALSE
            BY <2>1, <3>1 DEF Typed, TypeOK
        <3> QED
            BY <2>3, <3>1
            DEF AtomicChange, AtomicEdit, AtomicSubmit, AtomicApprove, AtomicReject,
                AtomicArchive, AtomicSend, AtomicMove, AtomicOutcome, Becomes, tables
    <2> QED BY <2>1, <2>2, <2>3, EveryStepCreatesOrChanges
<1> QED BY <1>1, InvariantHolds, LockingHolds, PTL DEF Spec, CreatedByEditor

--------------------------------------------------------------------------------
(* The refinement: each atomic reading of a step is a step of the protocol.  *)

\* What the protocol sees of a contract.
LEMMA SeenAs ==
    ASSUME NEW c \in Contracts
    PROVE  /\ Documents[c] = AbstractDoc(contract[c])
           /\ contract[c] = NoRow => Documents[c] = Protocol!NoDoc
           /\ contract[c] # NoRow =>
                /\ Documents[c].owner = contract[c].owner
                /\ Documents[c].workflow = contract[c].workflow
                /\ Documents[c].status = contract[c].status
                /\ Documents[c].step = contract[c].step
                /\ Documents[c].version = contract[c].version
PROOF
<1>1. Documents[c] = AbstractDoc(contract[c])
    BY DEF Documents
<1>2. contract[c] = NoRow => Documents[c] = Protocol!NoDoc
    BY <1>1 DEF AbstractDoc, NoRow, Protocol!NoDoc
<1> QED BY <1>1, <1>2 DEF AbstractDoc

\* A change of one row is a change of one document.
LEMMA OneDocument ==
    ASSUME NEW c \in Contracts, \A d \in Contracts : d # c => contract'[d] = contract[d]
    PROVE  Documents' = [Documents EXCEPT ![c] = AbstractDoc(contract'[c])]
    BY DEF Documents

LEMMA SeenToBecome ==
    ASSUME NEW c \in Contracts, contract[c] # NoRow, contract'[c] # NoRow,
           contract'[c].owner = contract[c].owner,
           contract'[c].workflow = contract[c].workflow,
           \A d \in Contracts : d # c => contract'[d] = contract[d]
    PROVE  Protocol!Become(c, contract'[c].status, contract'[c].step, contract'[c].version)
PROOF
<1>1. AbstractDoc(contract'[c]) =
        [owner |-> Documents[c].owner, workflow |-> Documents[c].workflow,
         status |-> contract'[c].status, step |-> contract'[c].step,
         version |-> contract'[c].version]
    BY SeenAs DEF AbstractDoc
<1> QED BY <1>1, OneDocument DEF Protocol!Become

\* An audit event adds an approval if it is one, and nothing otherwise.
LEMMA SeenApprovals ==
    ASSUME NEW e, audit' = audit \cup {e}
    PROVE  Approvals' = Approvals \cup (IF e.action = "approve" THEN {AbstractApproval(e)} ELSE {})
    BY DEF Approvals

\* An operation on a row, as the protocol sees it.
LEMMA SeenOperation ==
    ASSUME Typed, NEW c \in Contracts, NEW u, NEW action, NEW status, NEW step,
           NEW version, NEW text, Becomes(c, u, action, status, step, version, text)
    PROVE  /\ Protocol!Become(c, status, step, version)
           /\ action # "approve" => Approvals' = Approvals
           /\ action = "approve" => Approvals' = Approvals \cup
                {[contract |-> c, version |-> version, step |-> step, actor |-> u]}
           /\ contract[c] # NoRow
PROOF
<1>1. Protocol!Become(c, status, step, version) /\ contract[c] # NoRow
    BY BecomesEffect, SeenToBecome DEF Existing
<1>e. PICK e : e = [contract |-> c, action |-> action, actor |-> u,
                    version |-> version, step |-> step]
    OBVIOUS
<1>2. audit' = audit \cup {e}
    BY <1>e DEF Becomes
<1>3. /\ e.action = action
      /\ AbstractApproval(e) =
           [contract |-> c, version |-> version, step |-> step, actor |-> u]
    BY <1>e DEF AbstractApproval
<1>4. Approvals' = Approvals \cup (IF action = "approve" THEN {AbstractApproval(e)} ELSE {})
    BY <1>2, <1>3, SeenApprovals
<1>5. action # "approve" => Approvals' = Approvals
    BY <1>4
<1> QED BY <1>1, <1>3, <1>4, <1>5

LEMMA MoveImplemented ==
    ASSUME Typed, NEW c \in Contracts, NEW u, NEW action, NEW from, NEW status,
           AtomicMove(c, u, action, from, status, contract[c].step), action # "approve"
    PROVE  Protocol!Move(c, from, status) /\ Approvals' = Approvals
PROOF
<1>1. /\ contract[c].status \in from
      /\ Becomes(c, u, action, status, contract[c].step, contract[c].version, contract[c].content)
    BY DEF AtomicMove
<1>2. /\ Protocol!Become(c, status, contract[c].step, contract[c].version)
      /\ Approvals' = Approvals /\ contract[c] # NoRow
    BY <1>1, SeenOperation
<1> QED BY <1>1, <1>2, SeenAs DEF Protocol!Move

LEMMA CreateImplemented ==
    ASSUME Typed, NEW c \in Contracts, NEW u \in Users, NEW w \in Workflows,
           NEW text \in Texts, AtomicCreate(c, u, w, text)
    PROVE  Protocol!Create(c, u, w)
PROOF
<1>1. Documents[c] = Protocol!NoDoc
    BY SeenAs DEF AtomicCreate
<1>2. \A i \in 1..Len(w) : w[i] # u
    BY DEF AtomicCreate, Approvers
<1>3. Documents' = [Documents EXCEPT ![c] =
        [owner |-> u, workflow |-> w, status |-> "draft", step |-> 0, version |-> 1]]
    <2>1. AbstractDoc(contract'[c]) =
            [owner |-> u, workflow |-> w, status |-> "draft", step |-> 0, version |-> 1]
        BY CreateEffect DEF AbstractDoc
    <2> QED BY <2>1, CreateEffect, OneDocument
<1>4. Approvals' = Approvals
    <2>e. PICK e : e = [contract |-> c, action |-> "create", actor |-> u,
                        version |-> 1, step |-> 0]
        OBVIOUS
    <2>1. audit' = audit \cup {e}
        BY <2>e DEF AtomicCreate
    <2>2. e.action # "approve"
        BY <2>e
    <2> QED BY <2>1, <2>2, SeenApprovals
<1> QED BY <1>1, <1>2, <1>3, <1>4 DEF AtomicCreate, Protocol!Create

LEMMA ReviseImplemented ==
    ASSUME Typed, NEW c \in Contracts, NEW u, NEW text, AtomicEdit(c, u, text)
    PROVE  Protocol!Revise(c)
PROOF
<1>1. Becomes(c, u, "edit", "draft", 0, contract[c].version + 1, text)
    BY DEF AtomicEdit
<1>2. /\ Protocol!Become(c, "draft", 0, contract[c].version + 1)
      /\ Approvals' = Approvals /\ contract[c] # NoRow
    BY <1>1, SeenOperation
<1> QED BY <1>2, SeenAs DEF AtomicEdit, Protocol!Revise

LEMMA SubmitImplemented ==
    ASSUME Typed, Stages, NEW c \in Contracts, NEW u, AtomicSubmit(c, u)
    PROVE  Protocol!Submit(c)
PROOF
<1>1. /\ contract[c].status = "draft" /\ contract[c] # NoRow
    BY DEF AtomicSubmit, AtomicMove, Becomes
<1>2. contract[c].step = 0
    BY <1>1 DEF Stages, StageOf, Existing
<1>3. AtomicMove(c, u, "submit", {"draft"}, "in_review", contract[c].step)
    BY <1>2 DEF AtomicSubmit
<1> QED BY <1>1, <1>2, <1>3, MoveImplemented, SeenAs DEF AtomicSubmit, Protocol!Submit

\* The approver's right is the same over the row and over the document.
LEMMA SeenToDecide ==
    ASSUME NEW c \in Contracts, NEW u, MayDecideNow(c, u),
           contract[c].status = "in_review", contract[c] # NoRow
    PROVE  Protocol!MayDecide(c, u)
    BY SeenAs DEF MayDecideNow, Protocol!MayDecide

LEMMA ApproveImplemented ==
    ASSUME Typed, NEW c \in Contracts, NEW u, AtomicApprove(c, u)
    PROVE  Protocol!Approve(c, u)
PROOF
<1> DEFINE next == contract[c].step + 1
           status == IF next = Len(contract[c].workflow) THEN "approved" ELSE "in_review"
<1>1. /\ Becomes(c, u, "approve", status, next, contract[c].version, contract[c].content)
      /\ contract[c].status = "in_review" /\ MayDecideNow(c, u)
      /\ signatures' = signatures
    BY DEF AtomicApprove, AtomicMove
<1>2. /\ Protocol!Become(c, status, next, contract[c].version) /\ contract[c] # NoRow
      /\ Approvals' = Approvals \cup
           {[contract |-> c, version |-> contract[c].version, step |-> next, actor |-> u]}
    BY <1>1, SeenOperation
<1>3. Protocol!MayDecide(c, u)
    BY <1>1, <1>2, SeenToDecide
<1>4. /\ Documents[c].step + 1 = next /\ Documents[c].version = contract[c].version
      /\ Documents[c].workflow = contract[c].workflow
    BY <1>2, SeenAs
<1> QED BY <1>1, <1>2, <1>3, <1>4 DEF Protocol!Approve

LEMMA ReturnImplemented ==
    ASSUME Typed, NEW c \in Contracts, NEW u \in Users, AtomicReject(c, u)
    PROVE  Protocol!Return(c)
PROOF
<1>1. /\ AtomicMove(c, u, "reject", {"in_review"}, "rejected", contract[c].step)
      /\ contract[c].status = "in_review" /\ contract[c] # NoRow
    BY DEF AtomicReject, AtomicMove, Becomes
<1>2. Protocol!MayDecide(c, u)
    BY <1>1, SeenToDecide DEF AtomicReject
<1> QED BY <1>1, <1>2, MoveImplemented DEF AtomicReject, Protocol!Return

LEMMA ArchiveImplemented ==
    ASSUME Typed, NEW c \in Contracts, NEW u, AtomicArchive(c, u)
    PROVE  Protocol!Archive(c)
    BY MoveImplemented DEF AtomicArchive, Protocol!Archive

LEMMA SendImplemented ==
    ASSUME Typed, NEW c \in Contracts, NEW u, AtomicSend(c, u)
    PROVE  Protocol!Send(c)
PROOF
<1>1. /\ AtomicMove(c, u, "send", {"approved"}, "sending", contract[c].step)
      /\ contract[c] # NoRow
    BY DEF AtomicSend, AtomicMove, Becomes
<1>2. Protocol!Move(c, {"approved"}, "sending") /\ Approvals' = Approvals
    BY <1>1, MoveImplemented
<1>3. Documents[c].version = contract[c].version
    BY <1>1, SeenAs
<1> QED BY <1>2, <1>3 DEF AtomicSend, Sent, Protocol!Send

LEMMA OutcomeImplemented ==
    ASSUME Typed, NEW c \in Contracts, NEW status, AtomicOutcome(c, status)
    PROVE  Protocol!Resolve(c, status)
PROOF
<1>1. /\ contract[c] # NoRow /\ contract'[c] # NoRow
      /\ contract'[c].status = status /\ contract'[c].step = contract[c].step
      /\ contract'[c].version = contract[c].version
      /\ Protocol!Become(c, contract'[c].status, contract'[c].step, contract'[c].version)
    BY OutcomeEffect, SeenToBecome DEF Existing
<1>2. Protocol!Become(c, status, Documents[c].step, Documents[c].version)
    BY <1>1, SeenAs
<1>3. Approvals' = Approvals
    BY DEF AtomicOutcome, Approvals
<1> QED BY <1>2, <1>3 DEF AtomicOutcome, Sent, Protocol!Resolve

\* No contract is a document that does not exist yet.
LEMMA ProtocolInit == Init => Protocol!Init
PROOF
<1> SUFFICES ASSUME Init PROVE Protocol!Init
    OBVIOUS
<1>1. \A c \in Contracts : AbstractDoc(contract[c]) = Protocol!NoDoc
    BY DEF Init, AbstractDoc, NoRow, Protocol!NoDoc
<1>2. Documents = [c \in Contracts |-> Protocol!NoDoc]
    BY <1>1 DEF Documents
<1>3. Approvals = {} /\ signatures = {}
    BY DEF Init, Approvals
<1> QED BY <1>2, <1>3 DEF Protocol!Init

LEMMA ProtocolStep == Invariant /\ [Next]_vars => [Protocol!Next]_(Protocol!vars)
PROOF
<1> SUFFICES ASSUME Invariant, [Next]_vars PROVE Protocol!Next \/ UNCHANGED Protocol!vars
    OBVIOUS
<1>1. Typed /\ Stages /\ (AtomicStep \/ UNCHANGED tables)
    BY EveryStepIsAtomic DEF Invariant
<1>2. CASE UNCHANGED tables
    BY <1>2 DEF tables, Documents, Approvals, Protocol!vars
<1>3. CASE AtomicStep
    <2>1. ASSUME NEW c \in Contracts, NEW u \in Users, NEW w \in Workflows, NEW text \in Texts,
                 AtomicCreate(c, u, w, text)
          PROVE  Protocol!Next
        BY <1>1, <2>1, CreateImplemented DEF Protocol!Next
    <2>2. ASSUME NEW c \in Contracts, NEW u \in Users, NEW text \in Texts, AtomicEdit(c, u, text)
          PROVE  Protocol!Next
        BY <1>1, <2>2, ReviseImplemented DEF Protocol!Next
    <2>3. ASSUME NEW c \in Contracts, NEW u \in Users,
                 AtomicSubmit(c, u) \/ AtomicReject(c, u) \/ AtomicArchive(c, u) \/ AtomicSend(c, u)
          PROVE  Protocol!Next
        <3>1. Protocol!Submit(c) \/ Protocol!Return(c) \/ Protocol!Archive(c) \/ Protocol!Send(c)
            BY <1>1, <2>3, SubmitImplemented, ReturnImplemented, ArchiveImplemented,
               SendImplemented
        <3> QED BY <3>1 DEF Protocol!Next
    <2>4. ASSUME NEW c \in Contracts, NEW u \in Users, AtomicApprove(c, u)
          PROVE  Protocol!Next
        BY <1>1, <2>4, ApproveImplemented DEF Protocol!Next
    <2>5. ASSUME NEW c \in Contracts, NEW status \in SigningOutcomes, AtomicOutcome(c, status)
          PROVE  Protocol!Next
        <3>1. Protocol!Resolve(c, status)
            BY <1>1, <2>5, OutcomeImplemented
        <3> QED BY <3>1 DEF Protocol!Next, SigningOutcomes
    <2> QED BY <1>3, <2>1, <2>2, <2>3, <2>4, <2>5 DEF AtomicStep, AtomicChange
<1> QED BY <1>1, <1>2, <1>3

\* The handlers, which decide on copies and lose races, implement the protocol in
\* which every operation is atomic: each commit is one of its steps, in the state it
\* is committed in, and everything else a handler does is none.
THEOREM HandlersImplementProtocol == Spec => ImplementsApprovalProtocol
PROOF
<1>1. Spec => Protocol!Init /\ [][Protocol!Next]_(Protocol!vars)
    BY ProtocolInit, ProtocolStep, InvariantHolds, PTL DEF Spec
<1> QED BY <1>1 DEF ImplementsApprovalProtocol, Protocol!Spec

================================================================================
