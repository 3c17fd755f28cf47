-------------------------------- MODULE Intake ---------------------------------
(***************************************************************************)
(* The intake desk (src/openclm/intake.py) and the changes of the team it  *)
(* distributes work to.  Every handler of the desk takes the lock of the   *)
(* organization, reads the caller's membership again and only then reads   *)
(* rows, as the changes of membership do; module Membership models that    *)
(* lock, and here what a handler does under it is one step.  What a        *)
(* handler knows from before the lock is the caller's role and, for the    *)
(* handlers that are sent a revision, the row on the client's screen.      *)
(*                                                                         *)
(* Requests of the desk are called tickets here, to tell them from HTTP    *)
(* requests; a ticket is identified by the submission key of its requester.*)
(* Attachments, articles and the metrics are not modelled.                 *)
(***************************************************************************)
EXTENDS Naturals

CONSTANTS
    Users,
    Founder,        \* the owner; nobody demotes or removes them
    Services,       \* identifiers of services
    Tickets,        \* submission keys
    Nobody,         \* no person in charge
    Requests,       \* request slots of the thread pool
    Grantable,      \* bound: the roles that are given
    Given,          \* bound: the statuses that triage gives
    MaxMessages,    \* the limit of messages per ticket
    MaxRevision     \* bound: changes of a row by the desk's handlers

VARIABLES
    role,       \* the memberships table: a member's role, or "none"
    disabled,   \* the people whose account is disabled
    service,    \* the intake_services table
    ticket,     \* the intake_requests table, with the number of messages
    request     \* the handlers that wait for the organization's lock

people == <<role, disabled>>
vars == <<people, service, ticket, request>>

Roles == {"admin", "editor", "reviewer", "viewer"}
Legal == {"admin", "reviewer"}
OpenStatuses == {"new", "in_progress", "waiting"}
TicketStatuses == OpenStatuses \cup {"resolved", "cancelled"}

ASSUME IntakeAssumption ==
    /\ Founder \in Users
    /\ Nobody \notin Users
    /\ Services \cap Tickets = {}
    /\ "none" \notin Services \cup Tickets
    /\ Grantable \subseteq Roles
    /\ Given \subseteq TicketStatuses
    /\ MaxMessages \in Nat
    /\ MaxRevision \in Nat

Service == [assignee: Users \cup {Nobody}, active: BOOLEAN, revision: Nat]
Ticket == [requester: Users, assignee: Users \cup {Nobody}, status: TicketStatuses,
           messages: Nat, revision: Nat]
NoRow == [revision |-> 0]
NoPage == [item |-> "none"]
Page == [item: Services, row: Service \cup {NoRow}]
    \cup [item: Tickets, row: Ticket \cup {NoRow}]

Idle == [pc |-> "idle"]
Waiting == [pc: {"waiting"}, user: Users, role: Roles, page: Page \cup {NoPage}]

Init ==
    /\ role = [u \in Users |-> IF u = Founder THEN "admin" ELSE "none"]
    /\ disabled = {}
    /\ service = [s \in Services |-> NoRow]
    /\ ticket = [t \in Tickets |-> NoRow]
    /\ request = [r \in Requests |-> Idle]

--------------------------------------------------------------------------------
(* The start and the end of a handler.                                      *)

\* principal and current_user.
Begin(r, u, page) ==
    /\ request[r] = Idle
    /\ role[u] # "none"
    /\ u \notin disabled
    /\ request' = [request EXCEPT ![r] =
         [pc |-> "waiting", user |-> u, role |-> role[u], page |-> page]]
    /\ UNCHANGED <<people, service, ticket>>

Authenticate(r, u) == Begin(r, u, NoPage)

\* Only the legal team's handlers are sent a revision.
OpenService(r, u, s) == role[u] = "admin" /\ Begin(r, u, [item |-> s, row |-> service[s]])
OpenTicket(r, u, t) == role[u] \in Legal /\ Begin(r, u, [item |-> t, row |-> ticket[t]])

\* A refusal, an error or a crash: the transaction rolls back.
Fail(r) ==
    /\ request[r] # Idle
    /\ request' = [request EXCEPT ![r] = Idle]
    /\ UNCHANGED <<people, service, ticket>>

\* lock_organization: the role that was authenticated is still the caller's.
Locked(r) ==
    /\ request[r] # Idle
    /\ role[request[r].user] = request[r].role

AsAdmin(r) == Locked(r) /\ request[r].role = "admin"
AsLegal(r) == Locked(r) /\ request[r].role \in Legal

\* staff: an active member with a legal role and an active account, or nobody.
Staff(u) == u # Nobody => role[u] \in Legal /\ u \notin disabled

\* get_request and the test of the revision that the client sends.
AsSeen(r, item, row) ==
    /\ row # NoRow
    /\ request[r].page.item = item
    /\ request[r].page.row.revision = row.revision

Commit(r) == request' = [request EXCEPT ![r] = Idle]

--------------------------------------------------------------------------------
(* Changes of the team and the work they hand back.                         *)

\* Faulty: the revisions are left as they are.
ReleaseSilently(u) ==
    /\ service' = [s \in Services |->
         IF service[s] # NoRow /\ service[s].assignee = u
         THEN [service[s] EXCEPT !.assignee = Nobody] ELSE service[s]]
    /\ ticket' = [t \in Tickets |->
         IF ticket[t] # NoRow /\ ticket[t].assignee = u /\ ticket[t].status \in OpenStatuses
         THEN [ticket[t] EXCEPT !.assignee = Nobody, !.status = "new"] ELSE ticket[t]]

\* Faulty: only tickets that were started are handed back.
ReleaseStarted(u) ==
    /\ ticket' = [t \in Tickets |->
         IF ticket[t] # NoRow /\ ticket[t].assignee = u /\ ticket[t].status = "in_progress"
         THEN [ticket[t] EXCEPT !.assignee = Nobody, !.status = "new", !.revision = @ + 1]
         ELSE ticket[t]]
    /\ service' = [s \in Services |->
         IF service[s] # NoRow /\ service[s].assignee = u
         THEN [service[s] EXCEPT !.assignee = Nobody, !.revision = @ + 1] ELSE service[s]]

\* release_intake_assignments: two UPDATEs that count the revisions themselves.
Release(u) ==
    /\ service' = [s \in Services |->
         IF service[s] # NoRow /\ service[s].assignee = u
         THEN [service[s] EXCEPT !.assignee = Nobody, !.revision = @ + 1] ELSE service[s]]
    /\ ticket' = [t \in Tickets |->
         IF ticket[t] # NoRow /\ ticket[t].assignee = u /\ ticket[t].status \in OpenStatuses
         THEN [ticket[t] EXCEPT !.assignee = Nobody, !.status = "new", !.revision = @ + 1]
         ELSE ticket[t]]

ChangeRole(r, u, new) ==
    /\ AsAdmin(r)
    /\ role[u] # "none"
    /\ u = Founder => new = "admin"
    /\ role' = [role EXCEPT ![u] = new]
    /\ IF new \in Legal THEN UNCHANGED <<service, ticket>> ELSE Release(u)
    /\ Commit(r)
    /\ UNCHANGED disabled

Remove(r, u) ==
    /\ AsAdmin(r)
    /\ role[u] # "none"
    /\ u # Founder
    /\ role' = [role EXCEPT ![u] = "none"]
    /\ Release(u)
    /\ Commit(r)
    /\ UNCHANGED disabled

\* accept_invitation and create_user, as far as the desk can tell them.
Join(u, new) ==
    /\ role[u] = "none"
    /\ role' = [role EXCEPT ![u] = new]
    /\ UNCHANGED <<disabled, service, ticket, request>>

\* cli disable-user, which hands no work back.
Disable(u) ==
    /\ u # Founder
    /\ disabled' = disabled \cup {u}
    /\ UNCHANGED <<role, service, ticket, request>>

--------------------------------------------------------------------------------
(* The desk.                                                                *)

CreateService(r, s, u) ==
    /\ AsAdmin(r)
    /\ service[s] = NoRow
    /\ Staff(u)
    /\ service' = [service EXCEPT ![s] = [assignee |-> u, active |-> TRUE, revision |-> 1]]
    /\ Commit(r)
    /\ UNCHANGED <<people, ticket>>

\* Storing what the row already holds changes nothing and is a Fail here.
UpdateService(r, s, u, active) ==
    /\ AsAdmin(r)
    /\ AsSeen(r, s, service[s])
    /\ service[s].revision < MaxRevision
    /\ Staff(u)
    /\ service' = [service EXCEPT ![s] =
         [assignee |-> u, active |-> active, revision |-> @.revision + 1]]
    /\ Commit(r)
    /\ UNCHANGED <<people, ticket>>

\* A key that was submitted before returns the ticket it created.
CreateTicket(r, t, s) ==
    LET u == service[s].assignee IN
    /\ Locked(r)
    /\ ticket[t] = NoRow
    /\ service[s] # NoRow /\ service[s].active
    /\ ticket' = [ticket EXCEPT ![t] =
         [requester |-> request[r].user, assignee |-> IF Staff(u) THEN u ELSE Nobody,
          status |-> "new", messages |-> 0, revision |-> 1]]
    /\ Commit(r)
    /\ UNCHANGED <<people, service>>

\* The status message is added without a look at the limit.
Triage(r, t, status, u) ==
    /\ AsLegal(r)
    /\ AsSeen(r, t, ticket[t])
    /\ ticket[t].revision < MaxRevision
    /\ Staff(u)
    /\ status \in {"in_progress", "waiting", "resolved"} => u # Nobody
    /\ ticket' = [ticket EXCEPT ![t].status = status, ![t].assignee = u,
                                ![t].messages = @ + 1, ![t].revision = @ + 1]
    /\ Commit(r)
    /\ UNCHANGED <<people, service>>

\* The requester's answer brings a waiting or resolved ticket back to the triage,
\* with the person in charge it had.
Message(r, t, internal) ==
    LET q == request[r]
        reopens == /\ ticket[t].requester = q.user
                   /\ ticket[t].status \in {"waiting", "resolved"}
                   /\ ~internal IN
    /\ Locked(r)
    /\ ticket[t] # NoRow
    /\ \/ q.role \in Legal
       \/ ticket[t].requester = q.user /\ ~internal
    /\ ticket[t].status # "cancelled"
    /\ ticket[t].messages < MaxMessages
    /\ ticket[t].revision < MaxRevision
    /\ ticket' = [ticket EXCEPT ![t].status = IF reopens THEN "new" ELSE @,
                                ![t].messages = @ + 1, ![t].revision = @ + 1]
    /\ Commit(r)
    /\ UNCHANGED <<people, service>>

\* Only the row's revision tells here that another contract was linked.
LinkContract(r, t) ==
    /\ AsLegal(r)
    /\ AsSeen(r, t, ticket[t])
    /\ ticket[t].revision < MaxRevision
    /\ ticket' = [ticket EXCEPT ![t].revision = @ + 1]
    /\ Commit(r)
    /\ UNCHANGED <<people, service>>

--------------------------------------------------------------------------------

Next ==
    \/ \E r \in Requests, u \in Users : Authenticate(r, u)
    \/ \E r \in Requests, u \in Users, s \in Services : OpenService(r, u, s)
    \/ \E r \in Requests, u \in Users, t \in Tickets : OpenTicket(r, u, t)
    \/ \E r \in Requests : Fail(r)
    \/ \E r \in Requests, u \in Users, new \in Grantable : ChangeRole(r, u, new)
    \/ \E r \in Requests, u \in Users : Remove(r, u)
    \/ \E u \in Users, new \in Grantable : Join(u, new)
    \/ \E u \in Users : Disable(u)
    \/ \E r \in Requests, s \in Services, u \in Users \cup {Nobody} : CreateService(r, s, u)
    \/ \E r \in Requests, s \in Services, u \in Users \cup {Nobody}, active \in BOOLEAN :
          UpdateService(r, s, u, active)
    \/ \E r \in Requests, t \in Tickets, s \in Services : CreateTicket(r, t, s)
    \/ \E r \in Requests, t \in Tickets, status \in Given,
          u \in Users \cup {Nobody} : Triage(r, t, status, u)
    \/ \E r \in Requests, t \in Tickets, internal \in BOOLEAN : Message(r, t, internal)
    \/ \E r \in Requests, t \in Tickets : LinkContract(r, t)

Spec == Init /\ [][Next]_vars

--------------------------------------------------------------------------------
(* Properties.                                                              *)

\* The tables and the handlers are of their types.
TypeOK ==
    /\ role \in [Users -> Roles \cup {"none"}]
    /\ disabled \subseteq Users
    /\ service \in [Services -> Service \cup {NoRow}]
    /\ ticket \in [Tickets -> Ticket \cup {NoRow}]
    /\ request \in [Requests -> Waiting \cup {Idle}]

\* Work in progress and the services that distribute work are never in the hands of
\* somebody who left or lost the legal role, however removals and demotions are
\* interleaved with the distribution (staff, release_intake_assignments).
WorkIsStaffed ==
    /\ \A s \in Services :
          service[s] # NoRow /\ service[s].assignee # Nobody => role[service[s].assignee] \in Legal
    /\ \A t \in Tickets :
          ticket[t] # NoRow /\ ticket[t].status \in {"in_progress", "waiting"} =>
              ticket[t].assignee # Nobody /\ role[ticket[t].assignee] \in Legal

\* A handler that ends in this step was sent the page with this very row.
DecidedOn(item, row) ==
    \E r \in Requests :
        /\ request[r] # Idle /\ request'[r] = Idle
        /\ request[r].page = [item |-> item, row |-> row]

Distributed ==
    /\ \A t \in Tickets :
          /\ ticket[t] # NoRow
          /\ \/ ticket'[t].assignee \notin {ticket[t].assignee, Nobody}
             \/ ticket'[t].status \notin {ticket[t].status, "new"}
          => DecidedOn(t, ticket[t])
    /\ \A s \in Services :
          /\ service[s] # NoRow
          /\ \/ service'[s].assignee \notin {service[s].assignee, Nobody}
             \/ service'[s].active # service[s].active
          => DecidedOn(s, service[s])

\* Nobody is put in charge of a ticket or a service, no ticket is answered or closed
\* and no service is paused or resumed by a person whose page showed it with another
\* status, person in charge or conversation.
DistributedAsSeen == [][Distributed]_vars

\* "Revoked/demoted owners return work to the legal queue": the person in charge of
\* an open ticket belongs to the legal team.
AssignedIsStaff ==
    \A t \in Tickets :
        ticket[t] # NoRow /\ ticket[t].status \in OpenStatuses =>
            ticket[t].assignee = Nobody \/ role[ticket[t].assignee] \in Legal
================================================================================
