----------------------------- MODULE IntakeProofs ------------------------------
(***************************************************************************)
(* The intake desk, for any number of people, services, tickets and        *)
(* handlers.                                                               *)
(*                                                                         *)
(* Work in progress is in the hands of the legal team: WorkIsStaffed is    *)
(* inductive together with the types, since what a handler assigns is      *)
(* staff in the state in which it commits, and whoever stops being staff   *)
(* hands the work back in the same step.                                   *)
(*                                                                         *)
(* Who distributes work saw it as it is: every change of a row raises its  *)
(* revision (EveryRowStep), so that a page with the row's revision is      *)
(* equal to the row (Pages).                                               *)
(***************************************************************************)
EXTENDS Intake, TLAPS

USE IntakeAssumption

Inv == TypeOK /\ WorkIsStaffed

--------------------------------------------------------------------------------
(* Rows one by one.                                                         *)

StaffedService(x, r) ==
    x # NoRow /\ x.assignee # Nobody => r[x.assignee] \in Legal

StaffedTicket(x, r) ==
    x # NoRow /\ x.status \in {"in_progress", "waiting"} =>
        x.assignee # Nobody /\ r[x.assignee] \in Legal

LEMMA RowByRow ==
    WorkIsStaffed <=> /\ \A s \in Services : StaffedService(service[s], role)
                      /\ \A t \in Tickets : StaffedTicket(ticket[t], role)
BY DEF WorkIsStaffed, StaffedService, StaffedTicket

\* A row that is handed back is a row, and who it names is nobody.
LEMMA ServiceHandedBack ==
    ASSUME NEW x \in Service
    PROVE  LET y == [x EXCEPT !.assignee = Nobody, !.revision = @ + 1] IN
           y \in Service /\ y.assignee = Nobody
<1>1. ASSUME NEW n \in Nat
      PROVE  LET y == [x EXCEPT !.assignee = Nobody, !.revision = n] IN
             y \in Service /\ y.assignee = Nobody
  BY DEF Service
<1>2. x.revision + 1 \in Nat
  BY DEF Service
<1> QED  BY <1>1, <1>2

LEMMA TicketHandedBack ==
    ASSUME NEW x \in Ticket
    PROVE  LET y == [x EXCEPT !.assignee = Nobody, !.status = "new", !.revision = @ + 1] IN
           y \in Ticket /\ y.status = "new"
<1>1. ASSUME NEW n \in Nat
      PROVE  LET y == [x EXCEPT !.assignee = Nobody, !.status = "new", !.revision = n] IN
             y \in Ticket /\ y.status = "new"
  BY DEF Ticket, TicketStatuses, OpenStatuses
<1>2. x.revision + 1 \in Nat
  BY DEF Ticket
<1> QED  BY <1>1, <1>2

\* What a release does to each row.
LEMMA ReleaseByRow ==
    ASSUME TypeOK, NEW u \in Users, Release(u)
    PROVE  /\ service' \in [Services -> Service \cup {NoRow}]
           /\ ticket' \in [Tickets -> Ticket \cup {NoRow}]
           /\ \A s \in Services :
                 IF service[s] # NoRow /\ service[s].assignee = u
                 THEN service'[s].assignee = Nobody ELSE service'[s] = service[s]
           /\ \A t \in Tickets :
                 IF ticket[t] # NoRow /\ ticket[t].assignee = u /\ ticket[t].status \in OpenStatuses
                 THEN ticket'[t].status = "new" ELSE ticket'[t] = ticket[t]
<1> DEFINE Mine(s) == service[s] # NoRow /\ service[s].assignee = u
           Theirs(t) == /\ ticket[t] # NoRow /\ ticket[t].assignee = u
                        /\ ticket[t].status \in OpenStatuses
           backS(x) == [x EXCEPT !.assignee = Nobody, !.revision = @ + 1]
           backT(x) == [x EXCEPT !.assignee = Nobody, !.status = "new", !.revision = @ + 1]
<1>1. /\ service' = [s \in Services |-> IF Mine(s) THEN backS(service[s]) ELSE service[s]]
      /\ ticket' = [t \in Tickets |-> IF Theirs(t) THEN backT(ticket[t]) ELSE ticket[t]]
  BY Zenon DEF Release
<1>2. \A s \in Services : Mine(s) =>
          backS(service[s]) \in Service /\ backS(service[s]).assignee = Nobody
  <2> HIDE DEF backS
  <2>1. \A x \in Service : backS(x) \in Service /\ backS(x).assignee = Nobody
    BY ServiceHandedBack, Zenon DEF backS
  <2> QED  BY <2>1 DEF TypeOK
<1>3. \A t \in Tickets : Theirs(t) =>
          backT(ticket[t]) \in Ticket /\ backT(ticket[t]).status = "new"
  <2> HIDE DEF backT
  <2>1. \A x \in Ticket : backT(x) \in Ticket /\ backT(x).status = "new"
    BY TicketHandedBack, Zenon DEF backT
  <2> QED  BY <2>1 DEF TypeOK
<1> HIDE DEF backS, backT
<1> QED  BY <1>1, <1>2, <1>3 DEF TypeOK

\* After a release of u, the rows are staffed by the roles that everybody else keeps.
LEMMA ReleaseHandsBack ==
    ASSUME Inv, NEW u \in Users, Release(u),
           NEW new \in Roles \cup {"none"}, role' = [role EXCEPT ![u] = new]
    PROVE  WorkIsStaffed'
<1>1. ASSUME NEW s \in Services PROVE StaffedService(service'[s], role')
  <2>1. CASE service'[s] = service[s] /\ (service[s] # NoRow => service[s].assignee # u)
    <3>1. StaffedService(service[s], role)  BY RowByRow DEF Inv
    <3>2. service[s] # NoRow => service[s].assignee \in Users \cup {Nobody}
      BY DEF Inv, TypeOK, Service
    <3> QED  BY <2>1, <3>1, <3>2 DEF StaffedService, Inv, TypeOK
  <2>2. CASE service'[s].assignee = Nobody
    BY <2>2 DEF StaffedService
  <2> QED  BY <2>1, <2>2, ReleaseByRow DEF Inv
<1>2. ASSUME NEW t \in Tickets PROVE StaffedTicket(ticket'[t], role')
  <2>1. CASE /\ ticket'[t] = ticket[t]
             /\ ticket[t] # NoRow /\ ticket[t].status \in OpenStatuses => ticket[t].assignee # u
    <3>1. StaffedTicket(ticket[t], role)  BY RowByRow DEF Inv
    <3>2. ticket[t] # NoRow => ticket[t].assignee \in Users \cup {Nobody}
      BY DEF Inv, TypeOK, Ticket
    <3> QED  BY <2>1, <3>1, <3>2 DEF StaffedTicket, OpenStatuses, Inv, TypeOK
  <2>2. CASE ticket'[t].status = "new"
    BY <2>2 DEF StaffedTicket
  <2> QED  BY <2>1, <2>2, ReleaseByRow DEF Inv
<1> QED  BY <1>1, <1>2 DEF WorkIsStaffed, StaffedService, StaffedTicket

--------------------------------------------------------------------------------
(* Steps.                                                                   *)

\* The start of a handler, which copies the caller's role and a page.
LEMMA BeginTyped ==
    ASSUME TypeOK, NEW r \in Requests, NEW u \in Users, NEW page \in Page \cup {NoPage},
           Begin(r, u, page)
    PROVE  TypeOK'
<1>1. role[u] \in Roles  BY DEF Begin, TypeOK
<1>2. [pc |-> "waiting", user |-> u, role |-> role[u], page |-> page] \in Waiting
  BY <1>1 DEF Waiting
<1> QED  BY <1>2 DEF Begin, TypeOK, people

\* The end of one.
LEMMA CommitTyped ==
    ASSUME TypeOK, NEW r \in Requests, Commit(r)
    PROVE  request' \in [Requests -> Waiting \cup {Idle}]
BY DEF TypeOK, Commit

\* A release, with the change of role it belongs to.
LEMMA ReleaseStep ==
    ASSUME Inv, NEW r \in Requests, NEW u \in Users, NEW new \in Roles \cup {"none"},
           role' = [role EXCEPT ![u] = new], Release(u), Commit(r), UNCHANGED disabled
    PROVE  Inv'
<1>1. TypeOK'
  BY ReleaseByRow, CommitTyped DEF Inv, TypeOK
<1> QED  BY <1>1, ReleaseHandsBack DEF Inv

\* A row of a service that is stored by somebody who looked at its staff.
LEMMA StoreService ==
    ASSUME Inv, NEW r \in Requests, NEW s \in Services, NEW u \in Users \cup {Nobody}, Staff(u),
           NEW active \in BOOLEAN, NEW n \in Nat,
           service' = [service EXCEPT ![s] = [assignee |-> u, active |-> active, revision |-> n]],
           Commit(r), UNCHANGED <<people, ticket>>
    PROVE  Inv'
<1> DEFINE new == [assignee |-> u, active |-> active, revision |-> n]
<1>1. new \in Service /\ new.assignee = u
  BY DEF Service
<1>2. StaffedService(new, role)
  BY <1>1 DEF Staff, StaffedService
<1>0. service' = [service EXCEPT ![s] = new]
  OBVIOUS
<1> HIDE DEF new
<1>3. TypeOK'
  BY <1>0, <1>1, CommitTyped DEF Inv, TypeOK, people
<1>4. \A x \in Services : StaffedService(service'[x], role)
  BY <1>0, <1>2, RowByRow DEF Inv, TypeOK
<1>5. WorkIsStaffed'
  BY <1>4, RowByRow DEF Inv, WorkIsStaffed, StaffedService, people
<1> QED  BY <1>3, <1>5 DEF Inv

\* A row of a ticket that is stored, whatever handler stores it.
LEMMA StoreTicket ==
    ASSUME Inv, NEW r \in Requests, NEW t \in Tickets, NEW new \in Ticket,
           StaffedTicket(new, role), ticket' = [ticket EXCEPT ![t] = new],
           Commit(r), UNCHANGED <<people, service>>
    PROVE  Inv'
<1>1. TypeOK'
  BY CommitTyped DEF Inv, TypeOK, people
<1>2. \A x \in Tickets : StaffedTicket(ticket'[x], role)
  BY RowByRow DEF Inv, TypeOK
<1>3. WorkIsStaffed'
  BY <1>2, RowByRow DEF Inv, WorkIsStaffed, StaffedTicket, people
<1> QED  BY <1>1, <1>3 DEF Inv

LEMMA CreateTicketStep ==
    ASSUME Inv, NEW r \in Requests, NEW t \in Tickets, NEW s \in Services, CreateTicket(r, t, s)
    PROVE  Inv'
<1> DEFINE u == IF Staff(service[s].assignee) THEN service[s].assignee ELSE Nobody
           new == [requester |-> request[r].user, assignee |-> u,
                   status |-> "new", messages |-> 0, revision |-> 1]
<1>1. /\ request[r].user \in Users
      /\ u \in Users \cup {Nobody}
  BY DEF CreateTicket, Locked, Inv, TypeOK, Waiting, Service
<1>2. ticket' = [ticket EXCEPT ![t] = new] /\ Commit(r) /\ UNCHANGED <<people, service>>
  BY DEF CreateTicket
<1> HIDE DEF u
<1>3. new \in Ticket /\ new.status = "new"
  BY <1>1 DEF Ticket, TicketStatuses, OpenStatuses
<1>4. StaffedTicket(new, role)
  BY <1>3 DEF StaffedTicket
<1> HIDE DEF new
<1> QED  BY <1>2, <1>3, <1>4, StoreTicket

LEMMA TriageStep ==
    ASSUME Inv, NEW r \in Requests, NEW t \in Tickets, NEW status \in Given,
           NEW u \in Users \cup {Nobody}, Triage(r, t, status, u)
    PROVE  Inv'
<1> DEFINE x == ticket[t]
           new == [x EXCEPT !.status = status, !.assignee = u,
                            !.messages = x.messages + 1, !.revision = x.revision + 1]
<1>1. x \in Ticket
  BY DEF Triage, AsSeen, Inv, TypeOK
<1>2. x.messages + 1 \in Nat /\ x.revision + 1 \in Nat /\ status \in TicketStatuses
  BY <1>1 DEF Ticket
<1>3. ticket' = [ticket EXCEPT ![t] = new] /\ Commit(r) /\ UNCHANGED <<people, service>>
  <2>1. ticket' = [ticket EXCEPT ![t].status = status, ![t].assignee = u,
                                 ![t].messages = @ + 1, ![t].revision = @ + 1]
    BY Zenon DEF Triage
  <2> QED  BY <2>1, Zenon DEF Triage, Inv, TypeOK
<1>4. Staff(u) /\ (status \in {"in_progress", "waiting"} => u # Nobody)
  BY DEF Triage
<1>5. new \in Ticket /\ new.status = status /\ new.assignee = u
  <2> DEFINE m == x.messages + 1
             n == x.revision + 1
  <2>1. m \in Nat /\ n \in Nat /\ status \in TicketStatuses  BY <1>2
  <2> HIDE DEF m, n
  <2>2. [x EXCEPT !.status = status, !.assignee = u, !.messages = m, !.revision = n] = new
    BY Zenon DEF m, n
  <2> HIDE DEF x, new
  <2> DEFINE y == [x EXCEPT !.status = status, !.assignee = u, !.messages = m, !.revision = n]
  <2>3. y \in Ticket /\ y.status = status /\ y.assignee = u
    BY <1>1, <2>1 DEF Ticket
  <2>4. y = new
    BY <2>2
  <2> HIDE DEF y
  <2> QED  BY <2>3, <2>4
<1> HIDE DEF new
<1>6. StaffedTicket(new, role)
  BY <1>4, <1>5 DEF StaffedTicket, Staff
<1> QED  BY <1>3, <1>5, <1>6, StoreTicket

\* What a message and a link store: the person in charge stays, and the status stays
\* or is that of the triage.
LEMMA KeepAssignee ==
    ASSUME Inv, NEW r \in Requests, NEW t \in Tickets, ticket[t] # NoRow,
           NEW status \in {ticket[t].status, "new"}, NEW m \in Nat, NEW n \in Nat,
           ticket' = [ticket EXCEPT ![t] =
                        [ticket[t] EXCEPT !.status = status, !.messages = m, !.revision = n]],
           Commit(r), UNCHANGED <<people, service>>
    PROVE  Inv'
<1> DEFINE new == [ticket[t] EXCEPT !.status = status, !.messages = m, !.revision = n]
<1>1. ticket[t] \in Ticket
  BY DEF Inv, TypeOK
<1>2. new \in Ticket /\ new.status = status /\ new.assignee = ticket[t].assignee
  BY <1>1 DEF Ticket, TicketStatuses, OpenStatuses
<1>3. ticket' = [ticket EXCEPT ![t] = new]
  OBVIOUS
<1> HIDE DEF new
<1>4. StaffedTicket(ticket[t], role)
  BY RowByRow DEF Inv
<1>5. StaffedTicket(new, role)
  BY <1>2, <1>4 DEF StaffedTicket
<1> QED  BY <1>2, <1>3, <1>5, StoreTicket

LEMMA MessageStep ==
    ASSUME Inv, NEW r \in Requests, NEW t \in Tickets, NEW internal \in BOOLEAN,
           Message(r, t, internal)
    PROVE  Inv'
<1> DEFINE reopens == /\ ticket[t].requester = request[r].user
                      /\ ticket[t].status \in {"waiting", "resolved"}
                      /\ ~internal
           status == IF reopens THEN "new" ELSE ticket[t].status
           m == ticket[t].messages + 1
           n == ticket[t].revision + 1
<1>1. ticket[t] # NoRow
  BY DEF Message
<1>2. m \in Nat /\ n \in Nat
  BY <1>1 DEF Inv, TypeOK, Ticket
<1>3. ticket' = [ticket EXCEPT ![t].status = IF reopens THEN "new" ELSE @,
                               ![t].messages = @ + 1, ![t].revision = @ + 1]
  BY Zenon DEF Message
<1>4. ticket' = [ticket EXCEPT ![t] =
                   [ticket[t] EXCEPT !.status = status, !.messages = m, !.revision = n]]
  BY <1>3, Zenon DEF Inv, TypeOK
<1>5. Commit(r) /\ UNCHANGED <<people, service>>
  BY DEF Message
<1>6. status \in {ticket[t].status, "new"}
  OBVIOUS
<1> HIDE DEF status, m, n
<1> QED  BY <1>1, <1>2, <1>4, <1>5, <1>6, KeepAssignee

LEMMA LinkContractStep ==
    ASSUME Inv, NEW r \in Requests, NEW t \in Tickets, LinkContract(r, t)
    PROVE  Inv'
<1> DEFINE n == ticket[t].revision + 1
           new == [ticket[t] EXCEPT !.revision = n]
<1>1. ticket[t] \in Ticket
  BY DEF LinkContract, AsSeen, Inv, TypeOK
<1>2. n \in Nat
  BY <1>1 DEF Ticket
<1>3. ticket' = [ticket EXCEPT ![t].revision = @ + 1]
  BY Zenon DEF LinkContract
<1>4. ticket' = [ticket EXCEPT ![t] = new]
  BY <1>3, Zenon DEF Inv, TypeOK
<1>5. Commit(r) /\ UNCHANGED <<people, service>>
  BY DEF LinkContract
<1> HIDE DEF n
<1>6. new \in Ticket /\ new.status = ticket[t].status /\ new.assignee = ticket[t].assignee
  BY <1>1, <1>2 DEF Ticket
<1> HIDE DEF new
<1>7. StaffedTicket(new, role)
  <2>1. StaffedTicket(ticket[t], role)  BY RowByRow DEF Inv
  <2>2. ticket[t] # NoRow  BY DEF LinkContract, AsSeen
  <2> QED  BY <1>6, <2>1, <2>2 DEF StaffedTicket
<1> QED  BY <1>4, <1>5, <1>6, <1>7, StoreTicket

\* A step that leaves the rows alone, or makes somebody a member.
LEMMA Joined ==
    ASSUME Inv, NEW u \in Users, NEW new \in Grantable, Join(u, new)
    PROVE  Inv'
<1>1. TypeOK'
  BY DEF Inv, TypeOK, Join
<1>2. \A v \in Users : role[v] \in Legal => role'[v] \in Legal
  BY DEF Inv, TypeOK, Join, Legal
<1>3. WorkIsStaffed'
  BY <1>2 DEF Inv, WorkIsStaffed, Join, TypeOK, Service, Ticket
<1> QED  BY <1>1, <1>3 DEF Inv

\* A person who keeps a legal role keeps the work.
LEMMA RoleKept ==
    ASSUME Inv, NEW r \in Requests, NEW u \in Users, NEW new \in Legal,
           role' = [role EXCEPT ![u] = new], UNCHANGED <<service, ticket, disabled>>, Commit(r)
    PROVE  Inv'
<1>1. TypeOK'
  BY CommitTyped DEF Inv, TypeOK, Legal, Roles
<1>2. \A v \in Users : role[v] \in Legal => role'[v] \in Legal
  BY DEF Inv, TypeOK
<1>3. WorkIsStaffed'
  BY <1>2 DEF Inv, WorkIsStaffed, TypeOK, Service, Ticket
<1> QED  BY <1>1, <1>3 DEF Inv

--------------------------------------------------------------------------------
(* The invariant.                                                           *)

LEMMA Initially == Init => Inv
BY DEF Init, Inv, TypeOK, WorkIsStaffed, Roles, NoRow, Idle

LEMMA Steps == Inv /\ [Next]_vars => Inv'
<1> SUFFICES ASSUME Inv, [Next]_vars PROVE Inv'
  OBVIOUS
<1>1. ASSUME NEW r \in Requests, NEW u \in Users, Authenticate(r, u) PROVE Inv'
  <2>1. TypeOK'  BY <1>1, BeginTyped DEF Authenticate, Inv
  <2> QED  BY <1>1, <2>1 DEF Authenticate, Begin, Inv, WorkIsStaffed, people
<1>2. ASSUME NEW r \in Requests, NEW u \in Users, NEW s \in Services, OpenService(r, u, s)
      PROVE  Inv'
  <2>1. [item |-> s, row |-> service[s]] \in Page  BY DEF Inv, TypeOK, Page
  <2>2. TypeOK'  BY <1>2, <2>1, BeginTyped DEF OpenService, Inv
  <2> QED  BY <1>2, <2>2 DEF OpenService, Begin, Inv, WorkIsStaffed, people
<1>3. ASSUME NEW r \in Requests, NEW u \in Users, NEW t \in Tickets, OpenTicket(r, u, t)
      PROVE  Inv'
  <2>1. [item |-> t, row |-> ticket[t]] \in Page  BY DEF Inv, TypeOK, Page
  <2>2. TypeOK'  BY <1>3, <2>1, BeginTyped DEF OpenTicket, Inv
  <2> QED  BY <1>3, <2>2 DEF OpenTicket, Begin, Inv, WorkIsStaffed, people
<1>4. ASSUME NEW r \in Requests, Fail(r) PROVE Inv'
  BY <1>4 DEF Fail, Inv, TypeOK, WorkIsStaffed, people
<1>5. ASSUME NEW r \in Requests, NEW u \in Users, NEW new \in Grantable, ChangeRole(r, u, new)
      PROVE  Inv'
  <2>1. CASE new \in Legal
    BY <1>5, <2>1, RoleKept DEF ChangeRole
  <2>2. CASE new \notin Legal
    BY <1>5, <2>2, ReleaseStep DEF ChangeRole
  <2> QED  BY <2>1, <2>2
<1>6. ASSUME NEW r \in Requests, NEW u \in Users, Remove(r, u) PROVE Inv'
  BY <1>6, ReleaseStep DEF Remove
<1>7. ASSUME NEW u \in Users, NEW new \in Grantable, Join(u, new) PROVE Inv'
  BY <1>7, Joined
<1>8. ASSUME NEW u \in Users, Disable(u) PROVE Inv'
  BY <1>8 DEF Disable, Inv, TypeOK, WorkIsStaffed
<1>9. ASSUME NEW r \in Requests, NEW s \in Services, NEW u \in Users \cup {Nobody},
             CreateService(r, s, u)
      PROVE  Inv'
  BY <1>9, StoreService DEF CreateService
<1>10. ASSUME NEW r \in Requests, NEW s \in Services, NEW u \in Users \cup {Nobody},
              NEW active \in BOOLEAN, UpdateService(r, s, u, active)
       PROVE  Inv'
  <2> DEFINE n == service[s].revision + 1
  <2>1. n \in Nat
    BY <1>10 DEF UpdateService, AsSeen, Inv, TypeOK, Service
  <2>2. service' = [service EXCEPT ![s] = [assignee |-> u, active |-> active, revision |-> n]]
    BY <1>10, Zenon DEF UpdateService
  <2>3. Staff(u) /\ Commit(r) /\ UNCHANGED <<people, ticket>>
    BY <1>10 DEF UpdateService
  <2> HIDE DEF n
  <2> QED  BY <2>1, <2>2, <2>3, StoreService
<1>11. CASE UNCHANGED vars
  BY <1>11 DEF vars, people, Inv, TypeOK, WorkIsStaffed
<1> QED
  BY <1>1, <1>2, <1>3, <1>4, <1>5, <1>6, <1>7, <1>8, <1>9, <1>10, <1>11,
     CreateTicketStep, TriageStep, MessageStep, LinkContractStep
     DEF Next, IntakeAssumption

LEMMA InvariantHolds == Spec => []Inv
BY Initially, Steps, PTL DEF Spec

\* Every reachable state of any desk is well typed (the rows of intake.py and models.py).
THEOREM IntakeTypeCorrect == Spec => []TypeOK
BY InvariantHolds, PTL DEF Inv

\* However removals and demotions are interleaved with the distribution of work, nothing
\* in progress and no service is in the hands of somebody without the legal role
\* (staff, release_intake_assignments), for any team, desk and number of handlers.
THEOREM WorkStaysStaffed == Spec => []WorkIsStaffed
BY InvariantHolds, PTL DEF Inv

--------------------------------------------------------------------------------
(* What a step does to a row: nothing, or it raises the revision by one and *)
(* is the end of a handler whose page has the row's revision, or hands back.*)

EndsOn(r, item, n) ==
    /\ request[r] # Idle /\ request'[r] = Idle
    /\ request[r].page.item = item
    /\ request[r].page.row.revision = n

ServiceStep(s) ==
    \/ service'[s] = service[s]
    \/ /\ service'[s].revision = service[s].revision + 1
       /\ service[s] # NoRow =>
             \/ service'[s].assignee = Nobody /\ service'[s].active = service[s].active
             \/ \E r \in Requests : EndsOn(r, s, service[s].revision)

TicketStep(t) ==
    \/ ticket'[t] = ticket[t]
    \/ /\ ticket'[t].revision = ticket[t].revision + 1
       /\ ticket[t] # NoRow =>
             \/ /\ ticket'[t].assignee \in {ticket[t].assignee, Nobody}
                /\ ticket'[t].status \in {ticket[t].status, "new"}
             \/ \E r \in Requests : EndsOn(r, t, ticket[t].revision)

RowSteps == (\A s \in Services : ServiceStep(s)) /\ (\A t \in Tickets : TicketStep(t))

LEMMA Untouched == ASSUME UNCHANGED <<service, ticket>> PROVE RowSteps
BY DEF RowSteps, ServiceStep, TicketStep

LEMMA ReleaseRowSteps ==
    ASSUME TypeOK, NEW u \in Users, Release(u)
    PROVE  RowSteps
<1>1. ASSUME NEW s \in Services PROVE ServiceStep(s)
  <2> DEFINE n == service[s].revision + 1
             new == [service[s] EXCEPT !.assignee = Nobody, !.revision = n]
  <2>1. service'[s] = IF service[s] # NoRow /\ service[s].assignee = u THEN new ELSE service[s]
    BY Zenon DEF Release
  <2>2. service[s] # NoRow =>
          /\ new.revision = n /\ new.assignee = Nobody /\ new.active = service[s].active
    <3> HIDE DEF n
    <3> QED  BY DEF TypeOK, Service
  <2> HIDE DEF new
  <2> QED  BY <2>1, <2>2 DEF ServiceStep
<1>2. ASSUME NEW t \in Tickets PROVE TicketStep(t)
  <2> DEFINE n == ticket[t].revision + 1
             new == [ticket[t] EXCEPT !.assignee = Nobody, !.status = "new", !.revision = n]
  <2>1. ticket'[t] = IF /\ ticket[t] # NoRow /\ ticket[t].assignee = u
                        /\ ticket[t].status \in OpenStatuses
                     THEN new ELSE ticket[t]
    BY Zenon DEF Release
  <2>2. ticket[t] # NoRow =>
          /\ new.revision = n /\ new.assignee = Nobody /\ new.status = "new"
    <3> HIDE DEF n
    <3> QED  BY DEF TypeOK, Ticket
  <2> HIDE DEF new
  <2> QED  BY <2>1, <2>2 DEF TicketStep
<1> QED  BY <1>1, <1>2 DEF RowSteps

\* One service is stored, the others stay.
LEMMA ServiceStored ==
    ASSUME TypeOK, NEW s \in Services, NEW new,
           service' = [service EXCEPT ![s] = new], UNCHANGED ticket,
           new.revision = service[s].revision + 1,
           service[s] # NoRow => \E r \in Requests : EndsOn(r, s, service[s].revision)
    PROVE  RowSteps
BY DEF RowSteps, ServiceStep, TicketStep, TypeOK

\* One ticket is stored, the others stay.
LEMMA TicketStored ==
    ASSUME TypeOK, NEW t \in Tickets, NEW new,
           ticket' = [ticket EXCEPT ![t] = new], UNCHANGED service,
           new.revision = ticket[t].revision + 1,
           ticket[t] # NoRow =>
             \/ new.assignee = ticket[t].assignee /\ new.status \in {ticket[t].status, "new"}
             \/ \E r \in Requests : EndsOn(r, t, ticket[t].revision)
    PROVE  RowSteps
BY DEF RowSteps, ServiceStep, TicketStep, TypeOK

LEMMA SeenAndEnded ==
    ASSUME TypeOK, NEW r \in Requests, NEW item, NEW row, Locked(r), AsSeen(r, item, row), Commit(r)
    PROVE  EndsOn(r, item, row.revision)
BY DEF TypeOK, Locked, AsSeen, Commit, EndsOn

LEMMA CreateServiceRowSteps ==
    ASSUME TypeOK, NEW r \in Requests, NEW s \in Services, NEW u \in Users \cup {Nobody},
           CreateService(r, s, u)
    PROVE  RowSteps
<1> DEFINE new == [assignee |-> u, active |-> TRUE, revision |-> 1]
<1>1. service' = [service EXCEPT ![s] = new] /\ UNCHANGED ticket /\ service[s] = NoRow
  BY DEF CreateService, people
<1>2. new.revision = service[s].revision + 1
  BY <1>1 DEF NoRow
<1> HIDE DEF new
<1> QED  BY <1>1, <1>2, ServiceStored

LEMMA UpdateServiceRowSteps ==
    ASSUME TypeOK, NEW r \in Requests, NEW s \in Services, NEW u \in Users \cup {Nobody},
           NEW active \in BOOLEAN, UpdateService(r, s, u, active)
    PROVE  RowSteps
<1> DEFINE n == service[s].revision + 1
           new == [assignee |-> u, active |-> active, revision |-> n]
<1>1. service' = [service EXCEPT ![s] = new]
  BY Zenon DEF UpdateService
<1>2. new.revision = service[s].revision + 1 /\ UNCHANGED ticket
  BY DEF UpdateService
<1>3. EndsOn(r, s, service[s].revision)
  BY SeenAndEnded DEF UpdateService, AsAdmin
<1> HIDE DEF new, n
<1> QED  BY <1>1, <1>2, <1>3, ServiceStored

LEMMA CreateTicketRowSteps ==
    ASSUME TypeOK, NEW r \in Requests, NEW t \in Tickets, NEW s \in Services, CreateTicket(r, t, s)
    PROVE  RowSteps
<1> DEFINE u == IF Staff(service[s].assignee) THEN service[s].assignee ELSE Nobody
           new == [requester |-> request[r].user, assignee |-> u,
                   status |-> "new", messages |-> 0, revision |-> 1]
<1>1. ticket' = [ticket EXCEPT ![t] = new] /\ UNCHANGED service /\ ticket[t] = NoRow
  BY DEF CreateTicket
<1>2. new.revision = ticket[t].revision + 1
  BY <1>1 DEF NoRow
<1> HIDE DEF new
<1> QED  BY <1>1, <1>2, TicketStored

LEMMA TriageRowSteps ==
    ASSUME TypeOK, NEW r \in Requests, NEW t \in Tickets, NEW status \in Given,
           NEW u \in Users \cup {Nobody}, Triage(r, t, status, u)
    PROVE  RowSteps
<1> DEFINE m == ticket[t].messages + 1
           n == ticket[t].revision + 1
           new == [ticket[t] EXCEPT !.status = status, !.assignee = u, !.messages = m, !.revision = n]
<1>1. ticket[t] \in Ticket
  BY DEF Triage, AsSeen, TypeOK
<1>2. ticket' = [ticket EXCEPT ![t].status = status, ![t].assignee = u,
                               ![t].messages = @ + 1, ![t].revision = @ + 1]
  BY Zenon DEF Triage
<1>3. ticket' = [ticket EXCEPT ![t] = new]
  BY <1>2, Zenon DEF TypeOK
<1>4. EndsOn(r, t, ticket[t].revision) /\ UNCHANGED service
  BY SeenAndEnded DEF Triage, AsLegal
<1>5. new.revision = n
  <2> HIDE DEF m, n
  <2> QED  BY <1>1 DEF Ticket
<1>6. n = ticket[t].revision + 1
  OBVIOUS
<1> HIDE DEF new, n
<1> QED  BY <1>3, <1>4, <1>5, <1>6, TicketStored

LEMMA MessageRowSteps ==
    ASSUME TypeOK, NEW r \in Requests, NEW t \in Tickets, NEW internal \in BOOLEAN,
           Message(r, t, internal)
    PROVE  RowSteps
<1> DEFINE reopens == /\ ticket[t].requester = request[r].user
                      /\ ticket[t].status \in {"waiting", "resolved"}
                      /\ ~internal
           status == IF reopens THEN "new" ELSE ticket[t].status
           m == ticket[t].messages + 1
           n == ticket[t].revision + 1
           new == [ticket[t] EXCEPT !.status = status, !.messages = m, !.revision = n]
<1>1. ticket[t] \in Ticket
  BY DEF Message, TypeOK
<1>2. ticket' = [ticket EXCEPT ![t].status = IF reopens THEN "new" ELSE @,
                               ![t].messages = @ + 1, ![t].revision = @ + 1]
  BY Zenon DEF Message
<1>3. ticket' = [ticket EXCEPT ![t] = new]
  BY <1>2, Zenon DEF TypeOK
<1>4. UNCHANGED service
  BY DEF Message
<1>5. n = ticket[t].revision + 1 /\ status \in {ticket[t].status, "new"}
  OBVIOUS
<1>6. new.revision = n /\ new.status = status /\ new.assignee = ticket[t].assignee
  <2> HIDE DEF status, m, n
  <2> QED  BY <1>1 DEF Ticket
<1> HIDE DEF new, n, status
<1> QED  BY <1>3, <1>4, <1>5, <1>6, TicketStored

LEMMA LinkContractRowSteps ==
    ASSUME TypeOK, NEW r \in Requests, NEW t \in Tickets, LinkContract(r, t)
    PROVE  RowSteps
<1> DEFINE n == ticket[t].revision + 1
           new == [ticket[t] EXCEPT !.revision = n]
<1>1. ticket[t] \in Ticket
  BY DEF LinkContract, AsSeen, TypeOK
<1>2. ticket' = [ticket EXCEPT ![t].revision = @ + 1]
  BY Zenon DEF LinkContract
<1>3. ticket' = [ticket EXCEPT ![t] = new]
  BY <1>2, Zenon DEF TypeOK
<1>4. UNCHANGED service /\ n = ticket[t].revision + 1
  BY DEF LinkContract
<1>5. new.revision = n /\ new.status = ticket[t].status /\ new.assignee = ticket[t].assignee
  <2> HIDE DEF n
  <2> QED  BY <1>1 DEF Ticket
<1> HIDE DEF new, n
<1> QED  BY <1>3, <1>4, <1>5, TicketStored

LEMMA EveryRowStep == ASSUME TypeOK, [Next]_vars PROVE RowSteps
<1>1. ASSUME NEW r \in Requests, NEW u \in Users, NEW new \in Grantable, ChangeRole(r, u, new)
      PROVE  RowSteps
  BY <1>1, Untouched, ReleaseRowSteps DEF ChangeRole
<1>2. ASSUME NEW r \in Requests, NEW u \in Users, Remove(r, u) PROVE RowSteps
  BY <1>2, ReleaseRowSteps DEF Remove
<1>3. ASSUME NEW r \in Requests, NEW u \in Users, NEW page, Begin(r, u, page) PROVE RowSteps
  BY <1>3, Untouched DEF Begin
<1>4. ASSUME NEW r \in Requests, Fail(r) PROVE RowSteps
  BY <1>4, Untouched DEF Fail
<1>5. ASSUME NEW u \in Users, NEW new \in Grantable, Join(u, new) PROVE RowSteps
  BY <1>5, Untouched DEF Join
<1>6. ASSUME NEW u \in Users, Disable(u) PROVE RowSteps
  BY <1>6, Untouched DEF Disable
<1>7. CASE UNCHANGED vars
  BY <1>7, Untouched DEF vars
<1> QED
  BY <1>1, <1>2, <1>3, <1>4, <1>5, <1>6, <1>7, CreateServiceRowSteps, UpdateServiceRowSteps,
     CreateTicketRowSteps, TriageRowSteps, MessageRowSteps, LinkContractRowSteps
     DEF Next, Authenticate, OpenService, OpenTicket

--------------------------------------------------------------------------------
(* Pages: at most as new as the row, and equal to it if the revisions are.  *)

Copy(row, current) ==
    row.revision <= current.revision /\ (row.revision = current.revision => row = current)

Faithful(page, ss, ts) ==
    /\ page.item \in Services => Copy(page.row, ss[page.item])
    /\ page.item \in Tickets => Copy(page.row, ts[page.item])

Pages == \A r \in Requests : request[r] # Idle => Faithful(request[r].page, service, ticket)

\* What a page shows, by the item it is of.
LEMMA PageTyped ==
    ASSUME NEW page \in Page \cup {NoPage}
    PROVE  /\ page.item \in Services =>
                page.row \in Service \cup {NoRow} /\ page = [item |-> page.item, row |-> page.row]
           /\ page.item \in Tickets =>
                page.row \in Ticket \cup {NoRow} /\ page = [item |-> page.item, row |-> page.row]
BY DEF Page, NoPage, IntakeAssumption

LEMMA ServiceRevision == ASSUME NEW row \in Service \cup {NoRow} PROVE row.revision \in Nat
BY DEF Service, NoRow

LEMMA TicketRevision == ASSUME NEW row \in Ticket \cup {NoRow} PROVE row.revision \in Nat
BY DEF Ticket, NoRow

\* A row that changes leaves every copy of it behind.
LEMMA CopyKept ==
    ASSUME NEW row, NEW current, NEW next, row.revision \in Nat, current.revision \in Nat,
           Copy(row, current),
           next = current \/ next.revision = current.revision + 1
    PROVE  Copy(row, next)
BY DEF Copy

LEMMA PageKept ==
    ASSUME TypeOK, RowSteps, NEW page \in Page \cup {NoPage}, Faithful(page, service, ticket)
    PROVE  Faithful(page, service', ticket')
<1>1. ASSUME page.item \in Services PROVE Copy(page.row, service'[page.item])
  <2>1. page.row.revision \in Nat  BY <1>1, PageTyped, ServiceRevision
  <2>2. service[page.item].revision \in Nat  BY <1>1, ServiceRevision DEF TypeOK
  <2>3. \/ service'[page.item] = service[page.item]
        \/ service'[page.item].revision = service[page.item].revision + 1
    BY <1>1 DEF RowSteps, ServiceStep
  <2>4. Copy(page.row, service[page.item])  BY <1>1 DEF Faithful
  <2> QED  BY <2>1, <2>2, <2>3, <2>4, CopyKept
<1>2. ASSUME page.item \in Tickets PROVE Copy(page.row, ticket'[page.item])
  <2>1. page.row.revision \in Nat  BY <1>2, PageTyped, TicketRevision
  <2>2. ticket[page.item].revision \in Nat  BY <1>2, TicketRevision DEF TypeOK
  <2>3. \/ ticket'[page.item] = ticket[page.item]
        \/ ticket'[page.item].revision = ticket[page.item].revision + 1
    BY <1>2 DEF RowSteps, TicketStep
  <2>4. Copy(page.row, ticket[page.item])  BY <1>2 DEF Faithful
  <2> QED  BY <2>1, <2>2, <2>3, <2>4, CopyKept
<1> QED  BY <1>1, <1>2 DEF Faithful, Copy

\* A handler waits on, ends, or begins with a page of the rows as they are.
Begins(r) == UNCHANGED <<service, ticket>> /\ Faithful(request'[r].page, service, ticket)

LEMMA BeginFaithful ==
    ASSUME TypeOK, NEW r \in Requests, NEW u \in Users, NEW page, Faithful(page, service, ticket), Begin(r, u, page)
    PROVE  \A q \in Requests : request'[q] \in {request[q], Idle} \/ Begins(q)
<1>1. request'[r].page = page /\ \A q \in Requests : q # r => request'[q] = request[q]
  BY DEF Begin, TypeOK
<1>2. Begins(r)
  BY <1>1 DEF Begin, Begins
<1> QED  BY <1>1, <1>2

LEMMA RowIsCopy == ASSUME NEW row, row.revision \in Nat PROVE Copy(row, row)
BY DEF Copy

LEMMA EveryRequestStep ==
    ASSUME TypeOK, [Next]_vars, NEW q \in Requests
    PROVE  request'[q] \in {request[q], Idle} \/ Begins(q)
<1>1. ASSUME NEW r \in Requests, NEW u \in Users, Authenticate(r, u)
      PROVE  request'[q] \in {request[q], Idle} \/ Begins(q)
  <2>1. Faithful(NoPage, service, ticket)  BY DEF Faithful, NoPage, IntakeAssumption
  <2> QED  BY <1>1, <2>1, BeginFaithful DEF Authenticate
<1>2. ASSUME NEW r \in Requests, NEW u \in Users, NEW s \in Services, OpenService(r, u, s)
      PROVE  request'[q] \in {request[q], Idle} \/ Begins(q)
  <2>1. Copy(service[s], service[s])  BY ServiceRevision, RowIsCopy DEF TypeOK
  <2>2. Faithful([item |-> s, row |-> service[s]], service, ticket)  BY <2>1 DEF Faithful, IntakeAssumption
  <2> QED  BY <1>2, <2>2, BeginFaithful DEF OpenService
<1>3. ASSUME NEW r \in Requests, NEW u \in Users, NEW t \in Tickets, OpenTicket(r, u, t)
      PROVE  request'[q] \in {request[q], Idle} \/ Begins(q)
  <2>1. Copy(ticket[t], ticket[t])  BY TicketRevision, RowIsCopy DEF TypeOK
  <2>2. Faithful([item |-> t, row |-> ticket[t]], service, ticket)  BY <2>1 DEF Faithful, IntakeAssumption
  <2> QED  BY <1>3, <2>2, BeginFaithful DEF OpenTicket
<1>4. ASSUME NEW r \in Requests, Commit(r) \/ Fail(r)
      PROVE  request'[q] \in {request[q], Idle} \/ Begins(q)
  BY <1>4 DEF Commit, Fail, TypeOK
<1>5. CASE UNCHANGED request
  BY <1>5
<1>6. ASSUME NEW r \in Requests, NEW u \in Users
      PROVE  /\ \A new \in Grantable : ChangeRole(r, u, new) => Commit(r)
             /\ Remove(r, u) => Commit(r)
  BY DEF ChangeRole, Remove
<1>7. ASSUME NEW r \in Requests, NEW s \in Services, NEW u \in Users \cup {Nobody}
      PROVE  /\ CreateService(r, s, u) => Commit(r)
             /\ \A active \in BOOLEAN : UpdateService(r, s, u, active) => Commit(r)
  BY DEF CreateService, UpdateService
<1>8. ASSUME NEW r \in Requests, NEW t \in Tickets
      PROVE  /\ \A s \in Services : CreateTicket(r, t, s) => Commit(r)
             /\ \A status \in Given, u \in Users \cup {Nobody} : Triage(r, t, status, u) => Commit(r)
             /\ \A internal \in BOOLEAN : Message(r, t, internal) => Commit(r)
             /\ LinkContract(r, t) => Commit(r)
  BY DEF CreateTicket, Triage, Message, LinkContract
<1>9. ASSUME NEW u \in Users
      PROVE  /\ \A new \in Grantable : Join(u, new) => UNCHANGED request
             /\ Disable(u) => UNCHANGED request
  BY DEF Join, Disable
<1>10. UNCHANGED vars => UNCHANGED request
  BY DEF vars
<1> QED
  BY <1>1, <1>2, <1>3, <1>4, <1>5, <1>6, <1>7, <1>8, <1>9, <1>10 DEF Next

LEMMA PagesInitially == Init => Pages
BY DEF Init, Pages

LEMMA PagesSteps == ASSUME TypeOK, Pages, [Next]_vars PROVE Pages'
<1> SUFFICES ASSUME NEW r \in Requests, request'[r] # Idle PROVE Faithful(request'[r].page, service', ticket')
  BY DEF Pages
<1>1. CASE request'[r] = request[r]
  <2>1. request[r].page \in Page \cup {NoPage}  BY <1>1 DEF TypeOK, Waiting
  <2>2. Faithful(request[r].page, service, ticket)  BY <1>1 DEF Pages
  <2>3. Faithful(request[r].page, service', ticket')
    BY <2>1, <2>2, EveryRowStep, PageKept
  <2> QED  BY <1>1, <2>3
<1>2. CASE Begins(r)
  BY <1>2 DEF Begins, Faithful
<1> QED  BY <1>1, <1>2, EveryRequestStep

LEMMA PagesHold == Spec => []Pages
BY IntakeTypeCorrect, PagesInitially, PagesSteps, PTL DEF Spec

\* A handler that ends with the row's revision was sent the row itself.
LEMMA EndDecides ==
    ASSUME TypeOK, Pages, NEW r \in Requests,
           NEW item \in Services \cup Tickets, NEW row,
           item \in Services => row = service[item],
           item \in Tickets => row = ticket[item],
           EndsOn(r, item, row.revision)
    PROVE  DecidedOn(item, row)
<1>1. request[r].page \in Page \cup {NoPage} /\ request[r].page.item = item
  BY DEF EndsOn, TypeOK, Waiting
<1>2. Faithful(request[r].page, service, ticket)  BY DEF EndsOn, Pages
<1>3. Copy(request[r].page.row, row)  BY <1>1, <1>2 DEF Faithful
<1>4. request[r].page.row = row  BY <1>3 DEF Copy, EndsOn
<1>5. request[r].page = [item |-> request[r].page.item, row |-> request[r].page.row]
  BY <1>1, PageTyped
<1> QED  BY <1>1, <1>4, <1>5 DEF EndsOn, DecidedOn

LEMMA StepsAreDistributed == ASSUME TypeOK, Pages, [Next]_vars PROVE Distributed
<1>0. RowSteps  BY EveryRowStep
<1>1. ASSUME NEW t \in Tickets, ticket[t] # NoRow,
             \/ ticket'[t].assignee \notin {ticket[t].assignee, Nobody}
             \/ ticket'[t].status \notin {ticket[t].status, "new"}
      PROVE  DecidedOn(t, ticket[t])
  <2>1. PICK r \in Requests : EndsOn(r, t, ticket[t].revision)
    BY <1>0, <1>1 DEF RowSteps, TicketStep
  <2> QED  BY <2>1, EndDecides, IntakeAssumption
<1>2. ASSUME NEW s \in Services, service[s] # NoRow,
             \/ service'[s].assignee \notin {service[s].assignee, Nobody}
             \/ service'[s].active # service[s].active
      PROVE  DecidedOn(s, service[s])
  <2>1. PICK r \in Requests : EndsOn(r, s, service[s].revision)
    BY <1>0, <1>2 DEF RowSteps, ServiceStep
  <2> QED  BY <2>1, EndDecides, IntakeAssumption
<1> QED  BY <1>1, <1>2 DEF Distributed

\* Whoever is put in charge of a ticket or a service, and whatever status a ticket is
\* given, was decided on a page that showed the very row: the lock, the test of the
\* revision and the counting of every change (release_intake_assignments included) leave
\* no stale page that passes, for any desk and number of handlers.
THEOREM DistributionAsSeen == Spec => DistributedAsSeen
BY IntakeTypeCorrect, PagesHold, StepsAreDistributed, PTL DEF Spec, DistributedAsSeen

================================================================================
