------------------------------ MODULE Membership -------------------------------
(***************************************************************************)
(* The members of one organization (src/openclm/accounts.py): invitations, *)
(* roles, removal and the transfer of ownership.                           *)
(*                                                                         *)
(* Several administrators act at once.  A handler authenticates and copies *)
(* the caller's role, waits for the organization row's lock, reads the     *)
(* caller's membership again (lock_organization), then reads what it needs,*)
(* decides and commits, which releases the lock.  The command line         *)
(* (cli.py) writes accounts and memberships without the lock.              *)
(***************************************************************************)
EXTENDS Naturals, FiniteSets

CONSTANTS
    Users,          \* people, each with one e-mail address
    Founder,        \* the first owner
    MaxProvisioned, \* bound: accounts that the command line creates
    MaxDisabled,    \* bound: accounts that the command line disables
    Invitations,    \* bound: identifiers of invitations
    Requests,       \* request slots of the thread pool
    Grantable,      \* bound: the roles that are given
    MaxMembers      \* settings.max_members_per_organization

Roles == {"admin", "editor", "reviewer", "viewer"}

ASSUME MembershipAssumption ==
    /\ Founder \in Users
    /\ MaxProvisioned \in Nat /\ MaxDisabled \in Nat
    /\ Grantable \subseteq Roles
    /\ MaxMembers \in Nat \ {0}

VARIABLES
    owner,          \* Organization.owner_id
    member,         \* the memberships table
    account,        \* the users table: absent, active or disabled
    invitation,     \* the invitations table
    disabling,      \* cli disable-user between its check and its commit
    provisioned,    \* the people whose account cli create-user created
    orgLock,        \* the request that holds the organization row's lock, if any
    request         \* the handlers in flight

tables == <<owner, member, account, invitation>>
cli == <<disabling, provisioned>>
vars == <<tables, cli, orgLock, request>>

--------------------------------------------------------------------------------
(* Rows and handlers.                                                       *)

Member == [role: Roles, active: BOOLEAN]
NoMember == [role |-> "none", active |-> FALSE]
Members == [Users -> Member \cup {NoMember}]

Invitation == [email: Users, role: Roles, open: BOOLEAN]
NoInvitation == [open |-> FALSE]
InvitationTable == [Invitations -> Invitation \cup {NoInvitation}]

\* What a handler reads once it holds the lock.
Snapshot == [owner: Users, member: Members, invitation: InvitationTable]

Idle == [pc |-> "idle"]
Authenticated == [pc: {"authenticated"}, user: Users, role: Roles, isOwner: BOOLEAN]
Locked == [pc: {"locked"}, user: Users, role: Roles, isOwner: BOOLEAN, sees: Snapshot]
Invited == [pc: {"invited"}, user: Users, invitation: Invitations]
Admitting == [pc: {"admitting"}, user: Users, invitation: Invitations, sees: Snapshot]

Active(members) == {u \in Users : members[u].active}

HasRole(members, u, roles) == members[u].active /\ members[u].role \in roles

Now == [owner |-> owner, member |-> member, invitation |-> invitation]

Init ==
    /\ owner = Founder
    /\ member = [u \in Users |->
         IF u = Founder THEN [role |-> "admin", active |-> TRUE] ELSE NoMember]
    /\ account = [u \in Users |-> IF u = Founder THEN "active" ELSE "absent"]
    /\ invitation = [i \in Invitations |-> NoInvitation]
    /\ disabling = {}
    /\ provisioned = {}
    /\ orgLock = {}
    /\ request = [r \in Requests |-> Idle]

--------------------------------------------------------------------------------
(* The start and the end of a handler.                                      *)

\* principal and current_user.
Authenticate(r, u) ==
    /\ request[r] = Idle
    /\ account[u] = "active"
    /\ member[u].active
    /\ request' = [request EXCEPT ![r] =
         [pc |-> "authenticated", user |-> u, role |-> member[u].role,
          isOwner |-> owner = u]]
    /\ UNCHANGED <<tables, cli, orgLock>>

\* Faulty: the row is read but not locked.
LockShared(r) ==
    LET q == request[r] IN
    /\ q.pc = "authenticated"
    /\ HasRole(member, q.user, {q.role})
    /\ orgLock' = {r}
    /\ request' = [request EXCEPT ![r] =
         [pc |-> "locked", user |-> q.user, role |-> q.role,
          isOwner |-> q.isOwner, sees |-> Now]]
    /\ UNCHANGED <<tables, cli>>

\* Faulty: the caller's membership is not read again.
LockTrusting(r) ==
    LET q == request[r] IN
    /\ q.pc = "authenticated"
    /\ orgLock = {}
    /\ orgLock' = {r}
    /\ request' = [request EXCEPT ![r] =
         [pc |-> "locked", user |-> q.user, role |-> q.role,
          isOwner |-> q.isOwner, sees |-> Now]]
    /\ UNCHANGED <<tables, cli>>

\* lock_organization for a caller that current_user authenticated.
Lock(r) ==
    LET q == request[r] IN
    /\ q.pc = "authenticated"
    /\ orgLock = {}
    /\ HasRole(member, q.user, {q.role})
    /\ orgLock' = {r}
    /\ request' = [request EXCEPT ![r] =
         [pc |-> "locked", user |-> q.user, role |-> q.role,
          isOwner |-> q.isOwner, sees |-> Now]]
    /\ UNCHANGED <<tables, cli>>

\* A refusal, an error or a crash: the transaction rolls back.
Fail(r) ==
    /\ request[r] # Idle
    /\ request' = [request EXCEPT ![r] = Idle]
    /\ orgLock' = orgLock \ {r}
    /\ UNCHANGED <<tables, cli>>

Commit(r) ==
    /\ request' = [request EXCEPT ![r] = Idle]
    /\ orgLock' = orgLock \ {r}
    /\ UNCHANGED cli

AsAdmin(r) == request[r].pc = "locked" /\ request[r].role = "admin"

--------------------------------------------------------------------------------
(* The administrators' operations.                                          *)

UpdateMember(r, u, role) ==
    LET sees == request[r].sees IN
    /\ AsAdmin(r)
    /\ sees.member[u].active
    /\ sees.owner = u => role = "admin"
    /\ member' = [member EXCEPT ![u].role = role]
    /\ Commit(r)
    /\ UNCHANGED <<owner, account, invitation>>

RemoveMember(r, u) ==
    LET sees == request[r].sees IN
    /\ AsAdmin(r)
    /\ sees.owner # u
    /\ sees.member[u].active
    /\ member' = [member EXCEPT ![u].active = FALSE]
    /\ Commit(r)
    /\ UNCHANGED <<owner, account, invitation>>

\* Faulty: ownership is taken from the principal, which was read before the lock.
TransferOwnershipAsRemembered(r, u) ==
    LET sees == request[r].sees IN
    /\ AsAdmin(r)
    /\ request[r].isOwner
    /\ sees.member[u].active
    /\ member' = [member EXCEPT ![u].role = "admin"]
    /\ owner' = u
    /\ Commit(r)
    /\ UNCHANGED <<account, invitation>>

\* Neither the recipient's account nor the organizations they own are looked at.
TransferOwnership(r, u) ==
    LET sees == request[r].sees IN
    /\ AsAdmin(r)
    /\ sees.owner = request[r].user
    /\ sees.member[u].active
    /\ member' = [member EXCEPT ![u].role = "admin"]
    /\ owner' = u
    /\ Commit(r)
    /\ UNCHANGED <<account, invitation>>

\* Faulty: earlier invitations to the same address stay open.
InviteAgain(r, u, role, i) ==
    LET sees == request[r].sees IN
    /\ AsAdmin(r)
    /\ Cardinality(Active(sees.member)) < MaxMembers
    /\ ~sees.member[u].active
    /\ invitation[i] = NoInvitation
    /\ invitation' = [invitation EXCEPT ![i] =
                        [email |-> u, role |-> role, open |-> TRUE]]
    /\ Commit(r)
    /\ UNCHANGED <<owner, member, account>>

\* An earlier invitation to the same address is closed.
Invite(r, u, role, i) ==
    LET sees == request[r].sees IN
    /\ AsAdmin(r)
    /\ Cardinality(Active(sees.member)) < MaxMembers
    /\ ~sees.member[u].active
    /\ invitation[i] = NoInvitation
    /\ invitation' = [j \in Invitations |->
         CASE j = i -> [email |-> u, role |-> role, open |-> TRUE]
           [] invitation[j].open /\ invitation[j].email = u ->
                [invitation[j] EXCEPT !.open = FALSE]
           [] OTHER -> invitation[j]]
    /\ Commit(r)
    /\ UNCHANGED <<owner, member, account>>

RevokeInvitation(r, i) ==
    /\ AsAdmin(r)
    /\ request[r].sees.invitation[i] # NoInvitation
    /\ invitation' = [invitation EXCEPT ![i].open = FALSE]
    /\ Commit(r)
    /\ UNCHANGED <<owner, member, account>>

\* create_user (api.py): an account and its membership at once.
CreateUser(r, u, role) ==
    /\ AsAdmin(r)
    /\ Cardinality(Active(request[r].sees.member)) < MaxMembers
    /\ account[u] = "absent"
    /\ account' = [account EXCEPT ![u] = "active"]
    /\ member' = [member EXCEPT ![u] = [role |-> role, active |-> TRUE]]
    /\ Commit(r)
    /\ UNCHANGED <<owner, invitation>>

--------------------------------------------------------------------------------
(* Invitations are accepted by people who are not members yet.              *)

\* register, of which only the account matters here.
Register(u) ==
    /\ account[u] = "absent"
    /\ account' = [account EXCEPT ![u] = "active"]
    /\ UNCHANGED <<owner, member, invitation, cli, orgLock, request>>

\* The seven days of an invitation are over.
Expire(i) ==
    /\ invitation[i].open
    /\ invitation' = [invitation EXCEPT ![i].open = FALSE]
    /\ UNCHANGED <<owner, member, account, cli, orgLock, request>>

\* The lookup in a session of its own, before the lock.
LookUp(r, u, i) ==
    /\ request[r] = Idle
    /\ account[u] = "active"
    /\ invitation[i].open
    /\ invitation[i].email = u
    /\ request' = [request EXCEPT ![r] =
         [pc |-> "invited", user |-> u, invitation |-> i]]
    /\ UNCHANGED <<tables, cli, orgLock>>

\* Faulty: members are counted without the lock.
LockToAcceptShared(r) ==
    /\ request[r].pc = "invited"
    /\ orgLock' = {r}
    /\ request' = [request EXCEPT ![r] =
         [pc |-> "admitting", user |-> request[r].user,
          invitation |-> request[r].invitation, sees |-> Now]]
    /\ UNCHANGED <<tables, cli>>

\* lock_organization for a caller without a membership to read again.
LockToAccept(r) ==
    /\ request[r].pc = "invited"
    /\ orgLock = {}
    /\ orgLock' = {r}
    /\ request' = [request EXCEPT ![r] =
         [pc |-> "admitting", user |-> request[r].user,
          invitation |-> request[r].invitation, sees |-> Now]]
    /\ UNCHANGED <<tables, cli>>

\* Consuming is one UPDATE ... RETURNING that tests the invitation again.
Accept(r) ==
    LET q == request[r] IN
    /\ q.pc = "admitting"
    /\ Cardinality(Active(q.sees.member)) < MaxMembers
    /\ ~q.sees.member[q.user].active
    /\ invitation[q.invitation].open
    /\ invitation' = [invitation EXCEPT ![q.invitation].open = FALSE]
    /\ member' = [member EXCEPT ![q.user] =
         [role |-> invitation[q.invitation].role, active |-> TRUE]]
    /\ Commit(r)
    /\ UNCHANGED <<owner, account>>

--------------------------------------------------------------------------------
(* The command line, without the lock.                                      *)

Disabled == {u \in Users : account[u] = "disabled"}

CliCheckDisable(u) ==
    /\ account[u] # "absent"
    /\ u \notin disabling
    /\ Cardinality(Disabled \cup disabling) < MaxDisabled
    /\ owner # u
    /\ disabling' = disabling \cup {u}
    /\ UNCHANGED <<tables, provisioned, orgLock, request>>

CliDisable(u) ==
    /\ u \in disabling
    /\ account' = [account EXCEPT ![u] = "disabled"]
    /\ disabling' = disabling \ {u}
    /\ UNCHANGED <<owner, member, invitation, provisioned, orgLock, request>>

\* create-user counts no members.
CliCreateUser(u, role) ==
    /\ account[u] = "absent"
    /\ Cardinality(provisioned) < MaxProvisioned
    /\ account' = [account EXCEPT ![u] = "active"]
    /\ member' = [member EXCEPT ![u] = [role |-> role, active |-> TRUE]]
    /\ provisioned' = provisioned \cup {u}
    /\ UNCHANGED <<owner, invitation, disabling, orgLock, request>>

--------------------------------------------------------------------------------

Next ==
    \/ \E r \in Requests, u \in Users : Authenticate(r, u)
    \/ \E r \in Requests : Lock(r)
    \/ \E r \in Requests : Fail(r)
    \/ \E r \in Requests, u \in Users, role \in Grantable : UpdateMember(r, u, role)
    \/ \E r \in Requests, u \in Users : RemoveMember(r, u)
    \/ \E r \in Requests, u \in Users : TransferOwnership(r, u)
    \/ \E r \in Requests, u \in Users, role \in Grantable, i \in Invitations :
          Invite(r, u, role, i)
    \/ \E r \in Requests, i \in Invitations : RevokeInvitation(r, i)
    \/ \E r \in Requests, u \in Users, role \in Grantable : CreateUser(r, u, role)
    \/ \E u \in Users : Register(u)
    \/ \E i \in Invitations : Expire(i)
    \/ \E r \in Requests, u \in Users, i \in Invitations : LookUp(r, u, i)
    \/ \E r \in Requests : LockToAccept(r)
    \/ \E r \in Requests : Accept(r)
    \/ \E u \in Users : CliCheckDisable(u)
    \/ \E u \in Users : CliDisable(u)
    \/ \E u \in Users, role \in Grantable : CliCreateUser(u, role)

Spec == Init /\ [][Next]_vars

--------------------------------------------------------------------------------
(* Properties.                                                              *)

\* Every table and every handler is of its type.
TypeOK ==
    /\ owner \in Users
    /\ member \in Members
    /\ account \in [Users -> {"absent", "active", "disabled"}]
    /\ invitation \in InvitationTable
    /\ disabling \subseteq Users
    /\ provisioned \subseteq Users
    /\ orgLock \subseteq Requests
    /\ request \in [Requests -> {Idle} \cup Authenticated \cup Locked
                                   \cup Invited \cup Admitting]

\* Whatever administrators do at the same time, the owner stays an active member
\* and an administrator (update_member, remove_member, transfer_ownership).
OwnerIsAdmin == HasRole(member, owner, {"admin"})

\* Concurrent admissions stay within the limit of members, people that the command
\* line adds not counted (invite, accept_invitation, create_user).
MemberLimit == Cardinality(Active(member) \ provisioned) <= MaxMembers

\* A person holds at most one invitation that can still be accepted (invite).
OneOpenInvitation ==
    \A i, j \in Invitations :
        invitation[i].open /\ invitation[j].open
            /\ invitation[i].email = invitation[j].email => i = j

GrantedByAdmin ==
    \E r \in Requests :
        /\ request[r].pc = "locked" /\ request'[r] = Idle
        /\ HasRole(member, request[r].user, {"admin"})

GrantedByInvitation(u) ==
    \E i \in Invitations :
        /\ invitation[i].open /\ ~invitation'[i].open
        /\ invitation[i].email = u
        /\ ~member[u].active /\ member'[u].role = invitation[i].role

Granted ==
    \A u \in Users :
        member'[u] # member[u] =>
            \/ GrantedByAdmin
            \/ GrantedByInvitation(u)
            \/ u \in provisioned' \ provisioned

\* Nobody becomes, changes or stops being a member but by somebody who is an
\* administrator at that very moment, or by using up an invitation to their own
\* address that was neither revoked, replaced, expired nor used before.
MembershipsAreGranted == [][Granted]_vars

HandedOver ==
    owner' # owner =>
        \E r \in Requests :
            request[r].pc = "locked" /\ request'[r] = Idle /\ request[r].user = owner

\* Ownership changes hands by an act of the person who is the owner then, not of one
\* who was when the page was opened (transfer_ownership).
OwnershipHandedOver == [][HandedOver]_vars
================================================================================
