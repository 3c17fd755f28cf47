--------------------------- MODULE MembershipProofs ----------------------------
(***************************************************************************)
(* The members of an organization, for any number of people, requests and  *)
(* invitations and any limit: the owner stays an administrator, admissions *)
(* stay within the limit, ownership and memberships change hands by those  *)
(* who may change them at that moment.                                     *)
(*                                                                         *)
(* Handlers decide on a snapshot.  What makes the decision right is the    *)
(* organization's lock (Holding): whoever has a snapshot holds the lock    *)
(* alone, and the snapshot agrees with the tables but for the people whom  *)
(* the command line, which takes no lock, added since.                     *)
(***************************************************************************)
EXTENDS Membership, FiniteSetTheorems, TLAPS

USE MembershipAssumption

Handlers == {Idle} \cup Authenticated \cup Locked \cup Invited \cup Admitting
Deciding == {"locked", "admitting"}

--------------------------------------------------------------------------------
(* The invariant.                                                           *)

\* Who is a member, or was added by the command line, has an account.
Accounted == \A u \in Users : member[u].active \/ u \in provisioned => account[u] # "absent"

Agrees(sees) ==
    /\ sees.owner = owner
    /\ HasRole(sees.member, owner, {"admin"})
    /\ \A u \in Users :
          sees.member[u] = member[u] \/ (u \in provisioned /\ ~sees.member[u].active)

Holding(r) ==
    request[r].pc \in Deciding => orgLock = {r} /\ Agrees(request[r].sees)

\* The caller that the lock read again.
Caller(r) ==
    request[r].pc = "locked" => HasRole(member, request[r].user, {request[r].role})

\* A person who accepts has an account, and the invitation is to them.
Guest(r) ==
    LET q == request[r] IN
    /\ q.pc \in {"invited", "admitting"} =>
         /\ account[q.user] # "absent"
         /\ invitation[q.invitation] # NoInvitation
         /\ invitation[q.invitation].email = q.user
    /\ q.pc = "admitting" => q.sees.member[q.user] = member[q.user]

Rules == OwnerIsAdmin /\ MemberLimit /\ OneOpenInvitation

Inv ==
    /\ TypeOK
    /\ Accounted
    /\ IsFiniteSet(Active(member))
    /\ Rules
    /\ \A r \in Requests : Holding(r) /\ Caller(r) /\ Guest(r)

--------------------------------------------------------------------------------
(* Rows and handlers.                                                       *)

LEMMA ActiveRow ==
    ASSUME TypeOK, NEW u \in Users, member[u].active
    PROVE  member[u] \in Member
BY DEF TypeOK, Members, NoMember

LEMMA PcOf ==
    ASSUME TypeOK, NEW r \in Requests
    PROVE  /\ request[r] = Idle <=> request[r].pc = "idle"
           /\ request[r] \in Authenticated <=> request[r].pc = "authenticated"
           /\ request[r] \in Locked <=> request[r].pc = "locked"
           /\ request[r] \in Invited <=> request[r].pc = "invited"
           /\ request[r] \in Admitting <=> request[r].pc = "admitting"
BY DEF TypeOK, Idle, Authenticated, Locked, Invited, Admitting

\* What the holder of the lock knows.
LEMMA Decides ==
    ASSUME Inv, NEW r \in Requests, request[r].pc \in Deciding
    PROVE  /\ orgLock = {r}
           /\ \A q \in Requests : q # r => request[q].pc \notin Deciding
           /\ request[r].sees.owner = owner
           /\ HasRole(request[r].sees.member, owner, {"admin"})
           /\ \A u \in Users : request[r].sees.member[u].active =>
                 request[r].sees.member[u] = member[u]
           /\ Active(request[r].sees.member) \subseteq Active(member)
           /\ Active(member) \ provisioned \subseteq Active(request[r].sees.member)
<1>1. \A q \in Requests : Holding(q)  BY DEF Inv
<1>2. orgLock = {r} /\ Agrees(request[r].sees)  BY <1>1 DEF Holding
<1>3. \A q \in Requests : q # r => request[q].pc \notin Deciding  BY <1>1, <1>2 DEF Holding
<1> QED  BY <1>2, <1>3 DEF Agrees, Active

--------------------------------------------------------------------------------
(* Three kinds of steps.                                                    *)

\* What every step keeps: accounts stay accounts, and invitations stay theirs.
Lasting ==
    /\ \A u \in Users : account[u] # "absent" => account'[u] # "absent"
    /\ \A i \in Invitations : invitation[i] # NoInvitation =>
          invitation'[i] # NoInvitation /\ invitation'[i].email = invitation[i].email

\* The decision of the holder is committed and the lock is free.
LEMMA Commits ==
    ASSUME Inv, NEW r \in Requests, request[r].pc \in Deciding, Commit(r), Lasting,
           owner' \in Users, member' \in Members,
           account' \in [Users -> {"absent", "active", "disabled"}],
           invitation' \in InvitationTable,
           Accounted', IsFiniteSet(Active(member)'), Rules'
    PROVE  Inv'
<1>1. /\ request' \in [Requests -> Handlers]
      /\ orgLock' \subseteq Requests /\ disabling' \subseteq Users /\ provisioned' \subseteq Users
  BY DEF Inv, TypeOK, Commit, cli, Handlers
<1>2. TypeOK'  BY <1>1 DEF TypeOK, Handlers
<1>3. ASSUME NEW q \in Requests PROVE (Holding(q) /\ Caller(q) /\ Guest(q))'
  <2>1. CASE q = r
    BY <2>1 DEF Commit, Idle, Inv, TypeOK, Holding, Caller, Guest, Deciding
  <2>2. CASE q # r
    <3>1. request'[q] = request[q]  BY <2>2 DEF Commit, Inv, TypeOK
    <3>2. request[q].pc \notin Deciding  BY <2>2, Decides
    <3>3. Guest(q)  BY DEF Inv
    <3>4. request[q].pc = "invited" =>
            request[q].user \in Users /\ request[q].invitation \in Invitations
      BY PcOf DEF Inv, Invited
    <3>5. (Holding(q) /\ Caller(q))'  BY <3>1, <3>2 DEF Holding, Caller, Deciding
    <3>6. Guest(q)'
      BY <3>1, <3>2, <3>3, <3>4 DEF Guest, Lasting, Deciding
    <3> QED  BY <3>5, <3>6
  <2> QED  BY <2>1, <2>2
<1> QED  BY <1>2, <1>3 DEF Inv

\* A handler begins, waits or gives up; the tables stay.
LEMMA Waits ==
    ASSUME Inv, NEW r \in Requests, NEW h \in Handlers, h.pc \notin Deciding,
           request' = [request EXCEPT ![r] = h],
           orgLock' \in {orgLock, orgLock \ {r}},
           request[r].pc \notin Deciding \/ orgLock' = orgLock \ {r},
           UNCHANGED <<tables, cli>>,
           h.pc = "invited" => /\ account[h.user] # "absent"
                               /\ invitation[h.invitation] # NoInvitation
                               /\ invitation[h.invitation].email = h.user
    PROVE  Inv'
<1> USE DEF tables, cli
<1>1. TypeOK'  BY DEF Inv, TypeOK, Handlers
<1>2. Accounted' /\ IsFiniteSet(Active(member)') /\ Rules'
  BY DEF Inv, Accounted, Active, Rules, OwnerIsAdmin, MemberLimit, OneOpenInvitation, HasRole
<1>3. ASSUME NEW q \in Requests PROVE (Holding(q) /\ Caller(q) /\ Guest(q))'
  <2>1. CASE q = r
    <3>1. request'[r] = h  BY DEF Inv, TypeOK
    <3> QED  BY <2>1, <3>1 DEF Holding, Caller, Guest, Deciding
  <2>2. CASE q # r
    <3>1. request'[q] = request[q]  BY <2>2 DEF Inv, TypeOK
    <3>2. Holding(q) /\ Caller(q) /\ Guest(q)  BY DEF Inv
    <3>3. request[q].pc \in Deciding => orgLock = {q} /\ orgLock' = {q}
      BY <2>2, <3>2 DEF Holding
    <3>4. Holding(q)'  BY <3>1, <3>2, <3>3 DEF Holding, Agrees, HasRole
    <3>5. (Caller(q) /\ Guest(q))'  BY <3>1, <3>2 DEF Caller, Guest, HasRole
    <3> QED  BY <3>4, <3>5
  <2> QED  BY <2>1, <2>2
<1> QED  BY <1>1, <1>2, <1>3 DEF Inv

\* The command line, registrations and the end of seven days: no handler moves, and the
\* only members that change are added by the command line.
LEMMA Outside ==
    ASSUME Inv, TypeOK', Lasting, UNCHANGED <<owner, orgLock, request>>,
           provisioned \subseteq provisioned',
           \A u \in Users : member'[u] # member[u] =>
              ~member[u].active /\ account[u] = "absent" /\ u \in provisioned',
           Accounted', IsFiniteSet(Active(member)'), Rules'
    PROVE  Inv'
<1>1. ASSUME NEW q \in Requests PROVE (Holding(q) /\ Caller(q) /\ Guest(q))'
  <2>1. Holding(q) /\ Caller(q) /\ Guest(q)  BY DEF Inv
  <2>2. Holding(q)'
    <3> SUFFICES ASSUME request[q].pc \in Deciding
                 PROVE  orgLock' = {q} /\ Agrees(request[q].sees)'
      BY DEF Holding
    <3> DEFINE sees == request[q].sees
    <3>1. orgLock = {q} /\ Agrees(sees)  BY <2>1 DEF Holding
    <3>2. ASSUME NEW u \in Users
          PROVE  sees.member[u] = member'[u] \/ (u \in provisioned' /\ ~sees.member[u].active)
      BY <3>1 DEF Agrees
    <3> QED  BY <3>1, <3>2 DEF Agrees, HasRole
  <2>3. Caller(q)'
    <3> SUFFICES ASSUME request[q].pc = "locked"
                 PROVE  HasRole(member', request[q].user, {request[q].role})
      BY DEF Caller, HasRole
    <3>1. request[q].user \in Users  BY PcOf DEF Inv, Locked
    <3>2. HasRole(member, request[q].user, {request[q].role})  BY <2>1 DEF Caller
    <3> QED  BY <3>1, <3>2 DEF HasRole
  <2>4. Guest(q)'
    <3>1. request[q].pc \in {"invited", "admitting"} =>
            request[q].user \in Users /\ request[q].invitation \in Invitations
      BY PcOf DEF Inv, Invited, Admitting
    <3>2. request[q].pc \in {"invited", "admitting"} =>
             /\ account'[request[q].user] # "absent"
             /\ invitation'[request[q].invitation] # NoInvitation
             /\ invitation'[request[q].invitation].email = request[q].user
      BY <2>1, <3>1 DEF Guest, Lasting
    <3>3. request[q].pc = "admitting" =>
             request[q].sees.member[request[q].user] = member'[request[q].user]
      BY <2>1, <3>1 DEF Guest
    <3> QED  BY <3>2, <3>3 DEF Guest
  <2> QED  BY <2>2, <2>3, <2>4
<1> QED  BY <1>1 DEF Inv

\* The lock is taken, and with it the snapshot.
LEMMA Locks ==
    ASSUME Inv, NEW r \in Requests, NEW h \in Handlers, h.pc \in Deciding, h.sees = Now,
           request' = [request EXCEPT ![r] = h], orgLock = {}, orgLock' = {r},
           UNCHANGED <<tables, cli>>,
           h.pc = "locked" => HasRole(member, h.user, {h.role}),
           h.pc = "admitting" => /\ account[h.user] # "absent"
                                 /\ invitation[h.invitation] # NoInvitation
                                 /\ invitation[h.invitation].email = h.user
    PROVE  Inv'
<1> USE DEF tables, cli
<1>1. TypeOK'  BY DEF Inv, TypeOK, Handlers
<1>2. Accounted' /\ IsFiniteSet(Active(member)') /\ Rules'
  BY DEF Inv, Accounted, Active, Rules, OwnerIsAdmin, MemberLimit, OneOpenInvitation, HasRole
<1>3. ASSUME NEW q \in Requests PROVE (Holding(q) /\ Caller(q) /\ Guest(q))'
  <2>1. CASE q = r
    <3>1. request'[r] = h  BY DEF Inv, TypeOK
    <3>2. h.sees.owner = owner /\ h.sees.member = member  BY DEF Now
    <3>3. HasRole(member, owner, {"admin"})  BY DEF Inv, Rules, OwnerIsAdmin
    <3>4. Holding(q)'  BY <2>1, <3>1, <3>2, <3>3 DEF Holding, Agrees, HasRole
    <3>5. (Caller(q) /\ Guest(q))'  BY <2>1, <3>1, <3>2 DEF Caller, Guest, HasRole, Deciding
    <3> QED  BY <3>4, <3>5
  <2>2. CASE q # r
    <3>1. request'[q] = request[q]  BY <2>2 DEF Inv, TypeOK
    <3>2. Holding(q) /\ Caller(q) /\ Guest(q)  BY DEF Inv
    <3>3. request[q].pc \notin Deciding  BY <3>2 DEF Holding
    <3> QED  BY <3>1, <3>2, <3>3 DEF Holding, Caller, Guest, Deciding
  <2> QED  BY <2>1, <2>2
<1> QED  BY <1>1, <1>2, <1>3 DEF Inv

--------------------------------------------------------------------------------
(* Handlers that begin, wait and end without a change.                      *)

LEMMA NowTyped == ASSUME TypeOK PROVE Now \in Snapshot
BY DEF TypeOK, Now, Snapshot

LEMMA AuthenticateStep ==
    ASSUME Inv, NEW r \in Requests, NEW u \in Users, Authenticate(r, u)
    PROVE  Inv'
<1> DEFINE h == [pc |-> "authenticated", user |-> u, role |-> member[u].role, isOwner |-> owner = u]
<1>1. member[u].role \in Roles  BY ActiveRow DEF Authenticate, Member, Inv
<1>2. h \in Handlers /\ h.pc = "authenticated"  BY <1>1 DEF Handlers, Authenticated
<1>3. /\ request' = [request EXCEPT ![r] = h] /\ UNCHANGED <<tables, cli, orgLock>>
      /\ request[r].pc = "idle"
  BY DEF Authenticate, Idle
<1> HIDE DEF h
<1> QED  BY <1>2, <1>3, Waits DEF Deciding

LEMMA FailStep == ASSUME Inv, NEW r \in Requests, Fail(r) PROVE Inv'
<1>1. Idle \in Handlers /\ Idle.pc = "idle"  BY DEF Handlers, Idle
<1> QED  BY <1>1, Waits DEF Fail, Deciding

LEMMA LookUpStep ==
    ASSUME Inv, NEW r \in Requests, NEW u \in Users, NEW i \in Invitations, LookUp(r, u, i)
    PROVE  Inv'
<1> DEFINE h == [pc |-> "invited", user |-> u, invitation |-> i]
<1>1. h \in Handlers /\ h.pc = "invited" /\ h.user = u /\ h.invitation = i
  BY DEF Handlers, Invited
<1>2. /\ request' = [request EXCEPT ![r] = h] /\ UNCHANGED <<tables, cli, orgLock>>
      /\ request[r].pc = "idle"
  BY DEF LookUp, Idle
<1>3. account[u] # "absent" /\ invitation[i] # NoInvitation /\ invitation[i].email = u
  BY DEF LookUp, NoInvitation
<1> HIDE DEF h
<1> QED  BY <1>1, <1>2, <1>3, Waits DEF Deciding

LEMMA LockStep == ASSUME Inv, NEW r \in Requests, Lock(r) PROVE Inv'
<1> DEFINE q == request[r]
           h == [pc |-> "locked", user |-> q.user, role |-> q.role, isOwner |-> q.isOwner, sees |-> Now]
<1>1. q \in Authenticated  BY PcOf DEF Lock, Inv
<1>2. h \in Handlers  BY <1>1, NowTyped DEF Inv, Handlers, Authenticated, Locked
<1>3. h.pc = "locked" /\ h.sees = Now /\ h.user = q.user /\ h.role = q.role  OBVIOUS
<1>4. /\ request' = [request EXCEPT ![r] = h] /\ orgLock = {} /\ orgLock' = {r}
      /\ UNCHANGED <<tables, cli>> /\ HasRole(member, q.user, {q.role})
  BY DEF Lock
<1> HIDE DEF h
<1> QED  BY <1>2, <1>3, <1>4, Locks DEF Deciding

LEMMA LockToAcceptStep == ASSUME Inv, NEW r \in Requests, LockToAccept(r) PROVE Inv'
<1> DEFINE q == request[r]
           h == [pc |-> "admitting", user |-> q.user, invitation |-> q.invitation, sees |-> Now]
<1>1. q \in Invited /\ q.pc = "invited"  BY PcOf DEF LockToAccept, Inv
<1>2. h \in Handlers  BY <1>1, NowTyped DEF Inv, Handlers, Invited, Admitting
<1>3. h.pc = "admitting" /\ h.sees = Now /\ h.user = q.user /\ h.invitation = q.invitation
  OBVIOUS
<1>4. /\ request' = [request EXCEPT ![r] = h] /\ orgLock = {} /\ orgLock' = {r}
      /\ UNCHANGED <<tables, cli>>
  BY DEF LockToAccept
<1>5. /\ account[q.user] # "absent"
      /\ invitation[q.invitation] # NoInvitation /\ invitation[q.invitation].email = q.user
  BY <1>1 DEF Inv, Guest
<1> HIDE DEF h
<1> QED  BY <1>2, <1>3, <1>4, <1>5, Locks DEF Deciding

--------------------------------------------------------------------------------
(* The limit of members.                                                    *)

\* Nobody is admitted, or only people whom the command line adds.
LEMMA NobodyCounted ==
    ASSUME Inv, NEW u \in Users, Active(member)' \subseteq Active(member) \cup {u},
           Active(member)' \ provisioned' \subseteq Active(member) \ provisioned
    PROVE  IsFiniteSet(Active(member)') /\ MemberLimit'
<1> DEFINE S == Active(member) \ provisioned
           T == Active(member)' \ provisioned'
<1>1. IsFiniteSet(Active(member)) /\ Cardinality(S) <= MaxMembers
  BY DEF Inv, Rules, MemberLimit
<1>2. IsFiniteSet(Active(member) \cup {u})  BY <1>1, FS_AddElement
<1>3. IsFiniteSet(Active(member)')  BY <1>2, FS_Subset
<1>4. IsFiniteSet(S)  BY <1>1, FS_Subset
<1>5. IsFiniteSet(T) /\ Cardinality(T) <= Cardinality(S)  BY <1>4, FS_Subset
<1>6. Cardinality(S) \in Nat /\ Cardinality(T) \in Nat  BY <1>4, <1>5, FS_CardinalityType
<1>7. Cardinality(T) <= MaxMembers
  <2> HIDE DEF S, T
  <2> QED  BY <1>1, <1>5, <1>6, MembershipAssumption
<1> QED  BY <1>3, <1>7 DEF MemberLimit

\* One person is admitted by a handler whose snapshot was below the limit.
LEMMA OneAdmitted ==
    ASSUME Inv, NEW r \in Requests, request[r].pc \in Deciding,
           Cardinality(Active(request[r].sees.member)) < MaxMembers,
           NEW u \in Users, Active(member)' \subseteq Active(member) \cup {u},
           UNCHANGED provisioned
    PROVE  IsFiniteSet(Active(member)') /\ MemberLimit'
<1> DEFINE S == Active(request[r].sees.member)
           T == Active(member)' \ provisioned'
<1>1. IsFiniteSet(Active(member))  BY DEF Inv
<1>2. IsFiniteSet(Active(member) \cup {u})  BY <1>1, FS_AddElement
<1>3. IsFiniteSet(Active(member)')  BY <1>2, FS_Subset
<1>4. S \subseteq Active(member) /\ Active(member) \ provisioned \subseteq S  BY Decides
<1>5. IsFiniteSet(S)  BY <1>1, <1>4, FS_Subset
<1>6. /\ IsFiniteSet(S \cup {u})
      /\ Cardinality(S \cup {u}) = IF u \in S THEN Cardinality(S) ELSE Cardinality(S) + 1
  BY <1>5, FS_AddElement
<1>7. T \subseteq S \cup {u}  BY <1>4
<1>8. IsFiniteSet(T) /\ Cardinality(T) <= Cardinality(S \cup {u})  BY <1>6, <1>7, FS_Subset
<1>9. Cardinality(S) \in Nat /\ Cardinality(T) \in Nat /\ Cardinality(S \cup {u}) \in Nat
  BY <1>5, <1>6, <1>8, FS_CardinalityType
<1>10. Cardinality(S) < MaxMembers  OBVIOUS
<1>11. Cardinality(T) <= MaxMembers
  <2> HIDE DEF S, T
  <2> QED  BY <1>6, <1>8, <1>9, <1>10, MembershipAssumption
<1> QED  BY <1>3, <1>11 DEF MemberLimit

--------------------------------------------------------------------------------
(* Decisions of administrators.                                             *)

\* The role of a member is changed, with the owner's administrator kept.
LEMMA RoleGiven ==
    ASSUME Inv, NEW r \in Requests, request[r].pc \in Deciding, Commit(r),
           NEW u \in Users, request[r].sees.member[u].active,
           NEW role \in Roles, NEW new \in Users, owner' = new,
           new = u => role = "admin", new \in {owner, u},
           member' = [member EXCEPT ![u].role = role],
           UNCHANGED <<account, invitation>>
    PROVE  Inv'
<1> DEFINE x == [member[u] EXCEPT !.role = role]
<1>1. member[u].active /\ member[u] \in Member  BY Decides, ActiveRow DEF Inv
<1>2. x \in Member /\ x.active /\ x.role = role  BY <1>1 DEF Member
<1>3. member' = [member EXCEPT ![u] = x]  BY Zenon DEF Inv, TypeOK, Members
<1> HIDE DEF x
<1>4. member' \in Members  BY <1>2, <1>3 DEF Inv, TypeOK, Members
<1>5. \A v \in Users : member'[v].active <=> member[v].active
  BY <1>1, <1>2, <1>3 DEF Inv, TypeOK, Members
<1>6. Active(member)' \subseteq Active(member)  BY <1>5 DEF Active
<1>7. UNCHANGED provisioned  BY DEF Commit, cli
<1>8. IsFiniteSet(Active(member)') /\ MemberLimit'
  BY <1>6, <1>7, NobodyCounted
<1>9. Accounted'  BY <1>5, <1>7 DEF Inv, Accounted
<1>10. OwnerIsAdmin'
  BY <1>2, <1>3 DEF Inv, Rules, OwnerIsAdmin, HasRole, TypeOK, Members
<1>11. OneOpenInvitation'  BY DEF Inv, Rules, OneOpenInvitation
<1>12. Lasting  BY DEF Lasting
<1> QED
  BY <1>4, <1>8, <1>9, <1>10, <1>11, <1>12, Commits DEF Rules, Inv, TypeOK

LEMMA UpdateMemberStep ==
    ASSUME Inv, NEW r \in Requests, NEW u \in Users, NEW role \in Grantable,
           UpdateMember(r, u, role)
    PROVE  Inv'
<1>1. request[r].pc \in Deciding /\ role \in Roles
  BY DEF UpdateMember, AsAdmin, Deciding, MembershipAssumption
<1>2. owner \in Users /\ owner' = owner /\ request[r].sees.owner = owner
  BY <1>1, Decides DEF UpdateMember, Inv, TypeOK
<1> QED  BY <1>1, <1>2, RoleGiven DEF UpdateMember

LEMMA TransferOwnershipStep ==
    ASSUME Inv, NEW r \in Requests, NEW u \in Users, TransferOwnership(r, u)
    PROVE  Inv'
<1>1. request[r].pc \in Deciding /\ "admin" \in Roles
  BY DEF TransferOwnership, AsAdmin, Deciding, Roles
<1> QED  BY <1>1, RoleGiven DEF TransferOwnership

LEMMA RemoveMemberStep ==
    ASSUME Inv, NEW r \in Requests, NEW u \in Users, RemoveMember(r, u)
    PROVE  Inv'
<1> DEFINE x == [member[u] EXCEPT !.active = FALSE]
<1>0. request[r].pc \in Deciding  BY DEF RemoveMember, AsAdmin, Deciding
<1>1. owner # u /\ member[u] \in Member
  BY <1>0, Decides, ActiveRow DEF RemoveMember, Inv
<1>2. x \in Member /\ x.active = FALSE  BY <1>1 DEF Member
<1>3. member' = [member EXCEPT ![u] = x] /\ UNCHANGED <<owner, account, invitation>> /\ Commit(r)
  BY Zenon DEF RemoveMember, Inv, TypeOK, Members
<1> HIDE DEF x
<1>4. member' \in Members  BY <1>2, <1>3 DEF Inv, TypeOK, Members
<1>5. \A v \in Users : member'[v].active => member[v].active
  BY <1>2, <1>3 DEF Inv, TypeOK, Members
<1>6. Active(member)' \subseteq Active(member)  BY <1>5 DEF Active
<1>7. UNCHANGED provisioned  BY <1>3 DEF Commit, cli
<1>8. IsFiniteSet(Active(member)') /\ MemberLimit'  BY <1>6, <1>7, NobodyCounted
<1>9. Accounted'  BY <1>3, <1>5, <1>7 DEF Inv, Accounted
<1>10. OwnerIsAdmin'
  BY <1>1, <1>3 DEF Inv, Rules, OwnerIsAdmin, HasRole, TypeOK, Members
<1>11. OneOpenInvitation'  BY <1>3 DEF Inv, Rules, OneOpenInvitation
<1>12. Lasting  BY <1>3 DEF Lasting
<1> QED
  BY <1>0, <1>3, <1>4, <1>8, <1>9, <1>10, <1>11, <1>12, Commits DEF Rules, Inv, TypeOK

\* Only invitations change.
LEMMA InvitationsOnly ==
    ASSUME Inv, NEW r \in Requests, request[r].pc \in Deciding, Commit(r), Lasting,
           invitation' \in InvitationTable, OneOpenInvitation',
           UNCHANGED <<owner, member, account>>
    PROVE  Inv'
<1>1. UNCHANGED provisioned  BY DEF Commit, cli
<1>2. Accounted' /\ IsFiniteSet(Active(member)') /\ OwnerIsAdmin' /\ MemberLimit'
  BY <1>1 DEF Inv, Rules, Accounted, Active, OwnerIsAdmin, MemberLimit, HasRole
<1> QED  BY <1>2, Commits DEF Rules, Inv, TypeOK

\* An invitation that is closed.
LEMMA Closed ==
    ASSUME NEW x \in Invitation \cup {NoInvitation}, NEW y, y = [x EXCEPT !.open = FALSE]
    PROVE  /\ y \in Invitation \cup {NoInvitation} /\ y.open = FALSE
           /\ x # NoInvitation => y # NoInvitation /\ y.email = x.email
<1>1. CASE x \in Invitation
  <2>1. y \in Invitation /\ y.open = FALSE /\ y.email = x.email  BY <1>1 DEF Invitation
  <2>2. DOMAIN y = {"email", "role", "open"}  BY <2>1 DEF Invitation
  <2>3. DOMAIN NoInvitation = {"open"}  BY DEF NoInvitation
  <2> QED  BY <2>1, <2>2, <2>3
<1>2. CASE x = NoInvitation
  <2>1. DOMAIN x = {"open"} /\ x.open = FALSE  BY <1>2 DEF NoInvitation
  <2>2. y = NoInvitation  BY <1>2, <2>1 DEF NoInvitation
  <2> QED  BY <1>2, <2>1, <2>2
<1> QED  BY <1>1, <1>2

\* Every invitation is kept or closed.
LEMMA SomeClosed ==
    ASSUME TypeOK,
           \A i \in Invitations :
              invitation'[i] \in {invitation[i], [invitation[i] EXCEPT !.open = FALSE]}
    PROVE  \A i \in Invitations :
              /\ invitation'[i] \in Invitation \cup {NoInvitation}
              /\ invitation'[i].open => invitation'[i] = invitation[i]
              /\ invitation[i] # NoInvitation =>
                    invitation'[i] # NoInvitation /\ invitation'[i].email = invitation[i].email
<1> SUFFICES ASSUME NEW i \in Invitations
             PROVE  /\ invitation'[i] \in Invitation \cup {NoInvitation}
                    /\ invitation'[i].open => invitation'[i] = invitation[i]
                    /\ invitation[i] # NoInvitation =>
                          invitation'[i] # NoInvitation /\ invitation'[i].email = invitation[i].email
  OBVIOUS
<1>1. invitation[i] \in Invitation \cup {NoInvitation}  BY DEF TypeOK, InvitationTable
<1>2. CASE invitation'[i] = invitation[i]  BY <1>1, <1>2
<1>3. CASE invitation'[i] = [invitation[i] EXCEPT !.open = FALSE]
  BY <1>1, <1>3, Closed
<1> QED  BY <1>2, <1>3

\* Closing invitations reopens none.
LEMMA OthersClosed ==
    ASSUME Inv, invitation' \in [Invitations -> Invitation \cup {NoInvitation}],
           \A i \in Invitations : invitation'[i].open => invitation'[i] = invitation[i]
    PROVE  OneOpenInvitation'
BY DEF Inv, Rules, OneOpenInvitation

LEMMA RevokeInvitationStep ==
    ASSUME Inv, NEW r \in Requests, NEW i \in Invitations, RevokeInvitation(r, i)
    PROVE  Inv'
<1>1. request[r].pc \in Deciding /\ Commit(r) /\ UNCHANGED <<owner, member, account>>
  BY DEF RevokeInvitation, AsAdmin, Deciding
<1>2. invitation' = [invitation EXCEPT ![i] = [invitation[i] EXCEPT !.open = FALSE]]
  BY Zenon DEF RevokeInvitation
<1>3. \A j \in Invitations :
        invitation'[j] \in {invitation[j], [invitation[j] EXCEPT !.open = FALSE]}
  <2> DEFINE x == [invitation[i] EXCEPT !.open = FALSE]
  <2>1. invitation' = [invitation EXCEPT ![i] = x]  BY <1>2
  <2>2. \A j \in Invitations : j # i => invitation'[j] = invitation[j]
    <3> HIDE DEF x
    <3> QED  BY <2>1 DEF Inv, TypeOK, InvitationTable
  <2>3. invitation'[i] = x
    <3> HIDE DEF x
    <3> QED  BY <2>1 DEF Inv, TypeOK, InvitationTable
  <2> QED  BY <2>2, <2>3
<1>4. DOMAIN invitation' = Invitations /\ invitation' = [j \in Invitations |-> invitation'[j]]
  <2> DEFINE x == [invitation[i] EXCEPT !.open = FALSE]
  <2>1. invitation' = [invitation EXCEPT ![i] = x]  BY <1>2
  <2> HIDE DEF x
  <2> QED  BY <2>1 DEF Inv, TypeOK, InvitationTable
<1>5. invitation' \in InvitationTable /\ Lasting /\ OneOpenInvitation'
  BY <1>1, <1>3, <1>4, SomeClosed, OthersClosed DEF Inv, InvitationTable, Lasting
<1> QED  BY <1>1, <1>5, InvitationsOnly

LEMMA InviteStep ==
    ASSUME Inv, NEW r \in Requests, NEW u \in Users, NEW role \in Grantable,
           NEW i \in Invitations, Invite(r, u, role, i)
    PROVE  Inv'
<1> DEFINE x == [email |-> u, role |-> role, open |-> TRUE]
<1>1. request[r].pc \in Deciding /\ Commit(r) /\ UNCHANGED <<owner, member, account>>
  BY DEF Invite, AsAdmin, Deciding
<1>2. /\ invitation[i] = NoInvitation
      /\ invitation' = [j \in Invitations |->
           CASE j = i -> x
             [] invitation[j].open /\ invitation[j].email = u ->
                  [invitation[j] EXCEPT !.open = FALSE]
             [] OTHER -> invitation[j]]
  BY DEF Invite
<1>3. x \in Invitation /\ x.email = u /\ x # NoInvitation
  <2>1. x \in Invitation /\ x.email = u
    BY MembershipAssumption DEF Invitation
  <2>2. x.open = TRUE /\ NoInvitation.open = FALSE  BY DEF NoInvitation
  <2> QED  BY <2>1, <2>2
<1> HIDE DEF x
<1>4. invitation'[i] = x
  BY <1>2 DEF NoInvitation
<1>5. ASSUME NEW j \in Invitations, j # i
      PROVE  /\ invitation'[j] \in Invitation \cup {NoInvitation}
             /\ invitation'[j].open => invitation'[j] = invitation[j] /\ invitation[j].email # u
             /\ invitation[j] # NoInvitation =>
                   invitation'[j] # NoInvitation /\ invitation'[j].email = invitation[j].email
  <2>1. invitation[j] \in Invitation \cup {NoInvitation}
    BY DEF Inv, TypeOK, InvitationTable
  <2>2. CASE invitation[j].open /\ invitation[j].email = u
    <3>1. invitation'[j] = [invitation[j] EXCEPT !.open = FALSE]  BY <1>2, <1>5, <2>2
    <3> QED  BY <2>1, <3>1, Closed
  <2>3. CASE ~(invitation[j].open /\ invitation[j].email = u)
    <3>1. invitation'[j] = invitation[j]  BY <1>2, <1>5, <2>3
    <3> QED  BY <2>1, <2>3, <3>1
  <2> QED  BY <2>2, <2>3
<1>6. invitation' \in InvitationTable
  BY <1>2, <1>3, <1>4, <1>5 DEF InvitationTable
<1>7. Lasting  BY <1>1, <1>2, <1>5 DEF Lasting
<1>8. OneOpenInvitation'
  BY <1>3, <1>4, <1>5 DEF Inv, Rules, OneOpenInvitation
<1> QED  BY <1>1, <1>6, <1>7, <1>8, InvitationsOnly

--------------------------------------------------------------------------------
(* Admissions.                                                              *)

\* A row of an active member is written for somebody who was none.
LEMMA Joins ==
    ASSUME Inv, NEW u \in Users, NEW role \in Roles,
           member' = [member EXCEPT ![u] = [role |-> role, active |-> TRUE]]
    PROVE  /\ member' \in Members
           /\ \A v \in Users : v # u => member'[v] = member[v]
           /\ member'[u].active /\ member'[u].role = role
           /\ Active(member)' \subseteq Active(member) \cup {u}
<1> DEFINE x == [role |-> role, active |-> TRUE]
<1>1. x \in Member /\ x.active /\ x.role = role  BY DEF Member
<1>2. member' = [member EXCEPT ![u] = x]  OBVIOUS
<1> HIDE DEF x
<1>3. member' \in Members  BY <1>1, <1>2 DEF Inv, TypeOK, Members
<1>4. (\A v \in Users : v # u => member'[v] = member[v]) /\ member'[u] = x
  BY <1>2 DEF Inv, TypeOK, Members
<1> QED  BY <1>1, <1>3, <1>4 DEF Active

LEMMA CreateUserStep ==
    ASSUME Inv, NEW r \in Requests, NEW u \in Users, NEW role \in Grantable,
           CreateUser(r, u, role)
    PROVE  Inv'
<1>1. request[r].pc \in Deciding /\ Commit(r) /\ UNCHANGED <<owner, invitation, provisioned>>
  BY DEF CreateUser, AsAdmin, Deciding, Commit, cli
<1>2. /\ Cardinality(Active(request[r].sees.member)) < MaxMembers /\ account[u] = "absent"
      /\ account' = [account EXCEPT ![u] = "active"]
      /\ member' = [member EXCEPT ![u] = [role |-> role, active |-> TRUE]]
  BY DEF CreateUser
<1>3. role \in Roles  BY MembershipAssumption
<1>4. /\ member' \in Members
      /\ \A v \in Users : v # u => member'[v] = member[v]
      /\ member'[u].active /\ member'[u].role = role
      /\ Active(member)' \subseteq Active(member) \cup {u}
  BY <1>2, <1>3, Joins
<1>5. IsFiniteSet(Active(member)') /\ MemberLimit'  BY <1>1, <1>2, <1>4, OneAdmitted
<1>6. /\ account' \in [Users -> {"absent", "active", "disabled"}] /\ account'[u] = "active"
      /\ \A v \in Users : v # u => account'[v] = account[v]
  BY <1>2 DEF Inv, TypeOK
<1>7. Accounted'  BY <1>1, <1>4, <1>6 DEF Inv, Accounted
<1>8. ~member[u].active  BY <1>2 DEF Inv, Accounted
<1>9. OwnerIsAdmin'
  BY <1>1, <1>4, <1>8 DEF Inv, Rules, OwnerIsAdmin, HasRole, TypeOK
<1>10. OneOpenInvitation'  BY <1>1 DEF Inv, Rules, OneOpenInvitation
<1>11. Lasting  BY <1>1, <1>6 DEF Lasting
<1> QED
  BY <1>1, <1>4, <1>5, <1>6, <1>7, <1>9, <1>10, <1>11, Commits DEF Rules, Inv, TypeOK

LEMMA AcceptStep == ASSUME Inv, NEW r \in Requests, Accept(r) PROVE Inv'
<1> PICK u, i : u = request[r].user /\ i = request[r].invitation  OBVIOUS
<1>1. /\ request[r].pc = "admitting" /\ request[r].pc \in Deciding /\ Commit(r)
      /\ UNCHANGED <<owner, account, provisioned>>
  BY DEF Accept, Deciding, Commit, cli
<1>2. u \in Users /\ i \in Invitations  BY <1>1, PcOf DEF Inv, Admitting
<1>3. /\ Cardinality(Active(request[r].sees.member)) < MaxMembers
      /\ ~request[r].sees.member[u].active /\ invitation[i].open
      /\ member' = [member EXCEPT ![u] = [role |-> invitation[i].role, active |-> TRUE]]
  BY DEF Accept
<1>4. invitation' = [invitation EXCEPT ![i] = [invitation[i] EXCEPT !.open = FALSE]]
  BY Zenon DEF Accept
<1>5. /\ account[u] # "absent" /\ invitation[i] # NoInvitation
      /\ request[r].sees.member[u] = member[u]
  BY <1>1 DEF Inv, Guest
<1>6. PICK role \in Roles : role = invitation[i].role
  BY <1>2, <1>5 DEF Inv, TypeOK, InvitationTable, Invitation
<1>7. /\ member' \in Members
      /\ \A v \in Users : v # u => member'[v] = member[v]
      /\ member'[u].active
      /\ Active(member)' \subseteq Active(member) \cup {u}
  BY <1>2, <1>3, <1>6, Joins
<1>8. IsFiniteSet(Active(member)') /\ MemberLimit'  BY <1>1, <1>2, <1>3, <1>7, OneAdmitted
<1>9. Accounted'  BY <1>1, <1>5, <1>7 DEF Inv, Accounted
<1>10. OwnerIsAdmin'
  BY <1>1, <1>3, <1>5, <1>7 DEF Inv, Rules, OwnerIsAdmin, HasRole, TypeOK
<1>11. PICK x : x = [invitation[i] EXCEPT !.open = FALSE]  OBVIOUS
<1>12. invitation' = [invitation EXCEPT ![i] = x]  BY <1>4, <1>11
<1>13. /\ \A j \in Invitations : j # i => invitation'[j] = invitation[j]
       /\ invitation'[i] = x
       /\ invitation' = [j \in Invitations |-> invitation'[j]]
  BY <1>2, <1>12 DEF Inv, TypeOK, InvitationTable
<1>14. \A j \in Invitations :
         invitation'[j] \in {invitation[j], [invitation[j] EXCEPT !.open = FALSE]}
  BY <1>11, <1>13
<1>15. invitation' \in InvitationTable /\ Lasting /\ OneOpenInvitation'
  BY <1>1, <1>13, <1>14, SomeClosed, OthersClosed DEF Inv, InvitationTable, Lasting
<1> QED
  BY <1>1, <1>7, <1>8, <1>9, <1>10, <1>15, Commits DEF Rules, Inv, TypeOK

--------------------------------------------------------------------------------
(* Steps outside the handlers.                                              *)

\* Accounts that are created or disabled change nothing that is promised.
LEMMA AccountsOnly ==
    ASSUME Inv, NEW u \in Users, NEW state \in {"active", "disabled"},
           account' = [account EXCEPT ![u] = state],
           UNCHANGED <<owner, member, invitation, provisioned, orgLock, request>>,
           disabling' \subseteq Users
    PROVE  Inv'
<1>1. TypeOK'  BY DEF Inv, TypeOK
<1>2. \A v \in Users : account[v] # "absent" => account'[v] # "absent"  BY DEF Inv, TypeOK
<1>3. Lasting  BY <1>2 DEF Lasting
<1>4. Accounted'  BY <1>2 DEF Inv, Accounted
<1>5. IsFiniteSet(Active(member)') /\ Rules'
  BY DEF Inv, Active, Rules, OwnerIsAdmin, MemberLimit, OneOpenInvitation, HasRole
<1> QED  BY <1>1, <1>3, <1>4, <1>5, Outside

LEMMA ExpireStep == ASSUME Inv, NEW i \in Invitations, Expire(i) PROVE Inv'
<1>1. UNCHANGED <<owner, member, account, cli, orgLock, request>>  BY DEF Expire
<1>2. invitation' = [invitation EXCEPT ![i] = [invitation[i] EXCEPT !.open = FALSE]]
  BY Zenon DEF Expire
<1>3. PICK x : x = [invitation[i] EXCEPT !.open = FALSE]  OBVIOUS
<1>4. invitation' = [invitation EXCEPT ![i] = x]  BY <1>2, <1>3
<1>5. /\ \A j \in Invitations : j # i => invitation'[j] = invitation[j]
      /\ invitation'[i] = x
      /\ invitation' = [j \in Invitations |-> invitation'[j]]
  BY <1>4 DEF Inv, TypeOK, InvitationTable
<1>6. \A j \in Invitations :
        invitation'[j] \in {invitation[j], [invitation[j] EXCEPT !.open = FALSE]}
  BY <1>3, <1>5
<1>7. invitation' \in InvitationTable /\ Lasting /\ OneOpenInvitation'
  BY <1>1, <1>5, <1>6, SomeClosed, OthersClosed DEF Inv, InvitationTable, Lasting
<1>8. TypeOK'  BY <1>1, <1>7 DEF Inv, TypeOK, cli
<1>9. Accounted' /\ IsFiniteSet(Active(member)') /\ OwnerIsAdmin' /\ MemberLimit'
  BY <1>1 DEF Inv, Rules, Accounted, Active, OwnerIsAdmin, MemberLimit, HasRole, cli
<1> QED  BY <1>1, <1>7, <1>8, <1>9, Outside DEF Rules, cli

LEMMA CliCreateUserStep ==
    ASSUME Inv, NEW u \in Users, NEW role \in Grantable, CliCreateUser(u, role)
    PROVE  Inv'
<1>1. /\ account[u] = "absent" /\ account' = [account EXCEPT ![u] = "active"]
      /\ member' = [member EXCEPT ![u] = [role |-> role, active |-> TRUE]]
      /\ provisioned' = provisioned \cup {u}
      /\ UNCHANGED <<owner, invitation, disabling, orgLock, request>>
  BY DEF CliCreateUser
<1>2. role \in Roles  BY MembershipAssumption
<1>3. /\ member' \in Members
      /\ \A v \in Users : v # u => member'[v] = member[v]
      /\ Active(member)' \subseteq Active(member) \cup {u}
  BY <1>1, <1>2, Joins
<1>4. ~member[u].active /\ u \notin provisioned  BY <1>1 DEF Inv, Accounted
<1>5. /\ account' \in [Users -> {"absent", "active", "disabled"}] /\ account'[u] = "active"
      /\ \A v \in Users : v # u => account'[v] = account[v]
  BY <1>1 DEF Inv, TypeOK
<1>6. TypeOK'  BY <1>1, <1>3, <1>5 DEF Inv, TypeOK
<1>7. Lasting  BY <1>1, <1>5 DEF Lasting
<1>8. Accounted'  BY <1>1, <1>3, <1>5 DEF Inv, Accounted
<1>9. IsFiniteSet(Active(member)') /\ MemberLimit'  BY <1>1, <1>3, NobodyCounted
<1>10. OwnerIsAdmin' /\ OneOpenInvitation'
  BY <1>1, <1>3, <1>4 DEF Inv, Rules, OwnerIsAdmin, OneOpenInvitation, HasRole, TypeOK
<1>11. \A v \in Users : member'[v] # member[v] =>
         ~member[v].active /\ account[v] = "absent" /\ v \in provisioned'
  BY <1>1, <1>3, <1>4
<1> QED  BY <1>1, <1>6, <1>7, <1>8, <1>9, <1>10, <1>11, Outside DEF Rules

LEMMA Stutters == ASSUME Inv, UNCHANGED vars PROVE Inv'
<1>1. TypeOK'  BY DEF Inv, TypeOK, vars, tables, cli
<1>2. Accounted' /\ IsFiniteSet(Active(member)') /\ Rules'
  BY DEF Inv, Rules, Accounted, Active, OwnerIsAdmin, MemberLimit, OneOpenInvitation, HasRole,
         vars, tables, cli
<1> QED  BY <1>1, <1>2, Outside DEF Lasting, vars, tables, cli

--------------------------------------------------------------------------------
(* The invariant holds in every state.                                      *)

LEMMA Initially == Init => Inv
<1> SUFFICES ASSUME Init PROVE Inv  OBVIOUS
<1> USE DEF Init
<1>1. Founder \in Users /\ MaxMembers >= 1  BY MembershipAssumption
<1>2. TypeOK
  BY <1>1 DEF TypeOK, Members, Member, NoMember, Roles, InvitationTable, NoInvitation, Idle
<1>3. Active(member) = {Founder}  BY <1>1 DEF Active, NoMember
<1>4. IsFiniteSet({Founder}) /\ Cardinality({Founder}) = 1  BY FS_Singleton
<1>5. Active(member) \ provisioned = {Founder}  BY <1>3
<1>6. Accounted  BY DEF Accounted, NoMember
<1>7. OwnerIsAdmin  BY <1>1 DEF OwnerIsAdmin, HasRole
<1>8. MemberLimit  BY <1>1, <1>4, <1>5 DEF MemberLimit
<1>9. OneOpenInvitation  BY DEF OneOpenInvitation, NoInvitation
<1>10. \A r \in Requests : Holding(r) /\ Caller(r) /\ Guest(r)
  BY DEF Holding, Caller, Guest, Idle, Deciding
<1> QED  BY <1>2, <1>3, <1>4, <1>6, <1>7, <1>8, <1>9, <1>10 DEF Inv, Rules

LEMMA Steps == Inv /\ [Next]_vars => Inv'
<1> SUFFICES ASSUME Inv, [Next]_vars PROVE Inv'  OBVIOUS
<1>1. CASE \E r \in Requests, u \in Users : Authenticate(r, u)  BY <1>1, AuthenticateStep
<1>2. CASE \E r \in Requests : Lock(r)  BY <1>2, LockStep
<1>3. CASE \E r \in Requests : Fail(r)  BY <1>3, FailStep
<1>4. CASE \E r \in Requests, u \in Users, role \in Grantable : UpdateMember(r, u, role)
  BY <1>4, UpdateMemberStep
<1>5. CASE \E r \in Requests, u \in Users : RemoveMember(r, u)  BY <1>5, RemoveMemberStep
<1>6. CASE \E r \in Requests, u \in Users : TransferOwnership(r, u)
  BY <1>6, TransferOwnershipStep
<1>7. CASE \E r \in Requests, u \in Users, role \in Grantable, i \in Invitations :
              Invite(r, u, role, i)
  BY <1>7, InviteStep
<1>8. CASE \E r \in Requests, i \in Invitations : RevokeInvitation(r, i)
  BY <1>8, RevokeInvitationStep
<1>9. CASE \E r \in Requests, u \in Users, role \in Grantable : CreateUser(r, u, role)
  BY <1>9, CreateUserStep
<1>10. CASE \E u \in Users : Register(u)
  <2> PICK u \in Users : Register(u)  BY <1>10
  <2>1. disabling' \subseteq Users  BY DEF Register, cli, Inv, TypeOK
  <2> QED  BY <2>1, AccountsOnly DEF Register, cli
<1>11. CASE \E i \in Invitations : Expire(i)  BY <1>11, ExpireStep
<1>12. CASE \E r \in Requests, u \in Users, i \in Invitations : LookUp(r, u, i)
  BY <1>12, LookUpStep
<1>13. CASE \E r \in Requests : LockToAccept(r)  BY <1>13, LockToAcceptStep
<1>14. CASE \E r \in Requests : Accept(r)  BY <1>14, AcceptStep
<1>15. CASE \E u \in Users : CliCheckDisable(u)
  <2> PICK u \in Users : CliCheckDisable(u)  BY <1>15
  <2>1. TypeOK' /\ UNCHANGED <<tables, provisioned, orgLock, request>>
    BY DEF CliCheckDisable, tables, Inv, TypeOK
  <2>2. Accounted' /\ IsFiniteSet(Active(member)') /\ Rules'
    BY <2>1 DEF Inv, Rules, Accounted, Active, OwnerIsAdmin, MemberLimit, OneOpenInvitation,
                HasRole, tables
  <2> QED  BY <2>1, <2>2, Outside DEF Lasting, tables
<1>16. CASE \E u \in Users : CliDisable(u)
  <2> PICK u \in Users : CliDisable(u)  BY <1>16
  <2>1. disabling' \subseteq Users  BY DEF CliDisable, Inv, TypeOK
  <2> QED  BY <2>1, AccountsOnly DEF CliDisable
<1>17. CASE \E u \in Users, role \in Grantable : CliCreateUser(u, role)
  BY <1>17, CliCreateUserStep
<1>18. CASE UNCHANGED vars  BY <1>18, Stutters
<1> QED
  BY <1>1, <1>2, <1>3, <1>4, <1>5, <1>6, <1>7, <1>8, <1>9, <1>10, <1>11, <1>12, <1>13,
     <1>14, <1>15, <1>16, <1>17, <1>18 DEF Next

LEMMA InvariantHolds == Spec => []Inv
BY Initially, Steps, PTL DEF Spec

--------------------------------------------------------------------------------
(* Who may make a step.                                                     *)

\* Only a transfer changes the owner.
LEMMA OwnershipSteps == Inv /\ [Next]_vars => HandedOver
<1> SUFFICES ASSUME Inv, [Next]_vars, owner' # owner PROVE HandedOver  BY DEF HandedOver
<1>1. PICK r \in Requests, u \in Users : TransferOwnership(r, u)
  BY DEF Next, vars, tables, Authenticate, Lock, Fail, UpdateMember, RemoveMember, Invite,
         RevokeInvitation, CreateUser, Register, Expire, LookUp, LockToAccept, Accept,
         CliCheckDisable, CliDisable, CliCreateUser
<1>2. request[r].pc = "locked" /\ request[r].sees.owner = request[r].user
  BY <1>1 DEF TransferOwnership, AsAdmin
<1>3. request[r].sees.owner = owner  BY <1>2, Decides DEF Deciding
<1>4. request'[r] = Idle  BY <1>1 DEF TransferOwnership, Commit, Inv, TypeOK
<1> QED  BY <1>2, <1>3, <1>4 DEF HandedOver

\* An administrator's commit is by somebody who is one.
LEMMA ByAdmin ==
    ASSUME Inv, NEW r \in Requests, AsAdmin(r), Commit(r)
    PROVE  Granted
<1>1. request[r].pc = "locked" /\ HasRole(member, request[r].user, {"admin"})
  BY DEF AsAdmin, Inv, Caller
<1>2. request'[r] = Idle  BY DEF Commit, Inv, TypeOK
<1> QED  BY <1>1, <1>2 DEF Granted, GrantedByAdmin

\* Accepting uses up the invitation to one's own address.
LEMMA ByInvitation == ASSUME Inv, NEW r \in Requests, Accept(r) PROVE Granted
<1> PICK u, i : u = request[r].user /\ i = request[r].invitation  OBVIOUS
<1>1. request[r].pc = "admitting"  BY DEF Accept
<1>2. u \in Users /\ i \in Invitations  BY <1>1, PcOf DEF Inv, Admitting
<1>3. /\ ~request[r].sees.member[u].active /\ invitation[i].open
      /\ member' = [member EXCEPT ![u] = [role |-> invitation[i].role, active |-> TRUE]]
  BY DEF Accept
<1>4. /\ invitation[i] # NoInvitation /\ invitation[i].email = u
      /\ request[r].sees.member[u] = member[u]
  BY <1>1 DEF Inv, Guest
<1>5. invitation[i] \in Invitation /\ invitation[i].role \in Roles
  BY <1>2, <1>4 DEF Inv, TypeOK, InvitationTable, Invitation
<1>6. /\ \A v \in Users : v # u => member'[v] = member[v]
      /\ member'[u].role = invitation[i].role
  <2>1. PICK role \in Roles : role = invitation[i].role  BY <1>5
  <2>2. member' = [member EXCEPT ![u] = [role |-> role, active |-> TRUE]]  BY <1>3, <2>1
  <2>3. PICK x : x = [role |-> role, active |-> TRUE]  OBVIOUS
  <2>4. member' = [member EXCEPT ![u] = x] /\ x.role = role  BY <2>2, <2>3
  <2>5. (\A v \in Users : v # u => member'[v] = member[v]) /\ member'[u] = x
    BY <1>2, <2>4 DEF Inv, TypeOK, Members
  <2> QED  BY <2>1, <2>4, <2>5
<1>7. invitation' = [invitation EXCEPT ![i] = [invitation[i] EXCEPT !.open = FALSE]]
  BY Zenon DEF Accept
<1>8. PICK x : x = [invitation[i] EXCEPT !.open = FALSE]  OBVIOUS
<1>9. x.open = FALSE  BY <1>5, <1>8, Closed
<1>10. invitation'[i] = x  BY <1>2, <1>7, <1>8 DEF Inv, TypeOK, InvitationTable
<1>11. GrantedByInvitation(u)
  BY <1>2, <1>3, <1>4, <1>6, <1>9, <1>10 DEF GrantedByInvitation
<1> QED  BY <1>6, <1>11 DEF Granted

LEMMA GrantedSteps == Inv /\ [Next]_vars => Granted
<1> SUFFICES ASSUME Inv, [Next]_vars PROVE Granted  OBVIOUS
<1>1. CASE \E r \in Requests : AsAdmin(r) /\ Commit(r)  BY <1>1, ByAdmin
<1>2. CASE \E r \in Requests : Accept(r)  BY <1>2, ByInvitation
<1>3. CASE \E u \in Users, role \in Grantable : CliCreateUser(u, role)
  <2> PICK u \in Users, role \in Grantable : CliCreateUser(u, role)  BY <1>3
  <2>1. /\ account[u] = "absent"
        /\ member' = [member EXCEPT ![u] = [role |-> role, active |-> TRUE]]
        /\ provisioned' = provisioned \cup {u}
    BY DEF CliCreateUser
  <2>2. u \notin provisioned  BY <2>1 DEF Inv, Accounted
  <2>3. \A v \in Users : v # u => member'[v] = member[v]
    BY <2>1, Joins, MembershipAssumption
  <2> QED  BY <2>1, <2>2, <2>3 DEF Granted
<1>4. CASE member' = member  BY <1>4 DEF Granted
<1> QED
  BY <1>1, <1>2, <1>3, <1>4
  DEF Next, vars, tables, Authenticate, Lock, Fail, UpdateMember, RemoveMember,
      TransferOwnership, Invite, RevokeInvitation, CreateUser, Register, Expire, LookUp,
      LockToAccept, CliCheckDisable, CliDisable

--------------------------------------------------------------------------------
(* The theorems.                                                            *)

\* Every table and every handler is of its type, for any number of people.
THEOREM MembershipTypeCorrect == Spec => []TypeOK
BY InvariantHolds, PTL DEF Inv

\* Whatever administrators do at the same time, the owner is an active member and an
\* administrator (update_member, remove_member, transfer_ownership under the lock).
THEOREM OwnerStaysAdmin == Spec => []OwnerIsAdmin
BY InvariantHolds, PTL DEF Inv, Rules

\* Concurrent admissions stay within any limit of members (invite, accept_invitation and
\* create_user count under the lock).
THEOREM AdmissionsWithinLimit == Spec => []MemberLimit
BY InvariantHolds, PTL DEF Inv, Rules

\* A person never holds two invitations that can be accepted (invite closes the earlier).
THEOREM OneInvitationEach == Spec => []OneOpenInvitation
BY InvariantHolds, PTL DEF Inv, Rules

\* Ownership changes hands only by an act of the owner of that moment
\* (transfer_ownership reads the owner again under the lock).
THEOREM HandedOverByOwner == Spec => OwnershipHandedOver
<1>1. Inv /\ [Next]_vars => [HandedOver]_vars  BY OwnershipSteps
<1> QED  BY <1>1, InvariantHolds, PTL DEF Spec, OwnershipHandedOver

\* Memberships are made, changed and ended by an administrator of that moment, by the
\* command line, or by using up an open invitation to one's own address.
THEOREM GrantedByRight == Spec => MembershipsAreGranted
<1>1. Inv /\ [Next]_vars => [Granted]_vars  BY GrantedSteps
<1> QED  BY <1>1, InvariantHolds, PTL DEF Spec, MembershipsAreGranted

================================================================================
