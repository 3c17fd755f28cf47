----------------------------- MODULE TenancyProofs -----------------------------
(***************************************************************************)
(* One person in any number of organizations, with any number of sessions, *)
(* authorizations and requests: how many organizations are owned, where a  *)
(* connection is, and what is left of a membership that ended.             *)
(*                                                                         *)
(* The three arguments are independent, each over the types:               *)
(*   - who has counted holds the users row alone, so that no organization  *)
(*     is added between the count and the creation;                        *)
(*   - an authorization that was consumed is of the request's own scope;   *)
(*   - a token that no removal overtook is of the membership that stands.  *)
(***************************************************************************)
EXTENDS Tenancy, FiniteSetTheorems, TLAPS

USE TenancyAssumption

Handlers == {Idle} \cup Entering \cup Known \cup Activating \cup Scoped \cup Consented

--------------------------------------------------------------------------------
(* Types.                                                                   *)

\* A request that a step ends, or carries on with.
LEMMA RequestTyped ==
    ASSUME TypeOK, NEW r \in Requests, NEW handler \in Handlers,
           request' = [request EXCEPT ![r] = handler]
    PROVE  request' \in [Requests -> Handlers]
BY DEF TypeOK, Handlers

LEMMA EndTyped ==
    ASSUME TypeOK, NEW r \in Requests, End(r)
    PROVE  request' \in [Requests -> Handlers] /\ userLock' \subseteq Requests
<1>1. Idle \in Handlers  BY DEF Handlers
<1> QED  BY <1>1, RequestTyped DEF End, TypeOK

LEMMA EndTokensTyped ==
    ASSUME TypeOK, NEW ended, NEW kept \in [Consents -> Consent \cup {NoConsent}],
           EndTokens(ended, kept)
    PROVE  /\ token' \in [Tokens -> Token \cup {NoToken}]
           /\ consent' \in [Consents -> Consent \cup {NoConsent}]
BY DEF TypeOK, EndTokens

LEMMA SinceTyped == ASSUME TypeOK, NEW o \in Scopes PROVE Since(o) \in Nat
BY DEF TypeOK, Since, Scopes, Member

LEMMA OvertakenTyped ==
    ASSUME NEW o, NEW n
    PROVE  Overtaken(o, n) \in BOOLEAN
BY DEF Overtaken

LEMMA TypedInitially == Init => TypeOK
BY DEF Init, TypeOK, Member, Tokens

LEMMA TypedSteps == ASSUME TypeOK, [Next]_vars PROVE TypeOK'
<1>1. ASSUME NEW r \in Requests, NEW o \in Scopes, Login(r, o) PROVE TypeOK'
  <2> DEFINE h == [pc |-> "entering", org |-> o, since |-> Since(o)]
  <2>1. h \in Handlers  BY SinceTyped DEF Handlers, Entering
  <2> HIDE DEF h
  <2>2. request' \in [Requests -> Handlers]
    BY <1>1, <2>1, RequestTyped DEF Login, Begin, h
  <2> QED  BY <1>1, <2>2 DEF Login, TypeOK, Handlers, organization, oauth
<1>2. ASSUME NEW r \in Requests, NEW t \in Tokens, NEW kind \in {"session", "api"},
             IssueToken(r, t, kind)
      PROVE  TypeOK'
  <2> DEFINE q == request[r]
             new == [kind |-> kind, org |-> q.org, since |-> q.since, late |-> Overtaken(q.org, q.since)]
  <2>1. q.org \in Scopes /\ q.since \in Nat
    BY <1>2 DEF IssueToken, TypeOK, Idle, Entering, Known, Activating, Scoped, Consented, Scopes
  <2>2. new \in Token  BY <2>1, OvertakenTyped DEF Token
  <2>3. token' = [token EXCEPT ![t] = new]  BY <1>2 DEF IssueToken
  <2> HIDE DEF new
  <2> QED  BY <1>2, <2>2, <2>3, EndTyped DEF IssueToken, TypeOK, Handlers, organization, oauth
<1>3. ASSUME NEW r \in Requests, NEW t \in Tokens, Identify(r, t) PROVE TypeOK'
  <2> DEFINE h == [pc |-> "known", session |-> t, org |-> token[t].org]
  <2>1. h \in Handlers  BY <1>3 DEF Identify, TypeOK, Token, Handlers, Known
  <2> HIDE DEF h
  <2>2. request' \in [Requests -> Handlers]
    BY <1>3, <2>1, RequestTyped DEF Identify, Begin, h
  <2> QED  BY <1>3, <2>2 DEF Identify, TypeOK, Handlers, organization, oauth
<1>4. ASSUME NEW r \in Requests, NEW t \in Tokens, CurrentUser(r, t) PROVE TypeOK'
  <2> DEFINE o == token[t].org
             h == [pc |-> "scoped", session |-> t, kind |-> token[t].kind, org |-> o, since |-> Since(o)]
  <2>0. token[t] \in Token /\ o # None  BY <1>4 DEF CurrentUser, TypeOK
  <2>1. o \in Organizations /\ token[t].kind \in {"session", "api"}  BY <2>0 DEF Token, Scopes
  <2>2. Since(o) \in Nat  BY <2>1, SinceTyped DEF Scopes
  <2>3. h \in Handlers  BY <2>1, <2>2 DEF Handlers, Scoped
  <2>4. request' = [request EXCEPT ![r] = h]  BY <1>4 DEF CurrentUser, Begin
  <2> HIDE DEF h
  <2>5. request' \in [Requests -> Handlers]  BY <2>3, <2>4, RequestTyped
  <2> QED  BY <1>4, <2>5 DEF CurrentUser, TypeOK, Handlers, organization, oauth
<1>5. ASSUME NEW r \in Requests, NEW t \in Tokens, Revoke(r, t) PROVE TypeOK'
  <2>1. /\ token' \in [Tokens -> Token \cup {NoToken}]
        /\ consent' \in [Consents -> Consent \cup {NoConsent}]
    BY <1>5, EndTokensTyped DEF Revoke, TypeOK
  <2> QED  BY <1>5, <2>1, EndTyped DEF Revoke, TypeOK, Handlers, organization
<1>6. ASSUME NEW r \in Requests, NEW o \in Organizations, ActivateCheck(r, o) PROVE TypeOK'
  <2> DEFINE h == [pc |-> "activating", session |-> request[r].session,
                   org |-> request[r].org, to |-> o, since |-> Since(o)]
  <2>0. request[r] \in Known
    BY <1>6 DEF ActivateCheck, TypeOK, Idle, Entering, Known, Activating, Scoped, Consented
  <2>1. Since(o) \in Nat  BY SinceTyped DEF Scopes
  <2>2. h \in Handlers  BY <2>0, <2>1 DEF Handlers, Activating, Known
  <2>3. request' = [request EXCEPT ![r] = h]  BY <1>6 DEF ActivateCheck, Continue
  <2> HIDE DEF h
  <2>4. request' \in [Requests -> Handlers]  BY <2>2, <2>3, RequestTyped
  <2> QED  BY <1>6, <2>4 DEF ActivateCheck, TypeOK, Handlers, organization, oauth
<1>7. ASSUME NEW r \in Requests, Activate(r) PROVE TypeOK'
  <2> DEFINE q == request[r]
             x == token[q.session]
             late == Overtaken(q.to, q.since)
             new == [x EXCEPT !.org = q.to, !.since = q.since, !.late = late]
  <2>0. q \in Activating
    BY <1>7 DEF Activate, TypeOK, Idle, Entering, Known, Activating, Scoped, Consented
  <2>1. q.session \in Tokens /\ q.to \in Scopes /\ q.since \in Nat
    BY <2>0 DEF Activating, Scopes
  <2>2. late \in BOOLEAN  BY OvertakenTyped
  <2>3. consent' \in [Consents -> Consent \cup {NoConsent}]
    BY <1>7 DEF Activate, TypeOK
  <2>4. token' \in [Tokens -> Token \cup {NoToken}]
    <3>1. CASE q.to = q.org  BY <1>7, <3>1 DEF Activate, TypeOK
    <3>2. CASE q.to # q.org
      <4>1. x \in Token  BY <1>7, <2>1, <3>2 DEF Activate, TypeOK
      <4>2. token' = [token EXCEPT ![q.session] = new]
        BY <1>7, <3>2, Zenon DEF Activate
      <4> HIDE DEF late
      <4>3. new \in Token  BY <2>1, <2>2, <4>1 DEF Token
      <4> HIDE DEF new, x, q
      <4> QED  BY <4>2, <4>3 DEF TypeOK
    <3> QED  BY <3>1, <3>2
  <2> QED  BY <1>7, <2>3, <2>4, EndTyped DEF Activate, TypeOK, Handlers, organization
<1>8. ASSUME NEW r \in Requests, NEW c \in Consents, Connect(r, c) PROVE TypeOK'
  <2> DEFINE new == [session |-> request[r].session, org |-> request[r].org]
  <2>0. request[r] \in Scoped
    BY <1>8 DEF Connect, TypeOK, Idle, Entering, Known, Activating, Scoped, Consented
  <2>1. new \in Consent  BY <2>0 DEF Scoped, Consent
  <2>2. consent' = [consent EXCEPT ![c] = new]  BY <1>8 DEF Connect
  <2> HIDE DEF new
  <2> QED  BY <1>8, <2>1, <2>2, EndTyped DEF Connect, TypeOK, Handlers, organization
<1>9. ASSUME NEW r \in Requests, NEW c \in Consents, Callback(r, c) PROVE TypeOK'
  <2> DEFINE h == [pc |-> "consented", org |-> request[r].org, asked |-> consent[c].org]
  <2>0. request[r] \in Scoped
    BY <1>9 DEF Callback, TypeOK, Idle, Entering, Known, Activating, Scoped, Consented
  <2>1. consent[c] \in Consent  BY <1>9 DEF Callback, TypeOK
  <2>2. h \in Handlers  BY <2>0, <2>1 DEF Handlers, Scoped, Consent, Consented
  <2>3. request' = [request EXCEPT ![r] = h]  BY <1>9 DEF Callback, Continue
  <2> HIDE DEF h
  <2>4. request' \in [Requests -> Handlers]  BY <2>2, <2>3, RequestTyped
  <2> QED  BY <1>9, <2>4 DEF Callback, TypeOK, Handlers, organization
<1>10. ASSUME NEW r \in Requests, StoreConnection(r) PROVE TypeOK'
  <2>0. request[r] \in Consented
    BY <1>10 DEF StoreConnection, TypeOK, Idle, Entering, Known, Activating, Scoped, Consented
  <2>1. connection' \in Connection
    BY <1>10, <2>0 DEF StoreConnection, Consented, Connection
  <2> QED  BY <1>10, <2>1, EndTyped DEF StoreConnection, TypeOK, Handlers, organization
<1>11. ASSUME NEW r \in Requests, Disconnect(r) PROVE TypeOK'
  <2>1. consent' \in [Consents -> Consent \cup {NoConsent}]
    BY <1>11 DEF Disconnect, TypeOK
  <2> QED  BY <1>11, <2>1, EndTyped DEF Disconnect, TypeOK, Handlers, organization
<1>12. ASSUME NEW c \in Consents, Expire(c) PROVE TypeOK'
  BY <1>12 DEF Expire, TypeOK, organization
<1>13. ASSUME NEW r \in Requests, Count(r) PROVE TypeOK'
  <2> DEFINE h == [request[r] EXCEPT !.pc = "counted"]
  <2>0. request[r] \in Known
    BY <1>13 DEF Count, TypeOK, Idle, Entering, Known, Activating, Scoped, Consented
  <2>1. h \in Handlers  BY <2>0 DEF Handlers, Known
  <2>2. request' = [request EXCEPT ![r] = h]  BY <1>13 DEF Count, Continue
  <2> HIDE DEF h
  <2>3. request' \in [Requests -> Handlers]  BY <2>1, <2>2, RequestTyped
  <2> QED  BY <1>13, <2>3 DEF Count, TypeOK, Handlers, organization, oauth
<1>14. ASSUME NEW r \in Requests, NEW o \in Organizations, CreateOrganization(r, o) PROVE TypeOK'
  BY <1>14, EndTyped DEF CreateOrganization, TypeOK, Member, Handlers, oauth
<1>15. ASSUME NEW o \in Organizations, Join(o) PROVE TypeOK'
  <2>1. member[o].since + 1 \in Nat  BY DEF TypeOK, Member
  <2> DEFINE n == member[o].since + 1
  <2>2. member' = [member EXCEPT ![o] = [since |-> n, active |-> TRUE]]  BY <1>15, Zenon DEF Join
  <2> HIDE DEF n
  <2> QED  BY <1>15, <2>1, <2>2 DEF Join, TypeOK, Member, oauth, n
<1>16. ASSUME NEW o \in Organizations, RemoveMember(o) PROVE TypeOK'
  <2> DEFINE kept == [c \in Consents |-> IF consent[c].org = o THEN NoConsent ELSE consent[c]]
             gone == {t \in Tokens : token[t] # NoToken /\ token[t].org = o}
  <2>1. kept \in [Consents -> Consent \cup {NoConsent}]  BY DEF TypeOK
  <2>2. EndTokens(gone, kept)  BY <1>16 DEF RemoveMember
  <2> HIDE DEF kept, gone
  <2>3. /\ token' \in [Tokens -> Token \cup {NoToken}]
        /\ consent' \in [Consents -> Consent \cup {NoConsent}]
    BY <2>1, <2>2, EndTokensTyped
  <2>4. member' \in [Organizations -> Member]  BY <1>16 DEF RemoveMember, TypeOK, Member
  <2>5. connection' \in Connection \cup {NoConnection}  BY <1>16 DEF RemoveMember, TypeOK
  <2> QED  BY <1>16, <2>3, <2>4, <2>5 DEF RemoveMember, TypeOK
<1>17. ASSUME NEW o \in Organizations, HandOver(o) PROVE TypeOK'
  BY <1>17 DEF HandOver, TypeOK, oauth
<1>18. ASSUME NEW r \in Requests, Fail(r) PROVE TypeOK'
  BY <1>18, EndTyped DEF Fail, TypeOK, Handlers, organization, oauth
<1>19. CASE UNCHANGED vars
  BY <1>19 DEF vars, organization, oauth, TypeOK
<1> QED
  BY <1>1, <1>2, <1>3, <1>4, <1>5, <1>6, <1>7, <1>8, <1>9, <1>10, <1>11, <1>12, <1>13, <1>14,
     <1>15, <1>16, <1>17, <1>18, <1>19 DEF Next

\* The person's rows and requests are of their types in every reachable state
\* (models.py, and what the handlers copy from it).
THEOREM TenancyTypeCorrect == Spec => []TypeOK
BY TypedInitially, TypedSteps, PTL DEF Spec

--------------------------------------------------------------------------------
(* The limit of organizations.                                              *)

\* Who has counted is the only one that holds the users row, and the count still stands.
CountStands ==
    /\ IsFiniteSet(owner)
    /\ \A r \in Requests : request[r].pc = "counted" =>
          userLock = {r} /\ Cardinality(owner) < MaxOwned

Owned == CountStands /\ OwnedLimit

\* A step of one request that has not counted after it, with the same organizations.
LEMMA OwnedKept ==
    ASSUME TypeOK, Owned, NEW r \in Requests, NEW h, h.pc # "counted",
           request' = [request EXCEPT ![r] = h],
           userLock' \in {userLock, userLock \ {r}},
           UNCHANGED owner
    PROVE  Owned'
BY DEF TypeOK, Owned, CountStands, OwnedLimit

LEMMA OwnedInitially == Init => Owned
BY FS_EmptySet DEF Init, Owned, CountStands, OwnedLimit, Idle

LEMMA OwnedSteps == ASSUME TypeOK, Owned, [Next]_vars PROVE Owned'
<1> USE DEF organization, oauth
<1>1. ASSUME NEW r \in Requests, End(r), UNCHANGED owner PROVE Owned'
  BY <1>1, OwnedKept DEF End, Idle
<1>2. ASSUME NEW r \in Requests, NEW o \in Scopes, Login(r, o) PROVE Owned'
  BY <1>2, OwnedKept DEF Login, Begin
<1>3. ASSUME NEW r \in Requests, NEW t \in Tokens, Identify(r, t) PROVE Owned'
  BY <1>3, OwnedKept DEF Identify, Begin
<1>4. ASSUME NEW r \in Requests, NEW t \in Tokens, CurrentUser(r, t) PROVE Owned'
  BY <1>4, OwnedKept DEF CurrentUser, Begin
<1>5. ASSUME NEW r \in Requests, NEW o \in Organizations, ActivateCheck(r, o) PROVE Owned'
  BY <1>5, OwnedKept DEF ActivateCheck, Continue
<1>6. ASSUME NEW r \in Requests, NEW c \in Consents, Callback(r, c) PROVE Owned'
  BY <1>6, OwnedKept DEF Callback, Continue
<1>7. ASSUME NEW r \in Requests, Count(r) PROVE Owned'
  <2>1. \A q \in Requests : request[q].pc # "counted"
    BY <1>7 DEF Count, Owned, CountStands
  <2>2. \A q \in Requests : q # r => request'[q] = request[q]
    BY <1>7 DEF Count, Continue, TypeOK
  <2> QED  BY <1>7, <2>1, <2>2 DEF Count, Owned, CountStands, OwnedLimit
<1>8. ASSUME NEW r \in Requests, NEW o \in Organizations, CreateOrganization(r, o) PROVE Owned'
  <2>1. /\ \A q \in Requests : q # r => request[q].pc # "counted"
        /\ Cardinality(owner) < MaxOwned
    BY <1>8 DEF CreateOrganization, Owned, CountStands
  <2>2. \A q \in Requests : request'[q].pc # "counted"
    BY <1>8, <2>1 DEF CreateOrganization, End, Idle, TypeOK
  <2>3. /\ IsFiniteSet(owner) /\ IsFiniteSet(owner')
        /\ Cardinality(owner') = IF o \in owner THEN Cardinality(owner) ELSE Cardinality(owner) + 1
    BY <1>8, FS_AddElement DEF CreateOrganization, Owned, CountStands
  <2>4. Cardinality(owner) \in Nat  BY <2>3, FS_CardinalityType
  <2> QED  BY <2>1, <2>2, <2>3, <2>4 DEF Owned, CountStands, OwnedLimit
<1>9. ASSUME NEW o \in Organizations, HandOver(o) PROVE Owned'
  <2>1. /\ IsFiniteSet(owner) /\ IsFiniteSet(owner')
        /\ Cardinality(owner') <= Cardinality(owner)
    BY <1>9, FS_Subset DEF HandOver, Owned, CountStands
  <2>2. Cardinality(owner) \in Nat /\ Cardinality(owner') \in Nat
    BY <2>1, FS_CardinalityType
  <2>3. MaxOwned \in Nat /\ Cardinality(owner) <= MaxOwned  BY DEF Owned, OwnedLimit
  <2>4. OwnedLimit'
    <3> DEFINE a == Cardinality(owner)
               b == Cardinality(owner')
    <3>1. MaxOwned \in Nat /\ a \in Nat /\ b \in Nat /\ b <= a /\ a <= MaxOwned
      BY <2>1, <2>2, <2>3
    <3> HIDE DEF a, b
    <3>2. b <= MaxOwned  BY <3>1
    <3> QED  BY <3>2 DEF b, OwnedLimit
  <2>5. ASSUME NEW r \in Requests, request'[r].pc = "counted"
        PROVE  userLock' = {r} /\ Cardinality(owner') < MaxOwned
    <3>1. UNCHANGED <<userLock, request>>  BY <1>9 DEF HandOver
    <3>2. userLock = {r} /\ Cardinality(owner) < MaxOwned
      BY <2>5, <3>1 DEF Owned, CountStands
    <3>3. Cardinality(owner') < MaxOwned  BY <2>1, <2>2, <2>3, <3>2
    <3> QED  BY <3>1, <3>2, <3>3
  <2> QED  BY <2>1, <2>4, <2>5 DEF Owned, CountStands
<1>10. CASE UNCHANGED <<owner, userLock, request>>
  BY <1>10 DEF Owned, CountStands, OwnedLimit
<1>11. ASSUME NEW r \in Requests, NEW t \in Tokens
       PROVE  /\ \A kind \in {"session", "api"} : IssueToken(r, t, kind) => End(r) /\ UNCHANGED owner
              /\ Revoke(r, t) => End(r) /\ UNCHANGED owner
  BY DEF IssueToken, Revoke
<1>12. ASSUME NEW r \in Requests
       PROVE  /\ Activate(r) \/ StoreConnection(r) \/ Disconnect(r) \/ Fail(r)
                 => End(r) /\ UNCHANGED owner
              /\ \A c \in Consents : Connect(r, c) => End(r) /\ UNCHANGED owner
  BY DEF Activate, StoreConnection, Disconnect, Fail, Connect
<1>13. ASSUME NEW o \in Organizations, Join(o) \/ RemoveMember(o) PROVE Owned'
  BY <1>10, <1>13 DEF Join, RemoveMember
<1>14. ASSUME NEW c \in Consents, Expire(c) PROVE Owned'
  BY <1>10, <1>14 DEF Expire
<1>15. UNCHANGED vars => UNCHANGED <<owner, userLock, request>>
  BY DEF vars
<1> QED
  BY <1>1, <1>2, <1>3, <1>4, <1>5, <1>6, <1>7, <1>8, <1>9, <1>10, <1>11, <1>12, <1>13, <1>14,
     <1>15 DEF Next

\* Concurrent creations stay within the limit of organizations per account, however many
\* requests create, for any limit (new_organization).
THEOREM OwnedWithinLimit == Spec => []OwnedLimit
BY TenancyTypeCorrect, OwnedInitially, OwnedSteps, PTL DEF Spec, Owned

--------------------------------------------------------------------------------
(* Where a connection is.                                                   *)

\* The scope of a callback is that of the authorization it consumed.
AskedInScope == \A r \in Requests : request[r].pc = "consented" => request[r].org = request[r].asked

Asked == AskedInScope /\ ConnectedWhereAsked

LEMMA AskedKept ==
    ASSUME TypeOK, Asked, NEW r \in Requests, NEW h, h.pc # "consented" \/ h.org = h.asked,
           request' = [request EXCEPT ![r] = h],
           connection' \in {connection, NoConnection}
    PROVE  Asked'
BY DEF TypeOK, Asked, AskedInScope, ConnectedWhereAsked

LEMMA AskedInitially == Init => Asked
BY DEF Init, Asked, AskedInScope, ConnectedWhereAsked, Idle

LEMMA AskedSteps == ASSUME TypeOK, Asked, [Next]_vars PROVE Asked'
<1> USE DEF organization, oauth
<1>1. ASSUME NEW r \in Requests, End(r), connection' \in {connection, NoConnection} PROVE Asked'
  BY <1>1, AskedKept DEF End, Idle
<1>2. ASSUME NEW r \in Requests, NEW o \in Scopes, Login(r, o) PROVE Asked'
  BY <1>2, AskedKept DEF Login, Begin
<1>3. ASSUME NEW r \in Requests, NEW t \in Tokens, Identify(r, t) PROVE Asked'
  BY <1>3, AskedKept DEF Identify, Begin
<1>4. ASSUME NEW r \in Requests, NEW t \in Tokens, CurrentUser(r, t) PROVE Asked'
  BY <1>4, AskedKept DEF CurrentUser, Begin
<1>5. ASSUME NEW r \in Requests, NEW o \in Organizations, ActivateCheck(r, o) PROVE Asked'
  BY <1>5, AskedKept DEF ActivateCheck, Continue
<1>6. ASSUME NEW r \in Requests, NEW c \in Consents, Callback(r, c) PROVE Asked'
  <2> DEFINE h == [pc |-> "consented", org |-> request[r].org, asked |-> consent[c].org]
  <2>1. h.org = h.asked  BY <1>6 DEF Callback
  <2>2. request' = [request EXCEPT ![r] = h] /\ UNCHANGED connection
    BY <1>6 DEF Callback, Continue
  <2> HIDE DEF h
  <2> QED  BY <2>1, <2>2, AskedKept
<1>7. ASSUME NEW r \in Requests, Count(r) PROVE Asked'
  <2> DEFINE h == [request[r] EXCEPT !.pc = "counted"]
  <2>1. h.pc # "consented"
    BY <1>7 DEF Count, TypeOK, Idle, Entering, Known, Activating, Scoped, Consented
  <2>2. request' = [request EXCEPT ![r] = h] /\ UNCHANGED connection
    BY <1>7 DEF Count, Continue
  <2> HIDE DEF h
  <2> QED  BY <2>1, <2>2, AskedKept
<1>8. ASSUME NEW r \in Requests, StoreConnection(r) PROVE Asked'
  <2>1. connection'.org = connection'.asked
    BY <1>8 DEF StoreConnection, Asked, AskedInScope
  <2>2. AskedInScope'
    BY <1>8 DEF StoreConnection, End, Idle, Asked, AskedInScope, TypeOK
  <2> QED  BY <2>1, <2>2 DEF Asked, ConnectedWhereAsked
<1>9. ASSUME UNCHANGED request, connection' \in {connection, NoConnection} PROVE Asked'
  BY <1>9 DEF Asked, AskedInScope, ConnectedWhereAsked
<1>10. ASSUME NEW r \in Requests, NEW t \in Tokens
       PROVE  /\ \A kind \in {"session", "api"} :
                    IssueToken(r, t, kind) => End(r) /\ UNCHANGED connection
              /\ Revoke(r, t) => End(r) /\ UNCHANGED connection
  BY DEF IssueToken, Revoke
<1>11. ASSUME NEW r \in Requests
       PROVE  /\ Activate(r) \/ Disconnect(r) \/ Fail(r)
                    => End(r) /\ connection' \in {connection, NoConnection}
              /\ \A c \in Consents : Connect(r, c) => End(r) /\ UNCHANGED connection
              /\ \A o \in Organizations : CreateOrganization(r, o) => End(r) /\ UNCHANGED connection
  BY DEF Activate, Disconnect, Fail, Connect, CreateOrganization
<1>12. ASSUME NEW o \in Organizations, Join(o) \/ RemoveMember(o) \/ HandOver(o) PROVE Asked'
  BY <1>9, <1>12 DEF Join, RemoveMember, HandOver
<1>13. ASSUME NEW c \in Consents, Expire(c) PROVE Asked'
  BY <1>9, <1>13 DEF Expire
<1>14. CASE UNCHANGED vars
  BY <1>9, <1>14 DEF vars
<1> QED
  BY <1>1, <1>2, <1>3, <1>4, <1>5, <1>6, <1>7, <1>8, <1>10, <1>11, <1>12, <1>13, <1>14 DEF Next

\* A connection is of the organization in which the person chose to connect, however the
\* session is switched meanwhile and whichever requests run (connect,
\* activate_organization, callback).
THEOREM ConnectedInItsOrganization == Spec => []ConnectedWhereAsked
BY TenancyTypeCorrect, AskedInitially, AskedSteps, PTL DEF Spec, Asked

--------------------------------------------------------------------------------
(* What is left of a membership that ended.                                 *)

Standing(x) == x # NoToken /\ x.org # None => x.late \/ ~Overtaken(x.org, x.since)

\* An organization that the person never joined has no active membership.
Joined == \A o \in Organizations : member[o].active => member[o].since # 0

Access == Joined /\ AccessEndsWithMembership

\* Tokens that stay, go or are issued while the memberships stay.
LEMMA AccessKept ==
    ASSUME Access, UNCHANGED member,
           \A t \in Tokens : token'[t] \in {token[t], NoToken} \/ Standing(token'[t])
    PROVE  Access'
BY DEF Access, Joined, AccessEndsWithMembership, Standing, Overtaken

LEMMA AccessInitially == Init => Access
BY DEF Init, Access, Joined, AccessEndsWithMembership

\* A membership begins or ends: the tokens of its organization are gone, or none stands.
LEMMA AccessOfOne ==
    ASSUME TypeOK, Access, NEW o \in Organizations, NEW new, new.active => new.since # 0,
           member' = [member EXCEPT ![o] = new],
           \A t \in Tokens : token'[t] \in {token[t], NoToken},
           \A t \in Tokens : token'[t] # NoToken /\ token'[t].org = o => token'[t].late
    PROVE  Access'
<1>1. Joined'
  BY DEF Access, Joined, TypeOK
<1>2. ASSUME NEW t \in Tokens, token'[t] # NoToken, token'[t].org # None, ~token'[t].late
      PROVE  ~Overtaken(token[t].org, token[t].since)'
  <2>1. token'[t] = token[t] /\ token[t].org # o  BY <1>2
  <2>2. token[t].org \in Organizations  BY <1>2, <2>1 DEF TypeOK, Token, Scopes
  <2>3. ~Overtaken(token[t].org, token[t].since)
    BY <1>2, <2>1 DEF Access, AccessEndsWithMembership
  <2> QED  BY <2>1, <2>2, <2>3 DEF Overtaken, TypeOK
<1>3. AccessEndsWithMembership'
  BY <1>2 DEF AccessEndsWithMembership, Overtaken
<1> QED  BY <1>1, <1>3 DEF Access

\* No token stands that is of an organization the person is not in.
LEMMA NoneStands ==
    ASSUME TypeOK, Access, NEW o \in Organizations, ~member[o].active,
           NEW t \in Tokens, token[t] # NoToken, token[t].org = o
    PROVE  token[t].late
<1>1. o # None  BY TenancyAssumption DEF None
<1>2. Overtaken(o, token[t].since)  BY <1>1 DEF Overtaken
<1> QED  BY <1>1, <1>2 DEF Access, AccessEndsWithMembership

LEMMA AccessSteps == ASSUME TypeOK, Access, [Next]_vars PROVE Access'
<1> USE DEF organization, oauth
<1>1. ASSUME NEW r \in Requests, NEW t \in Tokens, NEW kind \in {"session", "api"},
             IssueToken(r, t, kind)
      PROVE  Access'
  <2> DEFINE new == [kind |-> kind, org |-> request[r].org, since |-> request[r].since,
                     late |-> Overtaken(request[r].org, request[r].since)]
  <2>1. token' = [token EXCEPT ![t] = new] /\ UNCHANGED member  BY <1>1 DEF IssueToken
  <2>2. Standing(new)  BY OvertakenTyped, Zenon DEF Standing
  <2> HIDE DEF new
  <2> QED  BY <2>1, <2>2, AccessKept DEF TypeOK
<1>2. ASSUME NEW r \in Requests, Activate(r) PROVE Access'
  <2> DEFINE q == request[r]
             x == token[q.session]
             late == Overtaken(q.to, q.since)
             new == [x EXCEPT !.org = q.to, !.since = q.since, !.late = late]
  <2>1. CASE q.to = q.org
    BY <1>2, <2>1, AccessKept DEF Activate
  <2>2. CASE q.to # q.org
    <3>0. q \in Activating
      BY <1>2 DEF Activate, TypeOK, Idle, Entering, Known, Activating, Scoped, Consented
    <3>1. q.session \in Tokens  BY <3>0 DEF Activating
    <3>2. x \in Token  BY <1>2, <2>2, <3>1 DEF Activate, TypeOK
    <3>3. token' = [token EXCEPT ![q.session] = new]  BY <1>2, <2>2, Zenon DEF Activate
    <3>4. new.org = q.to /\ new.since = q.since /\ new.late = late
      <4> HIDE DEF late
      <4> QED  BY <3>2 DEF Token
    <3> HIDE DEF new
    <3>5. Standing(new)  BY <3>4 DEF Standing
    <3>6. UNCHANGED member  BY <1>2 DEF Activate
    <3> HIDE DEF q
    <3> QED  BY <3>1, <3>3, <3>5, <3>6, AccessKept DEF TypeOK
  <2> QED  BY <2>1, <2>2
<1>3. ASSUME NEW r \in Requests, NEW t \in Tokens, Revoke(r, t) PROVE Access'
  BY <1>3, AccessKept DEF Revoke, EndTokens
<1>4. ASSUME NEW r \in Requests, NEW o \in Organizations, CreateOrganization(r, o) PROVE Access'
  <2> DEFINE new == [since |-> 1, active |-> TRUE]
  <2>1. ~member[o].active  BY <1>4 DEF CreateOrganization, Access, Joined
  <2>2. member' = [member EXCEPT ![o] = new] /\ new.since # 0 /\ UNCHANGED token
    BY <1>4 DEF CreateOrganization
  <2> HIDE DEF new
  <2> QED  BY <2>1, <2>2, NoneStands, AccessOfOne
<1>5. ASSUME NEW o \in Organizations, Join(o) PROVE Access'
  <2> DEFINE n == member[o].since + 1
  <2>1. n # 0  BY DEF TypeOK, Member
  <2>2. member' = [member EXCEPT ![o] = [since |-> n, active |-> TRUE]]  BY <1>5, Zenon DEF Join
  <2>3. ~member[o].active /\ UNCHANGED token  BY <1>5 DEF Join
  <2> HIDE DEF n
  <2> QED  BY <2>1, <2>2, <2>3, NoneStands, AccessOfOne
<1>6. ASSUME NEW o \in Organizations, RemoveMember(o) PROVE Access'
  <2> DEFINE new == [member[o] EXCEPT !.active = FALSE]
  <2>1. member' = [member EXCEPT ![o] = new]  BY <1>6, Zenon DEF RemoveMember, TypeOK
  <2>2. ~new.active  BY DEF TypeOK, Member
  <2>3. \A t \in Tokens :
          token'[t] = IF token[t] # NoToken /\ token[t].org = o THEN NoToken ELSE token[t]
    BY <1>6 DEF RemoveMember, EndTokens
  <2> HIDE DEF new
  <2> QED  BY <2>1, <2>2, <2>3, AccessOfOne
<1>7. ASSUME UNCHANGED <<member, token>> PROVE Access'
  BY <1>7, AccessKept
<1>8. ASSUME NEW r \in Requests
      PROVE  /\ \A o \in Scopes : Login(r, o) => UNCHANGED <<member, token>>
             /\ \A t \in Tokens : Identify(r, t) \/ CurrentUser(r, t) => UNCHANGED <<member, token>>
             /\ \A o \in Organizations : ActivateCheck(r, o) => UNCHANGED <<member, token>>
             /\ \A c \in Consents : Connect(r, c) \/ Callback(r, c) => UNCHANGED <<member, token>>
             /\ StoreConnection(r) \/ Disconnect(r) \/ Count(r) \/ Fail(r)
                   => UNCHANGED <<member, token>>
  BY DEF Login, Identify, CurrentUser, ActivateCheck, Connect, Callback, StoreConnection,
         Disconnect, Count, Fail
<1>9. /\ \A c \in Consents : Expire(c) => UNCHANGED <<member, token>>
      /\ \A o \in Organizations : HandOver(o) => UNCHANGED <<member, token>>
      /\ UNCHANGED vars => UNCHANGED <<member, token>>
  BY DEF Expire, HandOver, vars
<1> QED
  BY <1>1, <1>2, <1>3, <1>4, <1>5, <1>6, <1>7, <1>8, <1>9 DEF Next

\* Who is removed and comes back starts anew: of the earlier time only what the removal
\* overtook works again, for any number of sessions, keys and returns (remove_member,
\* accept_invitation, current_user).
THEOREM AccessEndsWithTheMembership == Spec => []AccessEndsWithMembership
BY TenancyTypeCorrect, AccessInitially, AccessSteps, PTL DEF Spec, Access

================================================================================
