-------------------------------- MODULE Tenancy ---------------------------------
(***************************************************************************)
(* One person in several organizations (src/openclm/db.py, security.py,    *)
(* accounts.py, oauth.py, salesforce.py): the organization that a session  *)
(* or key is bound to, the scope that TenantSession gives a request, what  *)
(* a switch of organization takes along, and what removal and return do.   *)
(*                                                                         *)
(* A request copies the organization of its session and works in it to the *)
(* end, whatever other tabs, other members and the person's other requests *)
(* do meanwhile.  Other people's actions on the membership are one step:   *)
(* Membership.tla has their details.                                       *)
(***************************************************************************)
EXTENDS Naturals, FiniteSets

CONSTANTS
    Organizations,
    Requests,       \* request slots of the thread pool
    MaxTokens,      \* bound: sessions and API keys at a time
    Consents,       \* bound: OAuth authorizations under way
    MaxJoins,       \* bound: times that one organization is joined
    MaxOwned        \* settings.max_organizations_per_user

ASSUME TenancyAssumption ==
    /\ "none" \notin Organizations
    /\ MaxTokens \in Nat /\ MaxJoins \in Nat /\ MaxOwned \in Nat

VARIABLES
    member,         \* the person's rows of memberships
    owner,          \* organizations of which the person is the owner
    userLock,       \* the request that holds the users row, if any
    token,          \* the person's sessions and API keys
    consent,        \* the oauth_states and salesforce_states of the person
    connection,     \* the person's row of docusign_connections or salesforce_connections
    request         \* the handlers in flight

organization == <<member, owner>>
oauth == <<consent, connection>>
vars == <<organization, userLock, token, oauth, request>>

--------------------------------------------------------------------------------
(* Rows and handlers.                                                       *)

None == "none"
Tokens == 1..MaxTokens
Scopes == Organizations \cup {None}

\* since: which of the person's memberships of the organization it is.
Member == [since: Nat, active: BOOLEAN]

\* late: issued or switched by a request that a removal has overtaken.
Token == [kind: {"session", "api"}, org: Scopes, since: Nat, late: BOOLEAN]
NoToken == [kind |-> None]

Consent == [session: Tokens, org: Organizations]
NoConsent == [org |-> None]

\* asked: the organization in which the person chose to connect.
Connection == [org: Organizations, asked: Organizations]
NoConnection == [org |-> None]

Idle == [pc |-> "idle"]
Entering == [pc: {"entering"}, org: Scopes, since: Nat]
Known == [pc: {"known", "counted"}, session: Tokens, org: Scopes]
Activating == [pc: {"activating"}, session: Tokens, org: Scopes, to: Organizations, since: Nat]
Scoped == [pc: {"scoped"}, session: Tokens, kind: {"session", "api"}, org: Organizations, since: Nat]
Consented == [pc: {"consented"}, org: Organizations, asked: Organizations]

\* The session or key that a handler works with: its identifier is not given again.
Session(r) ==
    IF request[r].pc \in {"known", "counted", "activating", "scoped"}
    THEN {request[r].session} ELSE {}

IsNext(t) ==
    LET Free(s) == token[s] = NoToken /\ \A r \in Requests : s \notin Session(r) IN
    Free(t) /\ \A s \in 1..(t - 1) : ~Free(s)

Since(o) == IF o = None THEN 0 ELSE member[o].since

Overtaken(o, since) == o # None /\ (~member[o].active \/ member[o].since # since)

Begin(r, handler) == request[r] = Idle /\ request' = [request EXCEPT ![r] = handler]
Continue(r, handler) == request' = [request EXCEPT ![r] = handler]
End(r) ==
    /\ request' = [request EXCEPT ![r] = Idle]
    /\ userLock' = userLock \ {r}

\* Deleting a session takes its authorizations along (ON DELETE CASCADE).
EndTokens(ended, kept) ==
    /\ token' = [t \in Tokens |-> IF t \in ended THEN NoToken ELSE token[t]]
    /\ consent' = [c \in Consents |->
         IF kept[c] # NoConsent /\ kept[c].session \in ended THEN NoConsent ELSE kept[c]]

Init ==
    /\ member = [o \in Organizations |-> [since |-> 0, active |-> FALSE]]
    /\ owner = {}
    /\ userLock = {}
    /\ token = [t \in Tokens |-> NoToken]
    /\ consent = [c \in Consents |-> NoConsent]
    /\ connection = NoConnection
    /\ request = [r \in Requests |-> Idle]

--------------------------------------------------------------------------------
(* Signing in and out.                                                      *)

\* login reads one of the active memberships, if there is one.
Login(r, o) ==
    /\ IF \E p \in Organizations : member[p].active THEN o # None /\ member[o].active
       ELSE o = None
    /\ Begin(r, [pc |-> "entering", org |-> o, since |-> Since(o)])
    /\ UNCHANGED <<organization, userLock, token, oauth>>

\* issue_token, in the scope of the request.
IssueToken(r, t, kind) ==
    LET q == request[r] IN
    /\ q.pc = IF kind = "session" THEN "entering" ELSE "scoped"
    /\ IsNext(t)
    /\ token' = [token EXCEPT ![t] =
         [kind |-> kind, org |-> q.org, since |-> q.since, late |-> Overtaken(q.org, q.since)]]
    /\ End(r)
    /\ UNCHANGED <<organization, oauth>>

\* identity_user: the token is read, the organization is not looked at.
Identify(r, t) ==
    /\ token[t] # NoToken
    /\ token[t].kind = "session"
    /\ Begin(r, [pc |-> "known", session |-> t, org |-> token[t].org])
    /\ UNCHANGED <<organization, userLock, token, oauth>>

\* current_user: an active membership of the token's organization gives the scope.  (A
\* page of another organization is refused.)
CurrentUser(r, t) ==
    /\ token[t] # NoToken
    /\ token[t].org # None
    /\ member[token[t].org].active
    /\ Begin(r, [pc |-> "scoped", session |-> t, kind |-> token[t].kind, org |-> token[t].org,
                 since |-> Since(token[t].org)])
    /\ UNCHANGED <<organization, userLock, token, oauth>>

\* logout, or revoke_api_key for a key of the scope.
Revoke(r, t) ==
    /\ \/ request[r].pc = "known" /\ t = request[r].session
       \/ /\ request[r].pc = "scoped"
          /\ token[t] # NoToken
          /\ token[t].kind = "api" /\ token[t].org = request[r].org
    /\ EndTokens({t}, consent)
    /\ End(r)
    /\ UNCHANGED <<organization, connection>>

--------------------------------------------------------------------------------
(* Switching.                                                               *)

ActivateCheck(r, o) ==
    /\ request[r].pc = "known"
    /\ member[o].active
    /\ Continue(r, [pc |-> "activating", session |-> request[r].session,
                    org |-> request[r].org, to |-> o, since |-> Since(o)])
    /\ UNCHANGED <<organization, userLock, token, oauth>>

\* The authorizations of the old organization go; a session that is in the organization
\* already, as the copy has it, is not written; one that is gone cannot be.
Activate(r) ==
    LET q == request[r] IN
    /\ q.pc = "activating"
    /\ q.to # q.org => token[q.session] # NoToken
    /\ consent' = [c \in Consents |->
         IF consent[c] # NoConsent /\ consent[c].session = q.session /\ consent[c].org = q.org
         THEN NoConsent ELSE consent[c]]
    /\ token' = IF q.to = q.org THEN token
                ELSE [token EXCEPT ![q.session] =
                        [@ EXCEPT !.org = q.to, !.since = q.since, !.late = Overtaken(q.to, q.since)]]
    /\ End(r)
    /\ UNCHANGED <<organization, connection>>

--------------------------------------------------------------------------------
(* Connecting.                                                              *)

Connect(r, c) ==
    LET q == request[r] IN
    /\ q.pc = "scoped" /\ q.kind = "session"
    /\ consent[c] = NoConsent
    /\ token[q.session] # NoToken
    /\ consent' = [consent EXCEPT ![c] = [session |-> q.session, org |-> q.org]]
    /\ End(r)
    /\ UNCHANGED <<organization, token, connection>>

\* Faulty: the lookup is not limited to the scope.
CallbackAnywhere(r, c) ==
    LET q == request[r] IN
    /\ q.pc = "scoped"
    /\ consent[c] # NoConsent
    /\ consent[c].session = q.session
    /\ consent' = [consent EXCEPT ![c] = NoConsent]
    /\ Continue(r, [pc |-> "consented", org |-> q.org, asked |-> consent[c].org])
    /\ UNCHANGED <<organization, userLock, token, connection>>

\* callback finds, through TenantSession.get, only what is of its scope.
Callback(r, c) ==
    LET q == request[r] IN
    /\ q.pc = "scoped"
    /\ consent[c] # NoConsent
    /\ consent[c].org = q.org
    /\ consent[c].session = q.session
    /\ consent' = [consent EXCEPT ![c] = NoConsent]
    /\ Continue(r, [pc |-> "consented", org |-> q.org, asked |-> consent[c].org])
    /\ UNCHANGED <<organization, userLock, token, connection>>

\* tenant_writes gives a new row the scope.  The key of the table is the person, so a
\* row of another organization, which the request does not see, refuses the insert.
StoreConnection(r) ==
    /\ request[r].pc = "consented"
    /\ connection.org \in {None, request[r].org}
    /\ connection' = [org |-> request[r].org, asked |-> request[r].asked]
    /\ End(r)
    /\ UNCHANGED <<organization, token, consent>>

\* disconnect sees the connection and the authorizations of its scope.
Disconnect(r) ==
    LET q == request[r] IN
    /\ q.pc = "scoped"
    /\ connection.org = q.org
    /\ connection' = NoConnection
    /\ consent' = [c \in Consents |-> IF consent[c].org = q.org THEN NoConsent ELSE consent[c]]
    /\ End(r)
    /\ UNCHANGED <<organization, token>>

\* The ten minutes of an authorization are over.
Expire(c) ==
    /\ consent[c] # NoConsent
    /\ consent' = [consent EXCEPT ![c] = NoConsent]
    /\ UNCHANGED <<organization, userLock, token, connection, request>>

--------------------------------------------------------------------------------
(* Organizations.                                                           *)

\* Faulty: the organizations are counted without the users row.
CountUnlocked(r) ==
    /\ request[r].pc = "known"
    /\ Cardinality(owner) < MaxOwned
    /\ Continue(r, [request[r] EXCEPT !.pc = "counted"])
    /\ UNCHANGED <<organization, userLock, token, oauth>>

\* new_organization takes the users row, then counts.
Count(r) ==
    /\ request[r].pc = "known"
    /\ userLock = {}
    /\ Cardinality(owner) < MaxOwned
    /\ userLock' = {r}
    /\ Continue(r, [request[r] EXCEPT !.pc = "counted"])
    /\ UNCHANGED <<organization, token, oauth>>

CreateOrganization(r, o) ==
    /\ request[r].pc = "counted"
    /\ member[o].since = 0
    /\ member' = [member EXCEPT ![o] = [since |-> 1, active |-> TRUE]]
    /\ owner' = owner \cup {o}
    /\ End(r)
    /\ UNCHANGED <<token, oauth>>

\* accept_invitation: a return keeps the row of the membership.
Join(o) ==
    /\ ~member[o].active
    /\ member[o].since < MaxJoins
    /\ member' = [member EXCEPT ![o] = [since |-> @.since + 1, active |-> TRUE]]
    /\ UNCHANGED <<owner, userLock, token, oauth, request>>

\* Faulty: sessions and keys are left to the test of the membership.
RemoveMemberKeepingTokens(o) ==
    /\ member[o].active /\ o \notin owner
    /\ member' = [member EXCEPT ![o].active = FALSE]
    /\ consent' = [c \in Consents |-> IF consent[c].org = o THEN NoConsent ELSE consent[c]]
    /\ connection' = IF connection.org = o THEN NoConnection ELSE connection
    /\ UNCHANGED <<owner, userLock, token, request>>

\* remove_member, by an administrator of that organization and in its scope.
RemoveMember(o) ==
    /\ member[o].active /\ o \notin owner
    /\ member' = [member EXCEPT ![o].active = FALSE]
    /\ EndTokens({t \in Tokens : token[t] # NoToken /\ token[t].org = o},
                 [c \in Consents |-> IF consent[c].org = o THEN NoConsent ELSE consent[c]])
    /\ connection' = IF connection.org = o THEN NoConnection ELSE connection
    /\ UNCHANGED <<owner, userLock, request>>

\* transfer_ownership, by this person.  What others hand over to this person is left
\* out: it is neither counted nor refused.
HandOver(o) ==
    /\ o \in owner
    /\ owner' = owner \ {o}
    /\ UNCHANGED <<member, userLock, token, oauth, request>>

\* A refusal, an error or the end of the process: a rollback.
Fail(r) ==
    /\ request[r] # Idle
    /\ End(r)
    /\ UNCHANGED <<organization, token, oauth>>

--------------------------------------------------------------------------------

Next ==
    \/ \E r \in Requests, o \in Scopes : Login(r, o)
    \/ \E r \in Requests, t \in Tokens, kind \in {"session", "api"} : IssueToken(r, t, kind)
    \/ \E r \in Requests, t \in Tokens : Identify(r, t) \/ CurrentUser(r, t) \/ Revoke(r, t)
    \/ \E r \in Requests, o \in Organizations : ActivateCheck(r, o)
    \/ \E r \in Requests : Activate(r)
    \/ \E r \in Requests, c \in Consents : Connect(r, c) \/ Callback(r, c)
    \/ \E r \in Requests : StoreConnection(r) \/ Disconnect(r)
    \/ \E c \in Consents : Expire(c)
    \/ \E r \in Requests : Count(r)
    \/ \E r \in Requests, o \in Organizations : CreateOrganization(r, o)
    \/ \E o \in Organizations : Join(o) \/ RemoveMember(o) \/ HandOver(o)
    \/ \E r \in Requests : Fail(r)

Spec == Init /\ [][Next]_vars

--------------------------------------------------------------------------------
(* Properties.                                                              *)

\* The rows and the handlers are of their types.
TypeOK ==
    /\ member \in [Organizations -> Member]
    /\ owner \subseteq Organizations
    /\ userLock \subseteq Requests
    /\ token \in [Tokens -> Token \cup {NoToken}]
    /\ consent \in [Consents -> Consent \cup {NoConsent}]
    /\ connection \in Connection \cup {NoConnection}
    /\ request \in [Requests -> {Idle} \cup Entering \cup Known \cup Activating
                                   \cup Scoped \cup Consented]

\* A connection is of the organization in which the person chose to connect, although
\* the session may have been switched, and switched back, before the browser returns
\* from the provider (connect, activate_organization, callback).
ConnectedWhereAsked == connection # NoConnection => connection.org = connection.asked

\* Who is removed and later invited back starts anew: a session or a key of the earlier
\* time works again only if the removal overtook the request that made it.
AccessEndsWithMembership ==
    \A t \in Tokens :
        token[t] # NoToken /\ token[t].org # None =>
            token[t].late \/ ~Overtaken(token[t].org, token[t].since)

\* Concurrent creations stay within the limit of organizations (new_organization).
OwnedLimit == Cardinality(owner) <= MaxOwned
================================================================================
