---------------------------- MODULE OAuthConnection -----------------------------
(***************************************************************************)
(* One person's connection of a provider: DocuSign (src/openclm/oauth.py)  *)
(* or Salesforce (src/openclm/salesforce.py), which keep tables and        *)
(* handlers of their own and never meet, so each behaviour has one of      *)
(* them.  The consent creates the row, a refresh renews its tokens, a      *)
(* disconnect or the person's removal from an organization deletes it;     *)
(* sends, inspections and links use it.  A handler works on its own copy   *)
(* of the row between a call of the provider and the commit; an UPDATE or  *)
(* DELETE of an object tests the revision that the copy was read with.     *)
(*                                                                         *)
(* The provider is outside: every authorization is a grant for the account *)
(* (at Salesforce, the instance) that the person chose, and a refresh      *)
(* replaces the refresh token, so the n-th one of a grant is valid until   *)
(* it is used.                                                             *)
(***************************************************************************)
EXTENDS Naturals

CONSTANTS
    Accounts,
    Authorizations,     \* bound: consents that are started
    Contracts,
    Requests,           \* request slots of the thread pool
    MaxRefreshes,       \* bound: refreshes of one grant
    MaxDeletions        \* bound: deletions of the row

ASSUME ConnectionAssumption ==
    /\ MaxRefreshes \in Nat
    /\ MaxDeletions \in Nat

VARIABLES
    provider,       \* "docusign" or "salesforce"
    connection,     \* the row of docusign_connections or salesforce_connections, if any
    state,          \* the oauth_states or salesforce_states
    signature,      \* the requests for signature that the person sent
    link,           \* the salesforce_links of the contracts
    request,        \* the handlers in flight
    grant,          \* the provider: account, valid refresh token, last access token that ended
    lost,           \* grants whose newest refresh token a crash took along
    erased,         \* grants whose tokens a disconnect erased
    deletions       \* how often the row was deleted

history == <<lost, erased, deletions>>
uses == <<provider, signature, link>>
vars == <<connection, state, uses, request, grant, history>>

--------------------------------------------------------------------------------
(* Rows and handlers.                                                       *)

NoConnection == [revision |-> 0]
Connection == [account: Accounts, grant: Authorizations, token: Nat, revision: Nat \ {0}]

NoSignature == [account |-> "none"]
Signature == [account: Accounts, resolved: BOOLEAN]

\* via: the grant whose tokens found the opportunity.
NoLink == [account |-> "none"]
Linked == [account: Accounts, via: Authorizations]

NoGrant == [token |-> 0]
Grant == [account: Accounts, token: Nat, lapsed: Nat]

Idle == [pc |-> "idle"]
Consenting == [pc: {"consumed", "identified"}, auth: Authorizations]
Storing == [pc: {"loaded", "saving"}, auth: Authorizations, copy: Connection \cup {NoConnection}]
\* Between access_token and the call that needs the token, for one contract;
\* reserved once the request for signature is in the table.
Sending == [pc: {"using", "refreshing", "ready"}, contract: Contracts, reserved: BOOLEAN,
            copy: Connection]
Disconnecting == [pc: {"disconnecting"}, copy: Connection]

Unresolved == {c \in Contracts : signature[c] # NoSignature /\ ~signature[c].resolved}

\* connection.expires_at is more than two minutes away.
Fresh(copy) == grant[copy.grant].lapsed < copy.token

Begin(r, handler) == request[r] = Idle /\ request' = [request EXCEPT ![r] = handler]
Continue(r, handler) == request' = [request EXCEPT ![r] = handler]
Proceed(r, pc, reserved, copy) ==
    Continue(r, [pc |-> pc, contract |-> request[r].contract, reserved |-> reserved,
                 copy |-> copy])
End(r) == request' = [request EXCEPT ![r] = Idle]

Init ==
    /\ provider \in {"docusign", "salesforce"}
    /\ connection = NoConnection
    /\ state = [a \in Authorizations |-> "none"]
    /\ signature = [c \in Contracts |-> NoSignature]
    /\ link = [c \in Contracts |-> NoLink]
    /\ request = [r \in Requests |-> Idle]
    /\ grant = [a \in Authorizations |-> NoGrant]
    /\ lost = {} /\ erased = {} /\ deletions = 0

--------------------------------------------------------------------------------
(* Consent.                                                                 *)

StartAuthorization(a) ==
    /\ state[a] = "none"
    /\ state' = [state EXCEPT ![a] = "open"]
    /\ UNCHANGED <<connection, uses, request, grant, history>>

Connect(a) == provider = "docusign" /\ StartAuthorization(a)

SalesforceConnect(a) == provider = "salesforce" /\ StartAuthorization(a)

\* The ten minutes of an authorization are over.
Expire(a) ==
    /\ state[a] = "open"
    /\ state' = [state EXCEPT ![a] = "used"]
    /\ UNCHANGED <<connection, uses, request, grant, history>>

\* Faulty: the state is looked up and deleted in two steps.
TakeStateUnchecked(r, a) ==
    /\ state[a] # "none" /\ grant[a] = NoGrant
    /\ state' = [state EXCEPT ![a] = "used"]
    /\ Begin(r, [pc |-> "consumed", auth |-> a])
    /\ UNCHANGED <<connection, uses, grant, history>>

\* callback deletes the state, tests that it did, and commits.
TakeState(r, a) ==
    /\ state[a] = "open"
    /\ state' = [state EXCEPT ![a] = "used"]
    /\ Begin(r, [pc |-> "consumed", auth |-> a])
    /\ UNCHANGED <<connection, uses, grant, history>>

Consume(r, a) == provider = "docusign" /\ TakeState(r, a)

SalesforceConsume(r, a) == provider = "salesforce" /\ TakeState(r, a)

\* exchange_token and fetch_identity; exchange and its instance_url.
Identify(r, account) ==
    LET a == request[r].auth IN
    /\ request[r].pc = "consumed"
    /\ grant' = [grant EXCEPT ![a] = [account |-> account, token |-> 1, lapsed |-> 0]]
    /\ Continue(r, [request[r] EXCEPT !.pc = "identified"])
    /\ UNCHANGED <<connection, state, uses, history>>

LoadToStore(r) ==
    /\ provider = "docusign"
    /\ request[r].pc = "identified"
    /\ Continue(r, [pc |-> "loaded", auth |-> request[r].auth, copy |-> connection])
    /\ UNCHANGED <<connection, state, uses, grant, history>>

Mismatch(r) ==
    /\ request[r].copy # NoConnection
    /\ Unresolved # {}
    /\ request[r].copy.account # grant[request[r].auth].account

Accept(r) ==
    /\ request[r].pc = "loaded"
    /\ ~Mismatch(r)
    /\ Continue(r, [request[r] EXCEPT !.pc = "saving"])
    /\ UNCHANGED <<connection, state, uses, grant, history>>

Refuse(r) ==
    /\ request[r].pc = "loaded"
    /\ Mismatch(r)
    /\ End(r)
    /\ UNCHANGED <<connection, state, uses, grant, history>>

\* Salesforce's callback loads the row and stores at once what it got.
SalesforceLoadToStore(r) ==
    /\ provider = "salesforce"
    /\ request[r].pc = "identified"
    /\ Continue(r, [pc |-> "saving", auth |-> request[r].auth, copy |-> connection])
    /\ UNCHANGED <<connection, state, uses, grant, history>>

\* Faulty: a revision that differs is not noticed.
SameRowUnchecked(copy) == connection # NoConnection

\* What an UPDATE or DELETE of the copy's row finds.
SameRow(copy) == connection # NoConnection /\ connection.revision = copy.revision

\* A new row starts at revision 1; an account that is the copy's is not written.
Save(r) ==
    LET q == request[r]
        account == grant[q.auth].account IN
    /\ q.pc = "saving"
    /\ IF q.copy = NoConnection THEN connection = NoConnection ELSE SameRow(q.copy)
    /\ connection' =
         [account |-> IF q.copy # NoConnection /\ q.copy.account = account
                      THEN connection.account ELSE account,
          grant |-> q.auth, token |-> 1, revision |-> q.copy.revision + 1]
    /\ End(r)
    /\ UNCHANGED <<state, uses, grant, history>>

--------------------------------------------------------------------------------
(* Tokens.                                                                  *)

\* Time ends the newest access token of a grant.
Lapse(a) ==
    /\ grant[a] # NoGrant
    /\ grant[a].lapsed < grant[a].token
    /\ grant[a].token <= MaxRefreshes
    /\ grant' = [grant EXCEPT ![a].lapsed = grant[a].token]
    /\ UNCHANGED <<connection, state, uses, request, history>>

\* access_token with a token that is good for two minutes more, or a query that is not
\* answered with 401.
UseToken(r) ==
    /\ request[r].pc = "using"
    /\ Fresh(request[r].copy)
    /\ Continue(r, [request[r] EXCEPT !.pc = "ready"])
    /\ UNCHANGED <<connection, state, uses, grant, history>>

\* The provider is asked for new tokens; it refuses a refresh token that was used.
Renew(r) ==
    LET copy == request[r].copy IN
    /\ request[r].pc = "using"
    /\ ~Fresh(copy)
    /\ copy.token = grant[copy.grant].token
    /\ grant' = [grant EXCEPT ![copy.grant].token = @ + 1]
    /\ Proceed(r, "refreshing", request[r].reserved, [copy EXCEPT !.token = @ + 1])
    /\ UNCHANGED <<connection, state, uses, history>>

\* access_token asks before the token ends.
Refresh(r) == provider = "docusign" /\ Renew(r)

\* query asks after the first 401.
SalesforceRefresh(r) == provider = "salesforce" /\ Renew(r)

\* Faulty: the refresh token that came with the access token is dropped.
SaveTokensAccessOnly(r) ==
    /\ request[r].pc = "refreshing"
    /\ SameRow(request[r].copy)
    /\ connection' = [connection EXCEPT !.revision = @ + 1]
    /\ Proceed(r, "ready", request[r].reserved,
               [request[r].copy EXCEPT !.revision = connection.revision + 1])
    /\ UNCHANGED <<state, uses, grant, history>>

\* The UPDATE sets the tokens and leaves the account as the row has it.
SaveTokens(r) ==
    LET copy == request[r].copy IN
    /\ request[r].pc = "refreshing"
    /\ SameRow(copy)
    /\ connection' = [account |-> connection.account, grant |-> copy.grant,
                      token |-> copy.token, revision |-> connection.revision + 1]
    /\ Proceed(r, "ready", request[r].reserved,
               [copy EXCEPT !.revision = connection.revision + 1])
    /\ UNCHANGED <<state, uses, grant, history>>

--------------------------------------------------------------------------------
(* Sends, inspections and links.                                            *)

\* send_signature reads the connection and looks for usable tokens.
LoadToSend(r, c) ==
    /\ provider = "docusign"
    /\ signature[c] = NoSignature
    /\ connection # NoConnection
    /\ Begin(r, [pc |-> "using", contract |-> c, reserved |-> FALSE, copy |-> connection])
    /\ UNCHANGED <<connection, state, uses, grant, history>>

\* Faulty: the request is reserved for the account that is connected now.
ReserveForConnected(r) ==
    LET q == request[r] IN
    /\ q.pc = "ready" /\ ~q.reserved
    /\ signature[q.contract] = NoSignature
    /\ connection # NoConnection
    /\ signature' = [signature EXCEPT ![q.contract] =
         [account |-> connection.account, resolved |-> FALSE]]
    /\ Proceed(r, "using", TRUE, q.copy)
    /\ UNCHANGED <<provider, link, connection, state, grant, history>>

\* The reservation takes the account of the copy; the client asks for the token again.
Reserve(r) ==
    LET q == request[r] IN
    /\ q.pc = "ready" /\ ~q.reserved
    /\ signature[q.contract] = NoSignature
    /\ signature' = [signature EXCEPT ![q.contract] =
         [account |-> q.copy.account, resolved |-> FALSE]]
    /\ Proceed(r, "using", TRUE, q.copy)
    /\ UNCHANGED <<provider, link, connection, state, grant, history>>

\* reconcile, for the account that the request was reserved with.
LoadToInspect(r, c) ==
    /\ signature[c] # NoSignature
    /\ connection # NoConnection
    /\ connection.account = signature[c].account
    /\ Begin(r, [pc |-> "using", contract |-> c, reserved |-> TRUE, copy |-> connection])
    /\ UNCHANGED <<connection, state, uses, grant, history>>

\* link_contract (or opportunities): query reads the connection.
LoadToQuery(r, c) ==
    /\ provider = "salesforce"
    /\ connection # NoConnection
    /\ Begin(r, [pc |-> "using", contract |-> c, reserved |-> TRUE, copy |-> connection])
    /\ UNCHANGED <<connection, state, uses, grant, history>>

\* Faulty: the link takes the instance that is connected now.
LinkForConnected(r) ==
    LET q == request[r] IN
    /\ provider = "salesforce"
    /\ q.pc = "ready"
    /\ connection # NoConnection
    /\ link' = [link EXCEPT ![q.contract] = [account |-> connection.account, via |-> q.copy.grant]]
    /\ End(r)
    /\ UNCHANGED <<provider, signature, connection, state, grant, history>>

\* link_contract: the opportunity was found, and the link names the copy's instance.
Link(r) ==
    LET q == request[r] IN
    /\ provider = "salesforce"
    /\ q.pc = "ready"
    /\ link' = [link EXCEPT ![q.contract] = [account |-> q.copy.account, via |-> q.copy.grant]]
    /\ End(r)
    /\ UNCHANGED <<provider, signature, connection, state, grant, history>>

\* The call of the provider is made and answered.
Call(r) ==
    /\ request[r].pc = "ready" /\ request[r].reserved
    /\ End(r)
    /\ UNCHANGED <<connection, state, uses, grant, history>>

\* The envelope is completed, declined or voided.
Resolve(c) ==
    /\ c \in Unresolved
    /\ signature' = [signature EXCEPT ![c].resolved = TRUE]
    /\ UNCHANGED <<provider, link, connection, state, request, grant, history>>

--------------------------------------------------------------------------------
(* Disconnect, and the end of handlers.                                     *)

LoadToDisconnect(r) ==
    /\ provider = "docusign"
    /\ connection # NoConnection
    /\ deletions < MaxDeletions
    /\ Begin(r, [pc |-> "disconnecting", copy |-> connection])
    /\ UNCHANGED <<connection, state, uses, grant, history>>

\* The connection and the authorizations that are still open are deleted.
DeleteConnection ==
    /\ connection' = NoConnection
    /\ state' = [a \in Authorizations |-> IF state[a] = "open" THEN "used" ELSE state[a]]
    /\ deletions' = deletions + 1
    /\ UNCHANGED <<uses, grant, lost>>

EraseTokens ==
    erased' = IF connection = NoConnection THEN erased ELSE erased \cup {connection.grant}

Disconnect(r) ==
    /\ request[r].pc = "disconnecting"
    /\ SameRow(request[r].copy)
    /\ DeleteConnection
    /\ EraseTokens
    /\ End(r)

\* Salesforce's disconnect deletes whatever row there is, by one statement.
SalesforceDisconnect ==
    /\ provider = "salesforce"
    /\ deletions < MaxDeletions
    /\ DeleteConnection
    /\ EraseTokens
    /\ UNCHANGED request

\* So does remove_member, of one of the person's organizations; in the others the person
\* goes on.
RemoveMember ==
    /\ deletions < MaxDeletions
    /\ DeleteConnection
    /\ UNCHANGED <<request, erased>>

\* The row is not the one that the handler read: the commit fails.
Stale(r) ==
    /\ \/ request[r].pc \in {"refreshing", "disconnecting"} /\ ~SameRow(request[r].copy)
       \/ /\ request[r].pc = "saving"
          /\ IF request[r].copy = NoConnection THEN connection # NoConnection
             ELSE ~SameRow(request[r].copy)
    /\ End(r)
    /\ UNCHANGED <<connection, state, uses, grant, history>>

\* The provider refuses, is not reached or names another instance, or the process stops.
Fail(r) ==
    /\ request[r] # Idle
    /\ End(r)
    /\ lost' = IF request[r].pc = "refreshing" THEN lost \cup {request[r].copy.grant} ELSE lost
    /\ UNCHANGED <<connection, state, uses, grant, erased, deletions>>

--------------------------------------------------------------------------------

Next ==
    \/ \E a \in Authorizations : Connect(a) \/ SalesforceConnect(a) \/ Expire(a) \/ Lapse(a)
    \/ \E r \in Requests, a \in Authorizations : Consume(r, a) \/ SalesforceConsume(r, a)
    \/ \E r \in Requests, account \in Accounts : Identify(r, account)
    \/ \E r \in Requests : LoadToStore(r) \/ SalesforceLoadToStore(r)
    \/ \E r \in Requests : Accept(r) \/ Refuse(r) \/ Save(r)
    \/ \E r \in Requests : UseToken(r) \/ Refresh(r) \/ SalesforceRefresh(r) \/ SaveTokens(r)
    \/ \E r \in Requests, c \in Contracts : LoadToSend(r, c) \/ LoadToInspect(r, c) \/ LoadToQuery(r, c)
    \/ \E r \in Requests : Reserve(r) \/ Link(r) \/ Call(r)
    \/ \E c \in Contracts : Resolve(c)
    \/ \E r \in Requests : LoadToDisconnect(r) \/ Disconnect(r)
    \/ SalesforceDisconnect
    \/ RemoveMember
    \/ \E r \in Requests : Stale(r) \/ Fail(r)

Spec == Init /\ [][Next]_vars

--------------------------------------------------------------------------------
(* Properties.                                                              *)

\* The rows, the handlers and the grants are of their types.
TypeOK ==
    /\ provider \in {"docusign", "salesforce"}
    /\ link \in [Contracts -> Linked \cup {NoLink}]
    /\ connection \in Connection \cup {NoConnection}
    /\ state \in [Authorizations -> {"none", "open", "used"}]
    /\ signature \in [Contracts -> Signature \cup {NoSignature}]
    /\ request \in [Requests ->
         {Idle} \cup Consenting \cup Storing \cup Sending \cup Disconnecting]
    /\ grant \in [Authorizations -> Grant \cup {NoGrant}]

\* The code of an authorization is exchanged by one callback only, although the
\* browser may repeat the redirect (callback).
ExchangedOnce ==
    \A r, q \in Requests :
        /\ request[r].pc \in {"consumed", "identified", "loaded", "saving"}
        /\ request[q].pc \in {"consumed", "identified", "loaded", "saving"}
        /\ request[r].auth = request[q].auth
        => r = q

\* DocuSign is asked about a request only in the account that it was reserved with,
\* whatever reconnects in the meantime (send_signature, reconcile).
AskedInItsAccount ==
    \A r \in Requests :
        provider = "docusign" /\ request[r].pc = "ready" /\ request[r].reserved =>
            request[r].copy.account = signature[request[r].contract].account

\* While nothing deletes the row (a disconnect or a removal), the tokens of the row
\* belong to its account, although a refresh and a callback write different columns of
\* it (access_token, callback).
TokensOfAccountKept ==
    connection # NoConnection /\ deletions = 0 =>
        grant[connection.grant].account = connection.account

\* "Desconectar apaga os tokens locais" (docs/docusign.md): what a disconnect erased is
\* not in the row again, whichever handlers were under way (disconnect, access_token).
ErasedForGood ==
    provider = "docusign" /\ connection # NoConnection => connection.grant \notin erased

\* The refresh token in the row is the one DocuSign accepts, or a handler is about to
\* store it: no two refreshes of the same grant make the connection useless.
RefreshTokenUsable ==
    connection # NoConnection /\ connection.grant \notin lost =>
        \/ connection.token = grant[connection.grant].token
        \/ \E r \in Requests :
              /\ request[r].pc = "refreshing"
              /\ request[r].copy.grant = connection.grant
              /\ request[r].copy.token = grant[connection.grant].token

\* While nothing deletes the row, a contract's link leads to the instance in which the
\* opportunity was found, although a callback may connect another one between the query
\* and the link (query, link_contract).
LinkNamesItsInstance ==
    \A c \in Contracts :
        link[c] # NoLink /\ deletions = 0 => grant[link[c].via].account = link[c].account
================================================================================
