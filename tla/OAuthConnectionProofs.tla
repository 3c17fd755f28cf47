-------------------------- MODULE OAuthConnectionProofs --------------------------
(***************************************************************************)
(* A person's connection, for any number of consents, handlers, refreshes  *)
(* and deletions: which tokens the row holds, and for which account a      *)
(* handler uses its copy.                                                  *)
(*                                                                         *)
(* A revision does not identify a row, because a new row starts at 1 again.*)
(* A refresh token does: the provider accepts it once, so whoever renewed  *)
(* it is alone with the new one (Renewed), and a row that still is of that *)
(* grant has not been written since (SameTokens).  Accounts have no such   *)
(* witness; what is said of them holds until the row is deleted (Kept).    *)
(***************************************************************************)
EXTENDS OAuthConnection, TLAPS

USE ConnectionAssumption

--------------------------------------------------------------------------------
(* The invariant.                                                           *)

Callback == {"consumed", "identified", "loaded", "saving"}
Client == {"using", "refreshing", "ready"}
Copying == {"loaded", "saving", "disconnecting"} \cup Client

\* A handler that holds a copy of the row.
Copies(r) == request[r].pc \in Copying /\ request[r].copy # NoConnection

\* ExchangedOnce, from the one use of the state.
StatesUsed ==
    /\ \A a \in Authorizations : grant[a] # NoGrant => state[a] = "used"
    /\ \A r \in Requests : request[r].pc \in Callback => state[request[r].auth] = "used"
    /\ ExchangedOnce

\* The grant of a callback that has not stored it is known to nobody else.
NewGrant(r) ==
    LET a == request[r].auth IN
    /\ request[r].pc = "consumed" => grant[a] = NoGrant
    /\ request[r].pc \in {"identified", "loaded", "saving"} =>
         /\ grant[a] # NoGrant /\ grant[a].token = 1
         /\ connection # NoConnection => connection.grant # a
         /\ \A q \in Requests : request[q].pc \in Client => request[q].copy.grant # a

\* Copies are of grants that were given, and their tokens were handed out.
Given(copy) ==
    copy # NoConnection => grant[copy.grant] # NoGrant /\ copy.token <= grant[copy.grant].token

\* A handler that has renewed the tokens of a grant is the only one to have them, and
\* the row, if it still is of that grant, is the one that it read.
Renewed(r) ==
    LET copy == request[r].copy
        newest == grant[copy.grant].token IN
    request[r].pc = "refreshing" =>
        /\ copy.token = newest
        /\ \A q \in Requests :
             q # r /\ request[q].pc \in Client /\ request[q].copy.grant = copy.grant =>
                request[q].copy.token < newest
        /\ connection # NoConnection /\ connection.grant = copy.grant =>
             /\ connection.token < newest
             /\ copy.grant \notin lost => connection.revision = copy.revision

\* Tokens are in the row at one revision only.
SameTokens(r) ==
    LET copy == request[r].copy IN
    /\ request[r].pc \in {"using", "ready"} /\ connection # NoConnection
    /\ copy.grant = connection.grant /\ copy.token = connection.token
    => copy.revision = connection.revision

Asked(r) ==
    LET q == request[r] IN
    provider = "docusign" /\ q.pc \in Client /\ q.reserved =>
        /\ signature[q.contract] # NoSignature
        /\ q.copy.account = signature[q.contract].account

Matched(copy) == copy # NoConnection => grant[copy.grant].account = copy.account

\* Until the row is deleted, revisions tell the rows apart.
Kept ==
    deletions = 0 =>
        /\ Matched(connection)
        /\ \A r \in Requests : Copies(r) =>
             LET copy == request[r].copy IN
             /\ connection # NoConnection /\ copy.revision <= connection.revision
             /\ copy.revision = connection.revision =>
                  copy.account = connection.account /\ copy.grant = connection.grant
             /\ Matched(copy)
        /\ \A c \in Contracts :
             link[c] # NoLink => grant[link[c].via].account = link[c].account

Inv ==
    /\ TypeOK
    /\ deletions \in Nat
    /\ StatesUsed
    /\ \A r \in Requests : NewGrant(r)
    /\ Given(connection)
    /\ \A r \in Requests : Copies(r) => Given(request[r].copy)
    /\ \A c \in Contracts : link[c] # NoLink => grant[link[c].via] # NoGrant
    /\ \A r \in Requests : Renewed(r) /\ SameTokens(r)
    /\ RefreshTokenUsable
    /\ \A r \in Requests : Asked(r)
    /\ Kept

--------------------------------------------------------------------------------
(* Rows and handlers.                                                       *)

Handlers == {Idle} \cup Consenting \cup Storing \cup Sending \cup Disconnecting

LEMMA Kinds ==
    ASSUME NEW h \in Handlers
    PROVE  /\ h = Idle <=> h.pc = "idle"
           /\ h \in Consenting <=> h.pc \in {"consumed", "identified"}
           /\ h \in Storing <=> h.pc \in {"loaded", "saving"}
           /\ h \in Sending <=> h.pc \in Client
           /\ h \in Disconnecting <=> h.pc = "disconnecting"
BY DEF Handlers, Idle, Consenting, Storing, Sending, Disconnecting, Client

\* What a handler refers to.
LEMMA Refers ==
    ASSUME NEW h \in Handlers
    PROVE  /\ h.pc \in Callback => h.auth \in Authorizations
           /\ h.pc \in Copying => h.copy \in Connection \cup {NoConnection}
           /\ h.pc \in Client \cup {"disconnecting"} => h.copy \in Connection
           /\ h.pc \in Client => h.contract \in Contracts /\ h.reserved \in BOOLEAN
<1>1. CASE h.pc \in {"consumed", "identified"}
  BY <1>1, Kinds DEF Consenting, Callback, Copying, Client
<1>2. CASE h.pc \in {"loaded", "saving"}
  BY <1>2, Kinds DEF Storing, Callback, Copying, Client
<1>3. CASE h.pc \in Client \cup {"disconnecting"}
  BY <1>3, Kinds DEF Sending, Disconnecting, Callback, Copying, Client
<1>4. CASE h.pc \notin {"consumed", "identified", "loaded", "saving", "disconnecting"} \cup Client
  BY <1>4 DEF Callback, Copying, Client
<1> QED  BY <1>1, <1>2, <1>3, <1>4

LEMMA Absent ==
    /\ NoConnection \notin Connection /\ NoSignature \notin Signature
    /\ NoLink \notin Linked /\ NoGrant \notin Grant
BY DEF NoConnection, Connection, NoSignature, Signature, NoLink, Linked, NoGrant, Grant

LEMMA Fields ==
    ASSUME NEW copy \in Connection
    PROVE  /\ copy.account \in Accounts /\ copy.grant \in Authorizations
           /\ copy.token \in Nat /\ copy.revision \in Nat /\ copy.revision > 0
BY DEF Connection

LEMMA Typed ==
    ASSUME TypeOK
    PROVE  /\ \A r \in Requests : request[r] \in Handlers
           /\ \A a \in Authorizations :
                grant[a] # NoGrant => /\ grant[a] \in Grant /\ grant[a].account \in Accounts
                                      /\ grant[a].token \in Nat /\ grant[a].lapsed \in Nat
           /\ connection # NoConnection => connection \in Connection
BY DEF TypeOK, Handlers, Grant

--------------------------------------------------------------------------------
(* A handler goes on or ends, and the row and the grants stay as they are.  *)

Stored == {"identified", "loaded", "saving"}

Move(r, h) ==
    /\ request' = [request EXCEPT ![r] = h]
    /\ UNCHANGED <<provider, connection, grant, deletions>>
    /\ lost \subseteq lost'
    /\ state' \in [Authorizations -> {"none", "open", "used"}]
    /\ signature' \in [Contracts -> Signature \cup {NoSignature}]
    /\ link' \in [Contracts -> Linked \cup {NoLink}]
    /\ \A a \in Authorizations : state[a] = "used" => state'[a] = "used"
    /\ \A c \in Contracts : signature[c] # NoSignature =>
         signature'[c] # NoSignature /\ signature'[c].account = signature[c].account
    /\ \A c \in Contracts :
         \/ link'[c] = link[c]
         \/ /\ Copies(r)
            /\ link'[c].via = request[r].copy.grant
            /\ link'[c].account = request[r].copy.account
    /\ h.pc \in Callback =>
         /\ state'[h.auth] = "used"
         /\ \/ state[h.auth] # "used"
            \/ request[r].pc \in Callback /\ request[r].auth = h.auth
    /\ h.pc = "consumed" => grant[h.auth] = NoGrant
    /\ h.pc \in Stored => request[r].pc \in Stored /\ request[r].auth = h.auth
    /\ h.pc # "refreshing"
    /\ h.pc \in Copying =>
         \/ h.copy = connection
         \/ /\ request[r].pc \in Copying \ {"refreshing"} /\ h.copy = request[r].copy
            /\ h.pc \in Client => request[r].pc \in Client

LEMMA Others ==
    ASSUME TypeOK, NEW r \in Requests, NEW h, request' = [request EXCEPT ![r] = h]
    PROVE  request'[r] = h /\ \A q \in Requests : q # r => request'[q] = request[q]
BY DEF TypeOK

LEMMA MoveTyped ==
    ASSUME Inv, NEW r \in Requests, NEW h \in Handlers, Move(r, h)
    PROVE  TypeOK' /\ deletions' \in Nat
BY DEF Inv, TypeOK, Move, Handlers

LEMMA MoveStates ==
    ASSUME Inv, NEW r \in Requests, NEW h \in Handlers, Move(r, h)
    PROVE  StatesUsed'
<1>1. /\ request'[r] = h /\ \A q \in Requests : q # r => request'[q] = request[q]
      /\ \A q \in Requests : request[q] \in Handlers
  BY Others, Typed DEF Inv, Move
<1>2. \A q \in Requests : request[q].pc \in Callback => request[q].auth \in Authorizations
  BY <1>1, Refers
<1>3. h.pc \in Callback => h.auth \in Authorizations  BY Refers
<1>4. \A a \in Authorizations : grant'[a] # NoGrant => state'[a] = "used"
  BY DEF Inv, StatesUsed, Move
<1>5. \A q \in Requests : request'[q].pc \in Callback => state'[request'[q].auth] = "used"
  BY <1>1, <1>2, <1>3 DEF Inv, StatesUsed, Move
<1>6. ASSUME NEW q \in Requests, q # r, request[q].pc \in Callback, h.pc \in Callback
      PROVE  request[q].auth # h.auth
  BY <1>3, <1>6 DEF Inv, StatesUsed, ExchangedOnce, Move, Callback
<1>7. ExchangedOnce'
  BY <1>1, <1>6 DEF Inv, StatesUsed, ExchangedOnce, Callback
<1> QED  BY <1>4, <1>5, <1>7 DEF StatesUsed

LEMMA MoveGrants ==
    ASSUME Inv, NEW r \in Requests, NEW h \in Handlers, Move(r, h)
    PROVE  /\ \A q \in Requests : NewGrant(q)'
           /\ Given(connection)' /\ \A q \in Requests : (Copies(q) => Given(request[q].copy))'
           /\ \A c \in Contracts : (link[c] # NoLink => grant[link[c].via] # NoGrant)'
<1>1. /\ request'[r] = h /\ \A q \in Requests : q # r => request'[q] = request[q]
      /\ \A q \in Requests : request[q] \in Handlers
  BY Others, Typed DEF Inv, Move
<1>2. \A q \in Requests : NewGrant(q)  BY DEF Inv
<1>3. ASSUME NEW q \in Requests PROVE NewGrant(q)'
  <2>1. request'[q].pc = "consumed" => grant'[request'[q].auth] = NoGrant
    BY <1>1, <1>2 DEF NewGrant, Move
  <2>2. ASSUME request'[q].pc \in Stored
        PROVE  request[q].pc \in Stored /\ request'[q].auth = request[q].auth
    BY <1>1, <2>2 DEF Move
  <2>3. ASSUME request'[q].pc \in Stored, NEW p \in Requests, request'[p].pc \in Client
        PROVE  request'[p].copy.grant # request'[q].auth
    <3>1. /\ \A t \in Requests : request[t].pc \in Client =>
               request[t].copy.grant # request[q].auth
          /\ connection # NoConnection => connection.grant # request[q].auth
      BY <1>2, <2>2, <2>3 DEF NewGrant, Stored
    <3>2. CASE p # r  BY <1>1, <2>2, <2>3, <3>1, <3>2
    <3>3. CASE p = r
      <4>1. h.copy \in Connection /\ h.pc \in Copying
        BY <1>1, <2>3, <3>3, Refers DEF Copying
      <4>2. h.copy # NoConnection  BY <4>1, Absent
      <4> QED  BY <1>1, <2>2, <2>3, <3>1, <3>3, <4>1, <4>2 DEF Move
    <3> QED  BY <3>2, <3>3
  <2> QED  BY <1>2, <2>1, <2>2, <2>3 DEF NewGrant, Move, Stored
<1>4. Given(connection)'  BY DEF Inv, Given, Move
<1>5. ASSUME NEW q \in Requests PROVE (Copies(q) => Given(request[q].copy))'
  <2>1. CASE q # r  BY <1>1, <2>1 DEF Inv, Copies, Given, Move
  <2>2. CASE q = r
    BY <1>1, <2>2 DEF Inv, Copies, Given, Move, Copying
  <2> QED  BY <2>1, <2>2
<1>6. \A c \in Contracts : (link[c] # NoLink => grant[link[c].via] # NoGrant)'
  BY DEF Inv, Move, Copies, Given
<1> QED  BY <1>3, <1>4, <1>5, <1>6

LEMMA MoveTokens ==
    ASSUME Inv, NEW r \in Requests, NEW h \in Handlers, Move(r, h)
    PROVE  \A q \in Requests : Renewed(q)' /\ SameTokens(q)'
<1>1. /\ request'[r] = h /\ \A q \in Requests : q # r => request'[q] = request[q]
      /\ \A q \in Requests : request[q] \in Handlers
  BY Others, Typed DEF Inv, Move
<1>2. /\ h.pc # "refreshing"
      /\ UNCHANGED <<connection, grant>> /\ lost \subseteq lost'
      /\ h.pc \in Client =>
           \/ h.copy = connection /\ connection # NoConnection
           \/ request[r].pc \in {"using", "ready"} /\ h.copy = request[r].copy
  BY Refers, Absent DEF Move, Client, Copying
<1>3. ASSUME NEW q \in Requests PROVE SameTokens(q)'
  BY <1>1, <1>2 DEF Inv, SameTokens, Client
<1>4. ASSUME NEW q \in Requests PROVE Renewed(q)'
  <2>1. Renewed(q)  BY DEF Inv
  <2>2. CASE q = r  BY <1>1, <1>2, <2>2 DEF Renewed
  <2>3. CASE q # r /\ request[q].pc = "refreshing"
    <3>1. ASSUME NEW p \in Requests, p # q, request'[p].pc \in Client,
                 request'[p].copy.grant = request[q].copy.grant
          PROVE  request'[p].copy.token < grant[request[q].copy.grant].token
      BY <1>1, <1>2, <2>1, <2>3, <3>1 DEF Renewed, Client
    <3> QED  BY <1>1, <1>2, <2>1, <2>3, <3>1 DEF Renewed
  <2>4. CASE q # r /\ request[q].pc # "refreshing"  BY <1>1, <2>4 DEF Renewed
  <2> QED  BY <2>2, <2>3, <2>4
<1> QED  BY <1>3, <1>4

LEMMA MoveAsked ==
    ASSUME Inv, NEW r \in Requests, NEW h \in Handlers, Move(r, h), Asked(r)'
    PROVE  \A q \in Requests : Asked(q)'
<1>1. /\ \A q \in Requests : q # r => request'[q] = request[q]
      /\ \A q \in Requests : request[q] \in Handlers
  BY Others, Typed DEF Inv, Move
<1>2. \A q \in Requests : request[q].pc \in Client => request[q].contract \in Contracts
  BY <1>1, Refers
<1> QED  BY <1>1, <1>2 DEF Inv, Asked, Move

LEMMA MoveKept ==
    ASSUME Inv, NEW r \in Requests, NEW h \in Handlers, Move(r, h)
    PROVE  Kept'
<1> SUFFICES ASSUME deletions = 0 PROVE Kept'  BY DEF Kept, Move
<1>1. /\ request'[r] = h /\ \A q \in Requests : q # r => request'[q] = request[q]
  BY Others DEF Inv, Move
<1>2. Kept /\ UNCHANGED <<connection, grant, deletions>>  BY DEF Inv, Move
<1>3. Matched(connection)'  BY <1>2 DEF Kept, Matched
<1>4. ASSUME NEW q \in Requests, Copies(q)'
      PROVE  LET copy == request'[q].copy IN
             /\ connection # NoConnection /\ copy.revision <= connection.revision
             /\ copy.revision = connection.revision =>
                  copy.account = connection.account /\ copy.grant = connection.grant
             /\ grant[copy.grant].account = copy.account
  <2>1. CASE Copies(q) /\ request'[q].copy = request[q].copy
    BY <1>2, <2>1 DEF Kept, Matched, Copies
  <2>2. CASE request'[q].copy = connection
    <3>1. connection # NoConnection  BY <1>4, <2>2 DEF Copies
    <3>2. connection.revision \in Nat  BY <3>1, Typed, Fields DEF Inv
    <3> QED  BY <1>2, <2>2, <3>1, <3>2 DEF Kept, Matched
  <2> QED  BY <1>1, <1>4, <2>1, <2>2 DEF Move, Copies, Copying
<1>5. \A c \in Contracts :
        link'[c] # NoLink => grant[link'[c].via].account = link'[c].account
  BY <1>2 DEF Move, Kept, Matched, Copies
<1> QED  BY <1>2, <1>3, <1>4, <1>5 DEF Kept, Matched

LEMMA Moves ==
    ASSUME Inv, NEW r \in Requests, NEW h \in Handlers, Move(r, h), Asked(r)',
           RefreshTokenUsable'
    PROVE  Inv'
BY MoveTyped, MoveStates, MoveGrants, MoveTokens, MoveAsked, MoveKept DEF Inv

\* A handler without a refresh takes no token along.
LEMMA MoveUsable ==
    ASSUME Inv, NEW r \in Requests, NEW h \in Handlers, Move(r, h),
           request[r].pc # "refreshing"
    PROVE  RefreshTokenUsable'
<1>1. \A q \in Requests : q # r => request'[q] = request[q]  BY Others DEF Inv, Move
<1> QED  BY <1>1 DEF Inv, RefreshTokenUsable, Move

--------------------------------------------------------------------------------
(* The steps of that kind.                                                  *)

\* A handler ends.
LEMMA Ends ==
    ASSUME Inv, NEW r \in Requests, End(r), lost \subseteq lost',
           UNCHANGED <<connection, state, uses, grant, deletions>>
    PROVE  Move(r, Idle) /\ Asked(r)'
<1>1. /\ Idle \in Handlers
      /\ Idle.pc \notin Callback \cup Copying \cup Client
      /\ Idle.pc \notin {"consumed", "refreshing"} \cup Stored
  BY DEF Handlers, Idle, Callback, Copying, Client, Stored
<1>2. request'[r] = Idle  BY DEF Inv, TypeOK, End
<1> QED  BY <1>1, <1>2 DEF Move, Asked, End, Inv, TypeOK, uses

LEMMA EndStep ==
    ASSUME Inv, NEW r \in Requests, Refuse(r) \/ Call(r)
    PROVE  Inv'
<1>1. /\ End(r) /\ request[r].pc # "refreshing"
      /\ UNCHANGED <<connection, state, uses, grant, lost, deletions>>
  BY DEF Refuse, Call, history
<1>2. Idle \in Handlers  BY DEF Handlers
<1> QED  BY <1>1, <1>2, Ends, Moves, MoveUsable

LEMMA StaleStep == ASSUME Inv, NEW r \in Requests, Stale(r) PROVE Inv'
<1>1. /\ End(r) /\ UNCHANGED <<connection, state, uses, grant, lost, deletions>>
  BY DEF Stale, history
<1>2. Idle \in Handlers /\ Move(r, Idle) /\ Asked(r)'  BY <1>1, Ends DEF Handlers
<1>3. CASE request[r].pc # "refreshing"  BY <1>2, <1>3, Moves, MoveUsable
<1>4. CASE request[r].pc = "refreshing"
  <2>1. ~SameRow(request[r].copy) /\ Renewed(r)  BY <1>4 DEF Stale, Inv
  <2>2. connection # NoConnection /\ connection.grant \notin lost =>
          connection.grant # request[r].copy.grant
    BY <1>4, <2>1 DEF Renewed, SameRow
  <2>3. \A q \in Requests : q # r => request'[q] = request[q]
    BY <1>1, Others DEF End, Inv
  <2>4. RefreshTokenUsable'
    BY <1>1, <2>2, <2>3 DEF Inv, RefreshTokenUsable
  <2> QED  BY <1>2, <2>4, Moves
<1> QED  BY <1>3, <1>4

LEMMA FailStep == ASSUME Inv, NEW r \in Requests, Fail(r) PROVE Inv'
<1>1. /\ End(r) /\ lost \subseteq lost'
      /\ request[r].pc = "refreshing" => request[r].copy.grant \in lost'
      /\ UNCHANGED <<connection, state, uses, grant, deletions>>
  BY DEF Fail
<1>2. Idle \in Handlers /\ Move(r, Idle) /\ Asked(r)'  BY <1>1, Ends DEF Handlers
<1>3. \A q \in Requests : q # r => request'[q] = request[q]
  BY <1>1, Others DEF End, Inv
<1>4. RefreshTokenUsable'
  BY <1>1, <1>3 DEF Inv, RefreshTokenUsable
<1> QED  BY <1>2, <1>4, Moves

LEMMA ConsumeStep ==
    ASSUME Inv, NEW r \in Requests, NEW a \in Authorizations, TakeState(r, a)
    PROVE  Inv'
<1> PICK h : h = [pc |-> "consumed", auth |-> a]  OBVIOUS
<1>1. /\ h \in Handlers /\ h.pc = "consumed" /\ h.auth = a
      /\ h.pc \notin Stored \cup Copying \cup Client
  BY DEF Handlers, Consenting, Stored, Copying, Client
<1>2. /\ request' = [request EXCEPT ![r] = h]
      /\ request[r] = Idle /\ state[a] = "open" /\ state' = [state EXCEPT ![a] = "used"]
      /\ UNCHANGED <<connection, uses, grant, lost, deletions>>
  BY DEF TakeState, Begin, history
<1>3. grant[a] = NoGrant  BY <1>2 DEF Inv, StatesUsed
<1>4. request'[r] = h  BY <1>2, Others DEF Inv
<1>5. Move(r, h)  BY <1>1, <1>2, <1>3 DEF Move, Inv, TypeOK, uses
<1>6. Asked(r)'  BY <1>1, <1>4 DEF Asked
<1>7. request[r].pc # "refreshing"  BY <1>2 DEF Idle
<1> QED  BY <1>1, <1>5, <1>6, <1>7, Moves, MoveUsable

\* A callback loads the row to store its grant in it.
LEMMA StoringStep ==
    ASSUME Inv, NEW r \in Requests, LoadToStore(r) \/ SalesforceLoadToStore(r)
    PROVE  Inv'
<1>p. PICK pc \in {"loaded", "saving"} :
        request' = [request EXCEPT ![r] =
                     [pc |-> pc, auth |-> request[r].auth, copy |-> connection]]
  BY DEF LoadToStore, SalesforceLoadToStore, Continue
<1> PICK h : h = [pc |-> pc, auth |-> request[r].auth, copy |-> connection]  OBVIOUS
<1>h. /\ h.pc \in {"loaded", "saving"} /\ h.auth = request[r].auth /\ h.copy = connection
      /\ h = [pc |-> h.pc, auth |-> request[r].auth, copy |-> connection]
      /\ request' = [request EXCEPT ![r] = h]
  BY <1>p
<1>1. /\ request[r].pc = "identified" /\ request[r].auth \in Authorizations
      /\ UNCHANGED <<connection, state, uses, grant, lost, deletions>>
  BY Typed, Refers
  DEF LoadToStore, SalesforceLoadToStore, history, Inv, Callback
<1>2. h \in Handlers
  BY <1>h, <1>1 DEF Handlers, Storing, Inv, TypeOK
<1>3. state[request[r].auth] = "used"  BY <1>1 DEF Inv, StatesUsed, Callback
<1>4. h.pc \notin Client \cup {"consumed"}  BY <1>h DEF Client
<1>5. Move(r, h)
  BY <1>h, <1>1, <1>3, <1>4 DEF Move, Inv, TypeOK, uses, Stored, Callback
<1>6. Asked(r)'
  <2>1. request'[r] = h  BY <1>h, Others DEF Inv
  <2> QED  BY <1>4, <2>1 DEF Asked
<1> QED  BY <1>1, <1>2, <1>5, <1>6, Moves, MoveUsable

LEMMA AcceptStep == ASSUME Inv, NEW r \in Requests, Accept(r) PROVE Inv'
<1> PICK q, h : q = request[r] /\ h = [request[r] EXCEPT !.pc = "saving"]  OBVIOUS
<1>1. /\ q \in Storing /\ q.pc = "loaded"
      /\ request' = [request EXCEPT ![r] = h]
      /\ UNCHANGED <<connection, state, uses, grant, lost, deletions>>
  BY Typed, Kinds DEF Accept, Continue, history, Inv
<1>2. /\ h \in Storing /\ h.pc = "saving" /\ h.auth = q.auth /\ h.copy = q.copy
      /\ h.auth \in Authorizations
  BY <1>1 DEF Storing
<1>3. h \in Handlers /\ h.pc \notin Client \cup {"consumed", "refreshing"}
  BY <1>2 DEF Handlers, Client
<1>4. state[q.auth] = "used"  BY <1>1 DEF Inv, StatesUsed, Callback
<1>5. Move(r, h)
  BY <1>1, <1>2, <1>3, <1>4 DEF Move, Inv, TypeOK, uses, Stored, Callback, Copying
<1>6. Asked(r)'
  <2>1. request'[r] = h  BY <1>1, Others DEF Inv
  <2> QED  BY <1>3, <2>1 DEF Asked
<1> QED  BY <1>1, <1>3, <1>5, <1>6, Moves, MoveUsable

LEMMA UseTokenStep == ASSUME Inv, NEW r \in Requests, UseToken(r) PROVE Inv'
<1> PICK q, h : q = request[r] /\ h = [request[r] EXCEPT !.pc = "ready"]  OBVIOUS
<1>1. /\ q \in Sending /\ q.pc = "using"
      /\ request' = [request EXCEPT ![r] = h]
      /\ UNCHANGED <<connection, state, uses, grant, lost, deletions>>
  BY Typed, Kinds DEF UseToken, Continue, history, Inv, Client
<1>2. /\ h \in Sending /\ h.pc = "ready" /\ h.copy = q.copy
      /\ h.contract = q.contract /\ h.reserved = q.reserved
  BY <1>1 DEF Sending
<1>3. h \in Handlers /\ h.pc \notin Callback \cup Stored \cup {"consumed"}
  BY <1>2 DEF Handlers, Callback, Stored
<1>4. Move(r, h)
  BY <1>1, <1>2, <1>3 DEF Move, Inv, TypeOK, uses, Copying, Client
<1>5. Asked(r)'
  <2>1. request'[r] = h  BY <1>1, Others DEF Inv
  <2> QED  BY <1>1, <1>2, <2>1 DEF Inv, Asked, uses, Client
<1> QED  BY <1>1, <1>3, <1>4, <1>5, Moves, MoveUsable

\* A handler that uses the connection begins with a copy of the row.
LEMMA UsingStep ==
    ASSUME Inv, NEW r \in Requests, NEW c \in Contracts,
           LoadToSend(r, c) \/ LoadToInspect(r, c) \/ LoadToQuery(r, c)
    PROVE  Inv'
<1>p. PICK reserved \in BOOLEAN :
        /\ request' = [request EXCEPT ![r] =
             [pc |-> "using", contract |-> c, reserved |-> reserved, copy |-> connection]]
        /\ reserved /\ provider = "docusign" =>
             signature[c] # NoSignature /\ connection.account = signature[c].account
  BY DEF LoadToSend, LoadToInspect, LoadToQuery, Begin
<1> PICK h : h = [pc |-> "using", contract |-> c, reserved |-> reserved, copy |-> connection]
  OBVIOUS
<1>1. /\ h.pc = "using" /\ h.contract = c /\ h.reserved = reserved /\ h.copy = connection
      /\ request' = [request EXCEPT ![r] = h]
  BY <1>p
<1>2. /\ request[r] = Idle /\ connection # NoConnection
      /\ UNCHANGED <<connection, state, uses, grant, lost, deletions>>
  BY DEF LoadToSend, LoadToInspect, LoadToQuery, Begin, history
<1>3. h \in Handlers
  <2>1. connection \in Connection  BY <1>2 DEF Inv, TypeOK
  <2> QED  BY <2>1 DEF Handlers, Sending
<1>4. Move(r, h)
  BY <1>1, <1>2 DEF Move, Inv, TypeOK, uses, Stored, Callback
<1>5. Asked(r)'
  <2>1. request'[r] = h  BY <1>1, Others DEF Inv
  <2> QED  BY <1>p, <1>1, <1>2, <2>1 DEF Asked, uses
<1>6. request[r].pc # "refreshing"  BY <1>2 DEF Idle
<1> QED  BY <1>3, <1>4, <1>5, <1>6, Moves, MoveUsable

LEMMA LoadToDisconnectStep == ASSUME Inv, NEW r \in Requests, LoadToDisconnect(r) PROVE Inv'
<1> PICK h : h = [pc |-> "disconnecting", copy |-> connection]  OBVIOUS
<1>1. /\ h.pc = "disconnecting" /\ h.copy = connection
      /\ request' = [request EXCEPT ![r] = h]
      /\ request[r] = Idle /\ connection # NoConnection
      /\ UNCHANGED <<connection, state, uses, grant, lost, deletions>>
  BY DEF LoadToDisconnect, Begin, history
<1>2. h \in Handlers
  <2>1. connection \in Connection  BY <1>1 DEF Inv, TypeOK
  <2> QED  BY <2>1 DEF Handlers, Disconnecting
<1>3. h.pc \notin Client \cup Callback \cup Stored  BY <1>1 DEF Client, Callback, Stored
<1>4. Move(r, h)  BY <1>1, <1>3 DEF Move, Inv, TypeOK, uses
<1>5. Asked(r)'
  <2>1. request'[r] = h  BY <1>1, Others DEF Inv
  <2> QED  BY <1>3, <2>1 DEF Asked
<1>6. request[r].pc # "refreshing"  BY <1>1 DEF Idle
<1> QED  BY <1>2, <1>4, <1>5, <1>6, Moves, MoveUsable

LEMMA ReserveStep == ASSUME Inv, NEW r \in Requests, Reserve(r) PROVE Inv'
<1> PICK q, c, h, x :
      /\ q = request[r] /\ c = request[r].contract
      /\ h = [pc |-> "using", contract |-> request[r].contract, reserved |-> TRUE,
              copy |-> request[r].copy]
      /\ x = [account |-> request[r].copy.account, resolved |-> FALSE]
  OBVIOUS
<1>1. /\ request' = [request EXCEPT ![r] = h] /\ signature' = [signature EXCEPT ![c] = x]
      /\ signature[c] = NoSignature
      /\ UNCHANGED <<provider, link, connection, state, grant, lost, deletions>>
  BY DEF Reserve, Proceed, Continue, history
<1>2. q \in Sending /\ q.pc = "ready" /\ q.copy \in Connection /\ c \in Contracts
  BY Typed, Kinds DEF Reserve, Inv, Client, Sending
<1>3. /\ h \in Handlers /\ h.pc = "using" /\ h.copy = q.copy /\ h.contract = c
  BY <1>2 DEF Handlers, Sending
<1>4. x \in Signature /\ x # NoSignature /\ x.account = q.copy.account
  <2>1. q.copy.account \in Accounts  BY <1>2, Fields
  <2>2. x \in Signature  BY <2>1 DEF Signature
  <2> QED  BY <2>2, Absent
<1>5. /\ signature' \in [Contracts -> Signature \cup {NoSignature}] /\ signature'[c] = x
      /\ \A d \in Contracts : d # c => signature'[d] = signature[d]
  BY <1>1, <1>2, <1>4 DEF Inv, TypeOK
<1>6. Move(r, h)
  <2>1. \A d \in Contracts : signature[d] # NoSignature =>
          signature'[d] # NoSignature /\ signature'[d].account = signature[d].account
    BY <1>1, <1>5
  <2>2. link' \in [Contracts -> Linked \cup {NoLink}]
    BY <1>1 DEF Inv, TypeOK
  <2>3. state' \in [Authorizations -> {"none", "open", "used"}]
    BY <1>1 DEF Inv, TypeOK
  <2>4. h.pc \notin Callback \cup Stored /\ h.pc # "refreshing" /\ h.pc # "consumed"
    BY <1>3 DEF Callback, Stored
  <2>5. q.pc \in Copying \ {"refreshing"} /\ q.pc \in Client
    BY <1>2 DEF Copying, Client
  <2> QED  BY <1>1, <1>3, <1>5, <2>1, <2>2, <2>3, <2>4, <2>5 DEF Move
<1>7. Asked(r)'
  <2>1. request'[r] = h  BY <1>1, Others DEF Inv
  <2> QED  BY <1>3, <1>4, <1>5, <2>1 DEF Asked
<1> QED  BY <1>2, <1>3, <1>6, <1>7, Moves, MoveUsable

LEMMA LinkStep == ASSUME Inv, NEW r \in Requests, Link(r) PROVE Inv'
<1> PICK q, c, x :
      /\ q = request[r] /\ c = request[r].contract
      /\ x = [account |-> request[r].copy.account, via |-> request[r].copy.grant]
  OBVIOUS
<1>1. /\ request' = [request EXCEPT ![r] = Idle] /\ link' = [link EXCEPT ![c] = x]
      /\ UNCHANGED <<provider, signature, connection, state, grant, lost, deletions>>
  BY DEF Link, End, history
<1>2. q \in Sending /\ q.pc = "ready" /\ q.copy \in Connection /\ c \in Contracts
  BY Typed, Kinds DEF Link, Inv, Client, Sending
<1>3. x \in Linked /\ x.account = q.copy.account /\ x.via = q.copy.grant
  BY <1>2, Fields DEF Linked
<1>4. /\ link' \in [Contracts -> Linked \cup {NoLink}] /\ link'[c] = x
      /\ \A d \in Contracts : d # c => link'[d] = link[d]
  BY <1>1, <1>2, <1>3 DEF Inv, TypeOK
<1>5. Copies(r)  BY <1>2, Absent DEF Copies, Copying, Client
<1>6. /\ Idle \in Handlers
      /\ Idle.pc \notin Callback \cup Copying \cup Client
      /\ Idle.pc \notin {"consumed", "refreshing"} \cup Stored
  BY DEF Handlers, Idle, Callback, Copying, Client, Stored
<1>7. Move(r, Idle)
  <2>1. \A d \in Contracts : \/ link'[d] = link[d]
                             \/ /\ Copies(r)
                                /\ link'[d].via = request[r].copy.grant
                                /\ link'[d].account = request[r].copy.account
    BY <1>3, <1>4, <1>5
  <2> QED  BY <1>1, <1>4, <1>6, <2>1 DEF Move, Inv, TypeOK
<1>8. Asked(r)'
  <2>1. request'[r] = Idle  BY <1>1, Others DEF Inv
  <2> QED  BY <1>6, <2>1 DEF Asked
<1> QED  BY <1>2, <1>6, <1>7, <1>8, Moves, MoveUsable

--------------------------------------------------------------------------------
(* Steps of no handler.                                                     *)

LEMMA StateStep ==
    ASSUME Inv, NEW a \in Authorizations,
           Connect(a) \/ SalesforceConnect(a) \/ Expire(a)
    PROVE  Inv'
<1>1. /\ state[a] \in {"none", "open"}
      /\ \/ state' = [state EXCEPT ![a] = "open"]
         \/ state' = [state EXCEPT ![a] = "used"]
      /\ UNCHANGED <<connection, uses, request, grant, lost, deletions>>
  BY DEF Connect, SalesforceConnect, StartAuthorization, Expire, history
<1>2. TypeOK' /\ deletions' \in Nat  BY <1>1 DEF Inv, TypeOK, uses
<1>3. StatesUsed'
  <2>1. \A b \in Authorizations : state[b] = "used" => state'[b] = "used"
    BY <1>1 DEF Inv, TypeOK
  <2>2. \A r \in Requests : request[r].pc \in Callback => request[r].auth \in Authorizations
    BY Typed, Refers DEF Inv
  <2> QED  BY <1>1, <2>1, <2>2 DEF Inv, StatesUsed, ExchangedOnce
<1>4. /\ \A r \in Requests : NewGrant(r)'
      /\ Given(connection)' /\ \A r \in Requests : (Copies(r) => Given(request[r].copy))'
      /\ \A c \in Contracts : (link[c] # NoLink => grant[link[c].via] # NoGrant)'
  BY <1>1 DEF Inv, NewGrant, Given, Copies, uses
<1>5. \A r \in Requests : Renewed(r)' /\ SameTokens(r)'
  BY <1>1 DEF Inv, Renewed, SameTokens
<1>6. RefreshTokenUsable'  BY <1>1 DEF Inv, RefreshTokenUsable
<1>7. \A r \in Requests : Asked(r)'  BY <1>1 DEF Inv, Asked, uses
<1>8. Kept'  BY <1>1 DEF Inv, Kept, Matched, Copies, uses
<1> QED  BY <1>2, <1>3, <1>4, <1>5, <1>6, <1>7, <1>8 DEF Inv

LEMMA ResolveStep == ASSUME Inv, NEW c \in Contracts, Resolve(c) PROVE Inv'
<1>1. /\ signature[c] # NoSignature
      /\ signature' = [signature EXCEPT ![c].resolved = TRUE]
      /\ UNCHANGED <<provider, link, connection, state, request, grant, lost, deletions>>
  BY DEF Resolve, Unresolved, history
<1>2. PICK x : x = [signature[c] EXCEPT !.resolved = TRUE]  OBVIOUS
<1>3. signature' = [signature EXCEPT ![c] = x]  BY <1>1, <1>2, Zenon
<1>4. x \in Signature /\ x.account = signature[c].account
  BY <1>1, <1>2 DEF Inv, TypeOK, Signature
<1>5. /\ signature' \in [Contracts -> Signature \cup {NoSignature}] /\ signature'[c] = x
      /\ \A d \in Contracts : d # c => signature'[d] = signature[d]
  BY <1>3, <1>4 DEF Inv, TypeOK
<1>6. TypeOK' /\ deletions' \in Nat  BY <1>1, <1>5 DEF Inv, TypeOK
<1>7. StatesUsed'  BY <1>1 DEF Inv, StatesUsed, ExchangedOnce
<1>8. /\ \A r \in Requests : NewGrant(r)'
      /\ Given(connection)' /\ \A r \in Requests : (Copies(r) => Given(request[r].copy))'
      /\ \A d \in Contracts : (link[d] # NoLink => grant[link[d].via] # NoGrant)'
  BY <1>1 DEF Inv, NewGrant, Given, Copies
<1>9. \A r \in Requests : Renewed(r)' /\ SameTokens(r)'
  BY <1>1 DEF Inv, Renewed, SameTokens
<1>10. RefreshTokenUsable'  BY <1>1 DEF Inv, RefreshTokenUsable
<1>11. \A r \in Requests : Asked(r)'
  <2>1. \A r \in Requests : request[r].pc \in Client => request[r].contract \in Contracts
    BY Typed, Refers DEF Inv
  <2>2. x # NoSignature  BY <1>4, Absent
  <2> QED  BY <1>1, <1>4, <1>5, <2>1, <2>2 DEF Inv, Asked
<1>12. Kept'  BY <1>1 DEF Inv, Kept, Matched, Copies
<1> QED  BY <1>6, <1>7, <1>8, <1>9, <1>10, <1>11, <1>12 DEF Inv

--------------------------------------------------------------------------------
(* Grants are made, lapse and are renewed.                                  *)

LEMMA LapseStep == ASSUME Inv, NEW a \in Authorizations, Lapse(a) PROVE Inv'
<1>1. /\ grant[a] # NoGrant /\ grant' = [grant EXCEPT ![a].lapsed = grant[a].token]
      /\ UNCHANGED <<connection, state, uses, request, lost, deletions>>
  BY DEF Lapse, history
<1>2. PICK x : x = [grant[a] EXCEPT !.lapsed = grant[a].token]  OBVIOUS
<1>3. grant' = [grant EXCEPT ![a] = x]  BY <1>1, <1>2, Zenon
<1>4. /\ x \in Grant /\ x # NoGrant /\ x.account = grant[a].account /\ x.token = grant[a].token
  <2>1. grant[a] \in Grant  BY <1>1 DEF Inv, TypeOK
  <2>2. x \in Grant /\ x.account = grant[a].account /\ x.token = grant[a].token
    BY <1>2, <2>1 DEF Grant
  <2> QED  BY <2>2, Absent
<1>5. /\ grant' \in [Authorizations -> Grant \cup {NoGrant}]
      /\ \A b \in Authorizations :
           /\ grant'[b] # NoGrant <=> grant[b] # NoGrant
           /\ grant'[b].account = grant[b].account /\ grant'[b].token = grant[b].token
  BY <1>1, <1>3, <1>4 DEF Inv, TypeOK
<1>6. /\ \A r \in Requests : request[r].pc \in Callback => request[r].auth \in Authorizations
      /\ \A r \in Requests : Copies(r) => request[r].copy.grant \in Authorizations
      /\ \A r \in Requests : request[r].pc \in Client => request[r].copy.grant \in Authorizations
      /\ connection # NoConnection => connection.grant \in Authorizations
  BY Typed, Refers, Fields DEF Inv, Copies
<1>7. \A c \in Contracts : link[c] # NoLink => link[c].via \in Authorizations
  BY DEF Inv, TypeOK, Linked
<1>8. TypeOK' /\ deletions' \in Nat  BY <1>1, <1>5 DEF Inv, TypeOK, uses
<1>9. StatesUsed'  BY <1>1, <1>5 DEF Inv, StatesUsed, ExchangedOnce
<1>10. \A r \in Requests : NewGrant(r)'
  BY <1>1, <1>5, <1>6 DEF Inv, NewGrant, Callback
<1>11. /\ Given(connection)' /\ \A r \in Requests : (Copies(r) => Given(request[r].copy))'
       /\ \A c \in Contracts : (link[c] # NoLink => grant[link[c].via] # NoGrant)'
  BY <1>1, <1>5, <1>6, <1>7 DEF Inv, Given, Copies, uses
<1>12. \A r \in Requests : Renewed(r)' /\ SameTokens(r)'
  BY <1>1, <1>5, <1>6 DEF Inv, Renewed, SameTokens, Client
<1>13. RefreshTokenUsable'  BY <1>1, <1>5, <1>6 DEF Inv, RefreshTokenUsable
<1>14. \A r \in Requests : Asked(r)'  BY <1>1 DEF Inv, Asked, uses
<1>15. Kept'  BY <1>1, <1>5, <1>6, <1>7 DEF Inv, Kept, Matched, Copies, uses
<1> QED  BY <1>8, <1>9, <1>10, <1>11, <1>12, <1>13, <1>14, <1>15 DEF Inv

LEMMA IdentifyStep ==
    ASSUME Inv, NEW r \in Requests, NEW account \in Accounts, Identify(r, account)
    PROVE  Inv'
<1> PICK a, x, h : /\ a = request[r].auth
                   /\ x = [account |-> account, token |-> 1, lapsed |-> 0]
                   /\ h = [request[r] EXCEPT !.pc = "identified"]
  OBVIOUS
<1>1. /\ request[r] \in Consenting /\ request[r].pc = "consumed" /\ a \in Authorizations
      /\ grant' = [grant EXCEPT ![a] = x] /\ request' = [request EXCEPT ![r] = h]
      /\ UNCHANGED <<connection, state, uses, lost, deletions>>
  BY Typed, Kinds DEF Identify, Continue, history, Inv, Consenting
<1>2. /\ h \in Handlers /\ h.pc = "identified" /\ h.auth = a /\ h.pc \notin Copying \cup Client
  BY <1>1 DEF Handlers, Consenting, Copying, Client
<1>3. x \in Grant /\ x # NoGrant /\ x.token = 1
  <2>1. x \in Grant  BY DEF Grant
  <2> QED  BY <2>1, Absent
<1>4. grant[a] = NoGrant /\ state[a] = "used"
  BY <1>1 DEF Inv, NewGrant, StatesUsed, Callback
<1>5. /\ grant' \in [Authorizations -> Grant \cup {NoGrant}] /\ grant'[a] = x
      /\ \A b \in Authorizations : b # a => grant'[b] = grant[b]
      /\ \A b \in Authorizations : grant[b] # NoGrant => grant'[b] = grant[b]
  BY <1>1, <1>3, <1>4 DEF Inv, TypeOK
<1>6. request'[r] = h /\ \A q \in Requests : q # r => request'[q] = request[q]
  BY <1>1, Others DEF Inv
<1>7. /\ \A q \in Requests : request[q].pc \in Callback => request[q].auth \in Authorizations
      /\ \A q \in Requests : Copies(q) =>
           request[q].copy.grant \in Authorizations /\ request[q].copy.grant # a
      /\ connection # NoConnection =>
           connection.grant \in Authorizations /\ connection.grant # a
  BY <1>4, Typed, Refers, Fields DEF Inv, Copies, Given
<1>8. \A q \in Requests : request[q].pc \in Client => Copies(q)
  BY Typed, Refers, Absent DEF Inv, Copies, Copying
<1>9. \A c \in Contracts : link[c] # NoLink =>
        link[c].via \in Authorizations /\ link[c].via # a
  BY <1>4 DEF Inv, TypeOK, Linked
<1>10. TypeOK' /\ deletions' \in Nat
  BY <1>1, <1>2, <1>5 DEF Inv, TypeOK, uses, Handlers
<1>11. StatesUsed'
  <2>1. ExchangedOnce'
    BY <1>1, <1>2, <1>6 DEF Inv, StatesUsed, ExchangedOnce
  <2> QED  BY <1>1, <1>2, <1>4, <1>5, <1>6, <2>1 DEF Inv, StatesUsed
<1>12. ASSUME NEW q \in Requests PROVE NewGrant(q)'
  <2>1. CASE q = r
    <3>1. \A p \in Requests : request'[p].pc \in Client => request'[p].copy.grant # a
      BY <1>2, <1>6, <1>7, <1>8
    <3>2. request'[q].pc = "identified" /\ request'[q].auth = a  BY <1>2, <1>6, <2>1
    <3>3. grant'[a] # NoGrant /\ grant'[a].token = 1  BY <1>3, <1>5
    <3>4. connection' # NoConnection => connection'.grant # a  BY <1>1, <1>7
    <3> QED  BY <3>1, <3>2, <3>3, <3>4 DEF NewGrant
  <2>2. CASE q # r /\ request[q].pc \in Callback
    <3>1. request[q].auth # a
      BY <1>1, <2>2 DEF Inv, StatesUsed, ExchangedOnce, Callback
    <3> QED  BY <1>1, <1>2, <1>5, <1>6, <1>7, <2>2, <3>1 DEF Inv, NewGrant
  <2>3. CASE q # r /\ request[q].pc \notin Callback
    BY <1>6, <2>3 DEF NewGrant, Callback
  <2> QED  BY <2>1, <2>2, <2>3
<1>13. /\ Given(connection)' /\ \A q \in Requests : (Copies(q) => Given(request[q].copy))'
  BY <1>1, <1>2, <1>5, <1>6, <1>7 DEF Inv, Given, Copies
<1>14. \A c \in Contracts : (link[c] # NoLink => grant[link[c].via] # NoGrant)'
  BY <1>1, <1>5, <1>9 DEF Inv, uses
<1>15. ASSUME NEW q \in Requests PROVE Renewed(q)' /\ SameTokens(q)'
  <2>1. CASE q = r  BY <1>2, <1>6, <2>1 DEF Renewed, SameTokens
  <2>2. CASE q # r /\ request[q].pc \in Client
    <3>1. grant'[request[q].copy.grant] = grant[request[q].copy.grant]
      BY <1>5, <1>7, <1>8, <2>2
    <3>2. Renewed(q) /\ SameTokens(q)  BY DEF Inv
    <3>3. SameTokens(q)'  BY <1>1, <1>6, <2>2, <3>2 DEF SameTokens
    <3>4. Renewed(q)'  BY <1>1, <1>2, <1>6, <2>2, <3>1, <3>2 DEF Renewed
    <3> QED  BY <3>3, <3>4
  <2>3. CASE q # r /\ request[q].pc \notin Client
    BY <1>6, <2>3 DEF Renewed, SameTokens, Client
  <2> QED  BY <2>1, <2>2, <2>3
<1>16. RefreshTokenUsable'
  BY <1>1, <1>5, <1>6, <1>7 DEF Inv, RefreshTokenUsable
<1>17. \A q \in Requests : Asked(q)'  BY <1>1, <1>2, <1>6 DEF Inv, Asked, uses
<1>18. Kept'
  BY <1>1, <1>2, <1>5, <1>6, <1>7, <1>9 DEF Inv, Kept, Matched, Copies, uses
<1> QED  BY <1>10, <1>11, <1>12, <1>13, <1>14, <1>15, <1>16, <1>17, <1>18 DEF Inv

\* The refresh token of the copy is the newest, and the handler has the next one.
LEMMA RenewStep == ASSUME Inv, NEW r \in Requests, Renew(r) PROVE Inv'
<1> PICK q, copy, a : /\ q = request[r] /\ copy = request[r].copy
                      /\ a = request[r].copy.grant
  OBVIOUS
<1>y. PICK y : y = [copy EXCEPT !.token = @ + 1]  OBVIOUS
<1>h. PICK h : h = [pc |-> "refreshing", contract |-> q.contract, reserved |-> q.reserved,
                    copy |-> y]
  OBVIOUS
<1>1. /\ q \in Sending /\ q.pc = "using" /\ q.contract \in Contracts /\ q.reserved \in BOOLEAN
      /\ copy \in Connection /\ copy # NoConnection /\ a \in Authorizations /\ a = copy.grant
      /\ Copies(r)
  BY Typed, Kinds, Fields, Absent DEF Renew, Inv, Client, Sending, Copies, Copying
<1>2. /\ copy.token = grant[a].token /\ grant' = [grant EXCEPT ![a].token = @ + 1]
      /\ request' = [request EXCEPT ![r] = h]
      /\ UNCHANGED <<connection, state, uses, lost, deletions>>
  BY <1>y, <1>h DEF Renew, Proceed, Continue, history
<1>3. grant[a] # NoGrant /\ grant[a] \in Grant /\ grant[a].token \in Nat
  BY <1>1, Typed DEF Inv, Given
<1>4. PICK x : x = [grant[a] EXCEPT !.token = @ + 1]  OBVIOUS
<1>5. grant' = [grant EXCEPT ![a] = x]  BY <1>2, <1>4, Zenon
<1>6. /\ x \in Grant /\ x # NoGrant
      /\ x.account = grant[a].account /\ x.token = grant[a].token + 1
  <2>1. x \in Grant /\ x.account = grant[a].account /\ x.token = grant[a].token + 1
    BY <1>3, <1>4 DEF Grant
  <2> QED  BY <2>1, Absent
<1>7. /\ grant' \in [Authorizations -> Grant \cup {NoGrant}] /\ grant'[a] = x
      /\ \A b \in Authorizations : b # a => grant'[b] = grant[b]
      /\ \A b \in Authorizations :
           /\ grant'[b] # NoGrant <=> grant[b] # NoGrant
           /\ grant'[b].account = grant[b].account
  BY <1>1, <1>3, <1>5, <1>6 DEF Inv, TypeOK
<1>8. /\ y \in Connection /\ y.token = grant[a].token + 1 /\ y.grant = a
      /\ y.account = copy.account /\ y.revision = copy.revision
  BY <1>1, <1>2, <1>y DEF Connection
<1>9. /\ h \in Handlers /\ h.pc = "refreshing" /\ h.copy = y
      /\ h.contract = q.contract /\ h.reserved = q.reserved /\ h.pc \notin Callback
  BY <1>1, <1>8, <1>h DEF Handlers, Sending, Callback
<1>10. request'[r] = h /\ \A p \in Requests : p # r => request'[p] = request[p]
  BY <1>2, Others DEF Inv
<1>11. /\ \A p \in Requests : request[p].pc \in Callback => request[p].auth \in Authorizations
       /\ \A p \in Requests : Copies(p) =>
            /\ request[p].copy.grant \in Authorizations /\ request[p].copy.token \in Nat
            /\ request[p].copy.token <= grant[request[p].copy.grant].token
       /\ connection # NoConnection =>
            /\ connection.grant \in Authorizations /\ connection.token \in Nat
            /\ connection.token <= grant[connection.grant].token
  BY Typed, Refers, Fields DEF Inv, Copies, Given
<1>12. \A p \in Requests : request[p].pc \in Client => Copies(p)
  BY Typed, Refers, Absent DEF Inv, Copies, Copying
<1>13. \A c \in Contracts : link[c] # NoLink => link[c].via \in Authorizations
  BY DEF Inv, TypeOK, Linked
<1>14. TypeOK' /\ deletions' \in Nat
  BY <1>2, <1>7, <1>9 DEF Inv, TypeOK, uses, Handlers
<1>15. StatesUsed'
  <2>1. ExchangedOnce'
    BY <1>9, <1>10 DEF Inv, StatesUsed, ExchangedOnce, Callback
  <2>2. \A b \in Authorizations : grant'[b] # NoGrant => state'[b] = "used"
    BY <1>2, <1>7 DEF Inv, StatesUsed
  <2>3. \A p \in Requests : request'[p].pc \in Callback => state'[request'[p].auth] = "used"
    BY <1>2, <1>9, <1>10 DEF Inv, StatesUsed
  <2> QED  BY <2>1, <2>2, <2>3 DEF StatesUsed
<1>16. ASSUME NEW p \in Requests PROVE NewGrant(p)'
  <2>1. CASE request[p].pc \in Callback /\ p # r
    <3>1. NewGrant(p)  BY DEF Inv
    <3>2. request'[p] = request[p] /\ request[p].auth \in Authorizations
      BY <1>10, <1>11, <2>1
    <3>3. CASE request[p].pc = "consumed"  BY <1>7, <3>1, <3>2, <3>3 DEF NewGrant
    <3>4. CASE request[p].pc \in Stored
      <4>1. request[p].auth # a
        BY <1>1, <3>1, <3>4 DEF NewGrant, Stored, Client
      <4>2. \A t \in Requests : request'[t].pc \in Client =>
              request'[t].copy.grant # request[p].auth
        BY <1>8, <1>9, <1>10, <3>1, <3>4, <4>1 DEF NewGrant, Stored
      <4> QED  BY <1>2, <1>7, <3>1, <3>2, <3>4, <4>1, <4>2 DEF NewGrant, Stored
    <3> QED  BY <2>1, <3>3, <3>4 DEF Callback, Stored
  <2>2. CASE request'[p].pc \notin Callback  BY <2>2 DEF NewGrant, Callback
  <2> QED  BY <1>9, <1>10, <2>1, <2>2
<1>17. /\ Given(connection)' /\ \A p \in Requests : (Copies(p) => Given(request[p].copy))'
  <2>1. \A b \in Authorizations : grant[b] # NoGrant =>
          grant[b].token \in Nat /\ grant'[b].token \in Nat /\ grant[b].token <= grant'[b].token
    BY <1>3, <1>6, <1>7, Typed DEF Inv
  <2>2. Given(connection)'
    <3>1. connection # NoConnection => grant[connection.grant] # NoGrant  BY DEF Inv, Given
    <3>2. connection # NoConnection =>
            /\ grant'[connection.grant] # NoGrant
            /\ grant'[connection.grant].token \in Nat
            /\ grant[connection.grant].token \in Nat
            /\ grant[connection.grant].token <= grant'[connection.grant].token
      BY <1>7, <1>11, <2>1, <3>1
    <3> QED  BY <1>2, <1>11, <3>2 DEF Given
  <2>3. ASSUME NEW p \in Requests, p # r, Copies(p)  PROVE Given(request[p].copy)'
    BY <1>7, <1>10, <1>11, <2>1, <2>3 DEF Inv, Given
  <2>4. Given(request[r].copy)'  BY <1>3, <1>6, <1>7, <1>8, <1>9, <1>10 DEF Given
  <2> QED  BY <1>10, <2>2, <2>3, <2>4 DEF Copies
<1>18. \A c \in Contracts : (link[c] # NoLink => grant[link[c].via] # NoGrant)'
  BY <1>2, <1>7, <1>13 DEF Inv, uses
<1>19. ASSUME NEW p \in Requests PROVE SameTokens(p)'
  BY <1>2, <1>9, <1>10 DEF Inv, SameTokens
<1>20. ASSUME NEW p \in Requests, p # r, request[p].pc = "refreshing"
       PROVE  request[p].copy.grant # a
  BY <1>1, <1>2, <1>3, <1>20 DEF Inv, Renewed, Client
<1>21. ASSUME NEW p \in Requests PROVE Renewed(p)'
  <2>1. CASE p = r
    <3>1. /\ request'[r].pc = "refreshing" /\ request'[r].copy = y /\ y.grant = a
          /\ grant'[a].token = grant[a].token + 1 /\ y.token = grant'[a].token
      BY <1>6, <1>7, <1>8, <1>9, <1>10
    <3>2. ASSUME NEW t \in Requests, t # r, request'[t].pc \in Client,
                 request'[t].copy.grant = a
          PROVE  request'[t].copy.token < grant'[a].token
      BY <1>3, <1>10, <1>11, <1>12, <3>1, <3>2
    <3>3. ASSUME connection # NoConnection, connection.grant = a
          PROVE  /\ connection.token < grant'[a].token
                 /\ a \notin lost => connection.revision = y.revision
      <4>1. connection.token < grant'[a].token  BY <1>3, <1>11, <3>1, <3>3
      <4>2. ASSUME a \notin lost PROVE connection.token = copy.token
        BY <1>2, <1>20, <3>3, <4>2, <1>1 DEF Inv, RefreshTokenUsable
      <4>3. ASSUME a \notin lost PROVE connection.revision = copy.revision
        BY <1>1, <3>3, <4>2, <4>3 DEF Inv, SameTokens
      <4> QED  BY <1>8, <4>1, <4>3
    <3> QED  BY <1>2, <2>1, <3>1, <3>2, <3>3 DEF Renewed
  <2>2. CASE p # r /\ request[p].pc = "refreshing"
    <3> PICK g : g = request[p].copy.grant  OBVIOUS
    <3>1. Renewed(p) /\ g # a /\ request'[p] = request[p]  BY <1>10, <1>20, <2>2 DEF Inv
    <3>2. grant'[g] = grant[g]
      BY <1>7, <1>11, <1>12, <2>2, <3>1 DEF Client
    <3>3. ASSUME NEW t \in Requests, t # p, request'[t].pc \in Client,
                 request'[t].copy.grant = g
          PROVE  request'[t].copy.token < grant'[g].token
      BY <1>8, <1>9, <1>10, <2>2, <3>1, <3>2, <3>3 DEF Renewed
    <3> QED  BY <1>2, <2>2, <3>1, <3>2, <3>3 DEF Renewed
  <2>3. CASE p # r /\ request[p].pc # "refreshing"  BY <1>10, <2>3 DEF Renewed
  <2> QED  BY <2>1, <2>2, <2>3
<1>22. RefreshTokenUsable'
  <2> SUFFICES ASSUME connection # NoConnection, connection.grant \notin lost
               PROVE  RefreshTokenUsable'
    BY <1>2 DEF RefreshTokenUsable
  <2>1. CASE connection.grant = a
    BY <1>2, <1>6, <1>7, <1>8, <1>9, <1>10, <2>1 DEF RefreshTokenUsable
  <2>2. CASE connection.grant # a
    <3>1. grant'[connection.grant] = grant[connection.grant]  BY <1>7, <1>11, <2>2
    <3>2. \/ connection.token = grant[connection.grant].token
          \/ \E p \in Requests : /\ request[p].pc = "refreshing"
                                 /\ request[p].copy.grant = connection.grant
                                 /\ request[p].copy.token = grant[connection.grant].token
      BY DEF Inv, RefreshTokenUsable
    <3>3. request[r].pc # "refreshing"  BY <1>1
    <3> QED  BY <1>2, <1>10, <3>1, <3>2, <3>3 DEF RefreshTokenUsable
  <2> QED  BY <2>1, <2>2
<1>23. ASSUME NEW p \in Requests PROVE Asked(p)'
  <2>1. CASE p = r
    <3>1. Asked(r) /\ q.pc \in Client  BY <1>1 DEF Inv, Client
    <3>2. request'[r] = h /\ h.contract = q.contract /\ h.reserved = q.reserved
          /\ h.copy.account = copy.account
      BY <1>8, <1>9, <1>10
    <3> QED  BY <1>2, <2>1, <3>1, <3>2 DEF Asked, uses
  <2>2. CASE p # r  BY <1>2, <1>10, <2>2 DEF Inv, Asked, uses
  <2> QED  BY <2>1, <2>2
<1>24. Kept'
  <2> SUFFICES ASSUME deletions = 0 PROVE Kept'  BY <1>2 DEF Kept
  <2>1. Matched(connection)'  BY <1>2, <1>7, <1>11 DEF Inv, Kept, Matched
  <2>2. ASSUME NEW p \in Requests, Copies(p)'
        PROVE  /\ connection # NoConnection
               /\ request'[p].copy.revision <= connection.revision
               /\ request'[p].copy.revision = connection.revision =>
                    /\ request'[p].copy.account = connection.account
                    /\ request'[p].copy.grant = connection.grant
               /\ grant'[request'[p].copy.grant].account = request'[p].copy.account
    <3>1. Copies(p) /\ request[p].copy.grant \in Authorizations
      BY <1>1, <1>10, <1>11, <2>2 DEF Copies
    <3>2. /\ connection # NoConnection
          /\ request[p].copy.revision <= connection.revision
          /\ request[p].copy.revision = connection.revision =>
               /\ request[p].copy.account = connection.account
               /\ request[p].copy.grant = connection.grant
          /\ grant[request[p].copy.grant].account = request[p].copy.account
      BY <3>1 DEF Inv, Kept, Matched, Copies
    <3>3. /\ request'[p].copy.revision = request[p].copy.revision
          /\ request'[p].copy.account = request[p].copy.account
          /\ request'[p].copy.grant = request[p].copy.grant
      BY <1>1, <1>8, <1>9, <1>10
    <3> QED  BY <1>7, <3>1, <3>2, <3>3
  <2>3. \A c \in Contracts : (link[c] # NoLink => grant[link[c].via].account = link[c].account)'
    BY <1>2, <1>7, <1>13 DEF Inv, Kept, uses
  <2> QED  BY <1>2, <2>1, <2>2, <2>3 DEF Kept, Matched
<1> QED
  BY <1>14, <1>15, <1>16, <1>17, <1>18, <1>19, <1>21, <1>22, <1>23, <1>24 DEF Inv

--------------------------------------------------------------------------------
(* The row is written.                                                      *)

LEMMA SaveTokensStep == ASSUME Inv, NEW r \in Requests, SaveTokens(r) PROVE Inv'
<1> PICK q, copy, a : /\ q = request[r] /\ copy = request[r].copy
                      /\ a = request[r].copy.grant
  OBVIOUS
<1>y. PICK y : y = [copy EXCEPT !.revision = connection.revision + 1]  OBVIOUS
<1>h. PICK h : h = [pc |-> "ready", contract |-> q.contract, reserved |-> q.reserved,
                    copy |-> y]
  OBVIOUS
<1>x. PICK x : x = [account |-> connection.account, grant |-> copy.grant,
                    token |-> copy.token, revision |-> connection.revision + 1]
  OBVIOUS
<1>1. /\ q \in Sending /\ q.pc = "refreshing" /\ q.contract \in Contracts
      /\ q.reserved \in BOOLEAN
      /\ copy \in Connection /\ copy # NoConnection /\ a \in Authorizations /\ a = copy.grant
      /\ copy.token \in Nat /\ Copies(r)
  BY Typed, Kinds, Fields, Absent DEF SaveTokens, Inv, Client, Sending, Copies, Copying
<1>2. /\ connection # NoConnection /\ connection.revision = copy.revision
      /\ connection' = x /\ request' = [request EXCEPT ![r] = h]
      /\ UNCHANGED <<state, uses, grant, lost, deletions>>
  BY <1>y, <1>h, <1>x DEF SaveTokens, SameRow, Proceed, Continue, history
<1>3. connection \in Connection /\ connection.revision \in Nat
      /\ connection.account \in Accounts
  BY <1>2, Typed, Fields DEF Inv
<1>4. /\ x \in Connection /\ x # NoConnection /\ x.account = connection.account
      /\ x.grant = a /\ x.token = copy.token /\ x.revision = connection.revision + 1
  <2>1. /\ x \in Connection /\ x.account = connection.account
        /\ x.grant = a /\ x.token = copy.token /\ x.revision = connection.revision + 1
    BY <1>1, <1>3, <1>x DEF Connection
  <2> QED  BY <2>1, Absent
<1>5. /\ y \in Connection /\ y.account = copy.account /\ y.grant = a /\ y.token = copy.token
      /\ y.revision = x.revision
  BY <1>1, <1>3, <1>4, <1>y DEF Connection
<1>6. /\ h \in Handlers /\ h.pc = "ready" /\ h.copy = y
      /\ h.contract = q.contract /\ h.reserved = q.reserved /\ h.pc \notin Callback
  BY <1>1, <1>5, <1>h DEF Handlers, Sending, Callback
<1>7. request'[r] = h /\ \A p \in Requests : p # r => request'[p] = request[p]
  BY <1>2, Others DEF Inv
<1>8. Given(copy) /\ Renewed(r)  BY <1>1 DEF Inv
<1>9. TypeOK' /\ deletions' \in Nat  BY <1>2, <1>4, <1>6 DEF Inv, TypeOK, uses, Handlers
<1>10. StatesUsed'
  <2>1. ExchangedOnce'  BY <1>6, <1>7 DEF Inv, StatesUsed, ExchangedOnce, Callback
  <2> QED  BY <1>2, <1>6, <1>7, <2>1 DEF Inv, StatesUsed
<1>11. ASSUME NEW p \in Requests PROVE NewGrant(p)'
  <2>1. CASE p # r /\ request[p].pc \in Callback
    <3>1. NewGrant(p) /\ request'[p] = request[p]  BY <1>7, <2>1 DEF Inv
    <3>2. CASE request[p].pc = "consumed"  BY <1>2, <3>1, <3>2 DEF NewGrant
    <3>3. CASE request[p].pc \in Stored
      <4>1. request[p].auth # a  BY <1>1, <3>1, <3>3 DEF NewGrant, Stored, Client
      <4>2. \A t \in Requests : request'[t].pc \in Client =>
              request'[t].copy.grant # request[p].auth
        BY <1>5, <1>6, <1>7, <3>1, <3>3, <4>1 DEF NewGrant, Stored
      <4> QED  BY <1>2, <1>4, <3>1, <3>3, <4>1, <4>2 DEF NewGrant, Stored
    <3> QED  BY <2>1, <3>2, <3>3 DEF Callback, Stored
  <2>2. CASE request'[p].pc \notin Callback  BY <2>2 DEF NewGrant, Callback
  <2> QED  BY <1>6, <1>7, <2>1, <2>2
<1>12. /\ Given(connection)' /\ \A p \in Requests : (Copies(p) => Given(request[p].copy))'
  <2>1. Given(connection)'  BY <1>1, <1>2, <1>4, <1>8 DEF Given
  <2>2. Given(request[r].copy)'  BY <1>1, <1>2, <1>5, <1>6, <1>7, <1>8 DEF Given
  <2>3. ASSUME NEW p \in Requests, p # r, Copies(p) PROVE Given(request[p].copy)'
    BY <1>2, <1>7, <2>3 DEF Inv, Given
  <2> QED  BY <1>7, <2>1, <2>2, <2>3 DEF Copies
<1>13. \A c \in Contracts : (link[c] # NoLink => grant[link[c].via] # NoGrant)'
  BY <1>2 DEF Inv, uses
<1>14. ASSUME NEW p \in Requests, p # r, request[p].pc \in Client, request[p].copy.grant = a
       PROVE  request[p].pc # "refreshing" /\ request[p].copy.token # copy.token
  <2>1. request[p].copy.token < grant[a].token /\ copy.token = grant[a].token
    BY <1>1, <1>8, <1>14 DEF Renewed
  <2>2. request[p].copy.token \in Nat
    BY <1>14, Typed, Refers, Fields DEF Inv
  <2>3. Renewed(p)  BY DEF Inv
  <2> QED  BY <1>1, <1>14, <2>1, <2>2, <2>3 DEF Renewed
<1>15. ASSUME NEW p \in Requests PROVE SameTokens(p)'
  BY <1>2, <1>4, <1>5, <1>6, <1>7, <1>14 DEF SameTokens, Client
<1>16. ASSUME NEW p \in Requests PROVE Renewed(p)'
  <2>1. CASE p = r  BY <1>6, <1>7, <2>1 DEF Renewed
  <2>2. CASE p # r /\ request[p].pc = "refreshing"
    <3> PICK g : g = request[p].copy.grant  OBVIOUS
    <3>1. /\ Renewed(p) /\ request'[p] = request[p] /\ g # a
      BY <1>7, <1>14, <2>2 DEF Inv, Client
    <3>2. ASSUME NEW t \in Requests, t # p, request'[t].pc \in Client,
                 request'[t].copy.grant = g
          PROVE  request'[t].copy.token < grant[g].token
      BY <1>5, <1>6, <1>7, <2>2, <3>1, <3>2 DEF Renewed
    <3> QED  BY <1>2, <1>4, <2>2, <3>1, <3>2 DEF Renewed
  <2>3. CASE p # r /\ request[p].pc # "refreshing"  BY <1>7, <2>3 DEF Renewed
  <2> QED  BY <2>1, <2>2, <2>3
<1>17. RefreshTokenUsable'
  BY <1>1, <1>2, <1>4, <1>8 DEF RefreshTokenUsable, Renewed
<1>18. ASSUME NEW p \in Requests PROVE Asked(p)'
  <2>1. CASE p = r
    <3>1. Asked(r) /\ q.pc \in Client  BY <1>1 DEF Inv, Client
    <3>2. request'[r] = h /\ h.contract = q.contract /\ h.reserved = q.reserved
          /\ h.copy.account = copy.account
      BY <1>5, <1>6, <1>7
    <3> QED  BY <1>2, <2>1, <3>1, <3>2 DEF Asked, uses
  <2>2. CASE p # r  BY <1>2, <1>7, <2>2 DEF Inv, Asked, uses
  <2> QED  BY <2>1, <2>2
<1>19. Kept'
  <2> SUFFICES ASSUME deletions = 0 PROVE Kept'  BY <1>2 DEF Kept
  <2>1. copy.account = connection.account /\ a = connection.grant
        /\ grant[a].account = connection.account
    BY <1>1, <1>2 DEF Inv, Kept, Matched
  <2>2. Matched(connection)'  BY <1>2, <1>4, <2>1 DEF Matched
  <2>3. ASSUME NEW p \in Requests, Copies(p)'
        PROVE  /\ request'[p].copy.revision <= x.revision
               /\ request'[p].copy.revision = x.revision =>
                    request'[p].copy.account = x.account /\ request'[p].copy.grant = x.grant
               /\ grant[request'[p].copy.grant].account = request'[p].copy.account
    <3>1. CASE p = r
      <4>1. x.revision \in Nat  BY <1>3, <1>4
      <4> QED  BY <1>4, <1>5, <1>6, <1>7, <2>1, <3>1, <4>1
    <3>2. CASE p # r
      <4>1. Copies(p) /\ request'[p] = request[p]  BY <1>7, <2>3, <3>2 DEF Copies
      <4>2. /\ request[p].copy.revision <= connection.revision
            /\ grant[request[p].copy.grant].account = request[p].copy.account
        BY <4>1 DEF Inv, Kept, Matched, Copies
      <4>3. request[p].copy.revision \in Nat
        BY <4>1, Typed, Refers, Fields DEF Inv, Copies
      <4> QED  BY <1>3, <1>4, <4>1, <4>2, <4>3
    <3> QED  BY <3>1, <3>2
  <2>4. \A c \in Contracts : (link[c] # NoLink => grant[link[c].via].account = link[c].account)'
    BY <1>2 DEF Inv, Kept, uses
  <2> QED  BY <1>2, <1>4, <2>2, <2>3, <2>4 DEF Kept, Matched
<1> QED
  BY <1>9, <1>10, <1>11, <1>12, <1>13, <1>15, <1>16, <1>17, <1>18, <1>19 DEF Inv

LEMMA SaveStep == ASSUME Inv, NEW r \in Requests, Save(r) PROVE Inv'
<1> PICK q, a, account : /\ q = request[r] /\ a = request[r].auth
                         /\ account = grant[request[r].auth].account
  OBVIOUS
<1>x. PICK x : x = [account |-> IF q.copy # NoConnection /\ q.copy.account = account
                                THEN connection.account ELSE account,
                    grant |-> q.auth, token |-> 1, revision |-> q.copy.revision + 1]
  OBVIOUS
<1>1. /\ q \in Storing /\ q.pc = "saving" /\ a \in Authorizations
      /\ q.copy \in Connection \cup {NoConnection}
  BY Typed, Kinds DEF Save, Inv, Storing
<1>2. /\ connection' = x /\ request' = [request EXCEPT ![r] = Idle]
      /\ q.copy = NoConnection => connection = NoConnection
      /\ q.copy # NoConnection =>
           connection # NoConnection /\ connection.revision = q.copy.revision
      /\ UNCHANGED <<state, uses, grant, lost, deletions>>
  BY <1>x DEF Save, SameRow, End, history
<1>3. /\ grant[a] # NoGrant /\ grant[a].token = 1 /\ account \in Accounts
      /\ \A p \in Requests : request[p].pc \in Client => request[p].copy.grant # a
  BY <1>1, Typed DEF Inv, NewGrant
<1>4. q.copy.revision \in Nat  BY <1>1, Fields DEF NoConnection
<1>5. /\ x \in Connection /\ x # NoConnection /\ x.grant = a /\ x.token = 1
      /\ x.revision = q.copy.revision + 1
      /\ x.account = IF q.copy # NoConnection /\ q.copy.account = account
                     THEN connection.account ELSE account
  <2>1. (IF q.copy # NoConnection /\ q.copy.account = account
         THEN connection.account ELSE account) \in Accounts
    BY <1>2, <1>3, Typed, Fields DEF Inv
  <2>2. x \in Connection  BY <1>1, <1>4, <1>x, <2>1 DEF Connection
  <2>3. x # NoConnection  BY <2>2, Absent
  <2> QED  BY <1>x, <2>2, <2>3
<1>6. /\ Idle \in Handlers
      /\ Idle.pc \notin Callback \cup Copying \cup Client
      /\ Idle.pc \notin {"consumed", "refreshing"} \cup Stored
  BY DEF Handlers, Idle, Callback, Copying, Client, Stored
<1>7. request'[r] = Idle /\ \A p \in Requests : p # r => request'[p] = request[p]
  BY <1>2, Others DEF Inv
<1>8. TypeOK' /\ deletions' \in Nat  BY <1>2, <1>5, <1>6 DEF Inv, TypeOK, uses, Handlers
<1>9. StatesUsed'
  <2>1. ExchangedOnce'  BY <1>6, <1>7 DEF Inv, StatesUsed, ExchangedOnce, Callback
  <2> QED  BY <1>2, <1>6, <1>7, <2>1 DEF Inv, StatesUsed
<1>10. ASSUME NEW p \in Requests PROVE NewGrant(p)'
  <2>1. CASE p # r /\ request[p].pc \in Callback
    <3>1. NewGrant(p) /\ request'[p] = request[p]  BY <1>7, <2>1 DEF Inv
    <3>2. request[p].auth # a
      BY <1>1, <2>1 DEF Inv, StatesUsed, ExchangedOnce, Callback
    <3>3. \A t \in Requests : request'[t].pc \in Client => request'[t] = request[t]
      BY <1>6, <1>7
    <3> QED  BY <1>2, <1>5, <3>1, <3>2, <3>3 DEF NewGrant
  <2>2. CASE request'[p].pc \notin Callback  BY <2>2 DEF NewGrant, Callback
  <2> QED  BY <1>6, <1>7, <2>1, <2>2
<1>11. /\ Given(connection)' /\ \A p \in Requests : (Copies(p) => Given(request[p].copy))'
  <2>1. Given(connection)'  BY <1>2, <1>3, <1>5 DEF Given
  <2> QED  BY <1>2, <1>6, <1>7, <2>1 DEF Inv, Given, Copies
<1>12. \A c \in Contracts : (link[c] # NoLink => grant[link[c].via] # NoGrant)'
  BY <1>2 DEF Inv, uses
<1>13. ASSUME NEW p \in Requests PROVE SameTokens(p)'
  BY <1>2, <1>3, <1>5, <1>6, <1>7 DEF SameTokens, Client
<1>14. ASSUME NEW p \in Requests PROVE Renewed(p)'
  <2>1. CASE p # r /\ request[p].pc = "refreshing"
    <3>1. Renewed(p) /\ request'[p] = request[p] /\ request[p].copy.grant # a
      BY <1>3, <1>7, <2>1 DEF Inv, Client
    <3>2. \A t \in Requests : request'[t].pc \in Client => request'[t] = request[t]
      BY <1>6, <1>7
    <3> QED  BY <1>2, <1>5, <2>1, <3>1, <3>2 DEF Renewed
  <2>2. CASE request'[p].pc # "refreshing"  BY <2>2 DEF Renewed
  <2> QED  BY <1>6, <1>7, <2>1, <2>2
<1>15. RefreshTokenUsable'  BY <1>2, <1>3, <1>5 DEF RefreshTokenUsable
<1>16. \A p \in Requests : Asked(p)'  BY <1>2, <1>6, <1>7 DEF Inv, Asked, uses
<1>17. Kept'
  <2> SUFFICES ASSUME deletions = 0 PROVE Kept'  BY <1>2 DEF Kept
  <2>1. x.account = grant[a].account
    <3>1. CASE q.copy # NoConnection /\ q.copy.account = account
      <4>1. Copies(r)  BY <1>1, <3>1 DEF Copies, Copying
      <4>2. q.copy.account = connection.account
        BY <1>2, <3>1, <4>1 DEF Inv, Kept
      <4> QED  BY <1>5, <3>1, <4>2
    <3>2. CASE ~(q.copy # NoConnection /\ q.copy.account = account)  BY <1>5, <3>2
    <3> QED  BY <3>1, <3>2
  <2>2. Matched(connection)'  BY <1>2, <1>5, <2>1 DEF Matched
  <2>3. ASSUME NEW p \in Requests, Copies(p)'
        PROVE  /\ request'[p].copy.revision <= x.revision
               /\ request'[p].copy.revision # x.revision
               /\ grant[request'[p].copy.grant].account = request'[p].copy.account
    <3>1. Copies(p) /\ request'[p] = request[p]  BY <1>6, <1>7, <2>3 DEF Copies
    <3>2. /\ connection # NoConnection
          /\ request[p].copy.revision <= connection.revision
          /\ grant[request[p].copy.grant].account = request[p].copy.account
      BY <3>1 DEF Inv, Kept, Matched, Copies
    <3>3. request[p].copy.revision \in Nat
      BY <3>1, Typed, Refers, Fields DEF Inv, Copies
    <3>4. x.revision = connection.revision + 1 /\ connection.revision \in Nat
      BY <1>2, <1>4, <1>5, <3>2
    <3> QED  BY <3>1, <3>2, <3>3, <3>4
  <2>4. \A c \in Contracts : (link[c] # NoLink => grant[link[c].via].account = link[c].account)'
    BY <1>2 DEF Inv, Kept, uses
  <2> QED  BY <1>2, <1>5, <2>2, <2>3, <2>4 DEF Kept, Matched
<1> QED
  BY <1>8, <1>9, <1>10, <1>11, <1>12, <1>13, <1>14, <1>15, <1>16, <1>17 DEF Inv

\* The row goes, and with it what revisions tell; tokens do not depend on them.
LEMMA Deleted ==
    ASSUME Inv, connection' = NoConnection, deletions' = deletions + 1,
           state' = [a \in Authorizations |-> IF state[a] = "open" THEN "used" ELSE state[a]],
           UNCHANGED <<uses, grant, lost>>,
           \A q \in Requests : request'[q] \in {request[q], Idle},
           request' \in [Requests -> Handlers]
    PROVE  Inv'
<1>1. Idle.pc \notin Callback \cup Client \cup Copying \cup {"consumed", "refreshing"} \cup Stored
  BY DEF Idle, Callback, Client, Copying, Stored
<1>2. TypeOK' /\ deletions' \in Nat /\ deletions' # 0
  BY DEF Inv, TypeOK, uses, Handlers
<1>3. \A q \in Requests : request[q].pc \in Callback => request[q].auth \in Authorizations
  BY Typed, Refers DEF Inv
<1>4. StatesUsed'
  <2>1. \A a \in Authorizations : state[a] = "used" => state'[a] = "used"
    OBVIOUS
  <2>2. ExchangedOnce'  BY <1>1 DEF Inv, StatesUsed, ExchangedOnce, Callback
  <2> QED  BY <1>1, <1>3, <2>1, <2>2 DEF Inv, StatesUsed
<1>5. ASSUME NEW q \in Requests PROVE NewGrant(q)'
  BY <1>1 DEF Inv, NewGrant, Stored
<1>6. Given(connection)' /\ \A q \in Requests : (Copies(q) => Given(request[q].copy))'
  BY <1>1 DEF Inv, Given, Copies
<1>7. \A c \in Contracts : (link[c] # NoLink => grant[link[c].via] # NoGrant)'
  BY DEF Inv, uses
<1>8. \A q \in Requests : Renewed(q)' /\ SameTokens(q)'
  BY <1>1 DEF Inv, Renewed, SameTokens
<1>9. RefreshTokenUsable'  BY DEF RefreshTokenUsable
<1>10. \A q \in Requests : Asked(q)'  BY <1>1 DEF Inv, Asked, uses
<1>11. Kept'  BY <1>2 DEF Kept
<1> QED  BY <1>2, <1>4, <1>5, <1>6, <1>7, <1>8, <1>9, <1>10, <1>11 DEF Inv

LEMMA DisconnectStep == ASSUME Inv, NEW r \in Requests, Disconnect(r) PROVE Inv'
<1>1. /\ request' = [request EXCEPT ![r] = Idle] /\ Idle \in Handlers
  BY DEF Disconnect, End, Handlers
<1>2. request' \in [Requests -> Handlers] /\ \A q \in Requests : request'[q] \in {request[q], Idle}
  BY <1>1 DEF Inv, TypeOK, Handlers
<1> QED  BY <1>2, Deleted DEF Disconnect, DeleteConnection

LEMMA DeletionStep == ASSUME Inv, SalesforceDisconnect \/ RemoveMember PROVE Inv'
<1>1. DeleteConnection /\ UNCHANGED request  BY DEF SalesforceDisconnect, RemoveMember
<1>2. request' \in [Requests -> Handlers]  BY <1>1 DEF Inv, TypeOK, Handlers
<1> QED  BY <1>1, <1>2, Deleted DEF DeleteConnection

--------------------------------------------------------------------------------
(* The invariant holds.                                                     *)

LEMMA Initially == Init => Inv
<1> SUFFICES ASSUME Init PROVE Inv  OBVIOUS
<1>1. /\ connection = NoConnection /\ deletions = 0 /\ lost = {}
      /\ \A r \in Requests : request[r] = Idle
      /\ \A a \in Authorizations : grant[a] = NoGrant
      /\ \A c \in Contracts : link[c] = NoLink
  BY DEF Init
<1>2. Idle.pc \notin Callback \cup Client \cup Copying \cup {"consumed", "refreshing"} \cup Stored
  BY DEF Idle, Callback, Client, Copying, Stored
<1>3. TypeOK  BY DEF Init, TypeOK
<1>4. StatesUsed  BY <1>1, <1>2 DEF StatesUsed, ExchangedOnce, Callback
<1>5. \A r \in Requests : NewGrant(r) /\ Renewed(r) /\ SameTokens(r) /\ Asked(r) /\ ~Copies(r)
  BY <1>1, <1>2 DEF NewGrant, Renewed, SameTokens, Asked, Copies, Stored
<1>6. RefreshTokenUsable  BY <1>1 DEF RefreshTokenUsable
<1>7. Given(connection) /\ Kept  BY <1>1, <1>5 DEF Given, Kept, Matched
<1> QED  BY <1>1, <1>3, <1>4, <1>5, <1>6, <1>7 DEF Inv

LEMMA Stutter == ASSUME Inv, UNCHANGED vars PROVE Inv'
<1> USE DEF vars, uses, history
<1>1. TypeOK' /\ deletions' \in Nat  BY DEF Inv, TypeOK
<1>2. StatesUsed'  BY DEF Inv, StatesUsed, ExchangedOnce
<1>3. \A r \in Requests : NewGrant(r)'  BY DEF Inv, NewGrant
<1>4. /\ Given(connection)' /\ \A r \in Requests : (Copies(r) => Given(request[r].copy))'
      /\ \A c \in Contracts : (link[c] # NoLink => grant[link[c].via] # NoGrant)'
  BY DEF Inv, Given, Copies
<1>5. \A r \in Requests : Renewed(r)' /\ SameTokens(r)'  BY DEF Inv, Renewed, SameTokens
<1>6. RefreshTokenUsable'  BY DEF Inv, RefreshTokenUsable
<1>7. \A r \in Requests : Asked(r)'  BY DEF Inv, Asked
<1>8. Kept'  BY DEF Inv, Kept, Matched, Copies
<1> QED  BY <1>1, <1>2, <1>3, <1>4, <1>5, <1>6, <1>7, <1>8 DEF Inv

LEMMA Steps == Inv /\ [Next]_vars => Inv'
<1> SUFFICES ASSUME Inv, [Next]_vars PROVE Inv'  OBVIOUS
<1>1. CASE UNCHANGED vars  BY <1>1, Stutter
<1>2. CASE Next
  BY <1>2, StateStep, LapseStep, ConsumeStep, IdentifyStep, StoringStep, AcceptStep, EndStep,
     SaveStep, UseTokenStep, RenewStep, SaveTokensStep, UsingStep, ReserveStep, LinkStep,
     ResolveStep, LoadToDisconnectStep, DisconnectStep, DeletionStep, StaleStep,
     FailStep
  DEF Next, Consume, SalesforceConsume, Refresh, SalesforceRefresh
<1> QED  BY <1>1, <1>2

LEMMA InvariantHolds == Spec => []Inv
BY Initially, Steps, PTL DEF Spec

\* What the invariant says of tokens, accounts and links.
LEMMA InvariantKeeps ==
    ASSUME Inv
    PROVE  /\ ExchangedOnce /\ AskedInItsAccount /\ TokensOfAccountKept
           /\ RefreshTokenUsable /\ LinkNamesItsInstance
<1>1. AskedInItsAccount  BY DEF Inv, Asked, AskedInItsAccount, Client
<1>2. TokensOfAccountKept  BY DEF Inv, Kept, Matched, TokensOfAccountKept
<1>3. LinkNamesItsInstance  BY DEF Inv, Kept, LinkNamesItsInstance
<1> QED  BY <1>1, <1>2, <1>3 DEF Inv, StatesUsed

--------------------------------------------------------------------------------
(* The theorems.                                                            *)

\* The rows, the handlers and the grants are of their types, for any number of consents,
\* handlers and refreshes.
THEOREM ConnectionTypeCorrect == Spec => []TypeOK
BY InvariantHolds, PTL DEF Inv

\* However often the browser repeats the redirect, one callback exchanges the code
\* (callback deletes the state and tests that it did).
THEOREM CodeExchangedOnce == Spec => []ExchangedOnce
BY InvariantHolds, InvariantKeeps, PTL

\* DocuSign is asked about a request in the account it was reserved with (send_signature
\* and reconcile), whatever is connected or deleted meanwhile.
THEOREM AskedInReservedAccount == Spec => []AskedInItsAccount
BY InvariantHolds, InvariantKeeps, PTL

\* Until the row is deleted, by a disconnect or a removal, no commit of a stale copy parts the tokens of the row from
\* its account (access_token, query, callback).
THEOREM TokensStayWithAccount == Spec => []TokensOfAccountKept
BY InvariantHolds, InvariantKeeps, PTL

\* No two refreshes make the connection useless, even across deletions and new rows
\* whose revisions repeat (access_token, query).
THEOREM RefreshTokenStaysUsable == Spec => []RefreshTokenUsable
BY InvariantHolds, InvariantKeeps, PTL

\* Until the row is deleted, a link leads to the instance in which its opportunity was
\* found (link_contract).
THEOREM LinkLeadsToInstance == Spec => []LinkNamesItsInstance
BY InvariantHolds, InvariantKeeps, PTL

================================================================================
