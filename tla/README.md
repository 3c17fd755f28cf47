# OpenCLM in TLA+

OpenCLM is a contract lifecycle manager: one FastAPI process with SQLAlchemy over
PostgreSQL (SQLite in development). Contracts are drafted from templates, approved
along a chain, sent to DocuSign and archived; an intake desk, organizations with
members and invitations, OAuth connections and a mail outbox surround them. This
directory models the parts of it whose correctness depends on the order of events,
checks them with TLC on small instances and proves with TLAPS, for every instance, all
safety properties of the eight concurrent modules. Paths below are relative to the
repository (`openclm/` is `src/openclm/`).

Contents: [How the program runs](#how-the-program-runs) ·
[Inventory](#inventory) · [Modules](#modules) · [Runs](#runs-bounds-and-results) ·
[Fairness](#fairness) · [Proofs](#proofs) · [Findings](#findings) ·
[Limits](#limits-of-the-models) · [Plan](#plan)

## How the program runs

Everything below rests on four facts of the code.

1. **Handlers are concurrent.** FastAPI runs `def` handlers in a thread pool, each
   with its own database session (`security.get_db`). PostgreSQL runs them at READ
   COMMITTED. `docusign_webhook` is `async def` and never interleaves with another
   webhook, but with all other handlers.
2. **Handlers act on copies.** A session reads a row once and keeps it
   (`expire_on_commit=False`); guards look at the copy and a commit writes the
   columns that differ from it. `Contract`, `DocuSignConnection`, `IntakeService`,
   `IntakeRequest` and a few more have a `version_id_col` named `revision`: their
   UPDATE and DELETE test the revision of the copy, and a mismatch is a
   `StaleDataError`, answered with 409 (`main.py:132`). `SignatureRequest`,
   `Membership`, `Invitation`, `MailOutbox` have none.
3. **The organization's row is a lock.** `lock_organization` (`accounts.py:398`)
   updates the organization's row, which blocks until the holder commits, and then
   reads the caller's membership again. Creation of contracts, every change of members and
   every handler of the intake desk take it. Transitions of contracts do not: they
   rely on the revision.
4. **External calls happen between commits.** DocuSign and the mail provider are
   called with no transaction that could undo the effect, so what was decided is
   committed before (`sending`, the consumed OAuth state, the claimed message) and
   the answer is committed after, if there is one.

A model therefore has one variable per table, and one variable for the handlers in
flight: `request[r]` holds what the handler in slot `r` has read so far. Actions are
the stretches between two points where another actor can intervene: read, commit,
take the lock, wait for an answer. `Fail` (or an action of that kind) ends a handler at
any of these points: a refused guard, a failed commit, a lost database or a crash.

## Inventory

| Component (source) | State | Operations | What is hard | Correct means |
|---|---|---|---|---|
| **Contract lifecycle** (`api.py`, `models.py`) | `contracts`, `document_versions`, `signature_requests`, `audit_events` | create, edit, submit, approve, return, archive, reserve for signature | stale copies, racing reviewers, approvals of older versions, quota | no approval missing or counted twice, nothing sent that was not fully approved, no lost update |
| **Signature dispatch** (`api.py`, `integrations.py`) | the contract's status, `signature_requests`, `webhook_events`; the envelope at DocuSign | send, webhook, reconcile | timeouts with an unknown outcome, early, late and repeated notices, two rows of which one has no revision | one envelope at most, truthful outcome, outcome shown in the end |
| **Membership** (`accounts.py`, `api.py`, `cli.py`) | `organizations.owner_id`, `memberships`, `invitations`, `users` | update, remove, transfer, invite, revoke, accept, create user, CLI | administrators acting on each other, admissions racing for the last place, a CLI without the lock | the owner is an active administrator, limits hold, memberships are granted by somebody entitled |
| **Intake desk** (`intake.py`, `accounts.py`) | `intake_services`, `intake_requests`, messages | services, submit, triage, message, link; release of work | the team changes while work is distributed, stale pages | work in progress is in the hands of the legal team, triage is decided on what is there |
| **Mail outbox** (`mail.py`) | `mail_outbox` | queue, recover, claim, deliver, settle, delete | lost answers, crashes, two processes, deliveries that outlast their lease | each mishap has one consequence at most, every message is settled |
| **DocuSign and Salesforce connections** (`oauth.py`, `salesforce.py`, `integrations.py`) | `docusign_connections`, `oauth_states`, `salesforce_connections`, `salesforce_states`, `salesforce_links`; grants at the provider | connect, callback, refresh, disconnect, removal of the member; use by send, reconcile, search and link | refresh tokens are used once, row deleted and created anew, calls of 30 s between read and commit | the stored tokens work and belong to the stored account, nothing is asked or linked in another one |
| **Credentials and sessions** (`accounts.py`, `api.py`, `security.py`, `cli.py`) | `tokens` (sessions, keys, links, recovery codes), `users.password_hash`, `active`, `email_verified` | login, logout, API keys, verification, reset by link, code or command line, rotation, disable | DELETEs that see what was committed when they started, a reset racing a login or a rotation | a code works once, nothing that is older than a reset survives it, no account loses all its codes |
| **Tenant isolation, organizations of an account** (`db.py`, `security.py`, `accounts.py`) | the organization of a session or key, memberships and ownerships of one person, pending consents | switch, create, be removed, come back, hand over; scope of finds and inserts | tabs that switch while other requests are under way, removal and return | a connection is of the organization it was asked in, access ends with the membership, limit per account |
| **Templates, documents** (`documents.py`, `schemas.py`) | none, pure | validate, render, DOCX | conditional fields | not modelled, see [Limits](#limits-of-the-models) |
| **Workflows** (`api.py`) | `workflows` | create, list | copied into a contract when it is created, never changed | a constant of `ContractLifecycle` |
| **Attachments, guidance** (`intake.py`), **rate limits**, **local AI**, **UI**, **migrations and scripts** | | | one statement under the lock, no state, or one-off | not modelled, see [Limits](#limits-of-the-models) |

Interactions: a transition of a contract leads to `signature_requests`, which is
where lifecycle, dispatch and connection meet; membership changes release the work
of the intake desk (`release_intake_assignments`), delete the sessions, keys, consents
and connections of that organization and decide who may act on contracts; switching
the organization of a session drops its consents; accounts queue mail; the CLI writes
what membership guards with the lock, and resets passwords next to the handlers.

## Modules

**`ApprovalProtocol`** is the abstract specification: what the approval of contracts
promises, with atomic operations, no handlers, no revisions. A version starts its
approval at step 0, each step is passed by one accepted person other than the
author, only a fully approved version is sent, and one version per contract.

**`ContractLifecycle`** is the concurrent implementation in `api.py`. A handler goes
`Authenticate` (role and page's revision copied, `security.py:93`), `Load`
(`get_contract`, `check_revision` and the guard of the operation over the copy) and
one of `Edit`, `Submit`, `Approve`, `Reject`, `Archive`, `ReserveSend`, all built on
`Commit`, the UPDATE with its test of the revision and its audit event. Creation
goes `BeginCreate`, `LockForCreate` (lock, membership read again, quota, author not
an approver), `Create`. `SignatureOutcome` stands for what the dispatch writes
later: any outcome on any contract that was reserved. The refinement mapping is
`Protocol`: `Documents` leaves out revisions and contents, and `Approvals` is what the
audit trail says of approvals. `ImplementsApprovalProtocol` is checked and proved.

**`SigningProtocol`** is the second abstract specification: what sending for signature
promises, without handlers, notices or copies. A contract is sent once and its envelope
made once; the contract shows a status its envelope has reached, forwards and with a
final outcome until an administrator reconciles.

**`SignatureDispatch`** opens up `SignatureOutcome`. Its state is the contract's
status and revision, the signature request, the digests of webhook events, the
envelope at DocuSign (external), and three kinds of handlers:
`LoadForSend`–`Reserve`–`Post`–`Confirm | Uncertain | SenderFails`;
`WebhookRead`–`WebhookLoad`–`WebhookCommit`; `ReconcileRead`–`Inspect`–
`ReconcileLoad`–`ReconcileCommit`. Who reads which row when is kept exactly: the
signature request is read before the wait, the contract after it. `Write` models the
UPDATE of the contract, which happens, and is checked, only if the status differs
from the copy; `StatusWritten` is the same for the unversioned request. DocuSign may
lose a request (`Lose`), accept it after the caller gave up (`Accept`), and deliver
any past status again. An envelope is identified by the contract whose
`openclm_request_id` it carries; `Foreign` envelopes carry none of ours. The refinement
mapping is `Signing`: `Shown`, `Requested` and `Reached` read the contracts, the
requests and the envelopes; `ImplementsSigningProtocol` is checked and proved.

**`Membership`** has the owner, memberships, accounts and invitations, and requests
that authenticate, wait for the lock, read a `Snapshot` under it and commit.
`CliCheckDisable` and `CliDisable` are the two statements of `disable-user`, which
takes no lock; `CliCreateUser` admits without looking at the limit.

**`Intake`** takes the lock for granted (it is `Membership`'s subject): what a
handler does under it is one step, and what it knows from before is the caller's
role and the page (`OpenService`, `OpenTicket`) whose revision the client sends back.
`Release` is `release_intake_assignments`, part of `ChangeRole` and `Remove`.

**`MailOutbox`** has the table and drainers. `Start` is the first transaction of
`drain_outbox` (take back expired leases, delete old rows, list a batch), `Claim` the
conditional UPDATE, `Load` the read of the row after it, `Deliver`, `Refuse` and
`LoseAnswer` the outcome of `deliver`, `SettleSent` and `SettleRefused` the last
transaction. Time is two Booleans: `due` and `aged`. The lease is two minutes of the wall
clock (`mail.py:115`), while the timeouts of `deliver` (`mail.py:45`, `:66`) are those of
one socket operation, of which an SMTP dialogue has many; so a lease may end during a
delivery (`Overrun`), the drain of another process takes the message back
(`mail.py:92`), and several hands have it. Each settles it on the copy it loaded:
`Write` writes the columns that differ from the copy and tests nothing. `overruns` counts
these leases, `mishaps` the lost answers and crashes; the properties allow one
consequence for each.

**`OAuthConnection`** has one person's row at one provider, the consents, the requests
that were sent, the links to Salesforce, and grants at the provider with their
rotating refresh token: token `n` of a grant is valid until it is used. Both
providers share `TakeState`, `Identify`, `Save`, `Renew` and `SaveTokens`; they differ
where the code does. At DocuSign `Consume`–`Identify`–`LoadToStore`–`Accept | Refuse`–
`Save` is `callback`, which refuses another account while a request is pending, and
`UseToken | Refresh`–`SaveTokens` is `access_token`, called from a send (`LoadToSend`,
`Reserve`, `Call`) or an inspection (`LoadToInspect`, `Call`). At Salesforce
`SalesforceConsume`–`Identify`–`SalesforceLoadToStore`–`Save` is the callback, a query
(`LoadToQuery`) refreshes once after a 401 (`SalesforceRefresh`), `Link` commits what it
found, and `SalesforceDisconnect` is one DELETE without a revision. `RemoveMember` is
what `remove_member` (`accounts.py:446`) does to the row of the person it removes.

**`Accounts`** has one account: the number of its password, its tokens of every kind,
and handlers as transactions at READ COMMITTED. `Login`–`StartSession` is `login`,
`Identify` is `identity_user`, which precedes `CreateApiKey`, `Revoke`,
`ResendVerification` and `RotateRecovery`. `Consume` is `consume_action`; `Scan`–`Erase`–
`Replace` is the rest of a reset: `Scan` flushes the password, which takes the users
row (`userLock`), and starts the DELETE of all tokens on what is committed then
(`sees`); `Erase` ends it and starts the DELETE of `recovery_codes`; `Replace` inserts
and commits. A token that a running transaction deleted (`holds`) makes others wait.
`CliReset`–`Scan`–`CliErase` is `reset-password`. A token is `late` when it is issued by
a request that proved a password which a reset has replaced, or is just replacing.

**`Tenancy`** has one person, their memberships and ownerships, their sessions and
keys with the organization each is bound to, and their consents and connection.
`CurrentUser` gives a handler the scope of its session, which it keeps to the end;
`Callback` and `Disconnect` find, and `StoreConnection` inserts, within that scope, as
`TenantSession` does. `ActivateCheck`–`Activate` is the switch, `Count`–
`CreateOrganization` the creation under the users row, `Join` and `RemoveMember` are
other people's. `since` counts a person's memberships of an organization, so that a
token of an earlier one can be told.

**`ContractLifecycleProofs`**, **`SignatureDispatchProofs`**, **`MembershipProofs`**,
**`IntakeProofs`**, **`MailOutboxProofs`**, **`OAuthConnectionProofs`**,
**`AccountsProofs`** and **`TenancyProofs`** hold the theorems about the modules they
extend; the `MC*` modules name the people of the instances and their symmetries.
Operators commented `Faulty:` are plausible bugs, one per property; each property of a
passing run is violated when the mapped definition is replaced by its faulty form, which
shows that the property depends on that line of the code.

## Runs, bounds and results

All passing runs finish without error. Deadlock is not an error in any of them
(`CHECK_DEADLOCK FALSE`): revisions, consents and messages are bounded, so every
instance has states in which nothing is left to do, as an idle server has.
Revisions, versions, refreshes, deletions and mishaps are bounded by guards that
name the constant (`MaxRevision`, ...), never by leaving out an action.

| Run | Instance | Distinct states | Shows |
|---|---|---|---|
| `contract_lifecycle` | 3 people, 2 handlers, 1 of 2 contracts, chains of one and two steps, 6 revisions, 2 versions | 360 000 | the eight properties of the lifecycle and the refinement of `ApprovalProtocol` |
| `signature` | 1 contract, 2 senders, webhook, 1 reconciler, 1 foreign envelope; reconciles of rows below revision 5 | 95 000 | one envelope, on record, rows in step, truthful outcome, archive final; the outcome is shown and a lost answer recovered in the end; the refinement of `SigningProtocol` |
| `late_answer` | 1 sender, revisions up to 8 | violation | finding 1 |
| `membership` | 3 people, room for 2, 2 invitations, 2 handlers; one person created and one disabled by the CLI | 1 456 000 | the owner is an administrator, handed over by the owner only; limit of members, one open invitation, every membership granted |
| `intake` | 2 people, 1 service, 1 request, 2 handlers, 3 changes per row | 875 000 | staffed work; triage and services decided on what was seen |
| `intake_reopened` | as above, 4 changes | violation | finding 2 |
| `mail_outbox` | 2 messages, 2 processes, 2 attempts; 2 mishaps or overruns of one message | 516 000 | one carrier and one delivery more per overrun or mishap, bodies, attempts; settlement |
| `connection` | 2 accounts, 2 consents, 3 handlers, 2 refreshes, 1 deletion (disconnect or removal), either provider | 1 490 000 | one exchange per code, requests asked in their account, links in their instance, usable tokens |
| `connection_recreated` | 2 handlers, 1 refresh | violation | finding 3 |
| `accounts` | 2 transactions, 2 credentials and sets of codes, 1 link of a kind, 1 reset | 1 637 000 | codes used once, nothing older than a reset survives, codes remain |
| `reset_revokes` | as above | violation | finding 4 |
| `tenancy` | 2 organizations, 2 handlers, 2 sessions or keys, 1 consent, 2 joins each, 1 owned | 837 000 | connected where asked, access ends with the membership, limit per account |

Why the bounds are enough. A race needs two handlers that hold copies of the same row; a
third adds only a third loser, except in `connection`, where a refresh, a callback and a
send overlap. Six revisions take a contract through creation, submission, two approvals,
reservation and outcome, through a return, a new version and a full approval along the
short chain, and through an edit between submissions. Two versions are enough to carry
an approval over to the wrong one. In `signature` a contract starts approved, at
revision 3; without reconciles it is written at most four times (reserved, confirmed,
resolved, archived), so only what a reconcile replaces needs a bound, and a notice that
comes after the archive is among the behaviours. That bound admits the reconcile of a
request without an envelope, while the sender may still be waiting; reconciles of a
contract that shows its envelope already are in `late_answer` and in the proofs. In
`membership` the roles given are those of the founder and of a viewer, with three
candidates for one place; a demoted and a removed administrator meet every lock. A step
with no designated approver and one with a named one are the two kinds of steps there
are. Two refreshes of a grant give a stale token, a valid one and its successor. One
deletion recreates the row once. In `mail_outbox` two mishaps let an overrun be followed
by another, a crash or a lost answer, so that a refusal comes after a settlement and a
claim after the last attempt; the second message, which meets none, is what the drainers
do besides. In `accounts` two sets of codes let a rotation insert
one while a reset deletes the other, and one reset already makes a password old; in
`tenancy` two joins give an earlier and a present membership, and one organization owned
is enough for two creations to meet at the limit.

Symmetry: request slots in every safety run, and contracts, invitations, accounts,
consents, organizations and (in `membership`) the people besides the founder, which
the modules treat alike; never with a liveness property.

Each module has a `TypeOK`, which says what its rows and handlers look like. All eight
are proved, and the runs are spent on the properties above.

## Fairness

`SignatureDispatch!FairSpec` is `Spec` with two assumptions:

* `Redelivery` (for `OutcomeShown`): DocuSign repeats a notice until it is acknowledged
  (`requireAcknowledgment` in `integrations.py`), so a readable notice is read in the
  end (weak fairness of `WebhookRead`), and deliveries that fail are repeated until one
  does not (strong fairness of the two later steps). Nothing is assumed of senders.
* `Diligence` (for `LostAnswerRecovered`): `docs/docusign.md:60` leaves an uncertain
  answer to an administrator. As long as the request has no envelope they call
  reconcile until it succeeds, may name a wrong envelope in between but name the right
  one again and again (`Recover`); calls end (`InspectRefused`). Without such a person
  nothing recovers: that is the design. Once the envelope is known nobody has to
  reconcile, so `OutcomeShown` rests on `Redelivery` alone, and it claims nothing of
  what a reconcile may undo (finding 1).

`MailOutbox`:

* `FairSpec` (`Settled`): clocks run (`BecomeDue`), a delivery ends, however long it
  takes, and `outbox_loop` (`mail.py:136`) starts a drain ten seconds after the last one,
  whatever became of it. Nothing is assumed about the provider's answers, crashes and
  overruns, except their bounded number; an overrun need not happen.

## Proofs

Every invariant and every action property of the passing runs, every `TypeOK` and both
refinements are theorems, for every value of the constants. Each section names the assumption
its theorems need, and TLC evaluates that assumption in the runs of the module.

`ContractLifecycleProofs` proves, for any number of people, contracts, handlers,
workflows, texts and any quota, under `ConstantsAssumption` alone (the owner is a
member whose role is not given to anybody to change, chains are not empty and name
members, limits are naturals):

| Theorem | Property |
|---|---|
| `TypeCorrect` | `TypeOK` |
| `ApprovalsOnRecord` | `ApprovalChain` |
| `ApprovalsDistinct` | `OneApprovalPerStep` |
| `OnlyApprovedIsSent` | `SentVersionApproved` |
| `ReturnsAreFinal` | `ReturnedStaysReturned` |
| `SnapshotsComplete` | `VersionsMatch` |
| `NoLostUpdate` | `DecidedOnRowReplaced` |
| `QuotaHolds` | `ContractQuota` |
| `CreatorsAreEditors` | `CreatedByEditor` |
| `HandlersImplementProtocol` | `ImplementsApprovalProtocol` |

None of these is inductive by itself: a commit writes a *copy*, and nothing in
`ApprovalChain` says what copies hold. The invariant has four layers, each proved
with the ones before it.

1. `Typed`: rows have their types, and what refers to a contract refers to one
   that exists.
2. `Copies`: a handler's copy has at most the row's revision, and *equals the row if
   the revisions agree*; the guards its operation passed hold of it. This is what
   `version_id_col` buys. The proof needs that every write of a row raises its
   revision (`RowsAdvance`).
3. With `Copies`, every step is one of a few atomic changes in the state it commits in
   (`EveryStepIsAtomic`); all later layers argue about these (`AtomicEdit`,
   `AtomicApprove`, ...) and no longer about handlers.
4. `Stages`: how status, `current_step` and reservation of a contract go together
   (a draft is at step 0, an approved contract at the last, a reserved one is past
   approval).
5. `Trail`: the audit events and snapshots against the row: no event is ahead of the
   row, and the chain, distinct approvals and snapshots.

`Locking` is a second invariant, for creation: a handler past its checks holds the
lock alone, so its count and its author's role are still true at its commit.

The refinement rests on layer 3: `EveryStepIsAtomic` already says that a step is an
atomic change or leaves the tables alone. `SeenAs` and `SeenToBecome` read a row through
the mapping, one lemma per atomic change shows that it is the operation of the same name
in `ApprovalProtocol`, and `ProtocolStep` puts them together; whatever a handler does
before its commit, and a commit that loses, is a stutter.

`SignatureDispatchProofs` proves, under `DispatchAssumption` (contracts, foreign
envelopes and the unknown envelope are told apart, the bound is a natural), for any
number of contracts, senders, reconciles and notices:

| Theorem | Property |
|---|---|
| `DispatchTypeCorrect` | `TypeOK` |
| `OneEnvelopeEach` | `OneEnvelope` |
| `EnvelopesOnRecord` | `EnvelopeOnRecord` |
| `OutcomesTruthful` | `TruthfulOutcome` |
| `RowsStayInStep` | `RowsInStep` |
| `ArchivedForGood` | `ArchiveIsFinal` |
| `HandlersImplementSigning` | `ImplementsSigningProtocol` |
| `DispatchContinuesApproval` | every step is one of `ApprovalProtocol` on an approved contract, or none |

The request has no revision, so copies of it prove nothing by their age. What helps is
that nothing is taken back (`Lasting`): a request stays, its envelope stays known, and an
envelope forgets no status. So what a handler has read remains true of the past, if not
of the present (`SenderKnows`, `NoticeKnows`, `ReconcileKnows`), which is all that
`Truthful` and `Filed` need. `RowsInStep` and the archive need more: until somebody
reconciles, a contract has one writer at a time (`Quiet`), the sender while the request
is `dispatching` and the webhook afterwards, whose copy is therefore still true when it
commits. Finding 1 is what happens when a reconcile is the second writer. For the
refinement, `Followed` turns "a commit writes what the envelope has reached, or nothing"
into a step `Show` or a stutter, and the invariant supplies its hypotheses.

`DispatchContinuesApproval` joins the two components. `ContractLifecycle` leaves the
outcome of a signature open (`SignatureOutcome`); the theorem says that what
`SignatureDispatch` does to a contract, whatever its author, chain and version, are the
steps `Send`, `Resolve` and `Archive` of the same `ApprovalProtocol`. It follows from the
refinement alone: each step of `SigningProtocol` is one of those or changes nothing that
the approval can see (`SigningContinues`).

`IntakeProofs` proves, under `IntakeAssumption` (the owner is a person, services and
tickets are told apart, roles and statuses are the program's), for any desk:

| Theorem | Property |
|---|---|
| `IntakeTypeCorrect` | `TypeOK` |
| `WorkStaysStaffed` | `WorkIsStaffed` |
| `DistributionAsSeen` | `DistributedAsSeen` |

`WorkIsStaffed` is inductive together with the types: what a handler assigns is staff in
the state it commits in, and a role is lost in the step that hands the work back
(`ReleaseHandsBack`). That holds only because both are under the organization's lock,
which the module takes from `Membership`. `DistributedAsSeen` compares a step with the
page its author was sent, so it needs an invariant about pages: `Pages`, a page has at
most the row's revision and equals the row if the revisions agree. `Pages` rests on
`EveryRowStep`: every change of a row raises its revision by one, the two bulk UPDATEs
of a release included. A release that forgot the revision would break this lemma first.

`TenancyProofs` proves, under `TenancyAssumption` (bounds are naturals, `"none"` is no
organization), for any number of organizations, tokens, consents and requests:

| Theorem | Property |
|---|---|
| `TenancyTypeCorrect` | `TypeOK` |
| `OwnedWithinLimit` | `OwnedLimit` |
| `ConnectedInItsOrganization` | `ConnectedWhereAsked` |
| `AccessEndsWithTheMembership` | `AccessEndsWithMembership` |

Each adds its own strengthening to the types. `CountStands`: who has counted holds the
users row alone and the count is below the limit still. `AskedInScope`: a callback that
consumed an authorization is in the scope the authorization was given in, whatever the
session is bound to by then. `Joined`: an organization that was never joined has no
active membership, so that no token stands when a membership begins (`NoneStands`).

`MailOutboxProofs` proves, under `OutboxAssumption` (the limit of attempts and the batch
are at least one), for any number of messages, drainers, crashes, lost answers and leases
that end during a delivery:

| Theorem | Property |
|---|---|
| `OutboxTypeCorrect` | `TypeOK` |
| `CarriedByOne` | `OneCarrier` |
| `AcceptedOnce` | `DeliveredOnce` |
| `BodiesKept` | `BodyKeptUntilSent` |
| `AttemptsWithinLimit` | `AttemptsBounded` |

With an overrun a message is in several hands, so nothing of the form "whoever delivers is
alone" is true, and the invariant counts instead. `Hands` counts the hands that have the
message (`Carriers`), `Copies` those that may still get it accepted (`Live`), `Tries`
those that put it back if it is refused (`Early`), each together with the claim that is
still to come (`Open`): all of them beyond the first were paid for by an overrun, a crash
or a lost answer. The claim is the delicate one. It is open also while the row says
`sending` and no hand is left whose settlement would end that (`Holding`): after a crash,
or when the hand read the status that a late settlement had written, which it then does
not write again. `Alone`
says what holds while no lease has overrun, and `Copied` what a hand's copy still proves:
a body that it did not see is gone. `HandGoesOn` and `HandLeaves` reduce each step of a
hand to a comparison of these counts (`OneMoves`), and `RowOnly` each step on a row.

`MembershipProofs` proves, under `MembershipAssumption` (the founder is a person, the
limit is at least one), for any number of people, requests and invitations:

| Theorem | Property |
|---|---|
| `MembershipTypeCorrect` | `TypeOK` |
| `OwnerStaysAdmin` | `OwnerIsAdmin` |
| `AdmissionsWithinLimit` | `MemberLimit` |
| `OneInvitationEach` | `OneOpenInvitation` |
| `HandedOverByOwner` | `OwnershipHandedOver` |
| `GrantedByRight` | `MembershipsAreGranted` |

Handlers decide on a snapshot, so the strengthening is about snapshots. `Holding`: who has
one holds the organization's lock alone, and it agrees with the tables but for people the
command line added since, who are not in it. `Caller` and `Guest` say the same of the
caller's own membership and of the invitation. Hence a count that was below the limit
under the lock admits one more (`OneAdmitted`), and whoever else becomes a member was
added by the command line and does not count (`NobodyCounted`).

`OAuthConnectionProofs` proves, under `ConnectionAssumption` (bounds are naturals), for any
number of consents, handlers, refreshes, disconnects and removals, at either provider:

| Theorem | Property |
|---|---|
| `ConnectionTypeCorrect` | `TypeOK` |
| `CodeExchangedOnce` | `ExchangedOnce` |
| `AskedInReservedAccount` | `AskedInItsAccount` |
| `TokensStayWithAccount` | `TokensOfAccountKept` |
| `RefreshTokenStaysUsable` | `RefreshTokenUsable` |
| `LinkLeadsToInstance` | `LinkNamesItsInstance` |

A copy with the row's revision need not be of that row: after a deletion a new row
starts at 1 again (finding 3). The argument about tokens may not use revisions, then,
and uses the tokens: the provider accepts a refresh token once, so who renewed it is the
only one to hold the newest (`Renewed`), and a row still of that grant has not been
written since it was read (`SameTokens`). A new grant is known only to the callback that
fetched it (`NewGrant`). Which account a row belongs to has no such witness, so what is
said of accounts holds, and is claimed, until something deletes the row (`Kept`); a request is
asked in its account even after it, because the copy was compared with the request
(`Asked`).

`AccountsProofs` proves, under `AccountsAssumption` (bounds are naturals, and the
model has room for one token of each kind), for any number of transactions, tokens and
resets:

| Theorem | Property |
|---|---|
| `AccountsTypeCorrect` | `TypeOK` |
| `NothingOlderRemains` | `NothingOlderSurvives` |
| `CodesKept` | `CodesRemain` |
| `CodeWorksOnce` | `CodeUsedOnce` |

At READ COMMITTED a DELETE takes what was there when it began. The invariant follows what
handlers hold: the rows a handler deleted are its own until it commits (`Held`), hence a
code that is used is there and is used by one; the users row has one holder (`Locked`).
`Covered` is the heart of `NothingOlderSurvives`: what a reset has neither seen nor
deleted was issued while the users row was locked, and is `late`. It needs that nobody
has proved a password that is not set yet (`Past`, `Under`). `CodesRemain` needs that a
handler which deletes recovery codes inserts one in the same commit (`OfItsKind`).

Only model-checked: liveness (`OutcomeShown`, `LostAnswerRecovered`, `Settled`), which
is out of the prover's reach. Refuted, and so neither: the four properties under
[Findings](#findings). The proofs use no recursive definition.

## Findings

Four runs end in a violation, each of something the repository says.

1. **A late answer undoes a signature** (`late_answer`). `reconcile` reads the
   signature request, waits for DocuSign, then reads the contract. If the webhook
   commits `completed` in between, `apply_signature_status` tests its old copy of the
   request's status, and the contract's revision is fresh, so the commit passes and
   takes a signed contract back to `signature_pending`. The comment above the test
   (`api.py:625`) and `docs/docusign.md:50` promise the opposite. The webhook, which reads
   the request and then the contract, does the same to a reconcile, in a window as
   short as those two statements.
2. **A reopened request comes back to somebody who left** (`intake_reopened`).
   `release_intake_assignments` skips resolved requests, and the requester's answer
   reopens one without looking at the person in charge (`intake.py:453`).
3. **Erased tokens come back** (`connection_recreated`, at DocuSign). The revision of a
   row that was deleted and created anew starts at 1 again, so a refresh that was under
   way when its row was disconnected passes the test and stores the erased
   authorization in the new row (`oauth.py:91`), next to the account of the new one.
   `docs/docusign.md:54` says that disconnecting erases the local tokens.
4. **A reset leaves a session of the old password** (`reset_revokes`). `login` verifies
   the password and inserts its session later; a reset that commits in between has
   deleted the tokens it could see, not that one (`accounts.py:286`; the trace takes the
   command line's, `cli.py:91`), although `docs/organizations-operations.md:11` says that
   it revokes all of them. `NothingOlderSurvives` says how far the promise does hold.

Smaller deviations were met while modelling and are not runs. Where a module is named,
it has behaviours that break the sentence in italics.

* `SignatureDispatch`: *an uncertain request belongs to a contract in `sending`*
  (`docs/docusign.md:60`). A sender that times out after a reconcile of the same
  envelope writes `dispatch_uncertain` next to a contract that has moved on, because
  that commit touches only the row without a revision (`api.py:598`).
* `Membership`: *the owner's account is not disabled*
  (`docs/organizations-operations.md:11`). `transfer_ownership` does not look at the
  recipient's account, and `disable-user` checks the ownership without the lock. No
  property of a run speaks of it: `OwnerIsAdmin` is about the membership.
  (`docs/self-hosting.md:76` says that it keeps the last active administrator, while
  `cli.py:51` looks at owners.)
* `Intake`: *a conversation stays within its limit* (`docs/openintake.md:23`). Triage
  adds its status message without counting (`intake.py:404`).
* `MailOutbox`: *a sent message stays sent*. After an overrun, the refusal of a hand that
  claimed earlier puts a row that another hand settled as `sent`, and whose body it
  erased, back to `pending` (`mail.py:128` does not test the status); the empty message
  is then retried until it is given up as `failed` or deleted.
* `OAuthConnection`: *no connection comes from a consent that was started before a
  disconnect* (`docs/docusign.md:54`). A callback that has consumed its state creates
  the connection after the disconnect.
* `OAuthConnection`: *the account of a pending request may be connected again*.
  `callback` compares the new account with the connected one, not with that of the
  pending requests (`oauth.py:192`), so once the two have drifted apart it refuses the
  original account and tells the person to reconnect it.
* `Accounts`: *an account has one set of recovery codes*. Two rotations that overlap
  each delete the codes they see and insert their own, and both sets work.
* A refresh that fails inside a send, after the reservation was committed, leaves the
  contract in `sending` with nothing sent and nothing to reconcile (`api.py:597`).
* The key of a connection's table is the person alone (`models.py:222`), so somebody
  who is connected in one organization cannot connect in another: the insert in
  `StoreConnection` fails.
* A request of the intake desk is validated against, and keeps, the questions of the
  service at the time of its arrival (`intake.py:273`). The form that the requester
  filled in may be an earlier one, of which the request names no revision;
  `docs/openintake.md:8` says that the version filled in is kept.

One limitation is a design choice: when the designated approver of the current step
leaves the organization, a contract in review can be neither decided, edited nor
archived (`api.py:408`).

## Limits of the models

* A role counts as of authentication in transitions (`security.py:121`); the model
  copies it so, and states no property about a member demoted in that instant.
* `ContractLifecycle` abstracts contents to `Texts`, comments and titles are left out,
  and what Salesforce writes on a contract (a link) is not there.
* `SignatureDispatch` starts with approved contracts at revision 3. The HMAC of
  notices and the parsing of their bodies are left out: a notice is one that
  DocuSign sent. `Archive` is one step because `DecidedOnRowReplaced` justifies it.
* `Membership` has one organization; a person's other organizations are `Tenancy`'s,
  names and e-mail confirmation are left out. An expired invitation and a revoked one
  are the same closed row.
* `Intake` leaves out attachments, articles, the answers to a service's questions, the
  hourly limit and the metrics. Attachments and articles are rows that one statement
  inserts or replaces under the lock; their limits are tests of the same transaction.
* `OAuthConnection` follows one person at one provider; encryption is left out, and the
  binding of a consent to its browser session is in `Tenancy`. A crash while the
  provider is renewing a token loses that token (`lost`), which no program can prevent.
* `Accounts` assumes PostgreSQL at READ COMMITTED, the production database; hashing,
  cookies and the counting of attempts are left out. Identifiers of tokens are taken
  again only when nobody holds them, as random ones never are.
* `Tenancy` states the scope for the rows that a switch of organization puts at risk
  (sessions, keys, consents, connections). That every SELECT is filtered is a property
  of single statements (`db.py:39`), and ownership that others hand to this person is
  left out: `transfer_ownership` neither counts nor refuses it.
* Rate limits only delay whoever repeats. Templates are inserted and never changed, and
  what `documents.py` computes from one (validation, text, DOCX) is a pure function of
  wording, abstracted to `Texts`. Local AI changes nothing but the audit trail; the UI
  keeps no state; migrations and scripts run alone.
* The lock is taken to exclude other holders; on SQLite the whole database is.

## Plan

Done: the inventory, the eight concurrent modules above with their runs, the theorems
about all of their safety properties, the two refinements and what joins them. Next, in
this order:

1. **The composition of connection and dispatch**, where a refresh that fails after the
   reservation leaves a request in `dispatching`.
2. **Abstract specifications** of the other components, the mail outbox first.
3. **Operators**: `validate_answers` against a declarative definition.
