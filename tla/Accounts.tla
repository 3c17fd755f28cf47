-------------------------------- MODULE Accounts --------------------------------
(***************************************************************************)
(* The credentials of one account (src/openclm/security.py, api.py,        *)
(* accounts.py, cli.py): sessions and API keys, recovery codes and mailed  *)
(* links, and the resets that revoke them.                                 *)
(*                                                                         *)
(* Handlers are PostgreSQL transactions at READ COMMITTED.  A DELETE works *)
(* on the rows that were committed when it started: it waits for those     *)
(* that another transaction has deleted, and does not see later ones.  An  *)
(* UPDATE of the users row holds that row until the commit.  Two handlers  *)
(* that wait for each other are a deadlock that the server ends by         *)
(* rolling one of them back (Fail).                                        *)
(***************************************************************************)
EXTENDS Naturals, FiniteSets

CONSTANTS
    Requests,       \* request slots of the thread pool
    MaxProven,      \* bound: credentials, and sets of recovery codes, at a time
    MaxLinks,       \* bound: mailed links of a kind at a time
    MaxResets       \* bound: passwords set after the first

ASSUME AccountsAssumption ==
    /\ MaxProven \in Nat \ {0}
    /\ MaxLinks \in Nat \ {0}
    /\ MaxResets \in Nat

VARIABLES
    password,       \* User.password_hash, as the number of the password
    active,         \* User.active
    verified,       \* User.email_verified
    token,          \* the tokens table
    userLock,       \* the request that holds the users row, if any
    codeless,       \* no recovery codes since the last one was issued by nobody
    request         \* the handlers in flight

user == <<password, active, verified>>
vars == <<user, token, userLock, codeless, request>>

--------------------------------------------------------------------------------
(* Rows and handlers.                                                       *)

\* A credential is a session or an API key: both are issued, looked up and revoked alike.
Kinds == {"credential", "recovery", "reset", "verify"}

\* The kinds that are only given to somebody who proves a password.
Proven == {"credential", "recovery"}

\* The six recovery codes that are issued together are one code here.
Tokens == (Proven \X (1..MaxProven)) \cup ((Kinds \ Proven) \X (1..MaxLinks))
KindOf(t) == t[1]

\* under: the password that was proved for it (0 for a mailed link);
\* late: it was issued while, or after, a reset replaced that password.
Token == [under: Nat, late: BOOLEAN]
NoToken == [under |-> 0]

Issued == {t \in Tokens : token[t] # NoToken}
IssuedOf(kinds) == {t \in Issued : KindOf(t) \in kinds}

NoCode == <<>>

Idle == [pc |-> "idle"]
Proving == [pc: {"proved"}, under: Nat]
\* under: the password behind the credential; knows: the one of the users row.
Identified == [pc: {"identified"}, under: Nat, knows: Nat]
\* sees: the rows that the DELETE under way has started on; holds: rows deleted.
Replacing == [pc: {"consumed", "scanning", "replacing"}, code: Tokens \cup {NoCode},
              kind: Kinds \cup {"cli"}, sees: SUBSET Tokens, holds: SUBSET Tokens, under: Nat]

Holds(r) == IF request[r].pc \in {"consumed", "scanning", "replacing"}
            THEN request[r].holds ELSE {}

\* No other transaction has deleted one of the rows.
Unlocked(r, rows) == \A q \in Requests \ {r} : Holds(q) \cap rows = {}

\* A reset has started to delete and is not committed.
Resetting == \E r \in userLock : request[r].pc \in {"scanning", "replacing"}

\* The rows that a handler has seen, by their identifiers.
Refers(r) ==
    IF request[r].pc \in {"consumed", "scanning", "replacing"}
    THEN {request[r].code} \cup request[r].sees \cup request[r].holds ELSE {}

\* issue_token, for a row of r after it has ended some.  Identifiers are unique: one is
\* taken again only when its row is gone and no other handler has seen it.
IsNext(r, t, ended) ==
    LET Free(s) == /\ token[s] = NoToken \/ s \in ended
                   /\ \A q \in Requests \ {r} : s \notin Refers(q) IN
    Free(t) /\ \A n \in 1..(t[2] - 1) : ~Free(<<t[1], n>>)

Issue(t, under) ==
    [under |-> under,
     late |-> KindOf(t) \in Proven /\ (under < password \/ (under = password /\ Resetting))]

Ended(rows) == [t \in Tokens |-> IF t \in rows THEN NoToken ELSE token[t]]

Continue(r, handler) == request' = [request EXCEPT ![r] = handler]
End(r) ==
    /\ request' = [request EXCEPT ![r] = Idle]
    /\ userLock' = userLock \ {r}

\* register gives codes, a link to confirm the address and a session; an account that
\* an administrator or the command line created has none of them.
Init ==
    /\ password = 1 /\ active = TRUE /\ verified = FALSE
    /\ userLock = {}
    /\ request = [r \in Requests |-> Idle]
    /\ codeless \in BOOLEAN
    /\ token = [t \in Tokens |->
         IF codeless \/ KindOf(t) = "reset" \/ t[2] # 1 THEN NoToken
         ELSE [under |-> 1, late |-> FALSE]]

--------------------------------------------------------------------------------
(* Sessions and API keys.                                                   *)

\* login verifies the password of the row it read.
Login(r) ==
    /\ request[r] = Idle
    /\ active
    /\ Continue(r, [pc |-> "proved", under |-> password])
    /\ UNCHANGED <<user, token, userLock, codeless>>

IssueCredential(r, t) ==
    /\ KindOf(t) = "credential" /\ IsNext(r, t, {})
    /\ token' = [token EXCEPT ![t] = Issue(t, request[r].under)]
    /\ End(r)
    /\ UNCHANGED <<user, codeless>>

\* The rest of login.
StartSession(r, t) == request[r].pc = "proved" /\ IssueCredential(r, t)

\* identity_user.
Identify(r, t) ==
    /\ request[r] = Idle
    /\ t \in IssuedOf({"credential"})
    /\ active
    /\ Continue(r, [pc |-> "identified", under |-> token[t].under, knows |-> password])
    /\ UNCHANGED <<user, token, userLock, codeless>>

CreateApiKey(r, t) == request[r].pc = "identified" /\ IssueCredential(r, t)

\* logout, for the session itself, or revoke_api_key, for a key.
Revoke(r, t) ==
    /\ request[r].pc = "identified"
    /\ t \in IssuedOf({"credential"})
    /\ Unlocked(r, {t})
    /\ token' = Ended({t})
    /\ End(r)
    /\ UNCHANGED <<user, codeless>>

\* The end of a token's time, before somebody uses it.
Expire(t) ==
    /\ t \in IssuedOf({"credential", "reset", "verify"})
    /\ \A r \in Requests : t \notin Holds(r)
    /\ token' = Ended({t})
    /\ UNCHANGED <<user, userLock, codeless, request>>

--------------------------------------------------------------------------------
(* Codes and links.                                                         *)

\* Faulty: the code is looked up, and deleted at the end.
ConsumeLookedUp(r, t) ==
    /\ request[r] = Idle
    /\ active
    /\ t \in IssuedOf({"reset", "recovery", "verify"})
    /\ Continue(r, [pc |-> "consumed", code |-> t, kind |-> KindOf(t),
                    sees |-> {}, holds |-> {}, under |-> 0])
    /\ UNCHANGED <<user, token, userLock, codeless>>

\* Faulty: the consumption is committed on its own.
ConsumeCommitted(r, t) ==
    /\ request[r] = Idle
    /\ active
    /\ t \in IssuedOf({"reset", "recovery", "verify"})
    /\ token' = Ended({t})
    /\ Continue(r, [pc |-> "consumed", code |-> t, kind |-> KindOf(t),
                    sees |-> {}, holds |-> {}, under |-> 0])
    /\ UNCHANGED <<user, userLock, codeless>>

\* consume_action: one DELETE ... RETURNING, then the account is read.
Consume(r, t) ==
    /\ request[r] = Idle
    /\ active
    /\ t \in IssuedOf({"reset", "recovery", "verify"})
    /\ Unlocked(r, {t})
    /\ Continue(r, [pc |-> "consumed", code |-> t, kind |-> KindOf(t),
                    sees |-> {}, holds |-> {t}, under |-> 0])
    /\ UNCHANGED <<user, token, userLock, codeless>>

\* cli reset-password has read the account and asked for the password.
CliReset(r) ==
    /\ request[r] = Idle
    /\ Continue(r, [pc |-> "consumed", code |-> NoCode, kind |-> "cli",
                    sees |-> {}, holds |-> {}, under |-> 0])
    /\ UNCHANGED <<user, token, userLock, codeless>>

\* verify_email: the address is confirmed and the link is used up.
VerifyEmail(r) ==
    LET q == request[r] IN
    /\ q.pc = "consumed" /\ q.kind = "verify"
    /\ userLock = {}
    /\ verified' = TRUE
    /\ token' = Ended({q.code})
    /\ End(r)
    /\ UNCHANGED <<password, active, codeless>>

StartErasing(r, rows) ==
    LET q == request[r] IN
    Continue(r, [pc |-> "scanning", code |-> q.code, kind |-> q.kind, sees |-> rows,
                 holds |-> q.holds, under |-> q.under])

\* Faulty: only what is used to sign in is deleted.
ScanSignedIn(r) ==
    /\ request[r].pc = "consumed" /\ request[r].kind # "verify"
    /\ userLock = {}
    /\ userLock' = {r}
    /\ StartErasing(r, IssuedOf({"credential"}))
    /\ UNCHANGED <<user, token, codeless>>

\* reset_password: the new password is flushed, which takes the users row, and the
\* DELETE of every token of the account starts.
Scan(r) ==
    /\ request[r].pc = "consumed" /\ request[r].kind # "verify"
    /\ userLock = {}
    /\ userLock' = {r}
    /\ StartErasing(r, Issued)
    /\ UNCHANGED <<user, token, codeless>>

\* That DELETE ends, and recovery_codes starts another one.
Erase(r) ==
    LET q == request[r] IN
    /\ q.pc = "scanning" /\ q.kind # "cli"
    /\ Unlocked(r, q.sees)
    /\ Continue(r, [pc |-> "replacing", code |-> q.code, kind |-> "recovery",
                    sees |-> IssuedOf({"recovery"}),
                    holds |-> q.holds \cup (q.sees \cap Issued), under |-> password + 1])
    /\ UNCHANGED <<user, token, userLock, codeless>>

\* The command line deletes what it has read and issues no codes.
CliErase(r) ==
    LET q == request[r] IN
    /\ q.pc = "scanning" /\ q.kind = "cli"
    /\ Unlocked(r, q.sees)
    /\ password <= MaxResets
    /\ password' = password + 1
    /\ token' = Ended(q.sees)
    /\ codeless' = TRUE
    /\ End(r)
    /\ UNCHANGED <<active, verified>>

\* The DELETE of email_action (forgot_password, resend_verification) or of
\* recovery_codes (rotate_recovery) starts.
StartReplacing(r, kind, under) ==
    /\ Continue(r, [pc |-> "replacing", code |-> NoCode, kind |-> kind,
                    sees |-> IssuedOf({kind}), holds |-> {}, under |-> under])
    /\ UNCHANGED <<user, token, userLock, codeless>>

ForgotPassword(r) == request[r] = Idle /\ active /\ StartReplacing(r, "reset", 0)

ResendVerification(r) ==
    request[r].pc = "identified" /\ ~verified /\ StartReplacing(r, "verify", 0)

\* The password is compared with the row that identity_user read.
RotateRecovery(r) ==
    request[r].pc = "identified" /\ StartReplacing(r, "recovery", request[r].knows)

\* The DELETE ends, the new rows are inserted, and everything is committed.
Replace(r, t) ==
    LET q == request[r] IN
    /\ q.pc = "replacing"
    /\ Unlocked(r, q.sees)
    /\ KindOf(t) = q.kind /\ IsNext(r, t, (q.sees \cup q.holds) \ {q.code})
    /\ r \in userLock => password <= MaxResets
    /\ password' = IF r \in userLock THEN password + 1 ELSE password
    /\ verified' = (verified \/ (q.code # NoCode /\ KindOf(q.code) = "reset"))
    /\ token' = [Ended(q.sees \cup q.holds) EXCEPT ![t] = Issue(t, q.under)]
    /\ codeless' = (codeless /\ q.kind # "recovery")
    /\ End(r)
    /\ UNCHANGED active

\* cli disable-user, which also deletes the tokens that it reads.
Disable ==
    /\ active
    /\ userLock = {}
    /\ \A r \in Requests : Holds(r) = {}
    /\ active' = FALSE
    /\ token' = Ended(Issued)
    /\ codeless' = TRUE
    /\ UNCHANGED <<password, verified, userLock, request>>

\* A refusal, an error, a deadlock or the end of the process: a rollback.
Fail(r) ==
    /\ request[r] # Idle
    /\ End(r)
    /\ UNCHANGED <<user, token, codeless>>

--------------------------------------------------------------------------------

Next ==
    \/ \E r \in Requests : Login(r)
    \/ \E r \in Requests, t \in Tokens : StartSession(r, t) \/ CreateApiKey(r, t)
    \/ \E r \in Requests, t \in Tokens : Identify(r, t) \/ Revoke(r, t) \/ Consume(r, t)
    \/ \E t \in Tokens : Expire(t)
    \/ \E r \in Requests : VerifyEmail(r) \/ CliReset(r) \/ Scan(r) \/ Erase(r) \/ CliErase(r)
    \/ \E r \in Requests : ForgotPassword(r) \/ ResendVerification(r) \/ RotateRecovery(r)
    \/ \E r \in Requests, t \in Tokens : Replace(r, t)
    \/ Disable
    \/ \E r \in Requests : Fail(r)

Spec == Init /\ [][Next]_vars

--------------------------------------------------------------------------------
(* Properties.                                                              *)

\* The row of the account, its tokens and the handlers are of their types.
TypeOK ==
    /\ password \in Nat /\ active \in BOOLEAN /\ verified \in BOOLEAN /\ codeless \in BOOLEAN
    /\ token \in [Tokens -> Token \cup {NoToken}]
    /\ userLock \subseteq Requests
    /\ request \in [Requests ->
         {Idle} \cup Proving \cup Identified \cup Replacing]

\* A committed step of r that used a code.
Uses(r) ==
    /\ request[r].pc \in {"consumed", "replacing"}
    /\ request[r].code # NoCode
    /\ request'[r] = Idle
    /\ token' # token

\* A code or a link takes effect once: the transaction that commits it finds it still
\* there and takes it away, whoever else has it (consume_action).
CodeUsedOnce ==
    [][\A r \in Requests : Uses(r) =>
         token[request[r].code] \in Token /\ token'[request[r].code] = NoToken]_vars

\* "Reset revokes all sessions, API keys and previous recovery/action tokens": whoever
\* signed in proved the password of today.
ResetRevokes == \A t \in IssuedOf(Proven) : token[t].under = password

\* Sessions, keys and recovery codes that survive a reset were issued by a request that
\* overlapped it, or by way of such a session: of those that existed when the reset
\* began none is left (reset_password).  Links sent by mail are not covered.
NothingOlderSurvives ==
    \A t \in IssuedOf(Proven) : token[t].under # password => token[t].late

\* An account that has recovery codes keeps some, whatever resets, rotations and
\* failures overlap: only the command line takes them away (recovery_codes).
CodesRemain == ~codeless => IssuedOf({"recovery"}) # {}
================================================================================
