----------------------------- MODULE AccountsProofs -----------------------------
(***************************************************************************)
(* The credentials of an account, for any number of handlers, tokens and   *)
(* resets: a code works once, recovery codes remain, and a reset leaves no *)
(* session, key or code that is older than itself.                         *)
(*                                                                         *)
(* A reset sees the rows that exist when its DELETE starts, and holds those*)
(* of them that are left when it ends; whatever is issued in between proved*)
(* the old password while the users row was already locked (Covered).  The *)
(* rows that a handler holds stay until it commits, and no two handlers    *)
(* hold the same (Held), so whoever commits the use of a code ends it.     *)
(***************************************************************************)
EXTENDS Accounts, TLAPS

USE AccountsAssumption

--------------------------------------------------------------------------------
(* The invariant.                                                           *)

Pending == {"consumed", "scanning", "replacing"}

\* The rows that a handler has deleted are its own, and there until it commits; the code
\* that it used is one of them.
Held ==
    /\ \A r \in Requests : \A t \in Holds(r) : token[t] # NoToken
    /\ \A r, q \in Requests : r # q => Holds(r) \cap Holds(q) = {}
    /\ \A r \in Requests :
         request[r].pc \in Pending /\ request[r].code # NoCode =>
            request[r].code \in request[r].holds

\* Only a handler that issues recovery codes deletes some.
OfItsKind(r) ==
    LET q == request[r] IN
    /\ q.pc = "consumed" /\ q.kind = "verify" => KindOf(q.code) = "verify"
    /\ q.pc = "replacing" =>
         /\ q.kind \in {"reset", "verify", "recovery"}
         /\ q.kind # "recovery" => \A t \in q.sees \cup q.holds : KindOf(t) = q.kind

\* The users row is held by the one reset that has begun to delete.
Locked ==
    /\ \A r, q \in userLock : r = q
    /\ \A r \in userLock : request[r].pc \in {"scanning", "replacing"}
    /\ \A r \in Requests : request[r].pc = "scanning" => r \in userLock

\* What a reset has not seen, or does not hold, was issued while it runs.
Covered(r) ==
    LET q == request[r] IN
    /\ q.pc = "scanning" =>
         \A t \in IssuedOf(Proven) : t \in q.sees \/ token[t].late = TRUE
    /\ r \in userLock /\ q.pc = "replacing" =>
         /\ q.under = password + 1
         /\ \A t \in IssuedOf(Proven) : t \in q.holds \/ token[t].late = TRUE

\* Nobody proves a password that is not set yet.
Past(r) ==
    LET q == request[r] IN
    /\ q.pc \in {"proved", "identified"} => q.under <= password
    /\ q.pc = "identified" => q.knows <= password
    /\ q.pc = "replacing" /\ q.kind = "recovery" /\ r \notin userLock => q.under <= password

Older == \A t \in IssuedOf(Proven) : token[t].under = password \/ token[t].late = TRUE

\* Every token was proved by a password that was set.
Under == \A t \in IssuedOf(Proven) : token[t].under <= password

Inv ==
    /\ TypeOK
    /\ Held
    /\ \A r \in Requests : OfItsKind(r)
    /\ Locked
    /\ \A r \in Requests : Covered(r) /\ Past(r)
    /\ Under
    /\ Older
    /\ CodesRemain

--------------------------------------------------------------------------------
(* Rows and handlers.                                                       *)

Handlers == {Idle} \cup Proving \cup Identified \cup Replacing

LEMMA HandlerKinds ==
    ASSUME NEW h \in Handlers
    PROVE  /\ h = Idle <=> h.pc = "idle"
           /\ h \in Proving <=> h.pc = "proved"
           /\ h \in Identified <=> h.pc = "identified"
           /\ h \in Replacing <=> h.pc \in Pending
BY DEF Handlers, Idle, Proving, Identified, Replacing, Pending

LEMMA HandlerFields ==
    ASSUME NEW h \in Handlers
    PROVE  /\ h.pc \in {"proved", "identified"} \cup Pending => h.under \in Nat
           /\ h.pc = "identified" => h.knows \in Nat
           /\ h.pc \in Pending =>
                /\ h.code \in Tokens \cup {NoCode} /\ h.kind \in Kinds \cup {"cli"}
                /\ h.sees \subseteq Tokens /\ h.holds \subseteq Tokens
BY HandlerKinds DEF Proving, Identified, Replacing, Pending

LEMMA TokenKind == ASSUME NEW t \in Tokens PROVE KindOf(t) \in Kinds
BY DEF Tokens, KindOf, Proven, Kinds

LEMMA NoCodeIsNone == NoCode \notin Tokens
BY DEF NoCode, Tokens

LEMMA NoTokenIsNone == NoToken \notin Token
BY DEF NoToken, Token

LEMMA FirstOnes ==
    /\ <<"recovery", 1>> \in Tokens /\ KindOf(<<"recovery", 1>>) = "recovery"
    /\ <<"recovery", 1>>[2] = 1
BY DEF Tokens, Proven, KindOf

LEMMA Given ==
    ASSUME NEW kinds, NEW t
    PROVE  t \in IssuedOf(kinds) <=>
             t \in Tokens /\ token[t] # NoToken /\ KindOf(t) \in kinds
BY DEF IssuedOf, Issued

LEMMA Others ==
    ASSUME TypeOK, NEW r \in Requests, NEW h, request' = [request EXCEPT ![r] = h]
    PROVE  request'[r] = h /\ \A q \in Requests : q # r => request'[q] = request[q]
BY DEF TypeOK

LEMMA Typed ==
    ASSUME TypeOK
    PROVE  /\ \A r \in Requests : request[r] \in Handlers
           /\ \A t \in Tokens : token[t] # NoToken => token[t] \in Token
           /\ \A t \in Tokens : token[t].under \in Nat
BY DEF TypeOK, Handlers, Token, NoToken

LEMMA Freed ==
    ASSUME NEW r, NEW t, NEW ended, IsNext(r, t, ended)
    PROVE  token[t] = NoToken \/ t \in ended
BY DEF IsNext

\* A token issued for a password that was set is late, or proves today's while nobody
\* resets it.
LEMMA IssueIs ==
    ASSUME TypeOK, NEW t \in Tokens, NEW under \in Nat
    PROVE  /\ Issue(t, under) \in Token /\ Issue(t, under).under = under
           /\ KindOf(t) \in Proven /\ under < password => Issue(t, under).late = TRUE
           /\ KindOf(t) \in Proven /\ under = password /\ Resetting =>
                Issue(t, under).late = TRUE
<1>1. PICK late \in BOOLEAN :
        late <=> KindOf(t) \in Proven /\ (under < password \/ (under = password /\ Resetting))
  OBVIOUS
<1>2. Issue(t, under) = [under |-> under, late |-> late]  BY <1>1 DEF Issue
<1>3. PICK x : x = [under |-> under, late |-> late]  OBVIOUS
<1>4. x \in Token /\ x.under = under /\ x.late = late  BY <1>3 DEF Token
<1> QED  BY <1>1, <1>2, <1>3, <1>4

--------------------------------------------------------------------------------
(* A handler goes on: the tokens and the account stay as they are.          *)

\* Handler r goes on as h, with the rows of its copy still its own.
Move(r, h) ==
    /\ request' = [request EXCEPT ![r] = h]
    /\ userLock' \subseteq Requests
    /\ \A q \in Requests : q # r => (q \in userLock' <=> q \in userLock)
    /\ UNCHANGED <<user, token, codeless>>
    /\ h.pc \in Pending =>
         /\ \A t \in h.holds : token[t] # NoToken
         /\ \A q \in Requests : q # r => Holds(q) \cap h.holds = {}
         /\ h.code # NoCode => h.code \in h.holds

LEMMA Moves ==
    ASSUME Inv, NEW r \in Requests, NEW h \in Handlers, Move(r, h),
           OfItsKind(r)', Locked', Covered(r)', Past(r)'
    PROVE  Inv'
<1>1. /\ request'[r] = h /\ \A q \in Requests : q # r => request'[q] = request[q]
  BY Others DEF Inv, Move
<1>2. UNCHANGED <<password, active, verified, token, codeless>>  BY DEF Move, user
<1>3. TypeOK'
  BY <1>2 DEF Inv, TypeOK, Move, Handlers
<1>4. Held'
  <2>1. \A q \in Requests : q # r => Holds(q)' = Holds(q)  BY <1>1 DEF Holds
  <2>2. Holds(r)' = IF h.pc \in Pending THEN h.holds ELSE {}  BY <1>1 DEF Holds, Pending
  <2>3. \A q \in Requests : \A t \in Holds(q)' : token'[t] # NoToken
    BY <1>2, <2>1, <2>2 DEF Inv, Held, Move
  <2>4. \A p, q \in Requests : p # q => Holds(p)' \cap Holds(q)' = {}
    BY <2>1, <2>2 DEF Inv, Held, Move
  <2>5. \A q \in Requests :
          request'[q].pc \in Pending /\ request'[q].code # NoCode =>
             request'[q].code \in request'[q].holds
    BY <1>1 DEF Inv, Held, Move
  <2> QED  BY <2>3, <2>4, <2>5 DEF Held
<1>5. \A q \in Requests : q # r => OfItsKind(q)'  BY <1>1 DEF Inv, OfItsKind
<1>6. ASSUME NEW q \in Requests, q # r PROVE Covered(q)' /\ Past(q)'
  BY <1>1, <1>2, <1>6 DEF Inv, Covered, Past, Move, IssuedOf, Issued
<1>7. Under' /\ Older'  BY <1>2 DEF Inv, Under, Older, IssuedOf, Issued
<1>8. CodesRemain'  BY <1>2 DEF Inv, CodesRemain, IssuedOf, Issued
<1> QED  BY <1>3, <1>4, <1>5, <1>6, <1>7, <1>8 DEF Inv

\* A handler that begins, or has not locked the row yet, leaves the lock alone.
LEMMA LockedStays ==
    ASSUME Inv, NEW r \in Requests, NEW h \in Handlers, request' = [request EXCEPT ![r] = h],
           UNCHANGED userLock, h.pc # "scanning",
           r \in userLock => h.pc = "replacing"
    PROVE  Locked'
<1>1. request'[r] = h /\ \A q \in Requests : q # r => request'[q] = request[q]
  BY Others DEF Inv
<1>2. userLock \subseteq Requests  BY DEF Inv, TypeOK
<1> QED  BY <1>1, <1>2 DEF Inv, Locked

LEMMA IdleUnlocked ==
    ASSUME Inv, NEW r \in Requests, request[r].pc \notin {"scanning", "replacing"}
    PROVE  r \notin userLock
BY DEF Inv, Locked

LEMMA Begins ==
    ASSUME Inv, NEW r \in Requests, NEW h, request[r] = Idle,
           request' = [request EXCEPT ![r] = h]
    PROVE  request'[r] = h /\ r \notin userLock
<1>1. request'[r] = h  BY Others DEF Inv
<1>2. request[r].pc = "idle"  BY DEF Idle
<1>3. r \notin userLock  BY <1>2, IdleUnlocked
<1> QED  BY <1>1, <1>3

LEMMA LoginStep == ASSUME Inv, NEW r \in Requests, Login(r) PROVE Inv'
<1> PICK h : h = [pc |-> "proved", under |-> password]  OBVIOUS
<1>1. /\ h \in Handlers /\ h.pc = "proved" /\ h.under = password /\ password \in Nat
  BY DEF Inv, TypeOK, Handlers, Proving
<1>2. /\ request[r] = Idle /\ request' = [request EXCEPT ![r] = h]
      /\ UNCHANGED <<user, token, userLock, codeless>>
  BY DEF Login, Continue
<1>3. request'[r] = h /\ r \notin userLock
  BY <1>2, Begins
<1>4. Move(r, h)  BY <1>1, <1>2 DEF Move, Pending, Inv, TypeOK
<1>5. OfItsKind(r)' /\ Covered(r)' /\ Past(r)'
  BY <1>1, <1>2, <1>3 DEF OfItsKind, Covered, Past, user
<1>6. Locked'  BY <1>1, <1>2, <1>3, LockedStays
<1> QED  BY <1>1, <1>4, <1>5, <1>6, Moves

LEMMA IdentifyStep ==
    ASSUME Inv, NEW r \in Requests, NEW t \in Tokens, Identify(r, t)
    PROVE  Inv'
<1> PICK h : h = [pc |-> "identified", under |-> token[t].under, knows |-> password]
  OBVIOUS
<1>1. /\ token[t].under \in Nat /\ token[t].under <= password /\ password \in Nat
  <2>1. t \in IssuedOf(Proven)  BY Given DEF Identify, Proven
  <2> QED  BY <2>1, Typed DEF Inv, Under, TypeOK
<1>2. /\ h \in Handlers /\ h.pc = "identified" /\ h.under <= password /\ h.knows = password
  BY <1>1 DEF Handlers, Identified
<1>3. /\ request[r] = Idle /\ request' = [request EXCEPT ![r] = h]
      /\ UNCHANGED <<user, token, userLock, codeless>>
  BY DEF Identify, Continue
<1>4. request'[r] = h /\ r \notin userLock
  BY <1>3, Begins
<1>5. Move(r, h)  BY <1>2, <1>3 DEF Move, Pending, Inv, TypeOK
<1>6. OfItsKind(r)' /\ Covered(r)' /\ Past(r)'
  BY <1>1, <1>2, <1>3, <1>4 DEF OfItsKind, Covered, Past, user
<1>7. Locked'  BY <1>2, <1>3, <1>4, LockedStays
<1> QED  BY <1>2, <1>5, <1>6, <1>7, Moves

LEMMA ConsumeStep == ASSUME Inv, NEW r \in Requests, NEW t \in Tokens, Consume(r, t) PROVE Inv'
<1> PICK h : h = [pc |-> "consumed", code |-> t, kind |-> KindOf(t), sees |-> {},
                  holds |-> {t}, under |-> 0]
  OBVIOUS
<1>1. /\ h \in Handlers /\ h.pc = "consumed" /\ h.code = t /\ h.kind = KindOf(t)
      /\ h.holds = {t}
  <2>1. KindOf(t) \in Kinds /\ 0 \in Nat  BY TokenKind
  <2> QED  BY <2>1 DEF Handlers, Replacing
<1>2. /\ request[r] = Idle /\ request' = [request EXCEPT ![r] = h]
      /\ UNCHANGED <<user, token, userLock, codeless>>
      /\ \A q \in Requests : q # r => Holds(q) \cap {t} = {}
      /\ token[t] # NoToken
  BY Given DEF Consume, Continue, Unlocked
<1>3. request'[r] = h /\ r \notin userLock
  BY <1>2, Begins
<1>4. Move(r, h)  BY <1>1, <1>2 DEF Move, Inv, TypeOK
<1>5. OfItsKind(r)' /\ Covered(r)' /\ Past(r)'
  BY <1>1, <1>3 DEF OfItsKind, Covered, Past
<1>6. Locked'  BY <1>1, <1>2, <1>3, LockedStays
<1> QED  BY <1>1, <1>4, <1>5, <1>6, Moves

LEMMA CliResetStep == ASSUME Inv, NEW r \in Requests, CliReset(r) PROVE Inv'
<1> PICK h : h = [pc |-> "consumed", code |-> NoCode, kind |-> "cli", sees |-> {},
                  holds |-> {}, under |-> 0]
  OBVIOUS
<1>1. /\ h \in Handlers /\ h.pc = "consumed" /\ h.code = NoCode /\ h.kind = "cli"
      /\ h.holds = {}
  <2>1. 0 \in Nat  OBVIOUS
  <2> QED  BY <2>1 DEF Handlers, Replacing
<1>2. /\ request[r] = Idle /\ request' = [request EXCEPT ![r] = h]
      /\ UNCHANGED <<user, token, userLock, codeless>>
  BY DEF CliReset, Continue
<1>3. request'[r] = h /\ r \notin userLock
  BY <1>2, Begins
<1>4. Move(r, h)  BY <1>1, <1>2 DEF Move, Inv, TypeOK
<1>5. OfItsKind(r)' /\ Covered(r)' /\ Past(r)'
  BY <1>1, <1>3 DEF OfItsKind, Covered, Past
<1>6. Locked'  BY <1>1, <1>2, <1>3, LockedStays
<1> QED  BY <1>1, <1>4, <1>5, <1>6, Moves

\* The users row is taken, and every row that is committed is seen.
LEMMA ScanStep == ASSUME Inv, NEW r \in Requests, Scan(r) PROVE Inv'
<1> PICK q : q = request[r]  OBVIOUS
<1>h. PICK h : h = [pc |-> "scanning", code |-> q.code, kind |-> q.kind, sees |-> Issued,
                    holds |-> q.holds, under |-> q.under]
  OBVIOUS
<1>1. /\ q \in Replacing /\ q.pc = "consumed" /\ userLock = {} /\ userLock' = {r}
      /\ request' = [request EXCEPT ![r] = h]
      /\ UNCHANGED <<user, token, codeless>>
  BY <1>h, Typed, HandlerKinds DEF Scan, StartErasing, Continue, Inv, Pending
<1>2. /\ h \in Handlers /\ h.pc = "scanning" /\ h.code = q.code /\ h.sees = Issued
      /\ h.holds = q.holds
  BY <1>1, <1>h DEF Handlers, Replacing, Issued
<1>3. request'[r] = h /\ \A p \in Requests : p # r => request'[p] = request[p]
  BY <1>1, Others DEF Inv
<1>4. Holds(r) = q.holds  BY <1>1 DEF Holds
<1>5. Move(r, h)  BY <1>1, <1>2, <1>4 DEF Move, Inv, Held, Pending
<1>6. OfItsKind(r)' /\ Past(r)'  BY <1>2, <1>3 DEF OfItsKind, Past
<1>7. Covered(r)'
  <2>1. \A t \in IssuedOf(Proven)' : t \in Issued  BY <1>1 DEF IssuedOf, Issued
  <2> QED  BY <1>2, <1>3, <2>1 DEF Covered
<1>8. Locked'  BY <1>1, <1>2, <1>3 DEF Inv, Locked
<1> QED  BY <1>2, <1>5, <1>6, <1>7, <1>8, Moves

\* The rows that were seen and are left are held; what is newer was issued meanwhile.
LEMMA EraseStep == ASSUME Inv, NEW r \in Requests, Erase(r) PROVE Inv'
<1> PICK q : q = request[r]  OBVIOUS
<1>h. PICK h : h = [pc |-> "replacing", code |-> q.code, kind |-> "recovery",
                    sees |-> IssuedOf({"recovery"}),
                    holds |-> q.holds \cup (q.sees \cap Issued), under |-> password + 1]
  OBVIOUS
<1>1. /\ q \in Replacing /\ q.pc = "scanning" /\ password \in Nat
      /\ request' = [request EXCEPT ![r] = h]
      /\ \A p \in Requests : p # r => Holds(p) \cap q.sees = {}
      /\ UNCHANGED <<user, token, userLock, codeless>>
  BY <1>h, Typed, HandlerKinds DEF Erase, Continue, Unlocked, Inv, TypeOK, Pending
<1>2. /\ h \in Handlers /\ h.pc = "replacing" /\ h.code = q.code /\ h.kind = "recovery"
      /\ h.holds = q.holds \cup (q.sees \cap Issued) /\ h.under = password + 1
  <2>1. "recovery" \in Kinds  BY DEF Kinds
  <2>2. IssuedOf({"recovery"}) \subseteq Tokens /\ Issued \subseteq Tokens
    BY DEF IssuedOf, Issued
  <2> QED  BY <1>1, <1>h, <2>1, <2>2 DEF Handlers, Replacing
<1>3. request'[r] = h /\ \A p \in Requests : p # r => request'[p] = request[p]
  BY <1>1, Others DEF Inv
<1>4. Holds(r) = q.holds /\ r \in userLock  BY <1>1 DEF Holds, Inv, Locked
<1>5. Move(r, h)
  <2>1. \A t \in h.holds : token[t] # NoToken  BY <1>2, <1>4 DEF Inv, Held, Issued
  <2>2. \A p \in Requests : p # r => Holds(p) \cap h.holds = {}
    BY <1>1, <1>2, <1>4 DEF Inv, Held
  <2>3. h.code # NoCode => h.code \in h.holds  BY <1>1, <1>2 DEF Inv, Held, Pending
  <2> QED  BY <1>1, <2>1, <2>2, <2>3 DEF Move, Inv, TypeOK
<1>6. OfItsKind(r)'  BY <1>2, <1>3 DEF OfItsKind
<1>7. Past(r)'  BY <1>1, <1>2, <1>3, <1>4 DEF Past
<1>8. Covered(r)'
  <2>1. IssuedOf(Proven)' = IssuedOf(Proven) /\ password' = password
    BY <1>1 DEF IssuedOf, Issued, user
  <2>2. \A t \in IssuedOf(Proven) : t \in q.sees \/ token[t].late = TRUE
    BY <1>1 DEF Inv, Covered
  <2>3. \A t \in IssuedOf(Proven) : t \in Issued  BY DEF IssuedOf
  <2> QED  BY <1>1, <1>2, <1>3, <2>1, <2>2, <2>3 DEF Covered
<1>9. Locked'  BY <1>1, <1>2, LockedStays
<1> QED  BY <1>2, <1>5, <1>6, <1>7, <1>8, <1>9, Moves

\* forgot_password, resend_verification and rotate_recovery.
LEMMA ReplacingStep ==
    ASSUME Inv, NEW r \in Requests,
           ForgotPassword(r) \/ ResendVerification(r) \/ RotateRecovery(r)
    PROVE  Inv'
<1> PICK q : q = request[r]  OBVIOUS
<1>p. PICK kind \in {"reset", "verify", "recovery"}, under \in Nat :
        /\ StartReplacing(r, kind, under)
        /\ under <= password
  <2>1. password \in Nat  BY DEF Inv, TypeOK
  <2>2. CASE ForgotPassword(r)  BY <2>1, <2>2 DEF ForgotPassword
  <2>3. CASE ResendVerification(r)  BY <2>1, <2>3 DEF ResendVerification
  <2>4. CASE RotateRecovery(r)
    <3>1. q.pc = "identified" /\ q.knows \in Nat /\ q.knows <= password
      BY <2>4, Typed, HandlerFields DEF RotateRecovery, Inv, Past
    <3> QED  BY <2>4, <3>1 DEF RotateRecovery
  <2> QED  BY <2>2, <2>3, <2>4
<1>h. PICK h : h = [pc |-> "replacing", code |-> NoCode, kind |-> kind,
                    sees |-> IssuedOf({kind}), holds |-> {}, under |-> under]
  OBVIOUS
<1>1. /\ request' = [request EXCEPT ![r] = h]
      /\ UNCHANGED <<user, token, userLock, codeless>>
  BY <1>p, <1>h DEF StartReplacing, Continue
<1>2. /\ h \in Handlers /\ h.pc = "replacing" /\ h.code = NoCode /\ h.kind = kind
      /\ h.holds = {} /\ h.under = under /\ h.sees = IssuedOf({kind})
  <2>1. IssuedOf({kind}) \subseteq Tokens /\ kind \in Kinds  BY <1>p DEF IssuedOf, Issued, Kinds
  <2> QED  BY <1>p, <1>h, <2>1 DEF Handlers, Replacing
<1>3. request[r].pc \in {"idle", "identified"}
  BY DEF ForgotPassword, ResendVerification, RotateRecovery, Idle
<1>4. request'[r] = h /\ r \notin userLock
  BY <1>1, <1>3, Others, IdleUnlocked DEF Inv
<1>5. Move(r, h)  BY <1>1, <1>2 DEF Move, Inv, TypeOK
<1>6. OfItsKind(r)'
  <2>1. \A t \in IssuedOf({kind}) : KindOf(t) = kind  BY Given
  <2> QED  BY <1>p, <1>2, <1>4, <2>1 DEF OfItsKind
<1>7. Covered(r)' /\ Past(r)'
  BY <1>p, <1>1, <1>2, <1>4 DEF Covered, Past, user
<1>8. Locked'  BY <1>1, <1>2, <1>4, LockedStays
<1> QED  BY <1>2, <1>5, <1>6, <1>7, <1>8, Moves

--------------------------------------------------------------------------------
(* A transaction ends: the tokens change, and nothing is left of a handler. *)

\* Every handler is over, or goes on as it was.
Closed ==
    /\ request' \in [Requests -> Handlers]
    /\ userLock' \subseteq userLock
    /\ \A q \in Requests :
         \/ request'[q] = request[q] /\ (q \in userLock' <=> q \in userLock)
         \/ request'[q] = Idle /\ q \notin userLock'

\* What is issued while a reset goes on is late.
Newer ==
    \/ userLock' = {} /\ password <= password'
    \/ /\ password' = password
       /\ \A t \in IssuedOf(Proven)' :
            \/ t \in IssuedOf(Proven) /\ token'[t] = token[t]
            \/ token'[t].late = TRUE

LEMMA Ends ==
    ASSUME Inv, NEW r \in Requests, End(r)
    PROVE  /\ Closed
           /\ request'[r] = Idle
           /\ \A q \in Requests : q # r => request'[q] = request[q]
<1>1. request'[r] = Idle /\ \A q \in Requests : q # r => request'[q] = request[q]
  BY Others DEF End, Inv
<1>2. request' \in [Requests -> Handlers]
  BY DEF End, Inv, TypeOK, Handlers
<1>3. /\ userLock' \subseteq userLock /\ r \notin userLock'
      /\ \A q \in Requests : q # r => (q \in userLock' <=> q \in userLock)
  BY DEF End
<1> QED  BY <1>1, <1>2, <1>3 DEF Closed

LEMMA Stays == ASSUME Inv, UNCHANGED <<request, userLock>> PROVE Closed
BY DEF Closed, Inv, TypeOK, Handlers

LEMMA ResetsGoOn == ASSUME Inv, userLock # {} PROVE Resetting
BY DEF Inv, Locked, Resetting

LEMMA ClosedInv ==
    ASSUME Inv, Closed, Newer, Under', Older', CodesRemain',
           token' \in [Tokens -> Token \cup {NoToken}],
           password' \in Nat, password <= password',
           active' \in BOOLEAN, verified' \in BOOLEAN, codeless' \in BOOLEAN,
           \A q \in Requests : request'[q] # Idle => \A t \in Holds(q) : token'[t] # NoToken
    PROVE  Inv'
<1>i. Idle.pc = "idle"  BY DEF Idle
<1>1. TypeOK'  BY DEF Closed, Inv, TypeOK, Handlers
<1>2. Held'
  <2>1. ASSUME NEW q \in Requests
        PROVE  Holds(q)' = {} \/ (Holds(q)' = Holds(q) /\ request'[q] # Idle)
    BY <1>i DEF Closed, Holds
  <2>2. \A q \in Requests : \A t \in Holds(q)' : token'[t] # NoToken  BY <2>1
  <2>3. \A p, q \in Requests : p # q => Holds(p)' \cap Holds(q)' = {}
    BY <2>1 DEF Inv, Held
  <2>4. \A q \in Requests :
          request'[q].pc \in Pending /\ request'[q].code # NoCode =>
             request'[q].code \in request'[q].holds
    BY <1>i DEF Closed, Inv, Held, Pending
  <2> QED  BY <2>2, <2>3, <2>4 DEF Held
<1>3. ASSUME NEW q \in Requests PROVE OfItsKind(q)'
  BY <1>i DEF Closed, Inv, OfItsKind
<1>4. Locked'
  <2>1. userLock \subseteq Requests  BY DEF Inv, TypeOK
  <2> QED  BY <1>i, <2>1 DEF Closed, Inv, Locked
<1>5. ASSUME NEW q \in Requests PROVE Past(q)'
  <2>1. CASE request'[q] = Idle  BY <1>i, <2>1 DEF Past
  <2>2. CASE request'[q] = request[q] /\ (q \in userLock' <=> q \in userLock)
    <3>1. request[q].pc \in {"proved", "identified", "replacing"} => request[q].under \in Nat
      BY Typed, HandlerFields DEF Inv, Pending
    <3>2. request[q].pc = "identified" => request[q].knows \in Nat
      BY Typed, HandlerFields DEF Inv
    <3>3. password \in Nat /\ Past(q)  BY DEF Inv, TypeOK
    <3> QED  BY <2>2, <3>1, <3>2, <3>3 DEF Past
  <2> QED  BY <2>1, <2>2 DEF Closed
<1>6. ASSUME NEW q \in Requests PROVE Covered(q)'
  <2>1. CASE userLock' = {}
    <3>1. request'[q].pc # "scanning"  BY <1>4, <2>1 DEF Locked
    <3> QED  BY <2>1, <3>1 DEF Covered
  <2>2. CASE request'[q] = Idle  BY <1>i, <2>2 DEF Covered, Closed
  <2>3. CASE /\ userLock' # {}
             /\ request'[q] = request[q] /\ (q \in userLock' <=> q \in userLock)
    <3>1. /\ password' = password
          /\ \A t \in IssuedOf(Proven)' :
               \/ t \in IssuedOf(Proven) /\ token'[t] = token[t]
               \/ token'[t].late = TRUE
      BY <2>3 DEF Newer
    <3>2. Covered(q)  BY DEF Inv
    <3> QED  BY <2>3, <3>1, <3>2 DEF Covered
  <2> QED  BY <2>1, <2>2, <2>3 DEF Closed
<1> QED  BY <1>1, <1>2, <1>3, <1>4, <1>5, <1>6 DEF Inv

\* Rows are deleted, none of them held by a handler that goes on.
LEMMA EndedRows ==
    ASSUME Inv, NEW rows, token' = Ended(rows)
    PROVE  /\ token' \in [Tokens -> Token \cup {NoToken}]
           /\ \A t \in Tokens : token'[t] = IF t \in rows THEN NoToken ELSE token[t]
           /\ \A kinds : IssuedOf(kinds)' = IssuedOf(kinds) \ rows
<1>1. \A t \in Tokens : token'[t] = IF t \in rows THEN NoToken ELSE token[t]  BY DEF Ended
<1>2. token' \in [Tokens -> Token \cup {NoToken}]  BY DEF Ended, Inv, TypeOK
<1>3. ASSUME NEW kinds PROVE IssuedOf(kinds)' = IssuedOf(kinds) \ rows
  BY <1>1 DEF IssuedOf, Issued
<1> QED  BY <1>1, <1>2, <1>3

LEMMA DeletesRows ==
    ASSUME Inv, Closed, NEW rows, token' = Ended(rows),
           UNCHANGED <<password, active, codeless>>, verified' \in BOOLEAN,
           ~codeless => \E t \in IssuedOf({"recovery"}) : t \notin rows,
           \A q \in Requests : request'[q] # Idle => Holds(q) \cap rows = {}
    PROVE  Inv'
<1>1. /\ password' = password /\ password \in Nat
      /\ active' \in BOOLEAN /\ codeless' = codeless /\ codeless \in BOOLEAN
  BY DEF Inv, TypeOK
<1>2. \A t \in IssuedOf(Proven)' : t \in IssuedOf(Proven) /\ token'[t] = token[t]
  BY EndedRows, Given
<1>3. Newer /\ Under' /\ Older'  BY <1>1, <1>2 DEF Newer, Inv, Under, Older
<1>4. CodesRemain'  BY <1>1, EndedRows DEF CodesRemain
<1>5. \A q \in Requests : request'[q] # Idle => \A t \in Holds(q) : token'[t] # NoToken
  <2>1. \A q \in Requests : \A t \in Holds(q) : t \in Tokens
    <3>1. ASSUME NEW q \in Requests PROVE Holds(q) \subseteq Tokens
      BY Typed, HandlerFields DEF Inv, Holds, Pending
    <3> QED  BY <3>1
  <2> QED  BY <2>1, EndedRows DEF Inv, Held
<1> QED  BY <1>1, <1>3, <1>4, <1>5, EndedRows, ClosedInv

LEMMA RevokeStep == ASSUME Inv, NEW r \in Requests, NEW t \in Tokens, Revoke(r, t) PROVE Inv'
<1>1. /\ token' = Ended({t}) /\ KindOf(t) = "credential"
      /\ UNCHANGED <<password, active, verified, codeless>>
      /\ \A q \in Requests : q # r => Holds(q) \cap {t} = {}
  BY Given DEF Revoke, Unlocked, user
<1>2. /\ Closed /\ request'[r] = Idle  BY Ends DEF Revoke
<1>3. verified' \in BOOLEAN  BY <1>1 DEF Inv, TypeOK
<1>4. ~codeless => \E s \in IssuedOf({"recovery"}) : s \notin {t}
  BY <1>1, Given DEF Inv, CodesRemain
<1>5. \A q \in Requests : request'[q] # Idle => Holds(q) \cap {t} = {}
  BY <1>1, <1>2
<1> QED  BY <1>1, <1>2, <1>3, <1>4, <1>5, DeletesRows

LEMMA ExpireStep == ASSUME Inv, NEW t \in Tokens, Expire(t) PROVE Inv'
<1>1. /\ token' = Ended({t}) /\ KindOf(t) # "recovery"
      /\ UNCHANGED <<password, active, verified, codeless>>
      /\ \A q \in Requests : t \notin Holds(q)
  BY Given DEF Expire, user
<1>2. Closed  BY Stays DEF Expire
<1>3. verified' \in BOOLEAN  BY <1>1 DEF Inv, TypeOK
<1>4. ~codeless => \E s \in IssuedOf({"recovery"}) : s \notin {t}
  BY <1>1, Given DEF Inv, CodesRemain
<1>5. \A q \in Requests : request'[q] # Idle => Holds(q) \cap {t} = {}
  BY <1>1
<1> QED  BY <1>1, <1>2, <1>3, <1>4, <1>5, DeletesRows

\* The link is held, so nobody else holds it; and it is no recovery code.
LEMMA VerifyEmailStep == ASSUME Inv, NEW r \in Requests, VerifyEmail(r) PROVE Inv'
<1>c. PICK c : c = request[r].code  OBVIOUS
<1>1. /\ token' = Ended({c}) /\ verified' = TRUE
      /\ UNCHANGED <<password, active, codeless>>
      /\ request[r].pc = "consumed" /\ request[r].kind = "verify"
  BY <1>c DEF VerifyEmail
<1>2. /\ Closed /\ request'[r] = Idle  BY Ends DEF VerifyEmail
<1>3. KindOf(c) = "verify"  BY <1>1, <1>c DEF Inv, OfItsKind
<1>4. c # NoCode => c \in Holds(r)
  BY <1>1, <1>c DEF Inv, Held, Pending, Holds
<1>5. \A q \in Requests : request'[q] # Idle => Holds(q) \cap {c} = {}
  <2>1. \A q \in Requests : Holds(q) \subseteq Tokens
    BY Typed, HandlerFields DEF Inv, Holds, Pending
  <2>2. c = NoCode => \A q \in Requests : c \notin Holds(q)  BY <2>1, NoCodeIsNone
  <2> QED  BY <1>2, <1>4, <2>2 DEF Inv, Held
<1>6. ~codeless => \E s \in IssuedOf({"recovery"}) : s \notin {c}
  BY <1>3, Given DEF Inv, CodesRemain
<1> QED  BY <1>1, <1>2, <1>5, <1>6, DeletesRows

LEMMA FailStep == ASSUME Inv, NEW r \in Requests, Fail(r) PROVE Inv'
<1>1. Closed /\ UNCHANGED <<password, active, verified, token, codeless>>
  BY Ends DEF Fail, user
<1>2. token' = Ended({})
  <2>1. token \in [Tokens -> Token \cup {NoToken}]  BY DEF Inv, TypeOK
  <2> QED  BY <1>1, <2>1 DEF Ended
<1>3. verified' \in BOOLEAN  BY <1>1 DEF Inv, TypeOK
<1>4. ~codeless => \E s \in IssuedOf({"recovery"}) : s \notin {}  BY DEF Inv, CodesRemain
<1> QED  BY <1>1, <1>2, <1>3, <1>4, DeletesRows

\* A session or a key: it proves today's password, or is late.
LEMMA CredentialStep ==
    ASSUME Inv, NEW r \in Requests, NEW t \in Tokens, StartSession(r, t) \/ CreateApiKey(r, t)
    PROVE  Inv'
<1>u. PICK under : under = request[r].under  OBVIOUS
<1>1. /\ IssueCredential(r, t) /\ request[r].pc \in {"proved", "identified"}
      /\ under \in Nat /\ under <= password
  <2>1. IssueCredential(r, t) /\ request[r].pc \in {"proved", "identified"}
    BY DEF StartSession, CreateApiKey
  <2> QED  BY <1>u, <2>1, Typed, HandlerFields DEF Inv, Past
<1>2. /\ KindOf(t) = "credential" /\ token[t] = NoToken
      /\ token' = [token EXCEPT ![t] = Issue(t, under)]
      /\ UNCHANGED <<password, active, verified, codeless>>
  BY <1>1, <1>u, Freed DEF IssueCredential, user
<1>3. Closed  BY <1>1, Ends DEF IssueCredential
<1>4. /\ token' \in [Tokens -> Token \cup {NoToken}]
      /\ token'[t] = Issue(t, under) /\ token'[t] # NoToken
      /\ \A s \in Tokens : s # t => token'[s] = token[s]
  BY <1>1, <1>2, IssueIs, NoTokenIsNone DEF Inv, TypeOK
<1>5. /\ token'[t].under = under
      /\ under < password => token'[t].late = TRUE
      /\ under = password /\ Resetting => token'[t].late = TRUE
  BY <1>1, <1>2, <1>4, IssueIs DEF Inv, Proven
<1>6. password \in Nat  BY DEF Inv, TypeOK
<1>7. \A s \in IssuedOf(Proven)' :
        s = t \/ (s \in IssuedOf(Proven) /\ token'[s] = token[s])
  BY <1>4 DEF IssuedOf, Issued
<1>8. Newer
  <2>1. CASE userLock = {}
    BY <1>2, <1>3, <1>6, <2>1 DEF Newer, Closed
  <2>2. CASE userLock # {}
    <3>1. token'[t].late = TRUE  BY <1>1, <1>5, <1>6, <2>2, ResetsGoOn
    <3> QED  BY <1>2, <1>7, <3>1 DEF Newer
  <2> QED  BY <2>1, <2>2
<1>9. Under' /\ Older'
  BY <1>1, <1>2, <1>5, <1>6, <1>7 DEF Inv, Under, Older
<1>10. CodesRemain'
  BY <1>2, <1>4 DEF Inv, CodesRemain, IssuedOf, Issued
<1>11. \A q \in Requests : request'[q] # Idle => \A s \in Holds(q) : token'[s] # NoToken
  <2>1. \A q \in Requests : \A s \in Holds(q) : s \in Tokens
    BY Typed, HandlerFields DEF Inv, Holds, Pending
  <2> QED  BY <1>4, <2>1 DEF Inv, Held
<1>12. /\ password' \in Nat /\ password <= password' /\ active' \in BOOLEAN
       /\ verified' \in BOOLEAN /\ codeless' \in BOOLEAN
  BY <1>2, <1>6 DEF Inv, TypeOK
<1> QED  BY <1>3, <1>4, <1>8, <1>9, <1>10, <1>11, <1>12, ClosedInv

\* A reset is the only one that holds the users row: none is left when it ends.
LEMMA ResetEnds ==
    ASSUME Inv, NEW r \in userLock, End(r)
    PROVE  userLock' = {}
BY DEF Inv, Locked, End

LEMMA CliEraseStep == ASSUME Inv, NEW r \in Requests, CliErase(r) PROVE Inv'
<1>s. PICK sees : sees = request[r].sees  OBVIOUS
<1>1. /\ request[r].pc = "scanning" /\ r \in userLock /\ End(r)
      /\ token' = Ended(sees)
      /\ password' = password + 1 /\ codeless' = TRUE
      /\ active' = active /\ verified' = verified
      /\ \A q \in Requests : q # r => Holds(q) \cap sees = {}
  BY <1>s DEF CliErase, Unlocked, Inv, Locked
<1>2. Closed /\ request'[r] = Idle /\ userLock' = {}  BY <1>1, Ends, ResetEnds
<1>3. password \in Nat /\ active' \in BOOLEAN /\ verified' \in BOOLEAN
  BY <1>1 DEF Inv, TypeOK
<1>4. \A t \in IssuedOf(Proven)' :
        t \in IssuedOf(Proven) /\ token'[t] = token[t] /\ token[t].late = TRUE
  <2>1. \A t \in IssuedOf(Proven) : t \in sees \/ token[t].late = TRUE
    BY <1>1, <1>s DEF Inv, Covered
  <2> QED  BY <1>1, <2>1, EndedRows, Given
<1>5. Under'
  <2>1. \A t \in Tokens : token[t].under \in Nat  BY Typed DEF Inv
  <2> QED  BY <1>1, <1>3, <1>4, <2>1, Given DEF Inv, Under
<1>6. Older'  BY <1>4 DEF Older
<1>7. Newer  BY <1>1, <1>2, <1>3 DEF Newer
<1>8. CodesRemain'  BY <1>1 DEF CodesRemain
<1>9. \A q \in Requests : request'[q] # Idle => \A t \in Holds(q) : token'[t] # NoToken
  <2>1. \A q \in Requests : \A t \in Holds(q) : t \in Tokens
    BY Typed, HandlerFields DEF Inv, Holds, Pending
  <2> QED  BY <1>1, <1>2, <2>1, EndedRows DEF Inv, Held
<1>10. /\ password' \in Nat /\ password <= password' /\ codeless' \in BOOLEAN
       /\ token' \in [Tokens -> Token \cup {NoToken}]
  BY <1>1, <1>3, EndedRows
<1> QED  BY <1>2, <1>3, <1>5, <1>6, <1>7, <1>8, <1>9, <1>10, ClosedInv

LEMMA DisableStep == ASSUME Inv, Disable PROVE Inv'
<1>1. /\ token' = Ended(Issued) /\ password' = password /\ verified' = verified
      /\ active' = FALSE /\ codeless' = TRUE
      /\ \A q \in Requests : Holds(q) = {}
  BY DEF Disable
<1>2. Closed  BY Stays DEF Disable
<1>3. password \in Nat /\ verified' \in BOOLEAN  BY <1>1 DEF Inv, TypeOK
<1>4. \A t \in IssuedOf(Proven)' : FALSE
  <2>1. IssuedOf(Proven)' = IssuedOf(Proven) \ Issued  BY <1>1, EndedRows
  <2> QED  BY <2>1 DEF IssuedOf
<1>5. Newer /\ Under' /\ Older'  BY <1>1, <1>4 DEF Newer, Under, Older
<1>6. CodesRemain'  BY <1>1 DEF CodesRemain
<1>7. /\ token' \in [Tokens -> Token \cup {NoToken}]
      /\ password' \in Nat /\ password <= password'
      /\ active' \in BOOLEAN /\ codeless' \in BOOLEAN
  <2>1. token' \in [Tokens -> Token \cup {NoToken}]  BY <1>1, EndedRows
  <2>2. password' \in Nat /\ password <= password'  BY <1>1, <1>3
  <2>3. active' \in BOOLEAN /\ codeless' \in BOOLEAN  BY <1>1
  <2> QED  BY <2>1, <2>2, <2>3
<1>8. \A q \in Requests : request'[q] # Idle => \A t \in Holds(q) : token'[t] # NoToken
  BY <1>1
<1> QED  BY <1>2, <1>3, <1>5, <1>6, <1>7, <1>8, ClosedInv

\* Codes or a link are replaced, in a reset or on their own.
LEMMA ReplaceStep == ASSUME Inv, NEW r \in Requests, NEW t \in Tokens, Replace(r, t) PROVE Inv'
<1>q. PICK q : q = request[r]  OBVIOUS
<1>1. /\ q \in Replacing /\ q.pc = "replacing" /\ q.under \in Nat
      /\ KindOf(t) = q.kind
      /\ token' = [Ended(q.sees \cup q.holds) EXCEPT ![t] = Issue(t, q.under)]
      /\ \A p \in Requests : p # r => Holds(p) \cap q.sees = {}
      /\ codeless' = (codeless /\ q.kind # "recovery")
      /\ End(r) /\ active' = active
  BY <1>q, Typed, HandlerKinds, HandlerFields DEF Replace, Unlocked, Inv, Pending
<1>2. /\ password \in Nat
      /\ r \in userLock => password' = password + 1
      /\ r \notin userLock => password' = password
  BY DEF Inv, TypeOK, Replace
<1>3. verified' \in BOOLEAN  BY DEF Replace, Inv, TypeOK
<1>4. Closed /\ request'[r] = Idle  BY <1>1, Ends
<1>5. /\ q.kind \in {"reset", "verify", "recovery"}
      /\ q.kind # "recovery" => \A s \in q.sees \cup q.holds : KindOf(s) = q.kind
  BY <1>1, <1>q DEF Inv, OfItsKind
<1>6. /\ token' \in [Tokens -> Token \cup {NoToken}]
      /\ token'[t] = Issue(t, q.under) /\ token'[t] # NoToken
      /\ \A s \in Tokens : s # t =>
           token'[s] = IF s \in q.sees \cup q.holds THEN NoToken ELSE token[s]
  <2>1. Ended(q.sees \cup q.holds) \in [Tokens -> Token \cup {NoToken}]
    BY DEF Ended, Inv, TypeOK
  <2>2. Issue(t, q.under) \in Token  BY <1>1, IssueIs DEF Inv
  <2>3. \A s \in Tokens : Ended(q.sees \cup q.holds)[s] =
          IF s \in q.sees \cup q.holds THEN NoToken ELSE token[s]
    BY DEF Ended
  <2> QED  BY <1>1, <2>1, <2>2, <2>3, NoTokenIsNone
<1>7. \A s \in IssuedOf(Proven)' : s # t =>
        s \in IssuedOf(Proven) /\ s \notin q.holds /\ token'[s] = token[s]
  BY <1>6 DEF IssuedOf, Issued
<1>8. /\ token'[t].under = q.under
      /\ q.kind = "recovery" /\ q.under < password => token'[t].late = TRUE
      /\ q.kind = "recovery" /\ q.under = password /\ Resetting => token'[t].late = TRUE
  BY <1>1, <1>6, IssueIs DEF Inv, Proven
<1>9. t \in IssuedOf(Proven)' => q.kind = "recovery"
  BY <1>1, <1>5 DEF IssuedOf, Proven
<1>10. Newer /\ Under' /\ Older'
  <2>1. CASE r \in userLock
    <3>1. userLock' = {}  BY <1>1, <2>1, ResetEnds
    <3>2. /\ q.under = password + 1
          /\ \A s \in IssuedOf(Proven) : s \in q.holds \/ token[s].late = TRUE
      BY <1>1, <1>q, <2>1 DEF Inv, Covered
    <3>3. Newer  BY <1>2, <2>1, <3>1 DEF Newer
    <3>4. Under'
      <4>1. \A s \in Tokens : token[s].under \in Nat  BY Typed DEF Inv
      <4>2. \A s \in IssuedOf(Proven)' : s # t => token'[s].under <= password'
        BY <1>2, <1>7, <2>1, <4>1, Given DEF Inv, Under
      <4> QED  BY <1>2, <1>8, <2>1, <3>2, <4>2 DEF Under
    <3>5. Older'  BY <1>2, <1>7, <1>8, <2>1, <3>2 DEF Older
    <3> QED  BY <3>3, <3>4, <3>5
  <2>2. CASE r \notin userLock
    <3>1. q.kind = "recovery" => q.under <= password
      BY <1>1, <1>q, <2>2 DEF Inv, Past
    <3>2. Under' /\ Older'
      <4>1. \A s \in IssuedOf(Proven)' : s # t =>
              /\ token'[s].under <= password'
              /\ token'[s].under = password' \/ token'[s].late = TRUE
        BY <1>2, <1>7, <2>2 DEF Inv, Under, Older
      <4>2. t \in IssuedOf(Proven)' =>
              /\ token'[t].under <= password'
              /\ token'[t].under = password' \/ token'[t].late = TRUE
        BY <1>1, <1>2, <1>8, <1>9, <2>2, <3>1
      <4> QED  BY <4>1, <4>2 DEF Under, Older
    <3>3. Newer
      <4>1. CASE userLock = {}
        BY <1>2, <1>4, <2>2, <4>1 DEF Newer, Closed
      <4>2. CASE userLock # {}
        <5>1. t \in IssuedOf(Proven)' => token'[t].late = TRUE
          BY <1>1, <1>2, <1>8, <1>9, <3>1, <4>2, ResetsGoOn
        <5> QED  BY <1>2, <1>7, <2>2, <5>1 DEF Newer
      <4> QED  BY <4>1, <4>2
    <3> QED  BY <3>2, <3>3
  <2> QED  BY <2>1, <2>2
<1>11. CodesRemain'
  <2>1. CASE q.kind = "recovery"
    <3>1. t \in IssuedOf({"recovery"})'  BY <1>1, <1>6, <2>1 DEF IssuedOf, Issued
    <3> QED  BY <3>1 DEF CodesRemain
  <2>2. CASE q.kind # "recovery"
    <3>1. codeless' = codeless  BY <1>1, <2>2 DEF Inv, TypeOK
    <3>2. \A s \in IssuedOf({"recovery"}) : s \in IssuedOf({"recovery"})'
      BY <1>1, <1>5, <1>6, <2>2 DEF IssuedOf, Issued
    <3> QED  BY <3>1, <3>2 DEF Inv, CodesRemain
  <2> QED  BY <2>1, <2>2
<1>12. \A p \in Requests : request'[p] # Idle => \A s \in Holds(p) : token'[s] # NoToken
  <2>1. \A p \in Requests : \A s \in Holds(p) : s \in Tokens
    BY Typed, HandlerFields DEF Inv, Holds, Pending
  <2>2. Holds(r) = q.holds  BY <1>1, <1>q DEF Holds
  <2> QED  BY <1>1, <1>4, <1>6, <2>1, <2>2 DEF Inv, Held
<1>13. /\ password' \in Nat /\ password <= password'
       /\ active' \in BOOLEAN /\ codeless' \in BOOLEAN
  BY <1>1, <1>2 DEF Inv, TypeOK
<1> QED  BY <1>3, <1>4, <1>6, <1>10, <1>11, <1>12, <1>13, ClosedInv

--------------------------------------------------------------------------------
(* The theorems.                                                            *)

LEMMA Initially == ASSUME Init PROVE Inv
<1>1. /\ password = 1 /\ active = TRUE /\ verified = FALSE /\ userLock = {}
      /\ codeless \in BOOLEAN
      /\ \A r \in Requests : request[r] = Idle /\ request[r].pc = "idle"
      /\ request \in [Requests -> {Idle}]
  BY DEF Init, Idle
<1>i. PICK first : first = [under |-> 1, late |-> FALSE]  OBVIOUS
<1>2. first \in Token /\ first.under = 1  BY <1>i DEF Token
<1>3. token = [t \in Tokens |->
         IF codeless \/ KindOf(t) = "reset" \/ t[2] # 1 THEN NoToken ELSE first]
  BY <1>i DEF Init
<1>4. /\ token \in [Tokens -> Token \cup {NoToken}]
      /\ \A t \in Tokens : token[t] = first \/ token[t] = NoToken
  BY <1>2, <1>3
<1>5. TypeOK  BY <1>1, <1>4 DEF TypeOK
<1>6. Held  BY <1>1 DEF Held, Holds, Pending
<1>7. Locked  BY <1>1 DEF Locked
<1>8. \A r \in Requests : OfItsKind(r) /\ Covered(r) /\ Past(r)
  BY <1>1 DEF OfItsKind, Covered, Past
<1>9. \A t \in IssuedOf(Proven) : token[t].under = password
  BY <1>1, <1>2, <1>4, Given
<1>10. Under /\ Older  BY <1>1, <1>9 DEF Under, Older
<1>11. CodesRemain
  <2>1. ~codeless => token[<<"recovery", 1>>] = first  BY <1>3, FirstOnes
  <2> QED  BY <1>2, <2>1, FirstOnes, NoTokenIsNone, Given DEF CodesRemain
<1> QED  BY <1>5, <1>6, <1>7, <1>8, <1>10, <1>11 DEF Inv

LEMMA Stutter == ASSUME Inv, UNCHANGED vars PROVE Inv'
<1>1. UNCHANGED <<password, active, verified, token, userLock, codeless, request>>
  BY DEF vars, user
<1>2. Closed  BY <1>1, Stays
<1>3. token' = Ended({})
  <2>1. token \in [Tokens -> Token \cup {NoToken}]  BY DEF Inv, TypeOK
  <2> QED  BY <1>1, <2>1 DEF Ended
<1>4. verified' \in BOOLEAN  BY <1>1 DEF Inv, TypeOK
<1>5. ~codeless => \E s \in IssuedOf({"recovery"}) : s \notin {}  BY DEF Inv, CodesRemain
<1> QED  BY <1>1, <1>2, <1>3, <1>4, <1>5, DeletesRows

LEMMA Steps == ASSUME Inv, Next PROVE Inv'
<1>1. CASE \E r \in Requests : Login(r)  BY <1>1, LoginStep
<1>2. CASE \E r \in Requests, t \in Tokens : StartSession(r, t) \/ CreateApiKey(r, t)
  BY <1>2, CredentialStep
<1>3. CASE \E r \in Requests, t \in Tokens : Identify(r, t) \/ Revoke(r, t) \/ Consume(r, t)
  BY <1>3, IdentifyStep, RevokeStep, ConsumeStep
<1>4. CASE \E t \in Tokens : Expire(t)  BY <1>4, ExpireStep
<1>5. CASE \E r \in Requests :
             VerifyEmail(r) \/ CliReset(r) \/ Scan(r) \/ Erase(r) \/ CliErase(r)
  BY <1>5, VerifyEmailStep, CliResetStep, ScanStep, EraseStep, CliEraseStep
<1>6. CASE \E r \in Requests : ForgotPassword(r) \/ ResendVerification(r) \/ RotateRecovery(r)
  BY <1>6, ReplacingStep
<1>7. CASE \E r \in Requests, t \in Tokens : Replace(r, t)  BY <1>7, ReplaceStep
<1>8. CASE Disable  BY <1>8, DisableStep
<1>9. CASE \E r \in Requests : Fail(r)  BY <1>9, FailStep
<1> QED  BY <1>1, <1>2, <1>3, <1>4, <1>5, <1>6, <1>7, <1>8, <1>9 DEF Next

LEMMA InvariantHolds == Spec => []Inv
<1>1. Init => Inv  BY Initially
<1>2. Inv /\ [Next]_vars => Inv'  BY Steps, Stutter
<1> QED  BY <1>1, <1>2, PTL DEF Spec

\* The row of an account, its tokens and its handlers are always of their types.
THEOREM AccountsTypeCorrect == Spec => []TypeOK
<1>1. Inv => TypeOK  BY DEF Inv
<1> QED  BY <1>1, InvariantHolds, PTL

\* However many resets, logins and rotations overlap: a session, key or recovery code
\* that proved another password than today's was issued while, or after, a reset
\* replaced it (reset_password, cli reset-password).
THEOREM NothingOlderRemains == Spec => []NothingOlderSurvives
<1>1. Inv => NothingOlderSurvives
  BY DEF Inv, Older, NothingOlderSurvives
<1> QED  BY <1>1, InvariantHolds, PTL

\* An account that has recovery codes keeps some until the command line takes them
\* away, whatever is rolled back or runs at the same time (recovery_codes).
THEOREM CodesKept == Spec => []CodesRemain
<1>1. Inv => CodesRemain  BY DEF Inv
<1> QED  BY <1>1, InvariantHolds, PTL

\* The code that a step of r uses is one of the rows that r holds.
LEMMA UsedIsHeld ==
    ASSUME Inv, NEW r \in Requests, Uses(r)
    PROVE  /\ request[r] # Idle /\ request[r].pc \in {"consumed", "replacing"}
           /\ request[r].code \in Tokens /\ request[r].code \in request[r].holds
           /\ token[request[r].code] \in Token
<1>1. /\ request[r].pc \in {"consumed", "replacing"} /\ request[r].code # NoCode
  BY DEF Uses
<1>2. request[r] # Idle  BY <1>1 DEF Idle
<1>3. /\ request[r].code \in Tokens /\ request[r].code \in request[r].holds
  BY <1>1, Typed, HandlerFields DEF Inv, Held, Pending
<1>4. request[r].code \in Holds(r)  BY <1>1, <1>3 DEF Holds
<1>5. token[request[r].code] # NoToken  BY <1>4 DEF Inv, Held
<1> QED  BY <1>1, <1>2, <1>3, <1>5, Typed DEF Inv

\* A step that leaves the handler of r, or every token, as it was uses nothing of r.
LEMMA NothingUsed ==
    ASSUME Inv, NEW r \in Requests, request'[r] = request[r] \/ token' = token
    PROVE  ~Uses(r)
<1>1. request[r].pc \in {"consumed", "replacing"} => request[r] # Idle  BY DEF Idle
<1> QED  BY <1>1 DEF Uses

\* A step that ends another handler.
LEMMA OtherEnds ==
    ASSUME Inv, NEW r \in Requests, NEW q \in Requests, r # q, End(q)
    PROVE  ~Uses(r)
BY Ends, NothingUsed

LEMMA UsesEnds ==
    ASSUME Inv, [Next]_vars, NEW r \in Requests, Uses(r)
    PROVE  token'[request[r].code] = NoToken
<1>c. PICK c : c = request[r].code  OBVIOUS
<1>1. /\ request[r].pc \in {"consumed", "replacing"}
      /\ c \in Tokens /\ c \in request[r].holds
  BY <1>c, UsedIsHeld
<1>2. token' # token  BY DEF Uses
<1>3. request'[r] # request[r]  BY NothingUsed
<1>4. CASE \E q \in Requests, t \in Tokens :
             StartSession(q, t) \/ CreateApiKey(q, t) \/ Revoke(q, t)
  <2> PICK q \in Requests, t \in Tokens :
        StartSession(q, t) \/ CreateApiKey(q, t) \/ Revoke(q, t)
    BY <1>4
  <2>1. End(q) /\ request[q].pc \in {"proved", "identified"}
    BY DEF StartSession, CreateApiKey, IssueCredential, Revoke
  <2> QED  BY <1>1, <2>1, OtherEnds
<1>5. CASE \E q \in Requests : VerifyEmail(q)
  <2> PICK q \in Requests : VerifyEmail(q)  BY <1>5
  <2>1. End(q) /\ token' = Ended({request[q].code})  BY DEF VerifyEmail
  <2>2. q = r  BY <2>1, OtherEnds
  <2> QED  BY <1>1, <1>c, <2>1, <2>2, EndedRows
<1>6. CASE \E q \in Requests : CliErase(q)
  <2> PICK q \in Requests : CliErase(q)  BY <1>6
  <2>1. End(q) /\ request[q].pc = "scanning"  BY DEF CliErase
  <2> QED  BY <1>1, <2>1, OtherEnds
<1>7. CASE \E q \in Requests, t \in Tokens : Replace(q, t)
  <2> PICK q \in Requests, t \in Tokens : Replace(q, t)  BY <1>7
  <2>1. /\ End(q)
        /\ IsNext(q, t, (request[q].sees \cup request[q].holds) \ {request[q].code})
        /\ token' = [Ended(request[q].sees \cup request[q].holds)
                       EXCEPT ![t] = Issue(t, request[q].under)]
    BY DEF Replace
  <2>2. q = r  BY <2>1, OtherEnds
  <2>3. token[c] # NoToken  BY <1>c, UsedIsHeld, NoTokenIsNone
  <2>4. c # t  BY <1>c, <2>1, <2>2, <2>3, Freed
  <2>5. Ended(request[q].sees \cup request[q].holds)[c] = NoToken
    BY <1>1, <2>2 DEF Ended
  <2> QED  BY <1>1, <1>c, <2>1, <2>4, <2>5 DEF Ended
<1>8. CASE request' = request  BY <1>3, <1>8
<1>9. CASE token' = token  BY <1>2, <1>9
<1>10. CASE UNCHANGED vars  BY <1>2, <1>10 DEF vars
<1>11. CASE Next
  <2>1. ASSUME NEW q \in Requests, NEW t \in Tokens, Identify(q, t) \/ Consume(q, t)
        PROVE  token' = token
    BY <2>1 DEF Identify, Consume
  <2>2. ASSUME NEW q \in Requests,
               Login(q) \/ CliReset(q) \/ Scan(q) \/ Erase(q) \/ Fail(q)
        PROVE  token' = token
    BY <2>2 DEF Login, CliReset, Scan, Erase, Fail
  <2>3. ASSUME NEW q \in Requests,
               ForgotPassword(q) \/ ResendVerification(q) \/ RotateRecovery(q)
        PROVE  token' = token
    BY <2>3 DEF ForgotPassword, ResendVerification, RotateRecovery, StartReplacing
  <2>4. ASSUME NEW t \in Tokens, Expire(t) PROVE request' = request
    BY <2>4 DEF Expire
  <2>5. Disable => request' = request  BY DEF Disable
  <2> QED
    BY <1>4, <1>5, <1>6, <1>7, <1>8, <1>9, <1>11, <2>1, <2>2, <2>3, <2>4, <2>5 DEF Next
<1> QED  BY <1>10, <1>11

\* Whoever commits the use of a recovery code, a reset link or a verification link
\* finds the row still there and takes it away, in every interleaving (consume_action).
THEOREM CodeWorksOnce == Spec => CodeUsedOnce
<1> DEFINE Once == \A r \in Requests : Uses(r) =>
                     token[request[r].code] \in Token /\ token'[request[r].code] = NoToken
<1>1. Inv /\ [Next]_vars => [Once]_vars  BY UsedIsHeld, UsesEnds
<1>2. Spec => [][Once]_vars  BY <1>1, InvariantHolds, PTL DEF Spec
<1> QED  BY <1>2 DEF CodeUsedOnce

================================================================================
