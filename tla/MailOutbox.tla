------------------------------- MODULE MailOutbox -------------------------------
(***************************************************************************)
(* The transactional outbox (src/openclm/mail.py): messages are queued in  *)
(* the transaction of the action they tell about, claimed for two minutes  *)
(* by a drainer, delivered, and settled.  A process runs one drainer; the  *)
(* claim is a conditional UPDATE that also holds between two processes.    *)
(*                                                                         *)
(* The lease is on the wall clock and knows nothing of the delivery.  One  *)
(* that outlasts it is taken back by the drain of another process: then    *)
(* several drainers have the message, and each settles it on its own copy. *)
(*                                                                         *)
(* Time is abstract: due says that next_attempt_at has passed, aged that   *)
(* the row is older than seven days.  The provider is outside: it accepts  *)
(* or refuses, and the answer may be lost.                                 *)
(***************************************************************************)
EXTENDS Naturals, FiniteSets

CONSTANTS
    Messages,
    Drainers,
    MaxAttempts,    \* attempts after which a message is given up
    BatchSize,      \* messages of one drain
    MaxMishaps      \* bound: lost answers, crashes and overrun leases of each message

ASSUME OutboxAssumption ==
    /\ MaxAttempts \in Nat \ {0}
    /\ BatchSize \in Nat \ {0}
    /\ MaxMishaps \in [Messages -> Nat]

VARIABLES
    row,        \* the mail_outbox table
    drainer,    \* what each drainer is doing
    accepted,   \* how often the provider accepted a message
    mishaps,    \* lost answers and crashes that interrupted a message
    overruns    \* leases (and delays) of a message that ended while somebody had it in hand

provider == <<accepted, mishaps, overruns>>
vars == <<row, drainer, provider>>

Statuses == {"pending", "sending", "sent", "failed"}

Row == [status: Statuses, attempts: Nat, body: BOOLEAN, due: BOOLEAN, aged: BOOLEAN]
NotQueued == [status |-> "none"]
Deleted == [status |-> "deleted"]

InTable(m) == row[m] \notin {NotQueued, Deleted}

Idle == [pc |-> "idle"]
Draining == [pc: {"draining"}, ids: SUBSET Messages]
Claimed == [pc: {"claimed"}, ids: SUBSET Messages, item: Messages]
\* The message in hand, and its row as it was read after the claim.
Copy == [status: Statuses, attempts: Nat, body: BOOLEAN]
Delivering == [pc: {"delivering", "delivered", "refused"}, ids: SUBSET Messages,
               item: Messages, copy: Copy]

Carries(d, m) ==
    drainer[d].pc \in {"claimed", "delivering", "delivered", "refused"} /\ drainer[d].item = m
Carriers(m) == {d \in Drainers : Carries(d, m)}

MayGoWrong(m) == mishaps[m] + overruns[m] < MaxMishaps[m]

Init ==
    /\ row = [m \in Messages |-> NotQueued]
    /\ drainer = [d \in Drainers |-> Idle]
    /\ accepted = [m \in Messages |-> 0]
    /\ mishaps = [m \in Messages |-> 0]
    /\ overruns = [m \in Messages |-> 0]

\* queue_mail, committed with the action the message tells about.
Queue(m) ==
    /\ row[m] = NotQueued
    /\ row' = [row EXCEPT ![m] =
         [status |-> "pending", attempts |-> 0, body |-> TRUE, due |-> TRUE, aged |-> FALSE]]
    /\ UNCHANGED <<drainer, provider>>

--------------------------------------------------------------------------------
(* Time.                                                                    *)

TimeIsUp(m) ==
    /\ row[m].status \in {"pending", "sending"}
    /\ ~row[m].due
    /\ row' = [row EXCEPT ![m].due = TRUE]

\* The delay of a retry is over, or the lease that a crash left behind.
BecomeDue(m) ==
    /\ Carriers(m) = {}
    /\ TimeIsUp(m)
    /\ UNCHANGED <<drainer, provider>>

\* The same while somebody has the message in hand.  The timeouts of deliver are those
\* of one socket operation, and a delivery has many: it may outlast its lease.
Overrun(m) ==
    /\ Carriers(m) # {}
    /\ MayGoWrong(m)
    /\ TimeIsUp(m)
    /\ overruns' = [overruns EXCEPT ![m] = @ + 1]
    /\ UNCHANGED <<drainer, accepted, mishaps>>

Age(m) ==
    /\ InTable(m)
    /\ ~row[m].aged
    /\ row' = [row EXCEPT ![m].aged = TRUE]
    /\ UNCHANGED <<drainer, provider>>

--------------------------------------------------------------------------------
(* drain_outbox.                                                            *)

\* Faulty: whatever was being sent stays so.
RecoveredOnlyOld == [m \in Messages |-> IF InTable(m) /\ row[m].aged THEN Deleted ELSE row[m]]

\* Faulty: leases are taken back before they are over.
RecoveredEarly == [m \in Messages |->
    IF InTable(m) /\ row[m].aged THEN Deleted
    ELSE IF row[m].status = "sending" THEN [row[m] EXCEPT !.status = "pending", !.due = TRUE]
    ELSE row[m]]

\* Leases that are over are taken back; what is old is deleted.
Recovered == [m \in Messages |->
    IF InTable(m) /\ row[m].aged THEN Deleted
    ELSE IF row[m].status = "sending" /\ row[m].due THEN [row[m] EXCEPT !.status = "pending"]
    ELSE row[m]]

Start(d) ==
    LET waiting == {m \in Messages : Recovered[m].status = "pending" /\ Recovered[m].due} IN
    /\ drainer[d] = Idle
    /\ row' = Recovered
    /\ \E ids \in SUBSET waiting :
         /\ Cardinality(ids) <= BatchSize
         /\ Cardinality(ids) < BatchSize => ids = waiting
         /\ drainer' = [drainer EXCEPT ![d] = [pc |-> "draining", ids |-> ids]]
    /\ UNCHANGED provider

Take(d, m) ==
    /\ row' = [row EXCEPT ![m].status = "sending", ![m].due = FALSE, ![m].attempts = @ + 1]
    /\ drainer' = [drainer EXCEPT ![d] = [pc |-> "claimed", ids |-> @.ids \ {m}, item |-> m]]
    /\ UNCHANGED provider

\* Faulty: the claim trusts the list.
ClaimListed(d, m) ==
    /\ drainer[d].pc = "draining"
    /\ m \in drainer[d].ids
    /\ InTable(m)
    /\ Take(d, m)

Claim(d, m) ==
    /\ drainer[d].pc = "draining"
    /\ m \in drainer[d].ids
    /\ row[m].status = "pending" /\ row[m].due
    /\ Take(d, m)

\* Somebody else has the message: the claim updates no row.
Skip(d, m) ==
    /\ drainer[d].pc = "draining"
    /\ m \in drainer[d].ids
    /\ ~(row[m].status = "pending" /\ row[m].due)
    /\ drainer' = [drainer EXCEPT ![d].ids = @ \ {m}]
    /\ UNCHANGED <<row, provider>>

Finish(d) ==
    /\ drainer[d] = [pc |-> "draining", ids |-> {}]
    /\ drainer' = [drainer EXCEPT ![d] = Idle]
    /\ UNCHANGED <<row, provider>>

\* The row is read after the claim was committed.  One that another drain deleted in
\* between ends the drain.
Load(d) ==
    LET m == drainer[d].item IN
    /\ drainer[d].pc = "claimed"
    /\ drainer' = [drainer EXCEPT ![d] =
         IF InTable(m)
         THEN [pc |-> "delivering", ids |-> @.ids, item |-> m,
               copy |-> [f \in {"status", "attempts", "body"} |-> row[m][f]]]
         ELSE Idle]
    /\ UNCHANGED <<row, provider>>

\* deliver returns.
Deliver(d) ==
    /\ drainer[d].pc = "delivering"
    /\ drainer[d].copy.body
    /\ accepted' = [accepted EXCEPT ![drainer[d].item] = @ + 1]
    /\ drainer' = [drainer EXCEPT ![d].pc = "delivered"]
    /\ UNCHANGED <<row, mishaps, overruns>>

\* decrypt or deliver raises: there is no body, the provider refused or was never
\* reached.
Refuse(d) ==
    /\ drainer[d].pc = "delivering"
    /\ drainer' = [drainer EXCEPT ![d].pc = "refused"]
    /\ UNCHANGED <<row, provider>>

\* deliver raises although the provider accepted: the answer was lost.
LoseAnswer(d) ==
    LET m == drainer[d].item IN
    /\ drainer[d].pc = "delivering"
    /\ drainer[d].copy.body
    /\ MayGoWrong(m)
    /\ accepted' = [accepted EXCEPT ![m] = @ + 1]
    /\ mishaps' = [mishaps EXCEPT ![m] = @ + 1]
    /\ drainer' = [drainer EXCEPT ![d].pc = "refused"]
    /\ UNCHANGED <<row, overruns>>

\* Only the columns that differ from the copy are written, whatever the row holds now
\* (next_attempt_at always does).  A row that another drain deleted ends the drain.
Write(d, fields) ==
    LET m == drainer[d].item
        copy == drainer[d].copy
        changed == {f \in DOMAIN fields : f = "due" \/ fields[f] # copy[f]}
    IN
    /\ drainer' = [drainer EXCEPT ![d] =
         IF InTable(m) THEN [pc |-> "draining", ids |-> @.ids] ELSE Idle]
    /\ row' = [row EXCEPT ![m] =
         [f \in DOMAIN @ |-> IF InTable(m) /\ f \in changed THEN fields[f] ELSE @[f]]]
    /\ UNCHANGED provider

SettleSent(d) ==
    /\ drainer[d].pc = "delivered"
    /\ Write(d, [status |-> "sent", body |-> FALSE])

\* Faulty: the body is erased with every attempt.
SettleRefusedErasing(d) ==
    /\ drainer[d].pc = "refused"
    /\ Write(d, [status |-> IF drainer[d].copy.attempts >= MaxAttempts THEN "failed" ELSE "pending",
                 due |-> FALSE, body |-> FALSE])

\* Faulty: one attempt too many.
SettleRefusedLate(d) ==
    /\ drainer[d].pc = "refused"
    /\ Write(d, [status |-> IF drainer[d].copy.attempts > MaxAttempts THEN "failed" ELSE "pending",
                 due |-> FALSE])

SettleRefused(d) ==
    /\ drainer[d].pc = "refused"
    /\ Write(d, [status |-> IF drainer[d].copy.attempts >= MaxAttempts THEN "failed" ELSE "pending",
                 due |-> FALSE])

\* The process stops, or the database fails, with a message in hand.
Crash(d) ==
    LET m == drainer[d].item IN
    /\ drainer[d].pc \in {"claimed", "delivering", "delivered", "refused"}
    /\ MayGoWrong(m)
    /\ mishaps' = [mishaps EXCEPT ![m] = @ + 1]
    /\ drainer' = [drainer EXCEPT ![d] = Idle]
    /\ UNCHANGED <<row, accepted, overruns>>

--------------------------------------------------------------------------------

Drain(d) ==
    \/ Start(d) \/ Finish(d)
    \/ \E m \in Messages : Claim(d, m) \/ Skip(d, m)
    \/ Load(d) \/ Deliver(d) \/ Refuse(d) \/ LoseAnswer(d)
    \/ SettleSent(d) \/ SettleRefused(d)

Next ==
    \/ \E m \in Messages : Queue(m)
    \/ \E m \in Messages : BecomeDue(m)
    \/ \E m \in Messages : Overrun(m)
    \/ \E m \in Messages : Age(m)
    \/ \E d \in Drainers : Drain(d)
    \/ \E d \in Drainers : Crash(d)

Spec == Init /\ [][Next]_vars

\* Clocks run, deliveries end, and outbox_loop starts a drain again whatever became of the last one.
FairSpec ==
    /\ Spec
    /\ \A m \in Messages : WF_vars(BecomeDue(m))
    /\ \A d \in Drainers : WF_vars(Drain(d))

--------------------------------------------------------------------------------
(* Properties.                                                              *)

\* The table, the drainers and the counts are of their types.
TypeOK ==
    /\ row \in [Messages -> Row \cup {NotQueued, Deleted}]
    /\ drainer \in [Drainers -> {Idle} \cup Draining \cup Claimed \cup Delivering]
    /\ accepted \in [Messages -> Nat]
    /\ mishaps \in [Messages -> Nat]
    /\ overruns \in [Messages -> Nat]

\* Two drains have the same message in hand only when a lease ended during a delivery,
\* and each further hand takes a further overrun (the conditional claim).
OneCarrier == \A m \in Messages : Cardinality(Carriers(m)) <= 1 + overruns[m]

\* Nobody gets a message twice unless an answer was lost, a process stopped while it was
\* being sent or a delivery outlasted its lease, and then once more for each of these.
DeliveredOnce == \A m \in Messages : accepted[m] <= 1 + mishaps[m] + overruns[m]

\* A body is erased only when the provider accepted it, and a sent row has none.  Unless
\* a delivery outlasted its lease, what may still be sent has its body: only the late
\* refusal of a second hand leaves an empty message to be retried.
BodyKeptUntilSent ==
    \A m \in Messages : InTable(m) =>
        /\ row[m].status = "sent" => ~row[m].body
        /\ ~row[m].body => accepted[m] > 0
        /\ ~row[m].body /\ overruns[m] = 0 => row[m].status = "sent"

\* A provider that keeps failing is asked MaxAttempts times; a crash, after which nobody
\* counts, or a late refusal, which counts on its old copy, adds one attempt each.
AttemptsBounded ==
    \A m \in Messages : InTable(m) => row[m].attempts <= MaxAttempts + mishaps[m] + overruns[m]

\* Every message is sent, given up or, after seven days, deleted in the end, also
\* when a process stops with the message in hand or a late settlement reopens it.
Settled ==
    \A m \in Messages :
        row[m].status \in {"pending", "sending"} ~> row[m].status \in {"sent", "failed", "deleted"}
================================================================================
