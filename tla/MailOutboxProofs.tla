--------------------------- MODULE MailOutboxProofs ----------------------------
(***************************************************************************)
(* The outbox, for any number of messages and drainers, any limit of       *)
(* attempts and any number of crashes, lost answers and leases that end    *)
(* during a delivery: none of these has more than one consequence.         *)
(*                                                                         *)
(* With an overrun a message is in several hands, and each of them settles *)
(* it on its own copy.  So the invariant counts: the hands that have it    *)
(* (Carriers), those of them that may still deliver it (Live) or put it    *)
(* back (Early), and the claim that is to come (Open).  Every one of them  *)
(* beyond the first was paid for by an overrun, a crash or a lost answer.  *)
(***************************************************************************)
EXTENDS MailOutbox, FiniteSetTheorems, TLAPS

USE OutboxAssumption

Drainer == {Idle} \cup Draining \cup Claimed \cup Delivering
Read == {"delivering", "delivered", "refused"}
Carrying == {"claimed"} \cup Read

--------------------------------------------------------------------------------
(* Rows and drainers.                                                       *)

LEMMA StatusOfRow ==
    ASSUME NEW x \in Row \cup {NotQueued, Deleted}
    PROVE  /\ x \in Row <=> x.status \in Statuses
           /\ x \in Row <=> x \notin {NotQueued, Deleted}
           /\ x = NotQueued <=> x.status = "none"
           /\ x = Deleted <=> x.status = "deleted"
BY DEF Row, NotQueued, Deleted, Statuses

LEMMA InTableIsRow ==
    ASSUME TypeOK, NEW m \in Messages
    PROVE  /\ InTable(m) <=> row[m] \in Row
           /\ row[m].status \in {"pending", "sending"} => InTable(m)
BY StatusOfRow DEF TypeOK, InTable, Statuses

LEMMA FieldsOfRow ==
    ASSUME TypeOK, NEW m \in Messages, InTable(m)
    PROVE  /\ row[m].status \in Statuses /\ row[m].attempts \in Nat
           /\ row[m].body \in BOOLEAN /\ row[m].due \in BOOLEAN
BY InTableIsRow DEF Row

\* The changes of a row.
LEMMA RowChanges ==
    ASSUME NEW x \in Row, NEW b \in BOOLEAN
    PROVE  /\ LET y == [x EXCEPT !.due = b] IN
              y \in Row /\ y.status = x.status /\ y.attempts = x.attempts /\ y.body = x.body /\ y.due = b
           /\ LET y == [x EXCEPT !.aged = b] IN
              y \in Row /\ y.status = x.status /\ y.attempts = x.attempts /\ y.body = x.body /\ y.due = x.due
BY DEF Row

LEMMA TakenRow ==
    ASSUME NEW x \in Row, NEW n \in Nat
    PROVE  LET y == [x EXCEPT !.status = "sending", !.due = FALSE, !.attempts = n] IN
           y \in Row /\ y.status = "sending" /\ y.attempts = n /\ y.body = x.body /\ y.due = FALSE
BY DEF Row, Statuses

LEMMA TakenBack ==
    ASSUME NEW x \in Row
    PROVE  LET y == [x EXCEPT !.status = "pending"] IN
           y \in Row /\ y.status = "pending" /\ y.attempts = x.attempts /\ y.body = x.body
BY DEF Row, Statuses

\* A drainer with a message in hand, before and after it has read the row.
LEMMA Kinds ==
    ASSUME NEW q \in Drainer
    PROVE  /\ q.pc = "claimed" => q \in Claimed
           /\ q.pc \in Read => q \in Delivering
           /\ q.pc \in Carrying => q.item \in Messages /\ q.ids \in SUBSET Messages
           /\ q.pc \in Read => /\ q.copy.status \in Statuses /\ q.copy.attempts \in Nat
                               /\ q.copy.body \in BOOLEAN
BY DEF Drainer, Idle, Draining, Claimed, Delivering, Read, Carrying, Copy

--------------------------------------------------------------------------------
(* Counting.                                                                *)

LEMMA Fewer ==
    ASSUME NEW S, IsFiniteSet(S), NEW T, T \subseteq S
    PROVE  /\ IsFiniteSet(T) /\ Cardinality(T) \in Nat /\ Cardinality(S) \in Nat
           /\ Cardinality(T) <= Cardinality(S)
BY FS_Subset, FS_CardinalityType

LEMMA OneLess ==
    ASSUME NEW S, IsFiniteSet(S), NEW x \in S, NEW T, T \subseteq S \ {x}
    PROVE  /\ IsFiniteSet(T) /\ Cardinality(T) \in Nat /\ Cardinality(S) \in Nat
           /\ Cardinality(T) + 1 <= Cardinality(S)
<1>1. IsFiniteSet(S \ {x}) /\ Cardinality(S \ {x}) = Cardinality(S) - 1
  BY FS_RemoveElement
<1> QED  BY <1>1, Fewer, FS_CardinalityType

LEMMA OneMore ==
    ASSUME NEW S, IsFiniteSet(S), NEW x, NEW T, T \subseteq S \cup {x}
    PROVE  /\ IsFiniteSet(T) /\ Cardinality(T) \in Nat /\ Cardinality(S) \in Nat
           /\ Cardinality(T) <= Cardinality(S) + 1
<1>1. IsFiniteSet(S \cup {x}) /\ Cardinality(S \cup {x}) <= Cardinality(S) + 1
  BY FS_AddElement, FS_CardinalityType
<1> QED  BY <1>1, Fewer, FS_CardinalityType

--------------------------------------------------------------------------------
(* The invariant.                                                           *)

Bit(b) == IF b THEN 1 ELSE 0

\* A hand that the provider may still accept the message from, or that leaves it to be
\* sent again.
MayDeliver(d, m) ==
    \/ drainer[d].pc = "claimed" /\ InTable(m) /\ row[m].body
    \/ drainer[d].pc \in {"delivering", "refused"} /\ drainer[d].copy.body
Live(m) == {d \in Carriers(m) : MayDeliver(d, m)}

\* A hand that puts the message back if it is refused, because on its copy there are
\* attempts left.
MayPutBack(d, m) ==
    \/ drainer[d].pc = "claimed" /\ InTable(m) /\ row[m].attempts < MaxAttempts
    \/ drainer[d].pc # "claimed" /\ drainer[d].copy.attempts < MaxAttempts
Early(m) == {d \in Carriers(m) : MayPutBack(d, m)}

\* A hand whose settlement ends the sending.
MaySettle(d) == drainer[d].pc = "claimed" \/ drainer[d].copy.status = "sending"
Holding(m) == {d \in Carriers(m) : MaySettle(d)}

\* The message will be claimed again unless somebody settles it.
Open(m) ==
    \/ row[m].status = "pending"
    \/ row[m].status = "sending" /\ (row[m].due \/ Holding(m) = {})
OpenWithBody(m) == Open(m) /\ row[m].body

\* Each hand beyond the first, and a claim to come while there is one, took an overrun.
Hands(m) ==
    Carriers(m) # {} => Cardinality(Carriers(m)) + Bit(Open(m)) <= 1 + overruns[m]

\* So did each delivery that is still possible beyond the first, unless a mishap did.
Copies(m) ==
    accepted[m] + Cardinality(Live(m)) + Bit(OpenWithBody(m)) <= 1 + mishaps[m] + overruns[m]

\* And each attempt beyond the limit that is made or may still be.
Tries(m) ==
    InTable(m) /\ row[m].attempts >= MaxAttempts =>
        row[m].attempts + Cardinality(Early(m)) + Bit(Open(m))
            <= MaxAttempts + mishaps[m] + overruns[m]

\* While no lease has overrun, whoever has the message in hand is alone with it.
Alone(m) ==
    InTable(m) /\ overruns[m] = 0 =>
        /\ Carriers(m) # {} => row[m].status = "sending" /\ ~row[m].due /\ row[m].body
        /\ ~row[m].body => row[m].status = "sent"

Bodies(m) ==
    InTable(m) =>
        /\ row[m].status = "sent" => ~row[m].body
        /\ ~row[m].body => accepted[m] > 0

\* What a hand knows of the message: a body that it did not see is gone.
Copied(d, m) ==
    drainer[d].pc # "claimed" =>
        /\ InTable(m) /\ row[m].body => drainer[d].copy.body
        /\ drainer[d].copy.status = "sent" => ~drainer[d].copy.body
        /\ drainer[d].pc = "delivered" => drainer[d].copy.body /\ accepted[m] > 0

Unqueued(m) == row[m] = NotQueued => Carriers(m) = {} /\ accepted[m] = 0

Sound(m) ==
    /\ IsFiniteSet(Carriers(m))
    /\ Unqueued(m)
    /\ \A d \in Carriers(m) : Copied(d, m)
    /\ Bodies(m) /\ Alone(m) /\ Hands(m) /\ Copies(m) /\ Tries(m)

Inv == TypeOK /\ \A m \in Messages : Sound(m)

--------------------------------------------------------------------------------
(* What the invariant says.                                                 *)

LEMMA Counts ==
    ASSUME Inv, NEW m \in Messages
    PROVE  /\ TypeOK /\ Sound(m)
           /\ accepted[m] \in Nat /\ mishaps[m] \in Nat /\ overruns[m] \in Nat
           /\ IsFiniteSet(Carriers(m)) /\ IsFiniteSet(Live(m)) /\ IsFiniteSet(Early(m))
           /\ Cardinality(Carriers(m)) \in Nat /\ Cardinality(Live(m)) \in Nat
           /\ Cardinality(Early(m)) \in Nat /\ Cardinality(Early(m)) <= Cardinality(Carriers(m))
           /\ Bit(Open(m)) \in {0, 1} /\ Bit(OpenWithBody(m)) \in {0, 1}
<1>1. TypeOK /\ Sound(m) /\ IsFiniteSet(Carriers(m))  BY DEF Inv, Sound
<1>2. Live(m) \subseteq Carriers(m) /\ Early(m) \subseteq Carriers(m)  BY DEF Live, Early
<1>3. accepted[m] \in Nat /\ mishaps[m] \in Nat /\ overruns[m] \in Nat  BY <1>1 DEF TypeOK
<1>4. Bit(Open(m)) \in {0, 1} /\ Bit(OpenWithBody(m)) \in {0, 1}  BY DEF Bit
<1> QED  BY <1>1, <1>2, <1>3, <1>4, Fewer

LEMMA Promised ==
    ASSUME Inv
    PROVE  OneCarrier /\ DeliveredOnce /\ BodyKeptUntilSent /\ AttemptsBounded
<1> SUFFICES ASSUME NEW m \in Messages
             PROVE  /\ Cardinality(Carriers(m)) <= 1 + overruns[m]
                    /\ accepted[m] <= 1 + mishaps[m] + overruns[m]
                    /\ InTable(m) => /\ Bodies(m) /\ Alone(m)
                                     /\ row[m].attempts <= MaxAttempts + mishaps[m] + overruns[m]
  BY DEF OneCarrier, DeliveredOnce, BodyKeptUntilSent, AttemptsBounded, Bodies, Alone
<1>1. /\ Hands(m) /\ Copies(m) /\ Tries(m) /\ Bodies(m) /\ Alone(m)
      /\ TypeOK /\ accepted[m] \in Nat /\ mishaps[m] \in Nat /\ overruns[m] \in Nat
      /\ Cardinality(Carriers(m)) \in Nat /\ Cardinality(Live(m)) \in Nat
      /\ Cardinality(Early(m)) \in Nat
      /\ Bit(Open(m)) \in {0, 1} /\ Bit(OpenWithBody(m)) \in {0, 1}
  BY Counts DEF Sound
<1>2. Cardinality(Carriers(m)) <= 1 + overruns[m]
  BY <1>1, FS_EmptySet DEF Hands
<1>3. accepted[m] <= 1 + mishaps[m] + overruns[m]
  BY <1>1 DEF Copies
<1>4. ASSUME InTable(m) PROVE row[m].attempts <= MaxAttempts + mishaps[m] + overruns[m]
  <2>1. row[m].attempts \in Nat  BY <1>1, <1>4, FieldsOfRow
  <2> QED  BY <1>1, <1>4, <2>1 DEF Tries
<1> QED  BY <1>1, <1>2, <1>3, <1>4

\* Below the limit, attempts are left for whoever may put the message back.
LEMMA TriesAnyway ==
    ASSUME Inv, NEW m \in Messages, InTable(m), row[m].attempts < MaxAttempts
    PROVE  row[m].attempts + Cardinality(Early(m)) + Bit(Open(m))
             <= MaxAttempts + mishaps[m] + overruns[m]
<1>1. row[m].attempts \in Nat /\ MaxAttempts \in Nat  BY FieldsOfRow DEF Inv
<1>2. CASE Carriers(m) = {}
  <2>1. Early(m) = {}  BY <1>2 DEF Early
  <2>2. Cardinality(Early(m)) = 0  BY <2>1, FS_EmptySet
  <2> HIDE DEF Inv
  <2> QED  BY <1>1, <2>2, Counts
<1>3. CASE Carriers(m) # {}
  <2>1. Hands(m)  BY Counts DEF Sound
  <2>2. Cardinality(Carriers(m)) + Bit(Open(m)) <= 1 + overruns[m]  BY <1>3, <2>1 DEF Hands
  <2> QED  BY <1>1, <2>2, Counts
<1> QED  BY <1>2, <1>3

--------------------------------------------------------------------------------
(* Steps that leave a message alone.                                        *)

\* Nobody who has the message in hand moves.
HandsRest(m) ==
    \A d \in Drainers :
        /\ Carries(d, m)' <=> Carries(d, m)
        /\ Carries(d, m) => drainer'[d] = drainer[d]

LEMMA SameHands ==
    ASSUME NEW m \in Messages, HandsRest(m)
    PROVE  /\ Carriers(m)' = Carriers(m)
           /\ Holding(m)' = Holding(m)
           /\ \A d \in Carriers(m) : drainer'[d] = drainer[d]
<1>1. Carriers(m)' = Carriers(m) /\ \A d \in Carriers(m) : drainer'[d] = drainer[d]
  BY DEF HandsRest, Carriers
<1> QED  BY <1>1 DEF Holding, MaySettle

LEMMA Undisturbed ==
    ASSUME Inv, NEW m \in Messages, HandsRest(m), row'[m] = row[m],
           accepted'[m] = accepted[m], mishaps'[m] = mishaps[m], overruns'[m] = overruns[m]
    PROVE  Sound(m)'
<1>1. Sound(m)  BY DEF Inv
<1>2. /\ Carriers(m)' = Carriers(m) /\ Holding(m)' = Holding(m)
      /\ \A d \in Carriers(m) : drainer'[d] = drainer[d]
  BY SameHands
<1>3. InTable(m)' = InTable(m)  BY DEF InTable
<1>4. Live(m)' = Live(m) /\ Early(m)' = Early(m)
  BY <1>2, <1>3 DEF Live, Early, MayDeliver, MayPutBack
<1>5. Open(m)' = Open(m) /\ OpenWithBody(m)' = OpenWithBody(m)
  BY <1>2 DEF Open, OpenWithBody
<1>6. \A d \in Carriers(m)' : Copied(d, m)'
  BY <1>1, <1>2, <1>3 DEF Sound, Copied
<1>7. IsFiniteSet(Carriers(m))' /\ Unqueued(m)' /\ Bodies(m)' /\ Alone(m)'
  BY <1>1, <1>2, <1>3 DEF Sound, Unqueued, Bodies, Alone
<1>8. Hands(m)'  BY <1>1, <1>2, <1>5 DEF Sound, Hands, Bit
<1>9. Copies(m)'  BY <1>1, <1>4, <1>5 DEF Sound, Copies, Bit
<1>10. Tries(m)'  BY <1>1, <1>3, <1>4, <1>5 DEF Sound, Tries, Bit
<1> QED  BY <1>6, <1>7, <1>8, <1>9, <1>10 DEF Sound

\* One drainer works on one message: the others do not notice.
Move(d, m, q, x, a, h) ==
    /\ drainer' = [drainer EXCEPT ![d] = q]
    /\ row' = [row EXCEPT ![m] = x]
    /\ accepted' = [accepted EXCEPT ![m] = a]
    /\ mishaps' = [mishaps EXCEPT ![m] = h]
    /\ UNCHANGED overruns

LEMMA MoveOf ==
    ASSUME TypeOK, NEW d \in Drainers, NEW m \in Messages, NEW q, NEW x, NEW a, NEW h,
           Move(d, m, q, x, a, h)
    PROVE  /\ drainer'[d] = q /\ row'[m] = x /\ accepted'[m] = a /\ mishaps'[m] = h
           /\ overruns'[m] = overruns[m]
           /\ \A e \in Drainers : e # d => drainer'[e] = drainer[e] /\ (Carries(e, m)' <=> Carries(e, m))
           /\ \A k \in Messages : k # m =>
                row'[k] = row[k] /\ accepted'[k] = accepted[k] /\ mishaps'[k] = mishaps[k]
           /\ Carries(d, m)' <=> q.pc \in Carrying /\ q.item = m
BY DEF Move, TypeOK, Carries, Carrying, Read

LEMMA OneMoves ==
    ASSUME Inv, NEW d \in Drainers, NEW m \in Messages, NEW q \in Drainer,
           NEW x \in Row \cup {NotQueued, Deleted}, NEW a \in Nat, NEW h \in Nat,
           Move(d, m, q, x, a, h),
           drainer[d].pc \in Carrying => drainer[d].item = m,
           q.pc \in Carrying => q.item = m,
           Sound(m)'
    PROVE  Inv'
<1>1. TypeOK'  BY DEF Inv, TypeOK, Drainer, Move
<1>2. ASSUME NEW k \in Messages, k # m PROVE Sound(k)'
  <2>1. \A e \in Drainers : e # d => drainer'[e] = drainer[e]
    BY MoveOf DEF Inv
  <2>2. drainer'[d] = q /\ ~Carries(d, k) /\ ~Carries(d, k)'
    BY <1>2, MoveOf DEF Inv, Carries, Carrying, Read
  <2>3. HandsRest(k)  BY <2>1, <2>2 DEF HandsRest, Carries
  <2>4. /\ row'[k] = row[k] /\ accepted'[k] = accepted[k]
        /\ mishaps'[k] = mishaps[k] /\ overruns'[k] = overruns[k]
    BY <1>2, MoveOf DEF Inv, Move
  <2> QED  BY <2>3, <2>4, Undisturbed
<1> QED  BY <1>1, <1>2 DEF Inv

--------------------------------------------------------------------------------
(* Steps on rows: the hands that have the message in hand do not move.      *)

LEMMA RowOnly ==
    ASSUME Inv, TypeOK', NEW m \in Messages, HandsRest(m),
           accepted'[m] = accepted[m], mishaps'[m] = mishaps[m],
           Bit(Open(m)') + overruns[m] <= Bit(Open(m)) + overruns'[m],
           overruns[m] <= overruns'[m],
           InTable(m)' => /\ InTable(m)
                          /\ row'[m].attempts = row[m].attempts /\ row'[m].body = row[m].body
                          /\ row'[m].status = "sent" => row[m].status = "sent",
           row'[m] = NotQueued => row[m] = NotQueued,
           Alone(m)'
    PROVE  Sound(m)'
<1>1. /\ Carriers(m)' = Carriers(m)
      /\ \A d \in Carriers(m) : drainer'[d] = drainer[d]
  BY SameHands
<1>2. Live(m)' \subseteq Live(m) /\ Early(m)' \subseteq Early(m)
  BY <1>1 DEF Live, Early, MayDeliver, MayPutBack
<1>3. /\ Cardinality(Live(m)') <= Cardinality(Live(m)) /\ Cardinality(Live(m)') \in Nat
      /\ Cardinality(Early(m)') <= Cardinality(Early(m)) /\ Cardinality(Early(m)') \in Nat
  BY <1>2, Counts, Fewer
<1>4. /\ overruns'[m] \in Nat
      /\ Bit(Open(m)') \in {0, 1} /\ Bit(OpenWithBody(m)') \in {0, 1}
  BY DEF TypeOK, Bit
<1>5. Open(m)' => InTable(m)'
  BY DEF Open, InTable, NotQueued, Deleted
<1>6. Bit(OpenWithBody(m)') + overruns[m] <= Bit(OpenWithBody(m)) + overruns'[m]
  <2>1. CASE ~OpenWithBody(m)'
    BY <2>1, <1>4, Counts DEF Bit
  <2>2. CASE OpenWithBody(m)'
    <3>1. Open(m)' /\ row[m].body  BY <1>5, <2>2 DEF OpenWithBody
    <3>2. CASE Open(m)
      <4>1. OpenWithBody(m)  BY <3>1, <3>2 DEF OpenWithBody
      <4> QED  BY <2>2, <4>1, Counts, <1>4 DEF Bit
    <3>3. CASE ~Open(m)
      <4>1. Bit(Open(m)') = 1 /\ Bit(Open(m)) = 0  BY <3>1, <3>3 DEF Bit
      <4> QED  BY <4>1, <1>4, Counts
    <3> QED  BY <3>2, <3>3
  <2> QED  BY <2>1, <2>2
<1>7. Sound(m)  BY DEF Inv
<1>8. IsFiniteSet(Carriers(m))' /\ Unqueued(m)' /\ Bodies(m)'
  BY <1>1, <1>7 DEF Sound, Unqueued, Bodies
<1>9. \A d \in Carriers(m)' : Copied(d, m)'
  BY <1>1, <1>7 DEF Sound, Copied
<1>10. Hands(m)'
  <2> SUFFICES ASSUME Carriers(m)' # {}
               PROVE  Cardinality(Carriers(m)') + Bit(Open(m)') <= 1 + overruns'[m]
    BY DEF Hands
  <2>1. Cardinality(Carriers(m)) + Bit(Open(m)) <= 1 + overruns[m]
    BY <1>1, <1>7 DEF Sound, Hands
  <2> QED  BY <1>1, <1>4, <2>1, Counts
<1>11. Copies(m)'
  <2>1. accepted[m] + Cardinality(Live(m)) + Bit(OpenWithBody(m)) <= 1 + mishaps[m] + overruns[m]
    BY <1>7 DEF Sound, Copies
  <2>2. accepted[m] + Cardinality(Live(m)') + Bit(OpenWithBody(m)') <= 1 + mishaps[m] + overruns'[m]
    BY <1>3, <1>4, <1>6, <2>1, Counts
  <2> QED  BY <2>2 DEF Copies
<1>12. Tries(m)'
  <2> SUFFICES ASSUME InTable(m)', row'[m].attempts >= MaxAttempts
               PROVE  row'[m].attempts + Cardinality(Early(m)') + Bit(Open(m)')
                        <= MaxAttempts + mishaps'[m] + overruns'[m]
    BY DEF Tries
  <2>1. /\ row[m].attempts + Cardinality(Early(m)) + Bit(Open(m))
             <= MaxAttempts + mishaps[m] + overruns[m]
        /\ row[m].attempts \in Nat /\ row'[m].attempts = row[m].attempts
    BY <1>7, FieldsOfRow, Counts DEF Sound, Tries
  <2> QED  BY <1>3, <1>4, <2>1, Counts
<1> QED  BY <1>8, <1>9, <1>7, <1>10, <1>11, <1>12 DEF Sound

\* One row changes, no drainer does.
LEMMA RowMoves ==
    ASSUME Inv, NEW m \in Messages, NEW x \in Row, NEW o \in Nat,
           row' = [row EXCEPT ![m] = x], overruns' = [overruns EXCEPT ![m] = o],
           UNCHANGED <<drainer, accepted, mishaps>>
    PROVE  /\ TypeOK' /\ row'[m] = x /\ overruns'[m] = o
           /\ \A k \in Messages : HandsRest(k)
           /\ Sound(m)' => Inv'
<1>1. TypeOK'  BY DEF Inv, TypeOK
<1>2. \A k \in Messages : HandsRest(k)  BY DEF HandsRest, Carries
<1>3. ASSUME NEW k \in Messages, k # m PROVE Sound(k)'
  BY <1>2, <1>3, Undisturbed DEF Inv, TypeOK
<1>4. row'[m] = x /\ overruns'[m] = o  BY DEF Inv, TypeOK
<1> QED  BY <1>1, <1>2, <1>3, <1>4 DEF Inv

LEMMA QueueStep == ASSUME Inv, NEW m \in Messages, Queue(m) PROVE Inv'
<1> DEFINE x == [status |-> "pending", attempts |-> 0, body |-> TRUE, due |-> TRUE, aged |-> FALSE]
<1>1. /\ x \in Row /\ x.status = "pending" /\ x.attempts = 0 /\ x.body = TRUE
  BY DEF Row, Statuses
<1>2. row' = [row EXCEPT ![m] = x] /\ UNCHANGED <<drainer, provider>>  BY DEF Queue
<1>3. row[m] = NotQueued /\ Sound(m) /\ TypeOK  BY Counts DEF Queue
<1>4. /\ overruns' = [overruns EXCEPT ![m] = overruns[m]] /\ overruns[m] \in Nat
      /\ UNCHANGED <<drainer, accepted, mishaps>>
  BY <1>2, <1>3 DEF TypeOK, provider
<1> HIDE DEF x
<1>5. TypeOK' /\ row'[m] = x /\ HandsRest(m) /\ (Sound(m)' => Inv')
  BY <1>1, <1>2, <1>4, RowMoves
<1>6. Carriers(m)' = {} /\ accepted'[m] = 0
  BY <1>2, <1>3, <1>5, SameHands DEF Sound, Unqueued, provider
<1>7. Live(m)' = {} /\ Early(m)' = {}  BY <1>6 DEF Live, Early
<1>8. IsFiniteSet(Carriers(m)') /\ Cardinality(Live(m)') = 0 /\ Cardinality(Early(m)') = 0
  BY <1>6, <1>7, FS_EmptySet
<1>9. /\ Bit(OpenWithBody(m)') \in {0, 1} /\ Bit(Open(m)') \in {0, 1}
      /\ mishaps'[m] \in Nat /\ overruns'[m] \in Nat
  BY <1>5 DEF Bit, TypeOK
<1>10. Copies(m)'  BY <1>6, <1>8, <1>9 DEF Copies
<1>11. Tries(m)'
  <2>1. row'[m].attempts = 0 /\ MaxAttempts > 0  BY <1>1, <1>5
  <2> QED  BY <2>1 DEF Tries
<1>12. Unqueued(m)' /\ Bodies(m)' /\ Alone(m)' /\ Hands(m)'
  BY <1>1, <1>5, <1>6 DEF Unqueued, Bodies, Alone, Hands
<1> QED  BY <1>5, <1>6, <1>8, <1>10, <1>11, <1>12 DEF Sound

\* The time of a row is up: if somebody has the message in hand, the overrun pays for the
\* claim that may follow.
LEMMA TimeStep == ASSUME Inv, NEW m \in Messages, BecomeDue(m) \/ Overrun(m) PROVE Inv'
<1> DEFINE x == [row[m] EXCEPT !.due = TRUE]
           o == IF BecomeDue(m) THEN overruns[m] ELSE overruns[m] + 1
<1>1. /\ row[m].status \in {"pending", "sending"} /\ row' = [row EXCEPT ![m] = x]
      /\ UNCHANGED <<drainer, accepted, mishaps>>
  BY Zenon DEF BecomeDue, Overrun, TimeIsUp, provider
<1>2. InTable(m) /\ row[m] \in Row /\ Sound(m) /\ TypeOK /\ overruns[m] \in Nat
  BY <1>1, InTableIsRow, Counts
<1>3. /\ x \in Row /\ x.status = row[m].status /\ x.attempts = row[m].attempts
      /\ x.body = row[m].body
  BY <1>2, RowChanges DEF Statuses
<1>4. overruns' = [overruns EXCEPT ![m] = o]
  BY <1>2 DEF BecomeDue, Overrun, provider, TypeOK
<1>5. o \in Nat /\ overruns[m] <= o /\ (o = overruns[m] => Carriers(m) = {})
  BY <1>2 DEF BecomeDue
<1> HIDE DEF x, o
<1>6. TypeOK' /\ row'[m] = x /\ overruns'[m] = o /\ HandsRest(m) /\ (Sound(m)' => Inv')
  BY <1>1, <1>3, <1>4, <1>5, RowMoves
<1>7. Bit(Open(m)') + overruns[m] <= Bit(Open(m)) + o
  <2>1. CASE o = overruns[m]
    <3>1. Holding(m) = {}  BY <1>5, <2>1 DEF Holding
    <3>2. Open(m)  BY <1>1, <3>1 DEF Open
    <3> QED  BY <1>2, <2>1, <3>2 DEF Bit
  <2>2. CASE o >= overruns[m] + 1
    BY <1>2, <1>5, <2>2 DEF Bit
  <2> QED  BY <1>2, <1>5, <2>1, <2>2
<1>8. Carriers(m)' = Carriers(m)  BY <1>6, SameHands
<1>9. Alone(m)'
  BY <1>2, <1>3, <1>5, <1>6, <1>8 DEF Alone, Sound
<1>10. row'[m] # NotQueued  BY <1>3, <1>6, StatusOfRow
<1>11. accepted'[m] = accepted[m] /\ mishaps'[m] = mishaps[m]  BY <1>1
<1> QED  BY <1>2, <1>3, <1>5, <1>6, <1>7, <1>9, <1>10, <1>11, RowOnly

LEMMA AgeStep == ASSUME Inv, NEW m \in Messages, Age(m) PROVE Inv'
<1> DEFINE x == [row[m] EXCEPT !.aged = TRUE]
<1>1. /\ InTable(m) /\ row' = [row EXCEPT ![m] = x] /\ UNCHANGED <<drainer, provider>>
  BY Zenon DEF Age
<1>2. row[m] \in Row /\ Sound(m) /\ TypeOK /\ overruns[m] \in Nat
  BY <1>1, InTableIsRow, Counts
<1>3. /\ x \in Row /\ x.status = row[m].status /\ x.attempts = row[m].attempts
      /\ x.body = row[m].body /\ x.due = row[m].due
  BY <1>2, RowChanges DEF Statuses
<1>4. /\ overruns' = [overruns EXCEPT ![m] = overruns[m]]
      /\ UNCHANGED <<drainer, accepted, mishaps>>
  BY <1>1, <1>2 DEF provider, TypeOK
<1> HIDE DEF x
<1>5. /\ TypeOK' /\ row'[m] = x /\ overruns'[m] = overruns[m]
      /\ HandsRest(m) /\ (Sound(m)' => Inv')
  BY <1>1, <1>2, <1>3, <1>4, RowMoves
<1>6. Carriers(m)' = Carriers(m) /\ Holding(m)' = Holding(m)  BY <1>5, SameHands
<1>7. Open(m)' = Open(m)  BY <1>3, <1>5, <1>6 DEF Open
<1>8. Bit(Open(m)') + overruns[m] <= Bit(Open(m)) + overruns[m]
  BY <1>2, <1>7 DEF Bit
<1>9. Alone(m)'  BY <1>1, <1>2, <1>3, <1>5, <1>6 DEF Alone, Sound
<1>10. row'[m] # NotQueued  BY <1>3, <1>5, StatusOfRow
<1>11. accepted'[m] = accepted[m] /\ mishaps'[m] = mishaps[m]  BY <1>4
<1> QED  BY <1>1, <1>2, <1>3, <1>5, <1>8, <1>9, <1>10, <1>11, RowOnly

--------------------------------------------------------------------------------
(* A drain begins and ends.                                                 *)

\* What the start of a drain makes of a row.
LEMMA RecoveredRow ==
    ASSUME TypeOK, NEW m \in Messages
    PROVE  \/ Recovered[m] = row[m]
           \/ InTable(m) /\ Recovered[m] = Deleted
           \/ /\ InTable(m) /\ row[m].status = "sending" /\ row[m].due
              /\ Recovered[m] \in Row /\ Recovered[m].status = "pending"
              /\ Recovered[m].attempts = row[m].attempts /\ Recovered[m].body = row[m].body
<1> DEFINE x == [row[m] EXCEPT !.status = "pending"]
<1>1. Recovered[m] = IF InTable(m) /\ row[m].aged THEN Deleted
                     ELSE IF row[m].status = "sending" /\ row[m].due THEN x ELSE row[m]
  BY Zenon DEF Recovered
<1>2. row[m] \in Row =>
        x \in Row /\ x.status = "pending" /\ x.attempts = row[m].attempts /\ x.body = row[m].body
  BY TakenBack
<1>3. row[m].status = "sending" => InTable(m)  BY InTableIsRow
<1>4. InTable(m) => row[m] \in Row  BY InTableIsRow
<1> HIDE DEF x
<1>5. CASE InTable(m) /\ row[m].aged  BY <1>1, <1>5
<1>6. CASE ~(InTable(m) /\ row[m].aged) /\ row[m].status = "sending" /\ row[m].due
  BY <1>1, <1>2, <1>3, <1>4, <1>6
<1>7. CASE ~(InTable(m) /\ row[m].aged) /\ ~(row[m].status = "sending" /\ row[m].due)
  BY <1>1, <1>7
<1> QED  BY <1>5, <1>6, <1>7

LEMMA StartStep == ASSUME Inv, NEW d \in Drainers, Start(d) PROVE Inv'
<1>1. PICK ids \in SUBSET Messages : drainer' = [drainer EXCEPT ![d] = [pc |-> "draining", ids |-> ids]]
  BY DEF Start
<1>2. drainer[d] = Idle /\ row' = Recovered /\ UNCHANGED <<accepted, mishaps, overruns>>
  BY DEF Start, provider
<1>3. drainer' \in [Drainers -> Drainer]  BY <1>1 DEF Inv, TypeOK, Drainer, Draining
<1>4. \A m \in Messages : HandsRest(m)
  BY <1>1, <1>2 DEF HandsRest, Carries, Idle, Inv, TypeOK
<1>5. \A m \in Messages : row'[m] = Recovered[m]  BY <1>2
<1>6. TypeOK'
  <2>1. row' \in [Messages -> Row \cup {NotQueued, Deleted}]
    <3>1. row' = [m \in Messages |-> Recovered[m]]  BY <1>2 DEF Recovered
    <3>2. \A m \in Messages : Recovered[m] \in Row \cup {NotQueued, Deleted}
      BY RecoveredRow DEF Inv, TypeOK
    <3> QED  BY <3>1, <3>2
  <2> QED  BY <1>2, <1>3, <2>1 DEF Inv, TypeOK, Drainer
<1>7. ASSUME NEW m \in Messages PROVE Sound(m)'
  <2> DEFINE x == Recovered[m]
  <2>0. /\ row'[m] = x /\ HandsRest(m) /\ Sound(m) /\ TypeOK
        /\ accepted'[m] = accepted[m] /\ mishaps'[m] = mishaps[m] /\ overruns'[m] = overruns[m]
        /\ overruns[m] \in Nat
    BY <1>2, <1>4, <1>5, Counts
  <2>1. CASE x = row[m]  BY <2>0, <2>1, Undisturbed
  <2>2. CASE InTable(m) /\ x = Deleted
    <3>1. ~InTable(m)' /\ ~Open(m)' /\ row'[m] # NotQueued
      BY <2>0, <2>2 DEF InTable, Open, Deleted, NotQueued
    <3>2. Bit(Open(m)') + overruns[m] <= Bit(Open(m)) + overruns'[m]
      BY <2>0, <3>1 DEF Bit
    <3>3. Alone(m)'  BY <3>1 DEF Alone
    <3> HIDE DEF x
    <3> QED  BY <1>6, <2>0, <3>1, <3>2, <3>3, RowOnly
  <2>3. CASE /\ InTable(m) /\ row[m].status = "sending" /\ row[m].due
             /\ x \in Row /\ x.status = "pending"
             /\ x.attempts = row[m].attempts /\ x.body = row[m].body
    <3> HIDE DEF x
    <3>1. Open(m) /\ row'[m] # NotQueued
      BY <2>0, <2>3, StatusOfRow DEF Open
    <3>2. Bit(Open(m)') + overruns[m] <= Bit(Open(m)) + overruns'[m]
      BY <2>0, <3>1 DEF Bit
    <3>3. Carriers(m)' = Carriers(m)  BY <2>0, SameHands
    <3>4. Alone(m)'  BY <2>0, <2>3, <3>3 DEF Alone, Sound
    <3>5. /\ row'[m].attempts = row[m].attempts /\ row'[m].body = row[m].body
          /\ row'[m].status # "sent" /\ InTable(m)
      BY <2>0, <2>3
    <3>6. overruns[m] <= overruns'[m]  BY <2>0
    <3>7. accepted'[m] = accepted[m] /\ mishaps'[m] = mishaps[m] /\ HandsRest(m)  BY <2>0
    <3> QED  BY <1>6, <3>1, <3>2, <3>4, <3>5, <3>6, <3>7, RowOnly
  <2> QED  BY <2>0, <2>1, <2>2, <2>3, RecoveredRow
<1> QED  BY <1>6, <1>7 DEF Inv

\* Nothing that the invariant speaks of changes.
LEMMA NothingInHand ==
    ASSUME Inv, drainer' \in [Drainers -> Drainer], UNCHANGED <<row, provider>>,
           \A m \in Messages : HandsRest(m)
    PROVE  Inv'
<1>1. TypeOK'  BY DEF Inv, TypeOK, Drainer, provider
<1> QED  BY <1>1, Undisturbed DEF Inv, provider

LEMMA FinishStep == ASSUME Inv, NEW d \in Drainers, Finish(d) PROVE Inv'
<1>1. drainer' \in [Drainers -> Drainer]  BY DEF Finish, Inv, TypeOK, Drainer
<1>2. \A m \in Messages : HandsRest(m)
  BY DEF Finish, HandsRest, Carries, Idle, Inv, TypeOK
<1> QED  BY <1>1, <1>2, NothingInHand DEF Finish

LEMMA SkipStep == ASSUME Inv, NEW d \in Drainers, NEW m \in Messages, Skip(d, m) PROVE Inv'
<1> DEFINE q == [drainer[d] EXCEPT !.ids = @ \ {m}]
<1>1. drainer[d].pc = "draining" /\ drainer' = [drainer EXCEPT ![d] = q]
  BY DEF Skip
<1>2. drainer[d] \in Draining
  BY <1>1 DEF Inv, TypeOK, Idle, Draining, Claimed, Delivering
<1>3. q \in Draining  BY <1>2 DEF Draining
<1> HIDE DEF q
<1>4. drainer' \in [Drainers -> Drainer]  BY <1>1, <1>3 DEF Inv, TypeOK, Drainer
<1>5. \A k \in Messages : HandsRest(k)
  BY <1>1, <1>3 DEF HandsRest, Carries, Draining, Inv, TypeOK
<1> QED  BY <1>4, <1>5, NothingInHand DEF Skip

--------------------------------------------------------------------------------
(* A drainer with a message in hand.                                        *)

LEMMA Hand ==
    ASSUME Inv, NEW d \in Drainers, drainer[d].pc \in Carrying
    PROVE  LET m == drainer[d].item IN
           /\ m \in Messages /\ Carries(d, m) /\ d \in Carriers(m)
           /\ row[m] # NotQueued /\ Copied(d, m) /\ drainer[d] \in Drainer
           /\ ~InTable(m) => row[m] = Deleted
<1> DEFINE m == drainer[d].item
<1>1. drainer[d] \in Drainer  BY DEF Inv, TypeOK, Drainer
<1>2. m \in Messages  BY <1>1, Kinds
<1>3. Carries(d, m) /\ d \in Carriers(m)  BY DEF Carries, Carriers, Carrying, Read
<1>4. Sound(m)  BY <1>2 DEF Inv
<1>5. row[m] # NotQueued  BY <1>3, <1>4 DEF Sound, Unqueued
<1>6. Copied(d, m)  BY <1>3, <1>4 DEF Sound
<1> QED  BY <1>1, <1>2, <1>3, <1>5, <1>6 DEF InTable

\* While no lease has overrun, it is the only one.
LEMMA AloneHand ==
    ASSUME Inv, NEW m \in Messages, NEW d \in Carriers(m), overruns[m] = 0
    PROVE  /\ Carriers(m) = {d}
           /\ InTable(m) => row[m].status = "sending" /\ row[m].body
<1>1. Cardinality(Carriers(m)) + Bit(Open(m)) <= 1 /\ Alone(m)
  BY Counts DEF Sound, Hands
<1>2. /\ IsFiniteSet(Carriers(m) \ {d}) /\ Cardinality(Carriers(m) \ {d}) \in Nat
      /\ Cardinality(Carriers(m) \ {d}) + 1 <= Cardinality(Carriers(m))
  BY Counts, OneLess
<1>3. Cardinality(Carriers(m) \ {d}) = 0  BY <1>1, <1>2, Counts
<1>4. Carriers(m) \ {d} = {}  BY <1>2, <1>3, FS_EmptySet
<1> QED  BY <1>1, <1>4 DEF Alone

LEMMA Split ==
    ASSUME NEW S, IsFiniteSet(S), NEW d
    PROVE  /\ IsFiniteSet(S \ {d}) /\ Cardinality(S \ {d}) \in Nat
           /\ Cardinality(S) = Cardinality(S \ {d}) + Bit(d \in S)
<1>1. /\ IsFiniteSet(S \ {d})
      /\ Cardinality(S \ {d}) = IF d \in S THEN Cardinality(S) - 1 ELSE Cardinality(S)
  BY FS_RemoveElement
<1>2. Cardinality(S \ {d}) \in Nat /\ Cardinality(S) \in Nat
  BY <1>1, FS_CardinalityType
<1>3. CASE d \in S
  <2>1. Cardinality(S \ {d}) = Cardinality(S) - 1 /\ Bit(d \in S) = 1  BY <1>1, <1>3 DEF Bit
  <2> QED  BY <1>1, <1>2, <2>1
<1>4. CASE d \notin S
  <2>1. Cardinality(S \ {d}) = Cardinality(S) /\ Bit(d \in S) = 0  BY <1>1, <1>4 DEF Bit
  <2> QED  BY <1>1, <1>2, <2>1
<1> QED  BY <1>3, <1>4

LEMMA SameSet ==
    ASSUME NEW S, NEW T, NEW d, d \in S, d \in T, S \ {d} = T \ {d}
    PROVE  S = T
<1>1. \A e : e \in S <=> e \in T
  <2> SUFFICES ASSUME NEW e, e # d PROVE e \in S <=> e \in T  OBVIOUS
  <2>1. e \in S \ {d} <=> e \in T \ {d}  OBVIOUS
  <2> QED  BY <2>1
<1> QED  BY <1>1

\* What the others have in hand, when d moves.
LEMMA Others ==
    ASSUME Inv, NEW d \in Drainers, NEW m \in Messages, NEW q, NEW x, NEW a, NEW h,
           Move(d, m, q, x, a, h)
    PROVE  /\ Carriers(m)' \ {d} = Carriers(m) \ {d}
           /\ Holding(m)' \ {d} = Holding(m) \ {d}
           /\ d \in Carriers(m)' <=> q.pc \in Carrying /\ q.item = m
           /\ \A e \in Carriers(m) \ {d} : drainer'[e] = drainer[e]
<1>1. /\ \A e \in Drainers : e # d => drainer'[e] = drainer[e] /\ (Carries(e, m)' <=> Carries(e, m))
      /\ Carries(d, m)' <=> q.pc \in Carrying /\ q.item = m
  BY MoveOf DEF Inv
<1>2. Carriers(m)' \ {d} = Carriers(m) \ {d}  BY <1>1 DEF Carriers
<1>3. \A e \in Carriers(m) \ {d} : drainer'[e] = drainer[e]  BY <1>1 DEF Carriers
<1>4. Holding(m)' \ {d} = Holding(m) \ {d}  BY <1>2, <1>3 DEF Holding, MaySettle
<1> QED  BY <1>1, <1>2, <1>3, <1>4 DEF Carriers

\* It goes on with the message; the row stays.
LEMMA HandGoesOn ==
    ASSUME Inv, NEW d \in Drainers, NEW m \in Messages, Carries(d, m),
           NEW q \in Drainer, q.pc \in Read, q.item = m, NEW a \in Nat, NEW h \in Nat,
           Move(d, m, q, row[m], a, h), accepted[m] <= a, mishaps[m] <= h,
           Bit(Open(m)') <= Bit(Open(m)),
           a + Bit(MayDeliver(d, m)') + mishaps[m] <= accepted[m] + Bit(MayDeliver(d, m)) + h,
           MayPutBack(d, m)' => MayPutBack(d, m),
           Copied(d, m)'
    PROVE  Inv'
<1>1. /\ drainer'[d] = q /\ row'[m] = row[m] /\ accepted'[m] = a /\ mishaps'[m] = h
      /\ overruns'[m] = overruns[m] /\ InTable(m)' = InTable(m)
  BY MoveOf DEF Inv, InTable
<1>2. /\ d \in Carriers(m) /\ d \in Carriers(m)' /\ Carriers(m)' = Carriers(m)
      /\ \A e \in Carriers(m) \ {d} : drainer'[e] = drainer[e]
  <2>1. q.pc \in Carrying  BY DEF Carrying
  <2>2. d \in Carriers(m)  BY DEF Carriers
  <2>3. /\ Carriers(m)' \ {d} = Carriers(m) \ {d}
        /\ d \in Carriers(m)' <=> q.pc \in Carrying /\ q.item = m
        /\ \A e \in Carriers(m) \ {d} : drainer'[e] = drainer[e]
    BY Others
  <2>4. d \in Carriers(m)'  BY <2>1, <2>3
  <2>5. Carriers(m)' = Carriers(m)  BY <2>2, <2>3, <2>4, SameSet
  <2> QED  BY <2>2, <2>3, <2>4, <2>5
<1>3. Sound(m) /\ IsFiniteSet(Carriers(m)') /\ row[m] \in Row \cup {NotQueued, Deleted}
  BY <1>2, Counts DEF TypeOK
<1>4. \A e \in Carriers(m)' : Copied(e, m)'
  <2>1. ASSUME NEW e \in Carriers(m) \ {d} PROVE Copied(e, m)'
    <3>1. Copied(e, m) /\ accepted[m] \in Nat  BY <1>3, Counts DEF Sound
    <3>2. drainer'[e] = drainer[e]  BY <1>2
    <3> QED  BY <1>1, <3>1, <3>2 DEF Copied
  <2> QED  BY <1>2, <2>1
<1>5. Unqueued(m)' /\ Bodies(m)' /\ Alone(m)'
  <2>1. row[m] # NotQueued  BY <1>2, <1>3 DEF Sound, Unqueued
  <2>2. accepted[m] \in Nat  BY Counts
  <2> QED  BY <1>1, <1>2, <1>3, <2>1, <2>2 DEF Sound, Unqueued, Bodies, Alone
<1>6. Bit(Open(m)') \in {0, 1} /\ Bit(OpenWithBody(m)') <= Bit(OpenWithBody(m))
  <2>1. Open(m)' => Open(m)  BY DEF Bit
  <2> QED  BY <1>1, <2>1 DEF Bit, OpenWithBody
<1>7. Hands(m)'  BY <1>1, <1>2, <1>3, <1>6, Counts DEF Sound, Hands
<1>8. Copies(m)'
  <2>1. Live(m)' \ {d} = Live(m) \ {d}
    BY <1>1, <1>2 DEF Live, MayDeliver
  <2>2. (d \in Live(m) <=> MayDeliver(d, m)) /\ (d \in Live(m)' <=> MayDeliver(d, m)')
    BY <1>2 DEF Live
  <2>3. IsFiniteSet(Live(m)')
    <3>1. Live(m)' \subseteq Carriers(m)'  BY DEF Live
    <3> QED  BY <1>3, <3>1, Fewer
  <2>4. /\ Cardinality(Live(m)') = Cardinality(Live(m) \ {d}) + Bit(MayDeliver(d, m)')
        /\ Cardinality(Live(m)) = Cardinality(Live(m) \ {d}) + Bit(MayDeliver(d, m))
        /\ Cardinality(Live(m) \ {d}) \in Nat
    <3>1. Bit(d \in Live(m)) = Bit(MayDeliver(d, m)) /\ Bit(d \in Live(m)') = Bit(MayDeliver(d, m)')
      BY <2>2 DEF Bit
    <3> QED  BY <2>1, <2>3, <3>1, Counts, Split
  <2>5. accepted[m] + Cardinality(Live(m)) + Bit(OpenWithBody(m)) <= 1 + mishaps[m] + overruns[m]
    BY <1>3 DEF Sound, Copies
  <2>6. /\ Bit(MayDeliver(d, m)) \in {0, 1} /\ Bit(MayDeliver(d, m)') \in {0, 1}
        /\ Bit(OpenWithBody(m)') \in {0, 1}
    BY DEF Bit
  <2>7. a + Cardinality(Live(m)') + Bit(OpenWithBody(m)') <= 1 + h + overruns[m]
    BY <1>6, <2>4, <2>5, <2>6, Counts
  <2> QED  BY <1>1, <2>7 DEF Copies
<1>9. Tries(m)'
  <2>1. Early(m)' \subseteq Early(m)
    BY <1>1, <1>2 DEF Early, MayPutBack
  <2>2. Cardinality(Early(m)') <= Cardinality(Early(m)) /\ Cardinality(Early(m)') \in Nat
    BY <2>1, Counts, Fewer
  <2> SUFFICES ASSUME InTable(m), row[m].attempts >= MaxAttempts
               PROVE  row[m].attempts + Cardinality(Early(m)') + Bit(Open(m)')
                        <= MaxAttempts + h + overruns[m]
    BY <1>1 DEF Tries
  <2>3. /\ row[m].attempts + Cardinality(Early(m)) + Bit(Open(m))
             <= MaxAttempts + mishaps[m] + overruns[m]
        /\ row[m].attempts \in Nat
    BY <1>3, FieldsOfRow, Counts DEF Sound, Tries
  <2> QED  BY <1>6, <2>2, <2>3, Counts
<1>10. Sound(m)'  BY <1>3, <1>4, <1>5, <1>7, <1>8, <1>9 DEF Sound
<1>11. drainer[d].pc \in Carrying => drainer[d].item = m  BY DEF Carries
<1> QED  BY <1>3, <1>10, <1>11, OneMoves

\* It is done with the message, whose row is written or was deleted.
LEMMA HandLeaves ==
    ASSUME Inv, NEW d \in Drainers, NEW m \in Messages, Carries(d, m),
           NEW q \in Drainer, q.pc \notin Carrying, NEW h \in Nat, mishaps[m] <= h,
           NEW x \in Row \cup {Deleted}, Move(d, m, q, x, accepted[m], h),
           InTable(m)' => /\ InTable(m) /\ x.attempts = row[m].attempts
                          /\ x.body => row[m].body
                          /\ ~x.body /\ overruns[m] = 0 => x.status = "sent",
           Bodies(m)',
           Bit(OpenWithBody(m)') + mishaps[m]
             <= Bit(OpenWithBody(m)) + Bit(MayDeliver(d, m)) + h,
           InTable(m)' => Bit(Open(m)') + mishaps[m] <= Bit(Open(m)) + Bit(MayPutBack(d, m)) + h
    PROVE  Inv'
<1>1. /\ drainer'[d] = q /\ row'[m] = x /\ accepted'[m] = accepted[m] /\ mishaps'[m] = h
      /\ overruns'[m] = overruns[m]
  BY MoveOf DEF Inv
<1>2. d \in Carriers(m)  BY DEF Carriers
<1>3. /\ Carriers(m)' = Carriers(m) \ {d}
      /\ \A e \in Carriers(m) \ {d} : drainer'[e] = drainer[e]
  <2>1. /\ Carriers(m)' \ {d} = Carriers(m) \ {d} /\ d \notin Carriers(m)'
        /\ \A e \in Carriers(m) \ {d} : drainer'[e] = drainer[e]
    BY Others
  <2> QED  BY <2>1
<1>4. /\ Sound(m) /\ IsFiniteSet(Carriers(m)')
      /\ Cardinality(Carriers(m)') \in Nat
      /\ Cardinality(Carriers(m)') + 1 <= Cardinality(Carriers(m))
  BY <1>2, <1>3, Counts, OneLess
<1>5. \A e \in Carriers(m)' : Copied(e, m)'
  <2> SUFFICES ASSUME NEW e \in Carriers(m) \ {d} PROVE Copied(e, m)'
    BY <1>3
  <2>1. Copied(e, m) /\ drainer'[e] = drainer[e]  BY <1>3, <1>4 DEF Sound
  <2> QED  BY <1>1, <2>1 DEF Copied
<1>6. Unqueued(m)'  BY <1>1, StatusOfRow DEF Unqueued, Deleted, NotQueued
<1>7. Alone(m)'
  <2> SUFFICES ASSUME InTable(m)', overruns[m] = 0
               PROVE  /\ Carriers(m)' = {}
                      /\ ~x.body => x.status = "sent"
    BY <1>1 DEF Alone
  <2>1. Carriers(m) = {d}  BY <1>2, AloneHand
  <2> QED  BY <1>3, <2>1
<1>8. Bit(Open(m)') \in {0, 1} /\ Bit(OpenWithBody(m)') \in {0, 1}
      /\ Bit(MayDeliver(d, m)) \in {0, 1} /\ Bit(MayPutBack(d, m)) \in {0, 1}
  BY DEF Bit
<1>9. Hands(m)'
  <2>1. Cardinality(Carriers(m)) + Bit(Open(m)) <= 1 + overruns[m]
    BY <1>2, <1>4 DEF Sound, Hands
  <2>2. Cardinality(Carriers(m)') + Bit(Open(m)') <= 1 + overruns[m]
    BY <1>4, <1>8, <2>1, Counts
  <2> QED  BY <1>1, <2>2 DEF Hands
<1>10. Copies(m)'
  <2>1. Live(m)' \subseteq Live(m) \ {d}
    BY <1>1, <1>3 DEF Live, MayDeliver
  <2>2. d \in Live(m) <=> MayDeliver(d, m)  BY <1>2 DEF Live
  <2>3. /\ IsFiniteSet(Live(m) \ {d}) /\ Cardinality(Live(m) \ {d}) \in Nat
        /\ Cardinality(Live(m)) = Cardinality(Live(m) \ {d}) + Bit(MayDeliver(d, m))
    <3>1. Bit(d \in Live(m)) = Bit(MayDeliver(d, m))  BY <2>2 DEF Bit
    <3> QED  BY <3>1, Counts, Split
  <2>4. Cardinality(Live(m)') <= Cardinality(Live(m) \ {d}) /\ Cardinality(Live(m)') \in Nat
    BY <2>1, <2>3, Fewer
  <2>5. accepted[m] + Cardinality(Live(m)) + Bit(OpenWithBody(m)) <= 1 + mishaps[m] + overruns[m]
    BY <1>4 DEF Sound, Copies
  <2>6. accepted[m] + Cardinality(Live(m)') + Bit(OpenWithBody(m)') <= 1 + h + overruns[m]
    BY <1>8, <2>3, <2>4, <2>5, Counts
  <2> QED  BY <1>1, <2>6 DEF Copies
<1>11. Tries(m)'
  <2> SUFFICES ASSUME InTable(m)', x.attempts >= MaxAttempts
               PROVE  x.attempts + Cardinality(Early(m)') + Bit(Open(m)')
                        <= MaxAttempts + h + overruns[m]
    BY <1>1 DEF Tries
  <2>1. Early(m)' \subseteq Early(m) \ {d}
    BY <1>1, <1>3 DEF Early, MayPutBack
  <2>2. d \in Early(m) <=> MayPutBack(d, m)  BY <1>2 DEF Early
  <2>3. /\ IsFiniteSet(Early(m) \ {d}) /\ Cardinality(Early(m) \ {d}) \in Nat
        /\ Cardinality(Early(m)) = Cardinality(Early(m) \ {d}) + Bit(MayPutBack(d, m))
    <3>1. Bit(d \in Early(m)) = Bit(MayPutBack(d, m))  BY <2>2 DEF Bit
    <3> QED  BY <3>1, Counts, Split
  <2>4. Cardinality(Early(m)') <= Cardinality(Early(m) \ {d}) /\ Cardinality(Early(m)') \in Nat
    BY <2>1, <2>3, Fewer
  <2>5. /\ row[m].attempts + Cardinality(Early(m)) + Bit(Open(m))
             <= MaxAttempts + mishaps[m] + overruns[m]
        /\ row[m].attempts \in Nat /\ x.attempts = row[m].attempts
    BY <1>4, FieldsOfRow, Counts DEF Sound, Tries
  <2> QED  BY <1>8, <2>3, <2>4, <2>5, Counts
<1>12. Sound(m)'  BY <1>4, <1>5, <1>6, <1>7, <1>9, <1>10, <1>11 DEF Sound
<1>13. (drainer[d].pc \in Carrying => drainer[d].item = m) /\ accepted[m] \in Nat
  BY Counts DEF Carries
<1> QED  BY <1>12, <1>13, OneMoves

LEMMA ClaimStep == ASSUME Inv, NEW d \in Drainers, NEW m \in Messages, Claim(d, m) PROVE Inv'
<1> DEFINE n == row[m].attempts
           x == [row[m] EXCEPT !.status = "sending", !.due = FALSE, !.attempts = n + 1]
           q == [pc |-> "claimed", ids |-> drainer[d].ids \ {m}, item |-> m]
<1>1. /\ drainer[d].pc = "draining" /\ row[m].status = "pending" /\ row[m].due
      /\ drainer' = [drainer EXCEPT ![d] = q] /\ UNCHANGED provider
  BY Zenon DEF Claim, Take
<1>2. row' = [row EXCEPT ![m] = x]  BY DEF Claim, Take
<1>3. InTable(m) /\ row[m] \in Row /\ n \in Nat /\ Sound(m) /\ TypeOK
  BY <1>1, InTableIsRow, FieldsOfRow, Counts
<1>4. /\ x \in Row /\ x.status = "sending" /\ x.attempts = n + 1 /\ x.body = row[m].body
      /\ x.due = FALSE
  <2> HIDE DEF n
  <2>1. n + 1 \in Nat  BY <1>3
  <2>2. row[m] \in Row  BY <1>3
  <2> QED  BY <2>1, <2>2, TakenRow
<1>5. drainer[d] \in Draining
  BY <1>1, <1>3 DEF TypeOK, Idle, Draining, Claimed, Delivering
<1>6. q \in Drainer /\ q.pc = "claimed" /\ q.item = m
  BY <1>5 DEF Drainer, Draining, Claimed
<1> HIDE DEF x, q, n
<1>7. Move(d, m, q, x, accepted[m], mishaps[m])
  BY <1>1, <1>2, <1>3 DEF Move, provider, TypeOK
<1>8. /\ drainer'[d] = q /\ row'[m] = x /\ accepted'[m] = accepted[m]
      /\ mishaps'[m] = mishaps[m] /\ overruns'[m] = overruns[m]
  BY <1>3, <1>7, MoveOf
<1>9. d \notin Carriers(m)  BY <1>1 DEF Carriers, Carries
<1>10. /\ Carriers(m)' = Carriers(m) \cup {d}
       /\ \A e \in Carriers(m) : drainer'[e] = drainer[e]
  <2>1. /\ Carriers(m)' \ {d} = Carriers(m) \ {d} /\ d \in Carriers(m)'
        /\ \A e \in Carriers(m) \ {d} : drainer'[e] = drainer[e]
    BY <1>6, <1>7, Others DEF Carrying
  <2>2. Carriers(m)' \ {d} = (Carriers(m) \cup {d}) \ {d}  BY <2>1
  <2>3. Carriers(m)' = Carriers(m) \cup {d}  BY <2>1, <2>2, SameSet
  <2> QED  BY <1>9, <2>1, <2>3
<1>11. /\ IsFiniteSet(Carriers(m)') /\ Cardinality(Carriers(m)') \in Nat
       /\ Cardinality(Carriers(m)') <= Cardinality(Carriers(m)) + 1
  BY <1>10, Counts, OneMore
<1>12. Open(m) /\ ~Open(m)' /\ ~OpenWithBody(m)'
  <2>1. d \in Holding(m)'  BY <1>6, <1>8, <1>10 DEF Holding, MaySettle
  <2> QED  BY <1>1, <1>4, <1>8, <2>1 DEF Open, OpenWithBody
<1>13. Bit(Open(m)) = 1 /\ Bit(Open(m)') = 0 /\ Bit(OpenWithBody(m)') = 0
  BY <1>12 DEF Bit
<1>14. InTable(m)' /\ row'[m] # NotQueued
  BY <1>4, <1>8, StatusOfRow DEF InTable
<1>15. \A e \in Carriers(m)' : Copied(e, m)'
  <2>1. ASSUME NEW e \in Carriers(m) PROVE Copied(e, m)'
    <3>1. Copied(e, m) /\ drainer'[e] = drainer[e]  BY <1>3, <1>10 DEF Sound
    <3> QED  BY <1>3, <1>4, <1>8, <3>1 DEF Copied
  <2>2. Copied(d, m)'  BY <1>6, <1>8 DEF Copied
  <2> QED  BY <1>10, <2>1, <2>2
<1>16. Unqueued(m)' /\ Bodies(m)' /\ Alone(m)'
  BY <1>1, <1>3, <1>4, <1>8, <1>14 DEF Sound, Unqueued, Bodies, Alone
<1>17. Hands(m)'
  <2> SUFFICES Cardinality(Carriers(m)') <= 1 + overruns[m]
    BY <1>8, <1>11, <1>13 DEF Hands
  <2>1. CASE Carriers(m) = {}
    <3>1. Cardinality(Carriers(m)) = 0  BY <2>1, FS_EmptySet
    <3> QED  BY <1>11, <3>1, Counts
  <2>2. CASE Carriers(m) # {}
    <3>1. Cardinality(Carriers(m)) + 1 <= 1 + overruns[m]
      BY <1>3, <1>13, <2>2 DEF Sound, Hands
    <3> QED  BY <1>11, <3>1, Counts
  <2> QED  BY <2>1, <2>2
<1>18. Copies(m)'
  <2>1. /\ Live(m)' \subseteq Live(m) \cup {d}
        /\ ~row[m].body => Live(m)' \subseteq Live(m)
    <3>1. \A e \in Carriers(m) : MayDeliver(e, m)' => MayDeliver(e, m)
      BY <1>3, <1>4, <1>8, <1>10 DEF MayDeliver
    <3>2. MayDeliver(d, m)' => row[m].body
      BY <1>4, <1>6, <1>8 DEF MayDeliver
    <3> QED  BY <1>10, <3>1, <3>2 DEF Live
  <2>2. /\ Cardinality(Live(m)') \in Nat
        /\ Cardinality(Live(m)') <= Cardinality(Live(m)) + Bit(OpenWithBody(m))
    <3>1. CASE row[m].body
      <4>1. Bit(OpenWithBody(m)) = 1  BY <1>12, <3>1 DEF OpenWithBody, Bit
      <4> QED  BY <2>1, <4>1, Counts, OneMore
    <3>2. CASE ~row[m].body
      <4>1. Bit(OpenWithBody(m)) = 0  BY <3>2 DEF OpenWithBody, Bit
      <4> QED  BY <2>1, <3>2, <4>1, Counts, Fewer
    <3> QED  BY <3>1, <3>2
  <2>3. accepted[m] + Cardinality(Live(m)) + Bit(OpenWithBody(m)) <= 1 + mishaps[m] + overruns[m]
    BY <1>3 DEF Sound, Copies
  <2>4. accepted[m] + Cardinality(Live(m)') + 0 <= 1 + mishaps[m] + overruns[m]
    BY <2>2, <2>3, Counts
  <2> QED  BY <1>8, <1>13, <2>4 DEF Copies
<1>19. Tries(m)'
  <2> SUFFICES ASSUME n + 1 >= MaxAttempts
               PROVE  n + 1 + Cardinality(Early(m)') <= MaxAttempts + mishaps[m] + overruns[m]
    <3>1. Early(m)' \subseteq Carriers(m)'  BY DEF Early
    <3>2. Cardinality(Early(m)') \in Nat  BY <1>11, <3>1, Fewer
    <3> QED  BY <1>3, <1>4, <1>8, <1>13, <3>2, Counts DEF Tries
  <2>1. Early(m)' \subseteq Early(m)
    <3>1. ~MayPutBack(d, m)'
      BY <1>3, <1>4, <1>6, <1>8 DEF MayPutBack
    <3>2. \A e \in Carriers(m) : MayPutBack(e, m)' => MayPutBack(e, m)
      BY <1>3, <1>4, <1>8, <1>10 DEF MayPutBack
    <3> QED  BY <1>10, <3>1, <3>2 DEF Early
  <2>2. Cardinality(Early(m)') <= Cardinality(Early(m)) /\ Cardinality(Early(m)') \in Nat
    BY <2>1, Counts, Fewer
  <2>3. n + Cardinality(Early(m)) + 1 <= MaxAttempts + mishaps[m] + overruns[m]
    <3>1. CASE n >= MaxAttempts  BY <1>3, <1>13, <3>1 DEF Sound, Tries, n
    <3>2. CASE n < MaxAttempts  BY <1>3, <1>13, <3>2, TriesAnyway DEF n
    <3> QED  BY <1>3, <3>1, <3>2
  <2> QED  BY <1>3, <2>2, <2>3, Counts
<1>20. Sound(m)'  BY <1>11, <1>15, <1>16, <1>17, <1>18, <1>19 DEF Sound
<1>21. accepted[m] \in Nat /\ mishaps[m] \in Nat /\ drainer[d].pc \notin Carrying
  BY <1>1, Counts DEF Carrying, Read
<1> QED  BY <1>4, <1>6, <1>7, <1>20, <1>21, OneMoves

LEMMA CrashStep == ASSUME Inv, NEW d \in Drainers, Crash(d) PROVE Inv'
<1>0. drainer[d].pc \in Carrying  BY DEF Crash, Carrying, Read
<1> PICK m \in Messages : m = drainer[d].item  BY <1>0, Hand
<1>1. /\ drainer' = [drainer EXCEPT ![d] = Idle]
      /\ mishaps' = [mishaps EXCEPT ![m] = @ + 1] /\ UNCHANGED <<row, accepted, overruns>>
  BY DEF Crash
<1>2. Carries(d, m) /\ row[m] # NotQueued
  BY <1>0, Hand
<1>3. /\ Sound(m) /\ TypeOK /\ accepted[m] \in Nat /\ mishaps[m] \in Nat
      /\ row[m] \in Row \cup {Deleted}
  BY <1>2, Counts DEF TypeOK
<1>4. Idle \in Drainer /\ Idle.pc \notin Carrying  BY DEF Drainer, Idle, Carrying, Read
<1>5. Move(d, m, Idle, row[m], accepted[m], mishaps[m] + 1)
  BY <1>1, <1>2, <1>3 DEF Move, TypeOK
<1>6. InTable(m)' <=> InTable(m)  BY <1>1 DEF InTable
<1>7. InTable(m)' => /\ InTable(m) /\ row[m].attempts = row[m].attempts
                     /\ row[m].body => row[m].body
                     /\ ~row[m].body /\ overruns[m] = 0 => row[m].status = "sent"
  BY <1>3, <1>6 DEF Sound, Alone
<1>8. Bodies(m)'  BY <1>1, <1>3, <1>6 DEF Sound, Bodies
<1>9. /\ Bit(OpenWithBody(m)') + mishaps[m]
             <= Bit(OpenWithBody(m)) + Bit(MayDeliver(d, m)) + (mishaps[m] + 1)
      /\ Bit(Open(m)') + mishaps[m] <= Bit(Open(m)) + Bit(MayPutBack(d, m)) + (mishaps[m] + 1)
  BY <1>3 DEF Bit
<1> QED  BY <1>2, <1>3, <1>4, <1>5, <1>7, <1>8, <1>9, HandLeaves

\* What a hand keeps of the row.
LEMMA CopyOfRow ==
    ASSUME NEW x \in Row
    PROVE  LET c == [f \in {"status", "attempts", "body"} |-> x[f]] IN
           c \in Copy /\ c.status = x.status /\ c.attempts = x.attempts /\ c.body = x.body
BY DEF Row, Copy

LEMMA LoadStep == ASSUME Inv, NEW d \in Drainers, Load(d) PROVE Inv'
<1>1. drainer[d].pc = "claimed" /\ UNCHANGED <<row, accepted, mishaps, overruns>>
  BY DEF Load, provider
<1> PICK m \in Messages : m = drainer[d].item  BY <1>1, Hand DEF Carrying
<1>2. /\ Carries(d, m) /\ row[m] # NotQueued
      /\ drainer[d] \in Drainer /\ d \in Carriers(m)
      /\ ~InTable(m) => row[m] = Deleted
  BY <1>1, Hand DEF Carrying
<1>3. /\ Sound(m) /\ TypeOK /\ accepted[m] \in Nat /\ mishaps[m] \in Nat
      /\ row[m] \in Row \cup {Deleted}
  BY <1>2, Counts DEF TypeOK
<1>4. CASE InTable(m)
  <2> DEFINE c == [f \in {"status", "attempts", "body"} |-> row[m][f]]
             q == [pc |-> "delivering", ids |-> drainer[d].ids, item |-> m, copy |-> c]
  <2>1. row[m] \in Row  BY <1>2, <1>3, <1>4, InTableIsRow
  <2>2. /\ c \in Copy /\ c.status = row[m].status /\ c.attempts = row[m].attempts
        /\ c.body = row[m].body
    BY <2>1, CopyOfRow
  <2>3. drainer' = [drainer EXCEPT ![d] = q]  BY <1>4 DEF Load
  <2> HIDE DEF c
  <2>4. drainer[d].ids \in SUBSET Messages  BY <1>1, <1>2, Kinds DEF Carrying
  <2>5. q \in Delivering /\ q.pc = "delivering" /\ q.item = m /\ q.copy = c
    BY <1>2, <2>2, <2>4 DEF Delivering
  <2> HIDE DEF q
  <2>6. Move(d, m, q, row[m], accepted[m], mishaps[m])
    BY <1>1, <1>2, <1>3, <2>3 DEF Move, TypeOK
  <2>7. drainer'[d] = q /\ row'[m] = row[m] /\ InTable(m)'
    BY <1>1, <1>2, <1>3, <1>4, <2>6, MoveOf DEF InTable
  <2>8. Open(m)' => Open(m)
    <3>1. CASE row[m].status = "sending"
      <4>1. d \in Carriers(m)'
        BY <1>2, <2>5, <2>6, Others DEF Carrying, Read
      <4>2. d \in Holding(m)'  BY <2>2, <2>5, <2>7, <3>1, <4>1 DEF Holding, MaySettle
      <4> QED  BY <2>7, <3>1, <4>2 DEF Open
    <3>2. CASE row[m].status # "sending"  BY <2>7, <3>2 DEF Open
    <3> QED  BY <3>1, <3>2
  <2>9. MayDeliver(d, m)' <=> MayDeliver(d, m)
    BY <1>1, <1>4, <2>2, <2>5, <2>7 DEF MayDeliver
  <2>10. MayPutBack(d, m)' => MayPutBack(d, m)
    BY <1>1, <1>4, <2>2, <2>5, <2>7 DEF MayPutBack
  <2>11. Copied(d, m)'
    <3>1. Bodies(m)  BY <1>3 DEF Sound
    <3> QED  BY <1>4, <2>2, <2>5, <2>7, <3>1 DEF Copied, Bodies
  <2>12. /\ Bit(Open(m)') <= Bit(Open(m))
         /\ accepted[m] + Bit(MayDeliver(d, m)') + mishaps[m]
              <= accepted[m] + Bit(MayDeliver(d, m)) + mishaps[m]
    BY <1>3, <2>8, <2>9 DEF Bit
  <2>13. q \in Drainer /\ q.pc \in Read  BY <2>5 DEF Drainer, Read
  <2>14. accepted[m] <= accepted[m] /\ mishaps[m] <= mishaps[m]  BY <1>3
  <2> QED  BY <1>2, <1>3, <2>5, <2>6, <2>10, <2>11, <2>12, <2>13, <2>14, HandGoesOn
<1>5. CASE ~InTable(m)
  <2>1. drainer' = [drainer EXCEPT ![d] = Idle] /\ ~InTable(m)'
    BY <1>1, <1>5 DEF Load, InTable
  <2>2. Idle \in Drainer /\ Idle.pc \notin Carrying  BY DEF Drainer, Idle, Carrying, Read
  <2>3. Move(d, m, Idle, row[m], accepted[m], mishaps[m])
    BY <1>1, <1>2, <1>3, <2>1 DEF Move, TypeOK
  <2>4. Bodies(m)'  BY <2>1 DEF Bodies
  <2>5. ~Open(m)'  BY <1>1, <1>2, <1>5 DEF Open, Deleted
  <2>6. Bit(OpenWithBody(m)') + mishaps[m]
          <= Bit(OpenWithBody(m)) + Bit(MayDeliver(d, m)) + mishaps[m]
    BY <1>3, <2>5 DEF Bit, OpenWithBody
  <2>7. mishaps[m] <= mishaps[m] /\ row[m] \in Row \cup {Deleted}  BY <1>3
  <2> QED  BY <1>2, <1>3, <2>1, <2>2, <2>3, <2>4, <2>6, <2>7, HandLeaves
<1> QED  BY <1>4, <1>5

\* deliver returned or raised.
LEMMA Answered ==
    ASSUME NEW x \in Delivering, NEW p \in Read
    PROVE  LET y == [x EXCEPT !.pc = p] IN
           /\ y \in Drainer /\ y \in Delivering
           /\ y.pc = p /\ y.ids = x.ids /\ y.item = x.item /\ y.copy = x.copy
BY DEF Delivering, Drainer, Read

LEMMA AnswerStep ==
    ASSUME Inv, NEW d \in Drainers, NEW m \in Messages,
           drainer[d].pc = "delivering", drainer[d].item = m,
           NEW p \in {"delivered", "refused"}, NEW a \in Nat, NEW h \in Nat,
           Move(d, m, [drainer[d] EXCEPT !.pc = p], row[m], a, h),
           \/ p = "refused" /\ a = accepted[m] /\ h = mishaps[m]
           \/ /\ drainer[d].copy.body /\ a = accepted[m] + 1
              /\ \/ p = "delivered" /\ h = mishaps[m]
                 \/ p = "refused" /\ h = mishaps[m] + 1
    PROVE  Inv'
<1> DEFINE q == [drainer[d] EXCEPT !.pc = p]
<1>1. /\ Carries(d, m) /\ d \in Carriers(m)
      /\ Copied(d, m) /\ drainer[d] \in Drainer
  BY Hand DEF Carrying, Read
<1>2. /\ Sound(m) /\ TypeOK /\ accepted[m] \in Nat /\ mishaps[m] \in Nat
  BY <1>1, Counts
<1>3. drainer[d] \in Delivering /\ p \in Read  BY <1>1, Kinds DEF Read
<1>4. q \in Drainer /\ q.pc = p /\ q.item = m /\ q.copy = drainer[d].copy
  BY <1>3, Answered
<1>5. Move(d, m, q, row[m], a, h)  OBVIOUS
<1> HIDE DEF q
<1>7. drainer'[d] = q /\ row'[m] = row[m] /\ accepted'[m] = a /\ (InTable(m)' <=> InTable(m))
  BY <1>1, <1>2, <1>5, MoveOf DEF InTable
<1>8. Open(m)' <=> Open(m)
  <2>1. /\ d \in Carriers(m)' /\ Holding(m)' \ {d} = Holding(m) \ {d}
    BY <1>3, <1>4, <1>5, <1>1, Others DEF Carrying
  <2>2. d \in Holding(m)' <=> d \in Holding(m)
    BY <1>1, <1>3, <1>4, <1>7, <2>1 DEF Holding, MaySettle, Read
  <2>3. Holding(m)' = {} <=> Holding(m) = {}
    BY <2>1, <2>2
  <2> QED  BY <1>7, <2>3 DEF Open
<1>9. MayPutBack(d, m)' => MayPutBack(d, m)
  BY <1>4, <1>7 DEF MayPutBack
<1>10. Copied(d, m)'
  BY <1>1, <1>2, <1>4, <1>7 DEF Copied
<1>11. a + Bit(MayDeliver(d, m)') + mishaps[m] <= accepted[m] + Bit(MayDeliver(d, m)) + h
  <2>1. MayDeliver(d, m) <=> drainer[d].copy.body  BY DEF MayDeliver
  <2>2. MayDeliver(d, m)' <=> p = "refused" /\ drainer[d].copy.body
    BY <1>4, <1>7 DEF MayDeliver
  <2> QED  BY <1>2, <2>1, <2>2 DEF Bit
<1>12. accepted[m] <= a /\ mishaps[m] <= h  BY <1>2
<1>13. Bit(Open(m)') <= Bit(Open(m))  BY <1>8 DEF Bit
<1> QED  BY <1>1, <1>3, <1>4, <1>5, <1>9, <1>10, <1>11, <1>12, <1>13, HandGoesOn

LEMMA AnswerSteps ==
    ASSUME Inv, NEW d \in Drainers, Deliver(d) \/ Refuse(d) \/ LoseAnswer(d)
    PROVE  Inv'
<1>1. drainer[d].pc = "delivering" /\ UNCHANGED <<row, overruns>>
  BY DEF Deliver, Refuse, LoseAnswer, provider
<1> PICK m \in Messages : m = drainer[d].item  BY <1>1, Hand DEF Carrying, Read
<1>3. TypeOK /\ accepted[m] \in Nat /\ mishaps[m] \in Nat  BY Counts
<1>4. CASE Deliver(d)
  <2>1. /\ drainer' = [drainer EXCEPT ![d] = [drainer[d] EXCEPT !.pc = "delivered"]]
        /\ accepted' = [accepted EXCEPT ![m] = accepted[m] + 1] /\ UNCHANGED mishaps
        /\ drainer[d].copy.body
    BY <1>4 DEF Deliver
  <2>2. Move(d, m, [drainer[d] EXCEPT !.pc = "delivered"], row[m], accepted[m] + 1, mishaps[m])
    BY <1>1, <1>3, <2>1 DEF Move, TypeOK
  <2>3. accepted[m] + 1 \in Nat /\ mishaps[m] + 1 \in Nat  BY <1>3
  <2> QED  BY <1>1, <1>3, <2>1, <2>2, <2>3, AnswerStep
<1>5. CASE Refuse(d)
  <2>1. /\ drainer' = [drainer EXCEPT ![d] = [drainer[d] EXCEPT !.pc = "refused"]]
        /\ UNCHANGED <<accepted, mishaps>>
    BY <1>5 DEF Refuse, provider
  <2>2. Move(d, m, [drainer[d] EXCEPT !.pc = "refused"], row[m], accepted[m], mishaps[m])
    BY <1>1, <1>3, <2>1 DEF Move, TypeOK
  <2> QED  BY <1>1, <1>3, <2>2, AnswerStep
<1>6. CASE LoseAnswer(d)
  <2>1. /\ drainer' = [drainer EXCEPT ![d] = [drainer[d] EXCEPT !.pc = "refused"]]
        /\ accepted' = [accepted EXCEPT ![m] = accepted[m] + 1]
        /\ mishaps' = [mishaps EXCEPT ![m] = mishaps[m] + 1]
        /\ drainer[d].copy.body
    BY <1>6 DEF LoseAnswer
  <2>2. Move(d, m, [drainer[d] EXCEPT !.pc = "refused"], row[m], accepted[m] + 1, mishaps[m] + 1)
    BY <1>1, <1>3, <2>1 DEF Move, TypeOK
  <2>3. accepted[m] + 1 \in Nat /\ mishaps[m] + 1 \in Nat  BY <1>3
  <2> QED  BY <1>1, <1>3, <2>1, <2>2, <2>3, AnswerStep
<1> QED  BY <1>4, <1>5, <1>6

--------------------------------------------------------------------------------
(* Settlements: only what differs from the copy is written.                 *)

LEMMA WrittenSent ==
    ASSUME NEW x \in Row
    PROVE  LET fields == [status |-> "sent", body |-> FALSE]
               y == [f \in DOMAIN x |-> IF f \in {"status", "body"} THEN fields[f] ELSE x[f]]
           IN  y \in Row /\ y.status = "sent" /\ y.attempts = x.attempts /\ y.body = FALSE
BY DEF Row, Statuses

LEMMA NothingWritten ==
    ASSUME NEW F, NEW C
    PROVE  [f \in DOMAIN Deleted |-> IF FALSE /\ f \in C THEN F[f] ELSE Deleted[f]] = Deleted
BY DEF Deleted

\* The drainer goes on with its list, or its drain ends.
LEMMA NextInList ==
    ASSUME NEW ids \in SUBSET Messages
    PROVE  /\ Idle \in Drainer /\ Idle.pc \notin Carrying
           /\ [pc |-> "draining", ids |-> ids] \in Drainer
           /\ [pc |-> "draining", ids |-> ids].pc \notin Carrying
BY DEF Drainer, Idle, Draining, Carrying, Read

\* The row was deleted: nothing is written, and the drain ends.
LEMMA SettleNothing ==
    ASSUME Inv, NEW d \in Drainers, NEW m \in Messages, drainer[d].pc \in Carrying,
           drainer[d].item = m, ~InTable(m), NEW F, Write(d, F)
    PROVE  Inv'
<1>1. Carries(d, m) /\ row[m] = Deleted  BY Hand
<1>2. TypeOK /\ accepted[m] \in Nat /\ mishaps[m] \in Nat  BY Counts
<1>3. drainer' = [drainer EXCEPT ![d] = Idle] /\ UNCHANGED provider
  BY DEF Write
<1>4. row' = [row EXCEPT ![m] = Deleted]
  <2> DEFINE C == {f \in DOMAIN F : f = "due" \/ F[f] # drainer[d].copy[f]}
  <2>1. row' = [row EXCEPT ![m] = [f \in DOMAIN @ |-> IF InTable(m) /\ f \in C THEN F[f] ELSE @[f]]]
    BY DEF Write
  <2> HIDE DEF C
  <2>2. row' = [row EXCEPT ![m] =
                  [f \in DOMAIN Deleted |-> IF FALSE /\ f \in C THEN F[f] ELSE Deleted[f]]]
    BY <1>1, <2>1
  <2> QED  BY <2>2, NothingWritten
<1>5. Idle \in Drainer /\ Idle.pc \notin Carrying  BY NextInList
<1>6. Move(d, m, Idle, Deleted, accepted[m], mishaps[m])
  BY <1>2, <1>3, <1>4 DEF Move, provider, TypeOK
<1>7. row'[m] = Deleted  BY <1>2, <1>4 DEF TypeOK
<1>8. ~InTable(m)' /\ ~Open(m)'  BY <1>7 DEF InTable, Open, Deleted
<1>9. Bodies(m)'  BY <1>8 DEF Bodies
<1>10. Bit(OpenWithBody(m)') + mishaps[m]
         <= Bit(OpenWithBody(m)) + Bit(MayDeliver(d, m)) + mishaps[m]
  BY <1>2, <1>8 DEF Bit, OpenWithBody
<1>11. mishaps[m] <= mishaps[m]  BY <1>2
<1> QED  BY <1>1, <1>2, <1>5, <1>6, <1>8, <1>9, <1>10, <1>11, HandLeaves

LEMMA SettleSentStep == ASSUME Inv, NEW d \in Drainers, SettleSent(d) PROVE Inv'
<1> DEFINE fields == [status |-> "sent", body |-> FALSE]
<1>1. drainer[d].pc = "delivered" /\ drainer[d].pc \in Carrying /\ Write(d, fields)
  BY DEF SettleSent, Carrying, Read
<1> PICK m \in Messages : m = drainer[d].item  BY <1>1, Hand
<1>2. Carries(d, m) /\ Copied(d, m) /\ drainer[d] \in Drainer  BY <1>1, Hand
<1>3. /\ Sound(m) /\ TypeOK /\ accepted[m] \in Nat /\ mishaps[m] \in Nat
  BY Counts
<1>4. CASE ~InTable(m)
  <2> HIDE DEF fields
  <2> QED  BY <1>1, <1>4, SettleNothing
<1>5. CASE InTable(m)
  <2> DEFINE q == [pc |-> "draining", ids |-> drainer[d].ids]
             x == [f \in DOMAIN row[m] |->
                    IF f \in {"status", "body"} THEN fields[f] ELSE row[m][f]]
  <2>1. row[m] \in Row  BY <1>3, <1>5, InTableIsRow
  <2>2. drainer[d].copy.body /\ drainer[d].copy.status # "sent" /\ accepted[m] > 0
    BY <1>1, <1>2 DEF Copied
  <2>3. {f \in DOMAIN fields : f = "due" \/ fields[f] # drainer[d].copy[f]} = {"status", "body"}
    BY <2>2
  <2>4. /\ drainer' = [drainer EXCEPT ![d] = q] /\ UNCHANGED provider
        /\ row' = [row EXCEPT ![m] = [f \in DOMAIN @ |->
             IF InTable(m) /\ f \in {"status", "body"} THEN fields[f] ELSE @[f]]]
    BY <1>1, <1>5, <2>3 DEF Write
  <2>5. row' = [row EXCEPT ![m] = x]  BY <1>5, <2>4
  <2>6. x \in Row /\ x.status = "sent" /\ x.attempts = row[m].attempts /\ x.body = FALSE
    BY <2>1, WrittenSent
  <2>7. q \in Drainer /\ q.pc \notin Carrying
    BY <1>1, <1>2, Kinds, NextInList
  <2> HIDE DEF q, x
  <2>8. Move(d, m, q, x, accepted[m], mishaps[m])
    BY <1>3, <2>4, <2>5 DEF Move, provider, TypeOK
  <2>9. row'[m] = x /\ accepted'[m] = accepted[m]  BY <1>3, <2>8, MoveOf
  <2>10. ~Open(m)' /\ Bodies(m)'
    BY <2>2, <2>6, <2>9 DEF Open, Bodies
  <2>11. /\ Bit(OpenWithBody(m)') + mishaps[m]
              <= Bit(OpenWithBody(m)) + Bit(MayDeliver(d, m)) + mishaps[m]
         /\ Bit(Open(m)') + mishaps[m] <= Bit(Open(m)) + Bit(MayPutBack(d, m)) + mishaps[m]
    BY <1>3, <2>10 DEF Bit, OpenWithBody
  <2>12. mishaps[m] <= mishaps[m]  BY <1>3
  <2> QED  BY <1>2, <1>3, <1>5, <2>6, <2>7, <2>8, <2>10, <2>11, <2>12, HandLeaves
<1> QED  BY <1>4, <1>5

LEMMA SettleRefusedStep == ASSUME Inv, NEW d \in Drainers, SettleRefused(d) PROVE Inv'
<1> DEFINE st == IF drainer[d].copy.attempts >= MaxAttempts THEN "failed" ELSE "pending"
           fields == [status |-> st, due |-> FALSE]
<1>1. drainer[d].pc = "refused" /\ drainer[d].pc \in Carrying /\ Write(d, fields)
  BY DEF SettleRefused, Carrying, Read
<1> PICK m \in Messages : m = drainer[d].item  BY <1>1, Hand
<1>2. Carries(d, m) /\ Copied(d, m) /\ drainer[d] \in Drainer /\ d \in Carriers(m)
  BY <1>1, Hand
<1>3. /\ Sound(m) /\ TypeOK /\ accepted[m] \in Nat /\ mishaps[m] \in Nat
  BY Counts
<1>4. CASE ~InTable(m)
  <2> HIDE DEF fields
  <2> QED  BY <1>1, <1>4, SettleNothing
<1>5. CASE InTable(m)
  <2> DEFINE C == {f \in {"status", "due"} : f = "due" \/ fields[f] # drainer[d].copy[f]}
             q == [pc |-> "draining", ids |-> drainer[d].ids]
             x == [f \in DOMAIN row[m] |-> IF f \in C THEN fields[f] ELSE row[m][f]]
  <2>1. row[m] \in Row /\ drainer[d].copy.attempts \in Nat
    BY <1>1, <1>2, <1>3, <1>5, InTableIsRow, Kinds DEF Read
  <2>2. /\ st \in {"pending", "failed"}
        /\ C \in SUBSET {"status", "due"} /\ "due" \in C
        /\ "status" \in C <=> st # drainer[d].copy.status
    OBVIOUS
  <2>3. /\ drainer' = [drainer EXCEPT ![d] = q] /\ UNCHANGED provider
        /\ row' = [row EXCEPT ![m] = [f \in DOMAIN @ |->
             IF InTable(m) /\ f \in C THEN fields[f] ELSE @[f]]]
    <3>1. DOMAIN fields = {"status", "due"}  OBVIOUS
    <3> QED  BY <1>1, <1>5, <3>1 DEF Write
  <2>4. row' = [row EXCEPT ![m] = x]  BY <1>5, <2>3
  <2>5. /\ x \in Row /\ x.attempts = row[m].attempts /\ x.body = row[m].body /\ x.due = FALSE
        /\ x.status = IF "status" \in C THEN st ELSE row[m].status
    <3>1. row[m] \in Row /\ st \in {"pending", "failed"}  BY <2>1, <2>2
    <3>2. C \in SUBSET {"status", "due"} /\ "due" \in C  BY <2>2
    <3> HIDE DEF C, st
    <3> QED  BY <3>1, <3>2 DEF Row, Statuses
  <2>6. x.status = IF st # drainer[d].copy.status THEN st ELSE row[m].status
    BY <2>2, <2>5
  <2>7. q \in Drainer /\ q.pc \notin Carrying
    BY <1>1, <1>2, Kinds, NextInList
  <2> HIDE DEF C, fields, q, x
  <2>8. Move(d, m, q, x, accepted[m], mishaps[m])
    BY <1>3, <2>3, <2>4 DEF Move, provider, TypeOK
  <2>9. row'[m] = x /\ accepted'[m] = accepted[m]  BY <1>3, <2>8, MoveOf
  <2>10. Bodies(m)'
    BY <1>3, <1>5, <2>2, <2>5, <2>6, <2>9 DEF Sound, Bodies
  <2>11. overruns[m] = 0 => row[m].body  BY <1>2, <1>5, AloneHand
  <2>12. row[m].body => MayDeliver(d, m)
    BY <1>1, <1>2, <1>5 DEF Copied, MayDeliver
  <2>13. Bit(OpenWithBody(m)') + mishaps[m]
           <= Bit(OpenWithBody(m)) + Bit(MayDeliver(d, m)) + mishaps[m]
    <3>1. OpenWithBody(m)' => MayDeliver(d, m)
      BY <2>5, <2>9, <2>12 DEF OpenWithBody
    <3> QED  BY <1>3, <3>1 DEF Bit
  <2>14. Open(m)' => Open(m) \/ MayPutBack(d, m)
    <3>1. CASE drainer[d].copy.attempts < MaxAttempts
      BY <1>1, <3>1 DEF MayPutBack
    <3>2. CASE drainer[d].copy.attempts >= MaxAttempts
      <4>1. st = "failed"  BY <3>2
      <4>2. CASE drainer[d].copy.status # "failed"
        BY <2>6, <2>9, <4>1, <4>2 DEF Open
      <4>3. CASE drainer[d].copy.status = "failed"
        <5>1. x.status = row[m].status  BY <2>6, <4>1, <4>3
        <5>2. d \notin Holding(m)  BY <1>1, <4>3 DEF Holding, MaySettle
        <5>3. Holding(m)' \ {d} = Holding(m) \ {d}  BY <2>8, Others
        <5>4. Holding(m)' = {} => Holding(m) = {}  BY <5>2, <5>3
        <5> QED  BY <2>5, <2>9, <5>1, <5>4 DEF Open
      <4> QED  BY <4>2, <4>3
    <3> QED  BY <2>1, <3>1, <3>2
  <2>15. Bit(Open(m)') + mishaps[m] <= Bit(Open(m)) + Bit(MayPutBack(d, m)) + mishaps[m]
    BY <1>3, <2>14 DEF Bit
  <2>16. mishaps[m] <= mishaps[m]  BY <1>3
  <2>17. /\ x.attempts = row[m].attempts /\ x.body => row[m].body
         /\ ~x.body /\ overruns[m] = 0 => x.status = "sent"
    BY <2>5, <2>11
  <2> QED  BY <1>2, <1>3, <1>5, <2>5, <2>7, <2>8, <2>10, <2>13, <2>15, <2>16, <2>17, HandLeaves
<1> QED  BY <1>4, <1>5

--------------------------------------------------------------------------------
(* The theorems.                                                            *)

LEMMA Initially == ASSUME Init PROVE Inv
<1>1. TypeOK  BY DEF Init, TypeOK
<1>2. ASSUME NEW m \in Messages PROVE Sound(m)
  <2>1. /\ row[m] = NotQueued /\ accepted[m] = 0 /\ mishaps[m] = 0 /\ overruns[m] = 0
        /\ Carriers(m) = {}
    BY DEF Init, Carriers, Carries, Idle
  <2>2. ~InTable(m) /\ ~Open(m)  BY <2>1 DEF InTable, Open, NotQueued
  <2>3. Live(m) = {}  BY <2>1 DEF Live
  <2>4. IsFiniteSet(Carriers(m)) /\ Cardinality(Live(m)) = 0
    BY <2>1, <2>3, FS_EmptySet
  <2>5. Bit(OpenWithBody(m)) = 0  BY <2>2 DEF Bit, OpenWithBody
  <2>6. Copies(m)  BY <2>1, <2>4, <2>5 DEF Copies
  <2> QED  BY <2>1, <2>2, <2>4, <2>6 DEF Sound, Unqueued, Bodies, Alone, Hands, Tries
<1> QED  BY <1>1, <1>2 DEF Inv

LEMMA Steps == ASSUME Inv, [Next]_vars PROVE Inv'
<1>1. CASE UNCHANGED vars
  <2>1. drainer' \in [Drainers -> Drainer] /\ UNCHANGED <<row, provider>>
    BY <1>1 DEF vars, Inv, TypeOK, Drainer
  <2>2. \A m \in Messages : HandsRest(m)  BY <1>1 DEF vars, HandsRest, Carries
  <2> QED  BY <2>1, <2>2, NothingInHand
<1>2. ASSUME NEW m \in Messages, Queue(m) PROVE Inv'  BY <1>2, QueueStep
<1>3. ASSUME NEW m \in Messages, BecomeDue(m) \/ Overrun(m) PROVE Inv'  BY <1>3, TimeStep
<1>4. ASSUME NEW m \in Messages, Age(m) PROVE Inv'  BY <1>4, AgeStep
<1>5. ASSUME NEW d \in Drainers, Drain(d) PROVE Inv'
  <2>1. CASE Start(d)  BY <2>1, StartStep
  <2>2. CASE Finish(d)  BY <2>2, FinishStep
  <2>3. ASSUME NEW m \in Messages, Claim(d, m) PROVE Inv'  BY <2>3, ClaimStep
  <2>4. ASSUME NEW m \in Messages, Skip(d, m) PROVE Inv'  BY <2>4, SkipStep
  <2>5. CASE Load(d)  BY <2>5, LoadStep
  <2>6. CASE Deliver(d) \/ Refuse(d) \/ LoseAnswer(d)  BY <2>6, AnswerSteps
  <2>7. CASE SettleSent(d)  BY <2>7, SettleSentStep
  <2>8. CASE SettleRefused(d)  BY <2>8, SettleRefusedStep
  <2> QED  BY <1>5, <2>1, <2>2, <2>3, <2>4, <2>5, <2>6, <2>7, <2>8 DEF Drain
<1>6. ASSUME NEW d \in Drainers, Crash(d) PROVE Inv'  BY <1>6, CrashStep
<1> QED  BY <1>1, <1>2, <1>3, <1>4, <1>5, <1>6 DEF Next

LEMMA InvariantHolds == Spec => []Inv
BY Initially, Steps, PTL DEF Spec

\* The table, the drainers and the counts are of their types.
THEOREM OutboxTypeCorrect == Spec => []TypeOK
<1>1. Inv => TypeOK  BY DEF Inv
<1> QED  BY <1>1, InvariantHolds, PTL

\* Every drain that has a message in hand beside another one came by it through a lease
\* that ended during a delivery: the conditional claim gives it to one drain per lease.
THEOREM CarriedByOne == Spec => []OneCarrier
BY Promised, InvariantHolds, PTL

\* The provider accepts a message once, and once more for each answer that was lost, each
\* process that stopped while it sent it, and each lease that a delivery outlasted.
THEOREM AcceptedOnce == Spec => []DeliveredOnce
BY Promised, InvariantHolds, PTL

\* A body is erased only when its message was accepted, and always when it is recorded as
\* sent; an empty message is retried only where a lease ended during a delivery.
THEOREM BodiesKept == Spec => []BodyKeptUntilSent
BY Promised, InvariantHolds, PTL

\* A message is attempted MaxAttempts times, and once more for each crash, each lost
\* answer and each lease that a delivery outlasted.
THEOREM AttemptsWithinLimit == Spec => []AttemptsBounded
BY Promised, InvariantHolds, PTL

================================================================================
