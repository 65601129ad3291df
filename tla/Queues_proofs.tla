--------------------------- MODULE Queues_proofs ---------------------------
(* What holds of the two outgoing queues, the merchant's webhooks and the    *)
(* customer's mail, for every number of rows and overlapping ticks.          *)
EXTENDS Deliveries, Notifications, FiniteSetTheorems, TLAPS

-----------------------------------------------------------------------------
(* Webhooks: the inductive invariant *)

RowStatus == {"none", "pending", "delivered", "failed", "exhausted"}
RowState == [status : RowStatus, attempts : 0..MAX_DELIVERY_ATTEMPTS, due : BOOLEAN]
CallerState == [pc : {"idle", "insert", "done"}, todo : SUBSET Hooks]
TickState ==
  [pc : {"idle", "next", "hook", "send", "write"}, todo : SUBSET Messages, m : Messages \cup {NoMessage},
   seen : RowState, outcome : Outcomes \cup {"none", "disabled"}]

\* A row that is no row is NoRow; one that waits has attempts left and only
\* such a one is due.
RowOK(r) ==
  /\ r \in RowState
  /\ r.status = "none" => r = NoRow
  /\ r.status = "pending" => r.attempts < MAX_DELIVERY_ATTEMPTS
  /\ r.due => r.status = "pending"
RowsOK == DOMAIN row = Messages /\ row = [m \in Messages |-> row[m]] /\ \A m \in Messages : RowOK(row[m])

CallersOK ==
  /\ call \in CallMixes /\ active \subseteq Hooks
  /\ caller \in [Calls -> CallerState]
  /\ \A c \in Calls : caller[c].pc = "insert" => c \in DOMAIN call

\* A tick at work holds a message that is in the queue, as it was when it still
\* waited; it will only call it delivered if the endpoint has accepted it.
Taken(rows, m) == m \in Messages /\ rows[m].status # "none"
Working == {"hook", "send", "write"}
TickOK(r, rows, accepts) ==
  /\ r \in TickState
  /\ r.pc \in Working => Taken(rows, r.m) /\ RowOK(r.seen) /\ r.seen.status = "pending"
  /\ r.pc = "write" => r.outcome \in Outcomes \cup {"disabled"}
  /\ r.pc = "write" /\ r.outcome = "2xx" => r.m \in accepts
TicksOK == DOMAIN tick = Ticks /\ tick = [t \in Ticks |-> tick[t]] /\ \A t \in Ticks : TickOK(tick[t], row, heard)

HandsOK ==
  /\ hand \in [Merchants -> Messages \cup {NoMessage}]
  /\ \A x \in Merchants : hand[x] # NoMessage => Taken(row, hand[x])

DeliveredHeard == heard \subseteq Messages /\ \A m \in Messages : row[m].status = "delivered" => m \in heard

\* Unless a drain held it while it was retried, a row counts no more attempts
\* than there were, nor does a tick that is about to write.
CountOK(r, m, n) ==
  r.m = m =>
    /\ r.pc \in {"hook", "send"} => r.seen.attempts <= n
    /\ r.pc = "write" /\ r.outcome # "disabled" => r.seen.attempts + 1 <= n
TriesOK ==
  /\ tries \in [Messages -> Nat]
  /\ \A m \in Messages \ overlap :
       /\ row[m].attempts <= tries[m]
       /\ row[m].status = "exhausted" => tries[m] >= MAX_DELIVERY_ATTEMPTS
       /\ \A t \in Ticks : CountOK(tick[t], m, tries[m])

Queued == RowsOK /\ CallersOK /\ TicksOK /\ HandsOK /\ DeliveredHeard
DeliveriesInv == Queued /\ TriesOK

LEMMA NoRowOK == RowOK(NoRow)
  BY DeliveriesAssumption DEF RowOK, NoRow, RowState, RowStatus

LEMMA PendingOK == RowOK(Pending) /\ Pending.status = "pending" /\ Pending.attempts = 0 /\ Pending # NoRow
  BY DeliveriesAssumption DEF RowOK, Pending, NoRow, RowState, RowStatus

LEMMA TickIdleOK == \A rows, accepts : TickOK(TickIdle, rows, accepts) /\ TickIdle.pc = "idle"
PROOF
  <1>1. NoRow \in RowState
    BY NoRowOK DEF RowOK
  <1>2. TickIdle \in TickState
    BY <1>1 DEF TickIdle, TickState
  <1> QED BY <1>2 DEF TickOK, TickIdle, Working

LEMMA DeliveriesInitInv == DeliveriesInit => DeliveriesInv
PROOF
  <1> SUFFICES ASSUME DeliveriesInit PROVE DeliveriesInv
    OBVIOUS
  <1> USE DEF DeliveriesInit
  <1>1. RowsOK
    BY NoRowOK DEF RowsOK
  <1>2. CallersOK
    BY DEF CallersOK, CallerState
  <1>3. TicksOK
    BY TickIdleOK DEF TicksOK
  <1>4. HandsOK
    BY DEF HandsOK
  <1>5. \A m \in Messages : row[m].status = "none" /\ row[m].attempts = 0
    BY DEF NoRow
  <1>6. DeliveredHeard
    BY <1>5 DEF DeliveredHeard
  <1>7. TriesOK
    <2>1. \A m \in Messages, t \in Ticks : CountOK(tick[t], m, tries[m])
      BY TickIdleOK DEF CountOK
    <2> QED BY <1>5, <2>1 DEF TriesOK
  <1> QED BY <1>1, <1>2, <1>3, <1>4, <1>6, <1>7 DEF DeliveriesInv, Queued

-----------------------------------------------------------------------------
(* What a change of one row or one tick leaves in order *)

LEMMA RowChanges ==
  ASSUME Queued, NEW m \in Messages, NEW r, RowOK(r), r.status # "none",
         row' = [row EXCEPT ![m] = r]
  PROVE  RowsOK' /\ \A n \in Messages : Taken(row, n) => Taken(row', n)
PROOF
  <1>1. \A n \in Messages : row'[n] = IF n = m THEN r ELSE row[n]
    BY DEF Queued, RowsOK
  <1>2. RowsOK'
    BY <1>1 DEF Queued, RowsOK
  <1> QED BY <1>1, <1>2 DEF Taken

LEMMA TickMoves ==
  ASSUME Queued, NEW t \in Ticks, NEW r, TickOK(r, row', heard'), tick' = [tick EXCEPT ![t] = r],
         \A n \in Messages : Taken(row, n) => Taken(row', n), heard \subseteq heard'
  PROVE  TicksOK'
PROOF
  <1>1. \A u \in Ticks : tick'[u] = IF u = t THEN r ELSE tick[u]
    BY DEF Queued, TicksOK
  <1>2. ASSUME NEW u \in Ticks, u # t PROVE TickOK(tick'[u], row', heard')
    <2>1. tick'[u] = tick[u] /\ TickOK(tick[u], row, heard)
      BY <1>1, <1>2 DEF Queued, TicksOK
    <2> QED BY <2>1 DEF TickOK, Taken
  <1> QED BY <1>1, <1>2 DEF Queued, TicksOK

LEMMA TicksStay ==
  ASSUME Queued, tick' = tick, \A n \in Messages : Taken(row, n) => Taken(row', n), heard \subseteq heard'
  PROVE  TicksOK'
  BY DEF Queued, TicksOK, TickOK, Taken

LEMMA HandsStay ==
  ASSUME Queued, hand' = hand, \A n \in Messages : Taken(row, n) => Taken(row', n)
  PROVE  HandsOK'
  BY DEF Queued, HandsOK, Taken

\* A step that leaves the rows and the ticks alone.
LEMMA QueueAside ==
  ASSUME DeliveriesInv, CallersOK', UNCHANGED <<row, tick, hand, history>>
  PROVE  DeliveriesInv'
PROOF
  <1>1. RowsOK' /\ TicksOK' /\ HandsOK' /\ DeliveredHeard'
    BY TicksStay, HandsStay DEF DeliveriesInv, Queued, RowsOK, DeliveredHeard, history
  <1>2. TriesOK'
    BY DEF DeliveriesInv, TriesOK, history
  <1> QED BY <1>1, <1>2 DEF DeliveriesInv, Queued

\* A step of one tick that leaves the rows and the endpoint alone.
LEMMA TickAlone ==
  ASSUME DeliveriesInv, NEW t \in Ticks, NEW r, TickOK(r, row, heard), tick' = [tick EXCEPT ![t] = r],
         \A m \in Messages \ overlap : CountOK(r, m, tries[m]),
         UNCHANGED <<call, active, row, caller, hand, history>>
  PROVE  DeliveriesInv'
PROOF
  <1>1. TicksOK'
    BY TickMoves DEF DeliveriesInv, history
  <1>2. RowsOK' /\ HandsOK' /\ DeliveredHeard' /\ CallersOK'
    BY DEF DeliveriesInv, Queued, RowsOK, HandsOK, DeliveredHeard, CallersOK, history
  <1>3. TriesOK'
    <2>1. \A u \in Ticks : tick'[u] = IF u = t THEN r ELSE tick[u]
      BY DEF DeliveriesInv, Queued, TicksOK
    <2>2. \A m \in Messages \ overlap, u \in Ticks : CountOK(tick'[u], m, tries[m])
      BY <2>1 DEF DeliveriesInv, TriesOK
    <2> QED BY <2>2 DEF DeliveriesInv, TriesOK, history
  <1> QED BY <1>1, <1>2, <1>3 DEF DeliveriesInv, Queued

\* A new row, or a test event's row written over: it waits and counts nothing.
LEMMA RowQueued ==
  ASSUME DeliveriesInv, NEW m \in Messages, row' = [row EXCEPT ![m] = Pending], CallersOK',
         UNCHANGED <<tick, hand, history>>
  PROVE  DeliveriesInv'
PROOF
  <1>1. RowsOK' /\ \A n \in Messages : Taken(row, n) => Taken(row', n)
    BY RowChanges, PendingOK DEF DeliveriesInv
  <1>2. \A n \in Messages : row'[n] = IF n = m THEN Pending ELSE row[n]
    BY DEF DeliveriesInv, Queued, RowsOK
  <1>3. TicksOK' /\ HandsOK'
    BY <1>1, TicksStay, HandsStay DEF DeliveriesInv, history
  <1>4. DeliveredHeard'
    BY <1>2, PendingOK DEF DeliveriesInv, Queued, DeliveredHeard, history
  <1>5. TriesOK'
    BY <1>2, PendingOK DEF DeliveriesInv, TriesOK, history
  <1> QED BY <1>1, <1>3, <1>4, <1>5 DEF DeliveriesInv, Queued

LEMMA MessageOfCall ==
  ASSUME CallersOK, NEW c \in DOMAIN call, NEW h \in Hooks
  PROVE  <<h, call[c]>> \in Messages
PROOF
  <1>1. call[c] \in {call[d] : d \in DOMAIN call}
    OBVIOUS
  <1>2. call[c] \in UNION {{mix[d] : d \in DOMAIN mix} : mix \in CallMixes}
    BY <1>1 DEF CallersOK
  <1> QED BY <1>2 DEF Messages

-----------------------------------------------------------------------------
(* One lemma per group of actions *)

LEMMA CallerSteps ==
  ASSUME DeliveriesInv, NEW c \in Calls,
         CallerStep(c) \/ EnqueueFails(c) \/ \E h \in Hooks : SendTest(c, h)
  PROVE  DeliveriesInv'
PROOF
  <1> USE DEF DeliveriesInv, Queued
  <1>1. ASSUME ReadHooks(c) PROVE DeliveriesInv'
    <2>1. CallersOK'
      BY <1>1 DEF ReadHooks, CallersOK, CallerState
    <2> QED BY <1>1, <2>1, QueueAside DEF ReadHooks
  <1>2. ASSUME Enqueued(c) \/ EnqueueFails(c) PROVE DeliveriesInv'
    <2>1. CallersOK'
      BY <1>2 DEF Enqueued, EnqueueFails, CallersOK, CallerState
    <2> QED BY <1>2, <2>1, QueueAside DEF Enqueued, EnqueueFails
  <1>3. ASSUME NEW h \in Hooks, InsertRow(c, h) PROVE DeliveriesInv'
    <2> DEFINE m == <<h, call[c]>>
    <2>1. CallersOK'
      BY <1>3 DEF InsertRow, CallersOK, CallerState
    <2>2. PICK n \in Messages : n = m
      BY <1>3, MessageOfCall DEF InsertRow, CallersOK
    <2>3. CASE row[n] = NoRow
      <3>1. row' = [row EXCEPT ![n] = Pending]
        BY <1>3, <2>2, <2>3 DEF InsertRow, Inserted
      <3> QED BY <1>3, <2>1, <3>1, RowQueued DEF InsertRow
    <2>4. CASE row[n] # NoRow
      <3>1. row' = row
        BY <1>3, <2>2, <2>4 DEF InsertRow, Inserted, RowsOK
      <3> QED BY <1>3, <2>1, <3>1, QueueAside DEF InsertRow
    <2> QED BY <2>3, <2>4
  <1>4. ASSUME NEW h \in Hooks, SendTest(c, h) PROVE DeliveriesInv'
    <2>1. CallersOK'
      BY <1>4 DEF SendTest, CallersOK, CallerState
    <2>2. PICK n \in Messages : n = <<h, call[c]>>
      BY <1>4, MessageOfCall DEF SendTest
    <2> QED BY <1>4, <2>1, <2>2, RowQueued DEF SendTest
  <1> QED BY <1>1, <1>2, <1>3, <1>4 DEF CallerStep

LEMMA DrainSteps ==
  ASSUME DeliveriesInv, NEW t \in Ticks,
         \/ ReadDue(t) \/ EndDrain(t) \/ ReadHook(t) \/ TickDies(t)
         \/ \E m \in Messages : ReadRow(t, m)
  PROVE  DeliveriesInv'
PROOF
  <1>1. tick[t] \in TickState /\ TickOK(tick[t], row, heard)
    BY DEF DeliveriesInv, Queued, TicksOK, TickOK
  <1>2. CASE ReadDue(t)
    <2> DEFINE r == [tick[t] EXCEPT !.pc = "next", !.todo = DueRows]
    <2>1. r.pc = "next" /\ r \in TickState
      BY <1>1 DEF TickState, DueRows
    <2>2. tick' = [tick EXCEPT ![t] = r]
      BY <1>2 DEF ReadDue
    <2> HIDE DEF r
    <2>3. TickOK(r, row, heard) /\ \A m \in Messages : CountOK(r, m, tries[m])
      BY <2>1 DEF TickOK, CountOK, Working
    <2> QED BY <1>2, <2>2, <2>3, TickAlone DEF ReadDue
  <1>3. CASE EndDrain(t) \/ TickDies(t)
    <2>1. \A m \in Messages : CountOK(TickIdle, m, tries[m])
      BY TickIdleOK DEF CountOK
    <2> QED BY <1>3, <2>1, TickIdleOK, TickAlone DEF EndDrain, TickDies
  <1>4. CASE ReadHook(t)
    <2> DEFINE live == tick[t].m[1] \in active
               pc == IF live THEN "send" ELSE "write"
               outcome == IF live THEN "none" ELSE "disabled"
               r == [tick[t] EXCEPT !.pc = pc, !.outcome = outcome]
    <2>1. tick[t].pc = "hook" /\ tick' = [tick EXCEPT ![t] = r]
      BY <1>4 DEF ReadHook
    <2>2. pc = "send" \/ (pc = "write" /\ outcome = "disabled")
      OBVIOUS
    <2>3. outcome \in Outcomes \cup {"none", "disabled"}
      BY DEF Outcomes
    <2> HIDE DEF pc, outcome
    <2>4. /\ r.pc = pc /\ r.outcome = outcome /\ r.m = tick[t].m /\ r.seen = tick[t].seen
          /\ r \in TickState
      BY <1>1, <2>2, <2>3 DEF TickState
    <2> HIDE DEF r
    <2>5. TickOK(r, row, heard)
      BY <1>1, <2>1, <2>2, <2>4 DEF TickOK, Working
    <2>6. \A m \in Messages \ overlap : CountOK(r, m, tries[m])
      BY <2>1, <2>2, <2>4 DEF DeliveriesInv, TriesOK, CountOK
    <2> QED BY <1>4, <2>1, <2>5, <2>6, TickAlone DEF ReadHook
  <1>5. ASSUME NEW m \in Messages, ReadRow(t, m) PROVE DeliveriesInv'
    <2>1. CASE row[m].status = "pending"
      <3> DEFINE r == [tick[t] EXCEPT !.pc = "hook", !.todo = @ \ {m}, !.m = m, !.seen = row[m]]
      <3>1. tick' = [tick EXCEPT ![t] = r]
        BY <1>5, <2>1 DEF ReadRow
      <3>2. RowOK(row[m]) /\ row[m] \in RowState
        BY DEF DeliveriesInv, Queued, RowsOK, RowOK
      <3>3. r.pc = "hook" /\ r.m = m /\ r.seen = row[m] /\ r \in TickState
        BY <1>1, <3>2 DEF TickState
      <3> HIDE DEF r
      <3>4. TickOK(r, row, heard)
        BY <2>1, <3>2, <3>3 DEF TickOK, Taken
      <3>5. \A n \in Messages \ overlap : CountOK(r, n, tries[n])
        BY <3>3 DEF DeliveriesInv, TriesOK, CountOK
      <3> QED BY <1>5, <3>1, <3>4, <3>5, TickAlone DEF ReadRow
    <2>2. CASE row[m].status # "pending"
      <3> DEFINE r == [tick[t] EXCEPT !.todo = @ \ {m}]
      <3>1. tick' = [tick EXCEPT ![t] = r]
        BY <1>5, <2>2 DEF ReadRow
      <3>2. r.pc = "next" /\ r \in TickState
        BY <1>1, <1>5 DEF TickState, ReadRow
      <3> HIDE DEF r
      <3>3. TickOK(r, row, heard) /\ \A n \in Messages : CountOK(r, n, tries[n])
        BY <3>2 DEF TickOK, CountOK, Working
      <3> QED BY <1>5, <3>1, <3>3, TickAlone DEF ReadRow
    <2> QED BY <2>1, <2>2
  <1> QED BY <1>2, <1>3, <1>4, <1>5

LEMMA SendStep ==
  ASSUME DeliveriesInv, NEW t \in Ticks, NEW o \in Outcomes, Send(t, o)
  PROVE  DeliveriesInv'
PROOF
  <1> DEFINE r == [tick[t] EXCEPT !.pc = "write", !.outcome = o]
  <1>1. PICK m : m = tick[t].m
    OBVIOUS
  <1>2. tick[t] \in TickState /\ TickOK(tick[t], row, heard) /\ tick[t].pc = "send"
    BY DEF DeliveriesInv, Queued, TicksOK, TickOK, Send
  <1>3. Taken(row, m) /\ RowOK(tick[t].seen) /\ tick[t].seen.status = "pending"
    BY <1>1, <1>2 DEF TickOK, Working
  <1>4. /\ tick' = [tick EXCEPT ![t] = r]
        /\ heard' = IF o \in {"2xx", "timeout"} THEN heard \cup {m} ELSE heard
        /\ tries' = [tries EXCEPT ![m] = @ + 1]
        /\ UNCHANGED <<call, active, row, caller, hand, overlap>>
    BY <1>1 DEF Send
  <1>5. r.pc = "write" /\ r.outcome = o /\ r.m = m /\ r.seen = tick[t].seen /\ r \in TickState
    BY <1>1, <1>2 DEF TickState
  <1> HIDE DEF r
  <1>6. TicksOK'
    <2>1. TickOK(r, row', heard')
      BY <1>3, <1>4, <1>5 DEF TickOK
    <2> QED BY <1>4, <2>1, TickMoves DEF DeliveriesInv
  <1>7. RowsOK' /\ HandsOK' /\ CallersOK' /\ DeliveredHeard'
    BY <1>3, <1>4 DEF DeliveriesInv, Queued, RowsOK, HandsOK, CallersOK, DeliveredHeard, Taken
  <1>8. TriesOK'
    <2>1. tries \in [Messages -> Nat]
      BY DEF DeliveriesInv, TriesOK
    <2>2. \A n \in Messages : tries'[n] = IF n = m THEN tries[n] + 1 ELSE tries[n]
      BY <1>4, <2>1
    <2>3. \A n \in Messages \ overlap :
            row[n].attempts \in Nat /\ row[n].attempts <= tries'[n]
            /\ (row[n].status = "exhausted" => tries'[n] >= MAX_DELIVERY_ATTEMPTS)
      <3>1. \A n \in Messages : row[n].attempts \in Nat
        BY DeliveriesAssumption DEF DeliveriesInv, Queued, RowsOK, RowOK, RowState
      <3> QED BY <2>1, <2>2, <3>1, DeliveriesAssumption DEF DeliveriesInv, TriesOK
    <2>4. ASSUME NEW n \in Messages \ overlap, NEW u \in Ticks PROVE CountOK(tick'[u], n, tries'[n])
      <3>1. CountOK(tick[u], n, tries[n]) /\ CountOK(tick[t], n, tries[n])
        BY DEF DeliveriesInv, TriesOK
      <3>2. tick'[u] = IF u = t THEN r ELSE tick[u]
        BY <1>4 DEF DeliveriesInv, Queued, TicksOK
      <3>3. tries[n] \in Nat /\ tries'[n] \in {tries[n], tries[n] + 1}
        BY <2>1, <2>2
      <3>4. TickOK(tick[u], row, heard)
        BY DEF DeliveriesInv, Queued, TicksOK
      <3>5. tick[u].pc \in Working => tick[u].seen.attempts \in Nat
        BY <3>4, DeliveriesAssumption DEF TickOK, RowOK, RowState
      <3>6. CASE u # t
        BY <3>1, <3>2, <3>3, <3>5, <3>6 DEF CountOK, Working
      <3>7. CASE u = t
        <4>1. tick[t].seen.attempts \in Nat
          BY <1>2, <3>5, <3>7 DEF Working
        <4>2. n = m => tick[t].seen.attempts <= tries[n] /\ tries'[n] = tries[n] + 1
          BY <1>1, <1>2, <2>2, <3>1 DEF CountOK
        <4> QED BY <1>5, <3>2, <3>3, <3>7, <4>1, <4>2 DEF CountOK
      <3> QED BY <3>6, <3>7
    <2>5. tries' \in [Messages -> Nat]
      BY <1>3, <1>4, <2>1 DEF Taken
    <2> QED BY <1>4, <2>3, <2>4, <2>5 DEF TriesOK
  <1> QED BY <1>6, <1>7, <1>8 DEF DeliveriesInv, Queued

\* What an outcome makes of a row that was read while it waited.
LEMMA AfterRow ==
  ASSUME NEW seen, RowOK(seen), seen.status = "pending", NEW o \in Outcomes \cup {"disabled"},
         NEW after, after = After(seen, o)
  PROVE  /\ after \in RowState /\ after.due = FALSE /\ after.status # "none"
         /\ o # "disabled" => after.attempts = seen.attempts + 1
         /\ o = "disabled" => after.status = "failed"
         /\ after.status = "pending" => after.attempts < MAX_DELIVERY_ATTEMPTS
         /\ after.status = "delivered" => o = "2xx"
         /\ after.status = "exhausted" => after.attempts >= MAX_DELIVERY_ATTEMPTS
PROOF
  <1> DEFINE n == seen.attempts + 1
  <1>1. seen \in RowState /\ seen.attempts \in Nat /\ seen.attempts < MAX_DELIVERY_ATTEMPTS
    BY DeliveriesAssumption DEF RowOK, RowState
  <1>2. n \in 0..MAX_DELIVERY_ATTEMPTS /\ n \in Nat
    BY <1>1, DeliveriesAssumption
  <1>3. CASE o = "disabled"
    <2>1. after = [seen EXCEPT !.status = "failed", !.due = FALSE]
      BY <1>3 DEF After
    <2> QED BY <1>1, <1>3, <2>1 DEF RowState, RowStatus
  <1>4. CASE o = "2xx"
    <2>1. after = [status |-> "delivered", attempts |-> n, due |-> FALSE]
      BY <1>4 DEF After
    <2> HIDE DEF n
    <2>2. n \in 0..MAX_DELIVERY_ATTEMPTS
      BY <1>2 DEF n
    <2>3. after \in RowState /\ after.status = "delivered" /\ after.attempts = n /\ after.due = FALSE
      BY <2>1, <2>2 DEF RowState, RowStatus
    <2> QED BY <1>4, <2>3 DEF n
  <1>5. CASE o = "4xx"
    <2>1. after = [status |-> "failed", attempts |-> n, due |-> FALSE]
      BY <1>5 DEF After
    <2> HIDE DEF n
    <2>2. n \in 0..MAX_DELIVERY_ATTEMPTS
      BY <1>2 DEF n
    <2>3. after \in RowState /\ after.status = "failed" /\ after.attempts = n /\ after.due = FALSE
      BY <2>1, <2>2 DEF RowState, RowStatus
    <2> QED BY <1>5, <2>3 DEF n
  <1>6. CASE o \notin {"disabled", "2xx", "4xx"} /\ n >= MAX_DELIVERY_ATTEMPTS
    <2>1. after = [status |-> "exhausted", attempts |-> n, due |-> FALSE]
      BY <1>6 DEF Outcomes, After, hasExhaustedRetries
    <2> HIDE DEF n
    <2>2. n \in 0..MAX_DELIVERY_ATTEMPTS
      BY <1>2 DEF n
    <2>3. after \in RowState /\ after.status = "exhausted" /\ after.attempts = n /\ after.due = FALSE
      BY <2>1, <2>2 DEF RowState, RowStatus
    <2> QED BY <1>6, <2>3 DEF n
  <1>7. CASE o \notin {"disabled", "2xx", "4xx"} /\ ~(n >= MAX_DELIVERY_ATTEMPTS)
    <2>1. after = [seen EXCEPT !.attempts = n, !.due = FALSE]
      BY <1>7 DEF After, hasExhaustedRetries
    <2>2. n < MAX_DELIVERY_ATTEMPTS
      BY <1>2, <1>7, DeliveriesAssumption
    <2> QED BY <1>1, <1>2, <1>7, <2>1, <2>2 DEF RowState, RowStatus
  <1> QED BY <1>3, <1>4, <1>5, <1>6, <1>7

\* What a tick writes over a row, whatever the row has become meanwhile.
LEMMA WrittenRow ==
  ASSUME DeliveriesInv, NEW t \in Ticks, Write(t)
  PROVE  \E m \in Messages : \E r :
           /\ m = tick[t].m /\ Taken(row, m) /\ row' = [row EXCEPT ![m] = r]
           /\ RowOK(r) /\ r.status # "none"
           /\ r.status = "delivered" => m \in heard
           /\ m \notin overlap =>
                r.attempts <= tries[m] /\ (r.status = "exhausted" => tries[m] >= MAX_DELIVERY_ATTEMPTS)
PROOF
  <1> DEFINE m == tick[t].m
             seen == tick[t].seen
             o == tick[t].outcome
             after == After(seen, o)
             r == IF after.status = "pending" THEN [after EXCEPT !.status = row[m].status]
                  ELSE IF o = "disabled" THEN [after EXCEPT !.attempts = row[m].attempts] ELSE after
  <1>1. tick[t].pc = "write" /\ row' = [row EXCEPT ![m] = r]
    BY DEF Write
  <1>2. /\ Taken(row, m) /\ RowOK(seen) /\ seen.status = "pending"
        /\ o \in Outcomes \cup {"disabled"} /\ (o = "2xx" => m \in heard)
    BY <1>1 DEF DeliveriesInv, Queued, TicksOK, TickOK, Working
  <1>3. /\ after \in RowState /\ after.due = FALSE /\ after.status # "none"
        /\ o # "disabled" => after.attempts = seen.attempts + 1
        /\ o = "disabled" => after.status = "failed"
        /\ after.status = "pending" => after.attempts < MAX_DELIVERY_ATTEMPTS
        /\ after.status = "delivered" => o = "2xx"
        /\ after.status = "exhausted" => after.attempts >= MAX_DELIVERY_ATTEMPTS
    BY <1>2, AfterRow
  <1>4. m \in Messages /\ RowOK(row[m]) /\ row[m] \in RowState /\ row[m].status # "none"
    BY <1>2 DEF Taken, DeliveriesInv, Queued, RowsOK, RowOK
  <1>5. m \notin overlap =>
          /\ row[m].attempts <= tries[m] /\ (row[m].status = "exhausted" => tries[m] >= MAX_DELIVERY_ATTEMPTS)
          /\ o # "disabled" => seen.attempts + 1 <= tries[m]
    BY <1>1, <1>4 DEF DeliveriesInv, TriesOK, CountOK
  <1>6. tries[m] \in Nat
    BY <1>4 DEF DeliveriesInv, TriesOK
  <1>7. row[m].status = "delivered" => m \in heard
    BY <1>4 DEF DeliveriesInv, Queued, DeliveredHeard
  <1> HIDE DEF m, seen, o, after
  <1>8. CASE after.status = "pending"
    <2>1. /\ r.status = row[m].status /\ r.attempts = after.attempts /\ r.due = FALSE /\ r \in RowState
      BY <1>3, <1>4, <1>8 DEF RowState
    <2>2. o # "disabled" /\ r.attempts = seen.attempts + 1 /\ r.attempts < MAX_DELIVERY_ATTEMPTS
      BY <1>3, <1>8, <2>1
    <2> HIDE DEF r
    <2>3. RowOK(r)
      BY <1>4, <2>1, <2>2 DEF RowOK
    <2> QED BY <1>1, <1>2, <1>4, <1>5, <1>7, <2>1, <2>2, <2>3 DEF m
  <1>9. CASE after.status # "pending" /\ o = "disabled"
    <2>1. r.status = "failed" /\ r.attempts = row[m].attempts /\ r.due = FALSE /\ r \in RowState
      BY <1>3, <1>4, <1>9 DEF RowState
    <2> HIDE DEF r
    <2>2. RowOK(r)
      BY <2>1 DEF RowOK
    <2> QED BY <1>1, <1>2, <1>4, <1>5, <2>1, <2>2 DEF m
  <1>10. CASE after.status # "pending" /\ o # "disabled"
    <2>1. r = after
      BY <1>10
    <2> HIDE DEF r
    <2>2. RowOK(r)
      BY <1>3, <1>10, <2>1 DEF RowOK
    <2>3. r.status = "exhausted" => (m \notin overlap => tries[m] >= MAX_DELIVERY_ATTEMPTS)
      <3>1. seen.attempts \in Nat
        BY <1>2, DeliveriesAssumption DEF RowOK, RowState
      <3> QED BY <1>3, <1>5, <1>6, <1>10, <2>1, <3>1, DeliveriesAssumption
    <2> QED BY <1>1, <1>2, <1>3, <1>4, <1>5, <1>10, <2>1, <2>2, <2>3 DEF m
  <1> QED BY <1>8, <1>9, <1>10

LEMMA WriteStep ==
  ASSUME DeliveriesInv, NEW t \in Ticks, Write(t)
  PROVE  DeliveriesInv'
PROOF
  <1>0. PICK m \in Messages : \E r :
           /\ m = tick[t].m /\ Taken(row, m) /\ row' = [row EXCEPT ![m] = r]
           /\ RowOK(r) /\ r.status # "none"
           /\ r.status = "delivered" => m \in heard
           /\ m \notin overlap =>
                r.attempts <= tries[m] /\ (r.status = "exhausted" => tries[m] >= MAX_DELIVERY_ATTEMPTS)
    BY WrittenRow
  <1>1. PICK r :
           /\ m = tick[t].m /\ Taken(row, m) /\ row' = [row EXCEPT ![m] = r]
           /\ RowOK(r) /\ r.status # "none"
           /\ r.status = "delivered" => m \in heard
           /\ m \notin overlap =>
                r.attempts <= tries[m] /\ (r.status = "exhausted" => tries[m] >= MAX_DELIVERY_ATTEMPTS)
    BY <1>0
  <1>2. RowsOK' /\ \A n \in Messages : Taken(row, n) => Taken(row', n)
    BY <1>1, RowChanges DEF DeliveriesInv
  <1>3. \A n \in Messages : row'[n] = IF n = m THEN r ELSE row[n]
    BY <1>1 DEF DeliveriesInv, Queued, RowsOK
  <1> DEFINE next == [tick[t] EXCEPT !.pc = "next", !.m = NoMessage, !.seen = NoRow, !.outcome = "none"]
  <1>4. tick' = [tick EXCEPT ![t] = next] /\ UNCHANGED <<call, active, caller, hand, history>>
    BY DEF Write
  <1>5. next.pc = "next" /\ next \in TickState
    <2>1. tick[t] \in TickState
      BY DEF DeliveriesInv, Queued, TicksOK, TickOK
    <2>2. NoRow \in RowState
      BY NoRowOK DEF RowOK
    <2> QED BY <2>1, <2>2 DEF TickState
  <1> HIDE DEF next
  <1>6. TickOK(next, row', heard') /\ \A n \in Messages : CountOK(next, n, tries[n])
    BY <1>5 DEF TickOK, CountOK, Working
  <1>7. TicksOK' /\ HandsOK'
    BY <1>2, <1>4, <1>6, TickMoves, HandsStay DEF DeliveriesInv, history
  <1>8. DeliveredHeard' /\ CallersOK'
    BY <1>1, <1>3, <1>4 DEF DeliveriesInv, Queued, DeliveredHeard, CallersOK, history
  <1>9. TriesOK'
    <2>1. \A u \in Ticks : tick'[u] = IF u = t THEN next ELSE tick[u]
      BY <1>4 DEF DeliveriesInv, Queued, TicksOK
    <2>2. \A n \in Messages \ overlap, u \in Ticks : CountOK(tick'[u], n, tries[n])
      BY <1>6, <2>1 DEF DeliveriesInv, TriesOK
    <2>3. \A n \in Messages \ overlap :
            /\ row'[n].attempts <= tries[n]
            /\ row'[n].status = "exhausted" => tries[n] >= MAX_DELIVERY_ATTEMPTS
      BY <1>1, <1>3 DEF DeliveriesInv, TriesOK
    <2> QED BY <1>4, <2>2, <2>3 DEF DeliveriesInv, TriesOK, history
  <1> QED BY <1>2, <1>7, <1>8, <1>9 DEF DeliveriesInv, Queued

LEMMA BackoffStep ==
  ASSUME DeliveriesInv, NEW m \in Messages, BackoffEnds(m)
  PROVE  DeliveriesInv'
PROOF
  <1> DEFINE r == [row[m] EXCEPT !.due = TRUE]
  <1>1. RowOK(row[m]) /\ row[m] \in RowState /\ row[m].status = "pending" /\ row' = [row EXCEPT ![m] = r]
    BY DEF DeliveriesInv, Queued, RowsOK, RowOK, BackoffEnds
  <1>2. r \in RowState /\ r.status = "pending" /\ r.attempts = row[m].attempts
    BY <1>1 DEF RowState
  <1> HIDE DEF r
  <1>3. RowOK(r)
    BY <1>1, <1>2 DEF RowOK
  <1>4. UNCHANGED <<call, active, caller, tick, hand, history>>
    BY DEF BackoffEnds
  <1>5. RowsOK' /\ \A n \in Messages : Taken(row, n) => Taken(row', n)
    BY <1>1, <1>2, <1>3, RowChanges DEF DeliveriesInv
  <1>6. \A n \in Messages : row'[n] = IF n = m THEN r ELSE row[n]
    BY <1>1 DEF DeliveriesInv, Queued, RowsOK
  <1>7. TicksOK' /\ HandsOK'
    BY <1>4, <1>5, TicksStay, HandsStay DEF DeliveriesInv, history
  <1>8. DeliveredHeard' /\ CallersOK'
    BY <1>2, <1>4, <1>6 DEF DeliveriesInv, Queued, DeliveredHeard, CallersOK, history
  <1>9. TriesOK'
    BY <1>1, <1>2, <1>4, <1>6 DEF DeliveriesInv, TriesOK, history
  <1> QED BY <1>5, <1>7, <1>8, <1>9 DEF DeliveriesInv, Queued

LEMMA DashboardSteps ==
  ASSUME DeliveriesInv,
         \/ \E h \in Hooks : ToggleHook(h)
         \/ \E x \in Merchants, m \in Messages : ReadForRetry(x, m)
  PROVE  DeliveriesInv'
PROOF
  <1>1. ASSUME NEW h \in Hooks, ToggleHook(h) PROVE DeliveriesInv'
    <2>1. CallersOK'
      BY <1>1 DEF ToggleHook, DeliveriesInv, Queued, CallersOK
    <2> QED BY <1>1, <2>1, QueueAside DEF ToggleHook
  <1>2. ASSUME NEW x \in Merchants, NEW m \in Messages, ReadForRetry(x, m) PROVE DeliveriesInv'
    <2>1. UNCHANGED <<call, active, row, caller, tick, history>> /\ hand' = [hand EXCEPT ![x] = m]
      BY <1>2 DEF ReadForRetry
    <2>2. HandsOK'
      BY <1>2, <2>1 DEF ReadForRetry, DeliveriesInv, Queued, HandsOK, Taken
    <2>3. RowsOK' /\ TicksOK' /\ DeliveredHeard' /\ CallersOK'
      BY <2>1, TicksStay DEF DeliveriesInv, Queued, RowsOK, DeliveredHeard, CallersOK, history
    <2>4. TriesOK'
      BY <2>1 DEF DeliveriesInv, TriesOK, history
    <2> QED BY <2>2, <2>3, <2>4 DEF DeliveriesInv, Queued
  <1> QED BY <1>1, <1>2

LEMMA RetryStep ==
  ASSUME DeliveriesInv, NEW x \in Merchants, Retry(x)
  PROVE  DeliveriesInv'
PROOF
  <1>1. PICK m \in Messages : m = hand[x] /\ Taken(row, m)
    BY DEF DeliveriesInv, Queued, HandsOK, Retry, Taken
  <1>2. /\ row' = [row EXCEPT ![m] = Pending] /\ hand' = [hand EXCEPT ![x] = NoMessage]
        /\ tries' = [tries EXCEPT ![m] = 0]
        /\ overlap' = IF \E t \in Ticks : tick[t].m = m THEN overlap \cup {m} ELSE overlap \ {m}
        /\ UNCHANGED <<call, active, caller, tick, heard>>
    BY <1>1 DEF Retry
  <1>3. RowsOK' /\ \A n \in Messages : Taken(row, n) => Taken(row', n)
    BY <1>2, RowChanges, PendingOK DEF DeliveriesInv
  <1>4. \A n \in Messages : row'[n] = IF n = m THEN Pending ELSE row[n]
    BY <1>2 DEF DeliveriesInv, Queued, RowsOK
  <1>5. TicksOK'
    BY <1>2, <1>3, TicksStay DEF DeliveriesInv
  <1>6. HandsOK'
    BY <1>2, <1>3 DEF DeliveriesInv, Queued, HandsOK
  <1>7. DeliveredHeard' /\ CallersOK'
    BY <1>2, <1>4, PendingOK DEF DeliveriesInv, Queued, DeliveredHeard, CallersOK
  <1>8. TriesOK'
    <2>1. tries' \in [Messages -> Nat] /\ \A n \in Messages : tries'[n] = IF n = m THEN 0 ELSE tries[n]
      BY <1>2 DEF DeliveriesInv, TriesOK
    <2>2. ASSUME NEW n \in Messages, n \notin overlap'
          PROVE  /\ row'[n].attempts <= tries'[n]
                 /\ row'[n].status = "exhausted" => tries'[n] >= MAX_DELIVERY_ATTEMPTS
                 /\ \A t \in Ticks : CountOK(tick'[t], n, tries'[n])
      <3>1. CASE n = m
        <4>1. \A t \in Ticks : tick[t].m # n
          BY <1>2, <2>2, <3>1
        <4> QED BY <1>2, <1>4, <2>1, <3>1, <4>1, PendingOK DEF CountOK
      <3>2. CASE n # m
        <4>1. n \notin overlap
          BY <1>2, <2>2, <3>2
        <4> QED BY <1>2, <1>4, <2>1, <3>2, <4>1 DEF DeliveriesInv, TriesOK
      <3> QED BY <3>1, <3>2
    <2> QED BY <2>1, <2>2 DEF TriesOK
  <1> QED BY <1>3, <1>5, <1>6, <1>7, <1>8 DEF DeliveriesInv, Queued

LEMMA DeliveriesNextInv == DeliveriesInv /\ [DeliveriesNext]_deliveryVars => DeliveriesInv'
PROOF
  <1> SUFFICES ASSUME DeliveriesInv, [DeliveriesNext]_deliveryVars PROVE DeliveriesInv'
    OBVIOUS
  <1>1. ASSUME NEW t \in Ticks, TickStep(t) \/ TickDies(t) PROVE DeliveriesInv'
    BY <1>1, DrainSteps, SendStep, WriteStep DEF TickStep, SomeSend
  <1>2. CASE UNCHANGED deliveryVars
    <2>1. CallersOK'
      BY <1>2 DEF DeliveriesInv, Queued, CallersOK, deliveryVars
    <2> QED BY <1>2, <2>1, QueueAside DEF deliveryVars, history
  <1> QED BY <1>1, <1>2, CallerSteps, BackoffStep, DashboardSteps, RetryStep DEF DeliveriesNext

THEOREM DeliveriesInvariant == DeliveriesSpec => []DeliveriesInv
  BY DeliveriesInitInv, DeliveriesNextInv, PTL DEF DeliveriesSpec

\* The rows keep their type: nobody counts more attempts than the schedule
\* has, and only a row that waits is due.
THEOREM DeliveriesTyped == DeliveriesSpec => []DeliveriesTypeOK
PROOF
  <1>1. DeliveriesInv => DeliveriesTypeOK
    BY DEF DeliveriesInv, Queued, RowsOK, RowOK, RowState, RowStatus, CallersOK, DeliveriesTypeOK
  <1> QED BY <1>1, DeliveriesInvariant, PTL

\* However many ticks overlap: an endpoint is given up only after the whole
\* schedule of attempts, unless a tick was sending the row while it was retried.
THEOREM GivenUpOnlyThen == DeliveriesSpec => []GivenUpAfterAllAttempts
PROOF
  <1>1. DeliveriesInv => GivenUpAfterAllAttempts
    BY DEF DeliveriesInv, TriesOK, GivenUpAfterAllAttempts
  <1> QED BY <1>1, DeliveriesInvariant, PTL

-----------------------------------------------------------------------------
(* The webhooks implement AtLeastOnce *)

TakenRows == {m \in Messages : row[m] # NoRow}
ClosedRows == [m \in Messages |-> Closed(m)]

LEMMA TakenIsTaken == ASSUME Queued PROVE \A m \in Messages : m \in TakenRows <=> Taken(row, m)
PROOF
  <1>1. NoRow.status = "none"
    BY DEF NoRow
  <1>2. \A m \in Messages : row[m].status = "none" => row[m] = NoRow
    BY DEF Queued, RowsOK, RowOK
  <1> QED BY <1>1, <1>2 DEF TakenRows, Taken

\* A row is written over by another that is there, and delivered only if heard.
LEMMA RowClosed ==
  ASSUME DeliveriesInv, NEW m \in Messages, NEW r, r.status # "none", Taken(row, m),
         r.status = "delivered" => m \in heard, row' = [row EXCEPT ![m] = r], heard' = heard
  PROVE  Queue!Next
PROOF
  <1>1. \A n \in Messages : row'[n] = IF n = m THEN r ELSE row[n]
    BY DEF DeliveriesInv, Queued, RowsOK
  <1>2. NoRow.status = "none"
    BY DEF NoRow
  <1>3. row[m] # NoRow /\ row'[m] # NoRow
    BY <1>1, <1>2 DEF Taken
  <1>4. TakenRows' = TakenRows /\ m \in TakenRows
    BY <1>1, <1>3 DEF TakenRows
  <1>5. PICK how \in {"open", "delivered", "given up"} : how = Closed(m)'
    BY DEF Closed
  <1>6. how = "delivered" => m \in heard
    BY <1>1, <1>5 DEF Closed
  <1>7. ClosedRows' = [ClosedRows EXCEPT ![m] = how]
    <2>1. \A n \in Messages : n # m => Closed(n)' = Closed(n)
      BY <1>1 DEF Closed
    <2> QED BY <1>5, <2>1 DEF ClosedRows
  <1>8. Queue!Close(m, how)
    BY <1>4, <1>6, <1>7 DEF Queue!Close, TakenRows, ClosedRows
  <1> QED BY <1>8 DEF Queue!Next

\* A row that is made waits to be delivered.
LEMMA RowTaken ==
  ASSUME DeliveriesInv, NEW m \in Messages, row' = [row EXCEPT ![m] = Pending], heard' = heard
  PROVE  Queue!Next
PROOF
  <1>1. CASE Taken(row, m)
    BY <1>1, PendingOK, RowClosed
  <1>2. CASE ~Taken(row, m)
    <2>1. \A n \in Messages : row'[n] = IF n = m THEN Pending ELSE row[n]
      BY DEF DeliveriesInv, Queued, RowsOK
    <2>2. m \notin TakenRows /\ row[m].status = "none"
      BY <1>2, TakenIsTaken DEF Taken, DeliveriesInv
    <2>3. TakenRows' = TakenRows \cup {m}
      BY <2>1, PendingOK DEF TakenRows
    <2>4. ClosedRows' = ClosedRows
      <3>1. Closed(m) = "open" /\ Closed(m)' = "open"
        BY <2>1, <2>2, PendingOK DEF Closed
      <3>2. \A n \in Messages : Closed(n)' = Closed(n)
        BY <2>1, <3>1 DEF Closed
      <3> QED BY <3>2 DEF ClosedRows
    <2>5. Queue!Take(m)
      BY <2>2, <2>3, <2>4 DEF Queue!Take, TakenRows, ClosedRows
    <2> QED BY <2>5 DEF Queue!Next
  <1> QED BY <1>1, <1>2

LEMMA RowsUnchanged ==
  ASSUME row' = row PROVE UNCHANGED <<TakenRows, ClosedRows>>
  BY DEF TakenRows, ClosedRows, Closed

LEMMA DeliveriesStepRefines ==
  ASSUME DeliveriesInv, [DeliveriesNext]_deliveryVars
  PROVE  Queue!Next \/ UNCHANGED <<TakenRows, heard, ClosedRows>>
PROOF
  <1> DEFINE Stutter == UNCHANGED <<TakenRows, heard, ClosedRows>>
  <1>1. ASSUME NEW c \in Calls, NEW h \in Hooks, InsertRow(c, h) \/ SendTest(c, h)
        PROVE  Queue!Next \/ Stutter
    <2>1. PICK m \in Messages : m = <<h, call[c]>>
      BY <1>1, MessageOfCall DEF InsertRow, SendTest, DeliveriesInv, Queued, CallersOK
    <2>2. row' = [row EXCEPT ![m] = Pending] \/ row' = [row EXCEPT ![m] = IF @ = NoRow THEN Pending ELSE @]
      BY <1>1, <2>1 DEF InsertRow, SendTest, Inserted
    <2>3. row' = [row EXCEPT ![m] = Pending] \/ row' = row
      BY <2>2 DEF DeliveriesInv, Queued, RowsOK
    <2>4. heard' = heard
      BY <1>1 DEF InsertRow, SendTest, history
    <2> QED BY <2>3, <2>4, RowTaken, RowsUnchanged
  <1>2. ASSUME NEW t \in Ticks, Write(t) PROVE Queue!Next
    BY <1>2, WrittenRow, RowClosed DEF Write, history
  <1>3. ASSUME NEW m \in Messages, BackoffEnds(m) PROVE Queue!Next
    <2>1. row[m] \in RowState /\ row[m].status = "pending"
      BY <1>3 DEF BackoffEnds, DeliveriesInv, Queued, RowsOK, RowOK
    <2>2. [row[m] EXCEPT !.due = TRUE].status = "pending"
      BY <2>1 DEF RowState
    <2>3. row' = [row EXCEPT ![m] = [row[m] EXCEPT !.due = TRUE]] /\ heard' = heard
      BY <1>3 DEF BackoffEnds, history
    <2> QED BY <2>1, <2>2, <2>3, RowClosed DEF Taken
  <1>4. ASSUME NEW x \in Merchants, Retry(x) PROVE Queue!Next
    <2>1. PICK m \in Messages : m = hand[x]
      BY <1>4 DEF DeliveriesInv, Queued, HandsOK, Retry
    <2> QED BY <1>4, <2>1, RowTaken DEF Retry
  <1>5. ASSUME NEW t \in Ticks, NEW o \in Outcomes, Send(t, o) PROVE Queue!Next \/ Stutter
    <2>1. PICK m \in Messages : m = tick[t].m /\ Taken(row, m)
      BY <1>5 DEF Send, DeliveriesInv, Queued, TicksOK, TickOK, Working, Taken
    <2>2. UNCHANGED <<TakenRows, ClosedRows>>
      BY <1>5, RowsUnchanged DEF Send
    <2>3. heard' = heard \/ heard' = heard \cup {m}
      BY <1>5, <2>1 DEF Send
    <2>4. m \in TakenRows
      BY <2>1, TakenIsTaken DEF DeliveriesInv
    <2>5. heard' = heard \cup {m} => Queue!Hear(m)
      BY <2>2, <2>4 DEF Queue!Hear, TakenRows, ClosedRows
    <2> QED BY <2>2, <2>3, <2>5 DEF Queue!Next
  <1>6. ASSUME row' = row, heard' = heard PROVE Stutter
    BY <1>6, RowsUnchanged
  <1>7. ASSUME NEW c \in Calls, ReadHooks(c) \/ Enqueued(c) \/ EnqueueFails(c) PROVE Stutter
    BY <1>6, <1>7 DEF ReadHooks, Enqueued, EnqueueFails, history
  <1>8. ASSUME NEW t \in Ticks, \/ ReadDue(t) \/ EndDrain(t) \/ ReadHook(t) \/ TickDies(t)
                                \/ \E m \in Messages : ReadRow(t, m)
        PROVE  Stutter
    BY <1>6, <1>8 DEF ReadDue, EndDrain, ReadHook, TickDies, ReadRow, history
  <1>9. ASSUME \/ \E h \in Hooks : ToggleHook(h)
               \/ \E x \in Merchants, m \in Messages : ReadForRetry(x, m)
               \/ UNCHANGED deliveryVars
        PROVE  Stutter
    BY <1>6, <1>9 DEF ToggleHook, ReadForRetry, deliveryVars, history
  <1> QED BY <1>1, <1>2, <1>3, <1>4, <1>5, <1>7, <1>8, <1>9 DEF DeliveriesNext, CallerStep, TickStep, SomeSend

\* Crashes, overlapping ticks and retries amount to this: no event that was
\* queued is lost, and none counts as delivered that the endpoint did not accept.
THEOREM WebhooksAtLeastOnce == DeliveriesSpec => QueueIsAtLeastOnce
PROOF
  <1>1. DeliveriesInit => Queue!Init
    BY DEF DeliveriesInit, Queue!Init, Closed, NoRow
  <1>2. DeliveriesInv /\ [DeliveriesNext]_deliveryVars
        => [Queue!Next]_<<{m \in Messages : row[m] # NoRow}, heard, [m \in Messages |-> Closed(m)]>>
    BY DeliveriesStepRefines DEF TakenRows, ClosedRows
  <1> QED BY <1>1, <1>2, DeliveriesInvariant, PTL DEF DeliveriesSpec, QueueIsAtLeastOnce, Queue!Spec

-----------------------------------------------------------------------------
(* Mail: the inductive invariant *)

NoticeStatus == {"none", "pending", "sent", "failed", "exhausted", "suppressed"}
NoticeState == [status : NoticeStatus, attempts : 0..MAX_NOTIFICATION_ATTEMPTS, due : BOOLEAN]
JobState ==
  [pc : {"idle", "next", "count", "write", "mark"}, todo : SUBSET Requests, mail : Mails \cup {NoMail},
   status : {"none", "pending", "suppressed"}]
MailerState ==
  [pc : {"idle", "next", "send", "write"}, todo : SUBSET Mails, mail : Mails \cup {NoMail},
   seen : 0..MAX_NOTIFICATION_ATTEMPTS, outcome : Replies \cup {"none", "unsubscribed"}]

NoticeOK(n) ==
  /\ n \in NoticeState
  /\ n.status = "none" => n = NoNotice
  /\ n.status = "pending" => n.attempts < MAX_NOTIFICATION_ATTEMPTS
  /\ n.due => n.status = "pending"
NoticesOK ==
  DOMAIN notice = Mails /\ notice = [x \in Mails |-> notice[x]] /\ \A x \in Mails : NoticeOK(notice[x])

StoreOK ==
  /\ stock \subseteq Variants /\ request \in [Requests -> {"none", "waiting", "notified"}]
  /\ unsubscribed \in BOOLEAN

\* An enqueuer at work has a mail, and has decided on it before it writes.
JobOK(j) ==
  /\ j \in JobState
  /\ j.pc \in {"count", "write"} => j.mail \in Mails
  /\ j.pc = "write" => j.status \in {"pending", "suppressed"}
JobsOK == DOMAIN job = Enqueuers /\ job = [e \in Enqueuers |-> job[e]] /\ \A e \in Enqueuers : JobOK(job[e])

\* A drain at work has a mail that is in the queue, with attempts left.
Posted(rows, x) == x \in Mails /\ rows[x].status # "none"
MailerOK(r, rows, accepts) ==
  /\ r \in MailerState
  /\ r.pc \in {"send", "write"} => Posted(rows, r.mail) /\ r.seen < MAX_NOTIFICATION_ATTEMPTS
  /\ r.pc = "write" => r.outcome \in Replies \cup {"unsubscribed"}
  /\ r.pc = "write" /\ r.outcome = "2xx" => r.mail \in accepts
MailersOK ==
  /\ DOMAIN mailer = Mailers /\ mailer = [d \in Mailers |-> mailer[d]]
  /\ \A d \in Mailers : MailerOK(mailer[d], notice, accepted)

RecentOK == recent \subseteq Mails /\ \A x \in recent : notice[x].status # "none"
SentAccepted == accepted \subseteq Mails /\ \A x \in Mails : notice[x].status = "sent" => x \in accepted

\* Who was sending when the customer unsubscribed may finish; nobody joins them.
Senders == {d \in Mailers : mailer[d].pc = "send"}
LateOK ==
  /\ late \in Nat
  /\ ~unsubscribed => late = 0
  /\ late + Cardinality(Senders) <= Cardinality(Mailers)

MailRows == NoticesOK /\ StoreOK /\ RecentOK /\ SentAccepted
MailInv == MailRows /\ JobsOK /\ MailersOK /\ LateOK

LEMMA NoNoticeOK == NoticeOK(NoNotice)
  BY NotificationsAssumption DEF NoticeOK, NoNotice, NoticeState, NoticeStatus

LEMMA JobIdleOK == JobOK(JobIdle)
PROOF
  <1>1. JobIdle \in JobState /\ JobIdle.pc = "idle"
    BY DEF JobIdle, JobState
  <1> QED BY <1>1 DEF JobOK

LEMMA MailerIdleOK == \A rows, accepts : MailerOK(MailerIdle, rows, accepts) /\ MailerIdle.pc = "idle"
PROOF
  <1>1. MailerIdle \in MailerState /\ MailerIdle.pc = "idle"
    BY NotificationsAssumption DEF MailerIdle, MailerState
  <1> QED BY <1>1 DEF MailerOK

LEMMA SomeMailers ==
  ASSUME NEW S, S \subseteq Mailers
  PROVE  /\ IsFiniteSet(S) /\ Cardinality(S) \in Nat /\ Cardinality(Mailers) \in Nat
         /\ Cardinality(S) <= Cardinality(Mailers)
  BY FS_Subset, FS_CardinalityType, NotificationsAssumption

LEMMA MailInitInv == NotificationsInit => MailInv
PROOF
  <1> SUFFICES ASSUME NotificationsInit PROVE MailInv
    OBVIOUS
  <1> USE DEF NotificationsInit
  <1>1. \A x \in Mails : notice[x].status = "none"
    BY DEF NoNotice
  <1>2. MailRows
    BY <1>1, NoNoticeOK DEF MailRows, NoticesOK, StoreOK, RecentOK, SentAccepted
  <1>3. JobsOK
    BY JobIdleOK DEF JobsOK
  <1>4. MailersOK
    BY MailerIdleOK DEF MailersOK
  <1>5. LateOK
    BY SomeMailers DEF LateOK, Senders
  <1> QED BY <1>2, <1>3, <1>4, <1>5 DEF MailInv

-----------------------------------------------------------------------------
(* What a change of one job, drain or row leaves in order *)

LEMMA JobMoves ==
  ASSUME JobsOK, NEW e \in Enqueuers, NEW j, JobOK(j), job' = [job EXCEPT ![e] = j]
  PROVE  JobsOK'
PROOF
  <1>1. \A f \in Enqueuers : job'[f] = IF f = e THEN j ELSE job[f]
    BY DEF JobsOK
  <1> QED BY <1>1 DEF JobsOK

LEMMA MailerMoves ==
  ASSUME MailersOK, NEW d \in Mailers, NEW r, MailerOK(r, notice', accepted'), mailer' = [mailer EXCEPT ![d] = r],
         \A x \in Mails : Posted(notice, x) => Posted(notice', x), accepted \subseteq accepted'
  PROVE  MailersOK'
PROOF
  <1>1. \A f \in Mailers : mailer'[f] = IF f = d THEN r ELSE mailer[f]
    BY DEF MailersOK
  <1>2. ASSUME NEW f \in Mailers, f # d PROVE MailerOK(mailer'[f], notice', accepted')
    <2>1. mailer'[f] = mailer[f] /\ MailerOK(mailer[f], notice, accepted)
      BY <1>1, <1>2 DEF MailersOK
    <2> QED BY <2>1 DEF MailerOK, Posted
  <1> QED BY <1>1, <1>2 DEF MailersOK

LEMMA MailersStay ==
  ASSUME MailersOK, mailer' = mailer, accepted \subseteq accepted',
         \A x \in Mails : Posted(notice, x) => Posted(notice', x)
  PROVE  MailersOK'
  BY DEF MailersOK, MailerOK, Posted

\* A drain that stops sending makes room for one late mail; one that moves on
\* without sending leaves the count alone.
LEMMA SenderLeaves ==
  ASSUME MailersOK, NEW d \in Mailers, NEW r, r.pc # "send", mailer' = [mailer EXCEPT ![d] = r],
         mailer[d].pc = "send"
  PROVE  Cardinality(Senders') = Cardinality(Senders) - 1
PROOF
  <1>1. d \in Senders /\ Senders' = Senders \ {d}
    BY DEF MailersOK, Senders
  <1>2. IsFiniteSet(Senders)
    BY SomeMailers DEF Senders
  <1> QED BY <1>1, <1>2, FS_RemoveElement

LEMMA SendersFewer ==
  ASSUME MailersOK, NEW d \in Mailers, NEW r, r.pc # "send", mailer' = [mailer EXCEPT ![d] = r]
  PROVE  Cardinality(Senders') <= Cardinality(Senders)
PROOF
  <1>1. Senders' \subseteq Senders
    BY DEF MailersOK, Senders
  <1>2. IsFiniteSet(Senders)
    BY SomeMailers DEF Senders
  <1> QED BY <1>1, <1>2, FS_Subset

LEMMA NoticeChanges ==
  ASSUME NoticesOK, NEW x \in Mails, NEW n, NoticeOK(n), n.status # "none", notice' = [notice EXCEPT ![x] = n]
  PROVE  /\ NoticesOK' /\ \A y \in Mails : Posted(notice, y) => Posted(notice', y)
         /\ \A y \in Mails : notice'[y] = IF y = x THEN n ELSE notice[y]
PROOF
  <1>1. \A y \in Mails : notice'[y] = IF y = x THEN n ELSE notice[y]
    BY DEF NoticesOK
  <1>2. NoticesOK'
    BY <1>1 DEF NoticesOK
  <1> QED BY <1>1, <1>2 DEF Posted

\* A step of one enqueuer that leaves rows and drains alone.
LEMMA JobAlone ==
  ASSUME MailInv, NEW e \in Enqueuers, NEW j, JobOK(j), job' = [job EXCEPT ![e] = j],
         StoreOK', UNCHANGED <<notice, recent, mailer, accepted, late, unsubscribed>>
  PROVE  MailInv'
PROOF
  <1>1. JobsOK'
    BY JobMoves DEF MailInv
  <1>2. MailRows' /\ MailersOK' /\ LateOK'
    BY DEF MailInv, MailRows, NoticesOK, RecentOK, SentAccepted, MailersOK, LateOK, Senders
  <1> QED BY <1>1, <1>2 DEF MailInv

\* A step of one drain that does not send and leaves the rows alone.
LEMMA MailerAlone ==
  ASSUME MailInv, NEW d \in Mailers, NEW r, MailerOK(r, notice, accepted), mailer' = [mailer EXCEPT ![d] = r],
         r.pc = "send" => ~unsubscribed,
         UNCHANGED <<storeVars, unsubscribed, notice, recent, job, accepted, late>>
  PROVE  MailInv'
PROOF
  <1>1. MailersOK'
    BY MailerMoves DEF MailInv
  <1>2. MailRows' /\ JobsOK'
    BY DEF MailInv, MailRows, NoticesOK, StoreOK, RecentOK, SentAccepted, JobsOK, storeVars
  <1>3. LateOK'
    <2>1. /\ Senders \subseteq Mailers /\ Senders' \subseteq Mailers
          /\ Cardinality(Senders) \in Nat /\ Cardinality(Senders') \in Nat /\ Cardinality(Mailers) \in Nat
          /\ Cardinality(Senders') <= Cardinality(Mailers)
      BY SomeMailers DEF Senders
    <2>2. CASE ~unsubscribed
      BY <2>1, <2>2 DEF MailInv, LateOK
    <2>3. CASE r.pc # "send"
      <3>1. Cardinality(Senders') <= Cardinality(Senders)
        BY <2>3, SendersFewer DEF MailInv
      <3> QED BY <2>1, <3>1 DEF MailInv, LateOK
    <2> QED BY <2>2, <2>3
  <1> QED BY <1>1, <1>2, <1>3 DEF MailInv

-----------------------------------------------------------------------------
(* One lemma per group of actions of the mail *)

LEMMA StoreSteps ==
  ASSUME MailInv,
         \/ \E r \in Requests : requestRestockAlert(r)
         \/ unsubscribeContact
         \/ \E v \in Variants : StockChanges(v)
         \/ \E x \in Mails : DayPasses(x)
  PROVE  MailInv'
PROOF
  <1>1. UNCHANGED <<notice, job, mailer, accepted, late>>
    BY DEF requestRestockAlert, unsubscribeContact, StockChanges, DayPasses
  <1>2. StoreOK'
    BY DEF requestRestockAlert, unsubscribeContact, StockChanges, DayPasses, MailInv, MailRows, StoreOK, storeVars
  <1>3. RecentOK'
    BY DEF requestRestockAlert, unsubscribeContact, StockChanges, DayPasses, MailInv, MailRows, RecentOK
  <1>4. NoticesOK' /\ SentAccepted' /\ JobsOK' /\ MailersOK'
    BY <1>1 DEF MailInv, MailRows, NoticesOK, SentAccepted, JobsOK, MailersOK
  <1>5. unsubscribed' = unsubscribed \/ unsubscribed' = TRUE
    BY DEF requestRestockAlert, unsubscribeContact, StockChanges, DayPasses
  <1>6. LateOK'
    BY <1>1, <1>5 DEF MailInv, LateOK, Senders
  <1> QED BY <1>2, <1>3, <1>4, <1>6 DEF MailInv, MailRows

LEMMA ContactedOK ==
  ASSUME MailInv, NEW e \in Enqueuers, NEW x \in Mails
  PROVE  JobOK(Contacted(e, x))
PROOF
  <1> DEFINE pc == IF unsubscribed THEN "write" ELSE "count"
             status == IF unsubscribed THEN "suppressed" ELSE "none"
             j == [job[e] EXCEPT !.pc = pc, !.mail = x, !.todo = @ \ {x}, !.status = status]
  <1>1. job[e] \in JobState
    BY DEF MailInv, JobsOK, JobOK
  <1>2. (pc = "write" /\ status = "suppressed") \/ (pc = "count" /\ status = "none")
    OBVIOUS
  <1>3. Contacted(e, x) = j
    BY DEF Contacted
  <1> HIDE DEF pc, status
  <1>4. j.pc = pc /\ j.mail = x /\ j.status = status /\ j \in JobState
    BY <1>1, <1>2 DEF JobState
  <1> HIDE DEF j
  <1> QED BY <1>2, <1>3, <1>4 DEF JobOK

LEMMA ScanSteps ==
  ASSUME MailInv, NEW w \in Scanners,
         ReadWaiting(w) \/ EndScan(w) \/ MarkNotified(w) \/ \E r \in Requests : CheckRequest(w, r)
  PROVE  MailInv'
PROOF
  <1>1. w \in Enqueuers /\ JobOK(job[w]) /\ job[w] \in JobState
    BY DEF MailInv, JobsOK, JobOK, Enqueuers
  <1>2. CASE ReadWaiting(w)
    <2>0. PICK b \in Batches : job' = [job EXCEPT ![w].pc = "next", ![w].todo = b]
      BY <1>2 DEF ReadWaiting
    <2> DEFINE j == [job[w] EXCEPT !.pc = "next", !.todo = b]
    <2>1. j.pc = "next" /\ j \in JobState /\ job' = [job EXCEPT ![w] = j]
      <3>1. b \subseteq Requests
        BY DEF Batches, Waiting
      <3> QED BY <1>1, <2>0, <3>1 DEF JobState
    <2> HIDE DEF j
    <2>2. JobOK(j)
      BY <2>1 DEF JobOK
    <2>3. StoreOK'
      BY <1>2 DEF ReadWaiting, storeVars, MailInv, MailRows, StoreOK
    <2> QED BY <1>1, <1>2, <2>1, <2>2, <2>3, JobAlone DEF ReadWaiting
  <1>3. CASE EndScan(w)
    <2>1. StoreOK'
      BY <1>3 DEF EndScan, storeVars, MailInv, MailRows, StoreOK
    <2> QED BY <1>1, <1>3, <2>1, JobIdleOK, JobAlone DEF EndScan
  <1>4. CASE MarkNotified(w)
    <2> DEFINE j == [job[w] EXCEPT !.pc = "next", !.mail = NoMail]
    <2>1. j.pc = "next" /\ j \in JobState /\ job' = [job EXCEPT ![w] = j]
      BY <1>1, <1>4 DEF JobState, MarkNotified
    <2> HIDE DEF j
    <2>2. JobOK(j)
      BY <2>1 DEF JobOK
    <2>3. StoreOK'
      BY <1>4 DEF MarkNotified, MailInv, MailRows, StoreOK
    <2> QED BY <1>1, <1>4, <2>1, <2>2, <2>3, JobAlone DEF MarkNotified
  <1>5. ASSUME NEW r \in Requests, CheckRequest(w, r) PROVE MailInv'
    <2>1. StoreOK'
      BY <1>5 DEF CheckRequest, storeVars, MailInv, MailRows, StoreOK
    <2>2. CASE job' = [job EXCEPT ![w] = Contacted(w, r)]
      <3>1. JobOK(Contacted(w, r))
        BY <1>1, ContactedOK DEF Mails
      <3> QED BY <1>1, <1>5, <2>1, <2>2, <3>1, JobAlone DEF CheckRequest
    <2>3. CASE job' = [job EXCEPT ![w].todo = @ \ {r}]
      <3> DEFINE j == [job[w] EXCEPT !.todo = @ \ {r}]
      <3>1. j.pc = "next" /\ j \in JobState /\ job' = [job EXCEPT ![w] = j]
        BY <1>1, <1>5, <2>3 DEF JobState, CheckRequest
      <3> HIDE DEF j
      <3>2. JobOK(j)
        BY <3>1 DEF JobOK
      <3> QED BY <1>1, <1>5, <2>1, <3>1, <3>2, JobAlone DEF CheckRequest
    <2> QED BY <1>5, <2>2, <2>3 DEF CheckRequest
  <1> QED BY <1>2, <1>3, <1>4, <1>5

LEMMA CountSteps ==
  ASSUME MailInv, (\E o \in Others : EnqueueOther(o)) \/ (\E e \in Enqueuers : CountRecent(e))
  PROVE  MailInv'
PROOF
  <1>1. ASSUME NEW o \in Others, EnqueueOther(o) PROVE MailInv'
    <2>1. StoreOK'
      BY <1>1 DEF EnqueueOther, storeVars, MailInv, MailRows, StoreOK
    <2>2. o \in Enqueuers /\ JobOK(Contacted(o, o))
      BY ContactedOK DEF Mails, Enqueuers
    <2> QED BY <1>1, <2>1, <2>2, JobAlone DEF EnqueueOther
  <1>2. ASSUME NEW e \in Enqueuers, CountRecent(e) PROVE MailInv'
    <2> DEFINE s == IF CapReached(Cardinality(Counted)) THEN "suppressed" ELSE "pending"
               j == [job[e] EXCEPT !.pc = "write", !.status = s]
    <2>1. job[e] \in JobState /\ job[e].mail \in Mails
      BY <1>2 DEF MailInv, JobsOK, JobOK, CountRecent
    <2>2. s \in {"suppressed", "pending"} /\ job' = [job EXCEPT ![e] = j]
      BY <1>2 DEF CountRecent
    <2> HIDE DEF s
    <2>3. j.pc = "write" /\ j.status = s /\ j.mail = job[e].mail /\ j \in JobState
      BY <2>1, <2>2 DEF JobState
    <2> HIDE DEF j
    <2>4. JobOK(j)
      BY <2>1, <2>2, <2>3 DEF JobOK
    <2>5. StoreOK'
      BY <1>2 DEF CountRecent, storeVars, MailInv, MailRows, StoreOK
    <2> QED BY <1>2, <2>2, <2>4, <2>5, JobAlone DEF CountRecent
  <1> QED BY <1>1, <1>2

\* A row is made or stays, and its enqueuer goes on.
LEMMA QueuedRow ==
  ASSUME MailInv, NEW e \in Enqueuers, writeRow(e)
  PROVE  \E x \in Mails, s \in {"pending", "suppressed"} :
           \/ /\ notice[x] = NoNotice /\ recent' = recent \cup {x}
              /\ notice' = [notice EXCEPT ![x] = [status |-> s, attempts |-> 0, due |-> s = "pending"]]
           \/ UNCHANGED <<notice, recent>>
PROOF
  <1>1. JobOK(job[e]) /\ job[e].pc = "write"
    BY DEF MailInv, JobsOK, writeRow
  <1>2. PICK x \in Mails, s \in {"pending", "suppressed"} : x = job[e].mail /\ s = job[e].status
    BY <1>1 DEF JobOK
  <1> QED BY <1>2 DEF writeRow

LEMMA FreshRow ==
  ASSUME NEW s \in {"pending", "suppressed"}, NEW n, n = [status |-> s, attempts |-> 0, due |-> s = "pending"]
  PROVE  NoticeOK(n) /\ n.status = s
PROOF
  <1>1. n.status = s /\ n.attempts = 0 /\ n.due = (s = "pending")
    OBVIOUS
  <1>2. 0 \in 0..MAX_NOTIFICATION_ATTEMPTS /\ 0 < MAX_NOTIFICATION_ATTEMPTS
    BY NotificationsAssumption
  <1>3. n \in NoticeState
    BY <1>2 DEF NoticeState, NoticeStatus
  <1> QED BY <1>1, <1>2, <1>3 DEF NoticeOK

LEMMA WriteRowStep ==
  ASSUME MailInv, NEW e \in Enqueuers, writeRow(e)
  PROVE  MailInv'
PROOF
  <1>1. UNCHANGED <<storeVars, unsubscribed, mailer, accepted, late>>
    BY DEF writeRow
  <1>2. JobsOK'
    <2>1. JobOK(job[e])  /\ job[e] \in JobState
      BY DEF MailInv, JobsOK, JobOK
    <2> DEFINE j == [job[e] EXCEPT !.pc = "mark", !.status = "none"]
    <2>2. j.pc = "mark" /\ j \in JobState
      BY <2>1 DEF JobState
    <2>3. job' = [job EXCEPT ![e] = j] \/ job' = [job EXCEPT ![e] = JobIdle]
      BY DEF writeRow
    <2> HIDE DEF j
    <2>4. JobOK(j)
      BY <2>2 DEF JobOK
    <2> QED BY <2>3, <2>4, JobIdleOK, JobMoves DEF MailInv
  <1>3. PICK x \in Mails, s \in {"pending", "suppressed"} :
           \/ /\ notice[x] = NoNotice /\ recent' = recent \cup {x}
              /\ notice' = [notice EXCEPT ![x] = [status |-> s, attempts |-> 0, due |-> s = "pending"]]
           \/ UNCHANGED <<notice, recent>>
    BY QueuedRow
  <1>4. CASE UNCHANGED <<notice, recent>>
    <2>1. MailRows' /\ MailersOK' /\ LateOK'
      BY <1>1, <1>4 DEF MailInv, MailRows, NoticesOK, StoreOK, RecentOK, SentAccepted, MailersOK, LateOK, Senders,
                        storeVars
    <2> QED BY <1>2, <2>1 DEF MailInv
  <1>5. CASE recent' = recent \cup {x}
             /\ notice' = [notice EXCEPT ![x] = [status |-> s, attempts |-> 0, due |-> s = "pending"]]
    <2>1. PICK n : n = [status |-> s, attempts |-> 0, due |-> s = "pending"]
      OBVIOUS
    <2>2. NoticeOK(n) /\ n.status = s
      BY <2>1, FreshRow
    <2>3. /\ NoticesOK' /\ \A y \in Mails : Posted(notice, y) => Posted(notice', y)
          /\ \A y \in Mails : notice'[y] = IF y = x THEN n ELSE notice[y]
      <3>1. notice' = [notice EXCEPT ![x] = n]
        BY <1>5, <2>1, Zenon
      <3>2. n.status # "none"
        BY <2>2
      <3> QED BY <2>2, <3>1, <3>2, NoticeChanges DEF MailInv, MailRows
    <2>4. RecentOK' /\ SentAccepted' /\ StoreOK'
      BY <1>1, <1>5, <2>2, <2>3 DEF MailInv, MailRows, RecentOK, SentAccepted, StoreOK, storeVars
    <2>5. MailersOK' /\ LateOK'
      BY <1>1, <2>3, MailersStay DEF MailInv, LateOK, Senders
    <2> QED BY <1>2, <2>3, <2>4, <2>5 DEF MailInv, MailRows
  <1> QED BY <1>3, <1>4, <1>5

LEMMA MailingSteps ==
  ASSUME MailInv, NEW d \in Mailers,
         ReadDueNotices(d) \/ EndMailing(d) \/ \E x \in Mails : ReadNotice(d, x)
  PROVE  MailInv'
PROOF
  <1>1. MailerOK(mailer[d], notice, accepted) /\ mailer[d] \in MailerState
    BY DEF MailInv, MailersOK, MailerOK
  <1>2. CASE ReadDueNotices(d)
    <2> DEFINE r == [mailer[d] EXCEPT !.pc = "next", !.todo = DueNotices]
    <2>1. r.pc = "next" /\ r \in MailerState /\ mailer' = [mailer EXCEPT ![d] = r]
      BY <1>1, <1>2 DEF MailerState, DueNotices, ReadDueNotices
    <2> HIDE DEF r
    <2>2. MailerOK(r, notice, accepted)
      BY <2>1 DEF MailerOK
    <2> QED BY <1>2, <2>1, <2>2, MailerAlone DEF ReadDueNotices
  <1>3. CASE EndMailing(d)
    BY <1>3, MailerIdleOK, MailerAlone DEF EndMailing
  <1>4. ASSUME NEW x \in Mails, ReadNotice(d, x) PROVE MailInv'
    <2>1. CASE notice[x].status = "pending"
      <3> DEFINE pc == IF Suppressed THEN "write" ELSE "send"
                 outcome == IF Suppressed THEN "unsubscribed" ELSE "none"
                 r == [pc |-> pc, todo |-> mailer[d].todo \ {x}, mail |-> x,
                       seen |-> notice[x].attempts, outcome |-> outcome]
      <3>1. mailer' = [mailer EXCEPT ![d] = r]
        BY <1>4, <2>1 DEF ReadNotice
      <3>2. (pc = "write" /\ outcome = "unsubscribed") \/ (pc = "send" /\ outcome = "none" /\ ~unsubscribed)
        BY DEF Suppressed
      <3>3. /\ notice[x].attempts \in 0..MAX_NOTIFICATION_ATTEMPTS
            /\ notice[x].attempts < MAX_NOTIFICATION_ATTEMPTS
        BY <2>1 DEF MailInv, MailRows, NoticesOK, NoticeOK, NoticeState
      <3> HIDE DEF pc, outcome
      <3>4. r.pc = pc /\ r.mail = x /\ r.seen = notice[x].attempts /\ r.outcome = outcome
        OBVIOUS
      <3>5. r \in MailerState
        BY <1>1, <3>2, <3>3 DEF MailerState
      <3> HIDE DEF r
      <3>6. MailerOK(r, notice, accepted)
        BY <2>1, <3>2, <3>3, <3>4, <3>5 DEF MailerOK, Posted
      <3> QED BY <1>4, <3>1, <3>2, <3>4, <3>6, MailerAlone DEF ReadNotice
    <2>2. CASE notice[x].status # "pending"
      <3> DEFINE r == [mailer[d] EXCEPT !.todo = @ \ {x}]
      <3>1. r.pc = "next" /\ r \in MailerState /\ mailer' = [mailer EXCEPT ![d] = r]
        BY <1>1, <1>4, <2>2 DEF MailerState, ReadNotice
      <3> HIDE DEF r
      <3>2. MailerOK(r, notice, accepted)
        BY <3>1 DEF MailerOK
      <3> QED BY <1>4, <3>1, <3>2, MailerAlone DEF ReadNotice
    <2> QED BY <2>1, <2>2
  <1> QED BY <1>2, <1>3, <1>4

LEMMA SendMailStep ==
  ASSUME MailInv, NEW d \in Mailers, NEW o \in Replies, SendMail(d, o)
  PROVE  MailInv'
PROOF
  <1> DEFINE r == [mailer[d] EXCEPT !.pc = "write", !.outcome = o]
  <1>1. MailerOK(mailer[d], notice, accepted) /\ mailer[d] \in MailerState /\ mailer[d].pc = "send"
    BY DEF MailInv, MailersOK, MailerOK, SendMail
  <1>2. PICK x \in Mails : x = mailer[d].mail /\ Posted(notice, x)
    BY <1>1 DEF MailerOK, Posted
  <1>3. /\ mailer' = [mailer EXCEPT ![d] = r]
        /\ accepted' = (IF o \in {"2xx", "timeout"} THEN accepted \cup {x} ELSE accepted)
        /\ late' = late \/ (unsubscribed /\ late' = late + 1)
        /\ UNCHANGED <<storeVars, unsubscribed, notice, recent, job>>
    BY <1>2 DEF SendMail
  <1>4. r.pc = "write" /\ r.outcome = o /\ r.mail = x /\ r.seen = mailer[d].seen /\ r \in MailerState
    BY <1>1, <1>2 DEF MailerState
  <1> HIDE DEF r
  <1>5. MailerOK(r, notice', accepted')
    BY <1>1, <1>2, <1>3, <1>4 DEF MailerOK
  <1>6. MailersOK'
    BY <1>3, <1>5, MailerMoves DEF MailInv
  <1>7. MailRows' /\ JobsOK'
    BY <1>2, <1>3 DEF MailInv, MailRows, NoticesOK, StoreOK, RecentOK, SentAccepted, JobsOK, storeVars
  <1>8. LateOK'
    <2>1. Cardinality(Senders') = Cardinality(Senders) - 1
      BY <1>1, <1>3, <1>4, SenderLeaves DEF MailInv
    <2>2. Cardinality(Senders) \in Nat /\ Cardinality(Mailers) \in Nat
      BY SomeMailers DEF Senders
    <2> QED BY <1>3, <2>1, <2>2 DEF MailInv, LateOK
  <1> QED BY <1>6, <1>7, <1>8 DEF MailInv

\* What a reply makes of a row, whatever the row is by then.
LEMMA AfterMailRow ==
  ASSUME NEW old, NoticeOK(old), old.status # "none", NEW n \in 0..MAX_NOTIFICATION_ATTEMPTS,
         NEW o \in Replies \cup {"unsubscribed"}, NEW after, after = AfterMail(old, n, o)
  PROVE  /\ NoticeOK(after) /\ after.status # "none"
         /\ after.status = "sent" => o = "2xx" \/ old.status = "sent"
PROOF
  <1>1. old \in NoticeState
    BY DEF NoticeOK
  <1>2. CASE o = "unsubscribed"
    <2>1. after = [old EXCEPT !.status = "suppressed", !.due = FALSE]
      BY <1>2 DEF AfterMail, isRetryableSendFailure
    <2>2. after.status = "suppressed" /\ after.due = FALSE /\ after \in NoticeState
      BY <1>1, <2>1 DEF NoticeState, NoticeStatus
    <2> QED BY <2>2 DEF NoticeOK
  <1>3. CASE o = "2xx"
    <2>1. after = [status |-> "sent", attempts |-> n, due |-> FALSE]
      BY <1>3 DEF AfterMail, isRetryableSendFailure
    <2>2. after.status = "sent" /\ after.due = FALSE /\ after \in NoticeState
      BY <2>1 DEF NoticeState, NoticeStatus
    <2> QED BY <1>3, <2>2 DEF NoticeOK
  <1>4. CASE o = "4xx"
    <2>1. after = [status |-> "failed", attempts |-> n, due |-> FALSE]
      BY <1>4 DEF AfterMail, isRetryableSendFailure
    <2>2. after.status = "failed" /\ after.due = FALSE /\ after \in NoticeState
      BY <2>1 DEF NoticeState, NoticeStatus
    <2> QED BY <2>2 DEF NoticeOK
  <1>5. CASE o \in {"5xx", "timeout"} /\ hasExhaustedNotificationRetries(n)
    <2>1. after = [status |-> "exhausted", attempts |-> n, due |-> FALSE]
      BY <1>5 DEF AfterMail, isRetryableSendFailure
    <2>2. after.status = "exhausted" /\ after.due = FALSE /\ after \in NoticeState
      BY <2>1 DEF NoticeState, NoticeStatus
    <2> QED BY <2>2 DEF NoticeOK
  <1>6. CASE o \in {"5xx", "timeout"} /\ ~hasExhaustedNotificationRetries(n)
    <2>1. after = [old EXCEPT !.attempts = n, !.due = FALSE]
      BY <1>6 DEF AfterMail, isRetryableSendFailure
    <2>2. after.status = old.status /\ after.attempts = n /\ after.due = FALSE /\ after \in NoticeState
      BY <1>1, <2>1 DEF NoticeState
    <2>3. n < MAX_NOTIFICATION_ATTEMPTS
      BY <1>6, NotificationsAssumption DEF hasExhaustedNotificationRetries
    <2> QED BY <2>2, <2>3 DEF NoticeOK
  <1> QED BY <1>2, <1>3, <1>4, <1>5, <1>6 DEF Replies

LEMMA SentRow ==
  ASSUME MailInv, NEW d \in Mailers, WriteSent(d)
  PROVE  \E x \in Mails : \E n :
           /\ Posted(notice, x) /\ notice' = [notice EXCEPT ![x] = n]
           /\ NoticeOK(n) /\ n.status # "none" /\ (n.status = "sent" => x \in accepted)
PROOF
  <1> DEFINE x == mailer[d].mail
             o == mailer[d].outcome
             m == mailer[d].seen + 1
  <1>1. MailerOK(mailer[d], notice, accepted) /\ mailer[d] \in MailerState /\ mailer[d].pc = "write"
    BY DEF MailInv, MailersOK, MailerOK, WriteSent
  <1>2. Posted(notice, x) /\ o \in Replies \cup {"unsubscribed"} /\ (o = "2xx" => x \in accepted)
    BY <1>1 DEF MailerOK
  <1>3. m \in 0..MAX_NOTIFICATION_ATTEMPTS
    <2>1. mailer[d].seen \in 0..MAX_NOTIFICATION_ATTEMPTS /\ mailer[d].seen < MAX_NOTIFICATION_ATTEMPTS
      BY <1>1 DEF MailerOK, MailerState
    <2> QED BY <2>1, NotificationsAssumption
  <1>4. /\ x \in Mails /\ NoticeOK(notice[x]) /\ notice[x].status # "none"
        /\ notice[x].status = "sent" => x \in accepted
    BY <1>2 DEF Posted, MailInv, MailRows, NoticesOK, SentAccepted
  <1>5. PICK n : n = AfterMail(notice[x], m, o)
    OBVIOUS
  <1>6. notice' = [notice EXCEPT ![x] = n]
    BY <1>5 DEF WriteSent
  <1> HIDE DEF x, o, m
  <1>7. NoticeOK(n) /\ n.status # "none" /\ (n.status = "sent" => o = "2xx" \/ notice[x].status = "sent")
    BY <1>2, <1>3, <1>4, <1>5, AfterMailRow
  <1> QED BY <1>2, <1>4, <1>6, <1>7

LEMMA WriteSentStep ==
  ASSUME MailInv, NEW d \in Mailers, WriteSent(d)
  PROVE  MailInv'
PROOF
  <1>0. PICK x \in Mails : \E n :
           /\ Posted(notice, x) /\ notice' = [notice EXCEPT ![x] = n]
           /\ NoticeOK(n) /\ n.status # "none" /\ (n.status = "sent" => x \in accepted)
    BY SentRow
  <1>1. PICK n :
           /\ Posted(notice, x) /\ notice' = [notice EXCEPT ![x] = n]
           /\ NoticeOK(n) /\ n.status # "none" /\ (n.status = "sent" => x \in accepted)
    BY <1>0
  <1>2. /\ NoticesOK' /\ \A y \in Mails : Posted(notice, y) => Posted(notice', y)
        /\ \A y \in Mails : notice'[y] = IF y = x THEN n ELSE notice[y]
    BY <1>1, NoticeChanges DEF MailInv, MailRows
  <1>3. UNCHANGED <<storeVars, unsubscribed, recent, job, accepted, late>>
    BY DEF WriteSent
  <1>4. RecentOK' /\ SentAccepted' /\ StoreOK' /\ JobsOK'
    BY <1>1, <1>2, <1>3 DEF MailInv, MailRows, RecentOK, SentAccepted, StoreOK, storeVars, JobsOK
  <1> DEFINE r == [MailerIdle EXCEPT !.pc = "next", !.todo = mailer[d].todo]
  <1>5. mailer' = [mailer EXCEPT ![d] = r]
    BY DEF WriteSent
  <1>6. r.pc = "next" /\ r \in MailerState
    <2>1. MailerIdle \in MailerState /\ mailer[d].todo \in SUBSET Mails
      BY MailerIdleOK DEF MailInv, MailersOK, MailerOK, MailerState
    <2> QED BY <2>1 DEF MailerState
  <1> HIDE DEF r
  <1>7. MailerOK(r, notice', accepted')
    BY <1>6 DEF MailerOK
  <1>8. MailersOK'
    BY <1>2, <1>3, <1>5, <1>7, MailerMoves DEF MailInv
  <1>9. LateOK'
    <2>1. Cardinality(Senders') <= Cardinality(Senders)
      BY <1>5, <1>6, SendersFewer DEF MailInv
    <2>2. /\ Cardinality(Senders) \in Nat /\ Cardinality(Senders') \in Nat /\ Cardinality(Mailers) \in Nat
      BY SomeMailers DEF Senders
    <2> QED BY <1>3, <2>1, <2>2 DEF MailInv, LateOK
  <1> QED BY <1>2, <1>4, <1>8, <1>9 DEF MailInv, MailRows

LEMMA NoticeDueStep ==
  ASSUME MailInv, NEW x \in Mails, NoticeDue(x)
  PROVE  MailInv'
PROOF
  <1> DEFINE n == [notice[x] EXCEPT !.due = TRUE]
  <1>1. NoticeOK(notice[x]) /\ notice[x] \in NoticeState /\ notice[x].status = "pending"
        /\ notice' = [notice EXCEPT ![x] = n]
    BY DEF MailInv, MailRows, NoticesOK, NoticeOK, NoticeDue
  <1>2. n \in NoticeState /\ n.status = "pending" /\ n.attempts = notice[x].attempts
    BY <1>1 DEF NoticeState
  <1> HIDE DEF n
  <1>3. NoticeOK(n)
    BY <1>1, <1>2 DEF NoticeOK
  <1>4. /\ NoticesOK' /\ \A y \in Mails : Posted(notice, y) => Posted(notice', y)
        /\ \A y \in Mails : notice'[y] = IF y = x THEN n ELSE notice[y]
    BY <1>1, <1>2, <1>3, NoticeChanges DEF MailInv, MailRows
  <1>5. UNCHANGED <<storeVars, unsubscribed, recent, job, mailer, accepted, late>>
    BY DEF NoticeDue
  <1>6. RecentOK' /\ SentAccepted' /\ StoreOK' /\ JobsOK'
    BY <1>2, <1>4, <1>5 DEF MailInv, MailRows, RecentOK, SentAccepted, StoreOK, storeVars, JobsOK
  <1>7. MailersOK' /\ LateOK'
    BY <1>4, <1>5, MailersStay DEF MailInv, LateOK, Senders
  <1> QED BY <1>4, <1>6, <1>7 DEF MailInv, MailRows

LEMMA DiesStep ==
  ASSUME MailInv, Dies
  PROVE  MailInv'
PROOF
  <1>1. ASSUME NEW e \in Enqueuers, job' = [job EXCEPT ![e] = JobIdle], UNCHANGED mailer PROVE MailInv'
    <2>1. StoreOK'
      BY DEF Dies, storeVars, MailInv, MailRows, StoreOK
    <2> QED BY <1>1, <2>1, JobIdleOK, JobAlone DEF Dies
  <1>2. ASSUME NEW d \in Mailers, mailer' = [mailer EXCEPT ![d] = MailerIdle], UNCHANGED job PROVE MailInv'
    BY <1>2, MailerIdleOK, MailerAlone DEF Dies
  <1> QED BY <1>1, <1>2 DEF Dies

LEMMA MailNextInv == MailInv /\ [NotificationsNext]_noticeVars => MailInv'
PROOF
  <1> SUFFICES ASSUME MailInv, [NotificationsNext]_noticeVars PROVE MailInv'
    OBVIOUS
  <1>1. ASSUME NEW w \in Scanners, ScanStep(w) PROVE MailInv'
    BY <1>1, ScanSteps, CountSteps, WriteRowStep DEF ScanStep, EnqueueStep, Enqueuers
  <1>2. ASSUME NEW o \in Others, EnqueueOther(o) \/ EnqueueStep(o) PROVE MailInv'
    BY <1>2, CountSteps, WriteRowStep DEF EnqueueStep, Enqueuers
  <1>3. ASSUME NEW d \in Mailers, MailStep(d) PROVE MailInv'
    BY <1>3, MailingSteps, SendMailStep, WriteSentStep DEF MailStep
  <1>4. CASE UNCHANGED noticeVars
    BY <1>4 DEF noticeVars, MailInv, MailRows, NoticesOK, StoreOK, RecentOK, SentAccepted, JobsOK, MailersOK,
                LateOK, Senders, storeVars
  <1> QED BY <1>1, <1>2, <1>3, <1>4, StoreSteps, NoticeDueStep, DiesStep DEF NotificationsNext

THEOREM MailInvariant == NotificationsSpec => []MailInv
  BY MailInitInv, MailNextInv, PTL DEF NotificationsSpec

\* The mail's rows keep their type, and only a mail that exists counts for the day.
THEOREM NotificationsTyped == NotificationsSpec => []NotificationsTypeOK
PROOF
  <1>1. NoNotice.status = "none"
    BY DEF NoNotice
  <1>2. MailInv => NotificationsTypeOK
    BY <1>1 DEF MailInv, MailRows, NoticesOK, NoticeOK, NoticeState, NoticeStatus, StoreOK, RecentOK, SentAccepted,
                NotificationsTypeOK
  <1> QED BY <1>2, MailInvariant, PTL

\* However much is queued and however many drains overlap, a customer who has
\* unsubscribed gets at most the mails that were being sent at that moment.
THEOREM LeftAlone == NotificationsSpec => []UnsubscribedIsLeftAlone
PROOF
  <1>1. ASSUME MailInv PROVE UnsubscribedIsLeftAlone
    <2>1. Cardinality(Senders) \in Nat /\ Cardinality(Mailers) \in Nat
      BY SomeMailers DEF Senders
    <2> QED BY <1>1, <2>1 DEF MailInv, LateOK, UnsubscribedIsLeftAlone
  <1> QED BY <1>1, MailInvariant, PTL

-----------------------------------------------------------------------------
(* The mail implements AtLeastOnce *)

MailTaken == {x \in Mails : notice[x] # NoNotice}
MailClosed == [x \in Mails |-> ClosedMail(x)]

LEMMA PostedIsTaken == ASSUME NoticesOK PROVE \A x \in Mails : x \in MailTaken <=> Posted(notice, x)
PROOF
  <1>1. NoNotice.status = "none"
    BY DEF NoNotice
  <1>2. \A x \in Mails : notice[x].status = "none" => notice[x] = NoNotice
    BY DEF NoticesOK, NoticeOK
  <1> QED BY <1>1, <1>2 DEF MailTaken, Posted

LEMMA NoticeClosed ==
  ASSUME MailInv, NEW x \in Mails, NEW n, n.status # "none", Posted(notice, x),
         n.status = "sent" => x \in accepted, notice' = [notice EXCEPT ![x] = n], accepted' = accepted
  PROVE  MailQueue!Next
PROOF
  <1>1. \A y \in Mails : notice'[y] = IF y = x THEN n ELSE notice[y]
    BY DEF MailInv, MailRows, NoticesOK
  <1>2. NoNotice.status = "none"
    BY DEF NoNotice
  <1>3. notice[x] # NoNotice /\ notice'[x] # NoNotice
    BY <1>1, <1>2 DEF Posted
  <1>4. MailTaken' = MailTaken /\ x \in MailTaken
    BY <1>1, <1>3 DEF MailTaken
  <1>5. PICK how \in {"open", "delivered", "given up"} : how = ClosedMail(x)'
    BY DEF ClosedMail
  <1>6. how = "delivered" => x \in accepted
    BY <1>1, <1>5 DEF ClosedMail
  <1>7. MailClosed' = [MailClosed EXCEPT ![x] = how]
    <2>1. \A y \in Mails : y # x => ClosedMail(y)' = ClosedMail(y)
      BY <1>1 DEF ClosedMail
    <2> QED BY <1>5, <2>1 DEF MailClosed
  <1>8. MailQueue!Close(x, how)
    BY <1>4, <1>6, <1>7 DEF MailQueue!Close, MailTaken, MailClosed
  <1> QED BY <1>8 DEF MailQueue!Next

\* A new row waits to be sent, or is turned down on the spot.
LEMMA NoticeTaken ==
  ASSUME MailInv, NEW x \in Mails, NEW n, notice[x] = NoNotice, n.status = "pending" \/ n.status = "suppressed",
         notice' = [notice EXCEPT ![x] = n], accepted' = accepted
  PROVE  MailQueue!Next
PROOF
  <1>1. \A y \in Mails : notice'[y] = IF y = x THEN n ELSE notice[y]
    BY DEF MailInv, MailRows, NoticesOK
  <1>2. NoNotice.status = "none"
    BY DEF NoNotice
  <1>3. x \notin MailTaken /\ MailTaken' = MailTaken \cup {x}
    <2>1. n # NoNotice
      BY <1>2
    <2> QED BY <1>1, <2>1 DEF MailTaken
  <1>4. \A y \in Mails : y # x => ClosedMail(y)' = ClosedMail(y)
    BY <1>1 DEF ClosedMail
  <1>5. CASE n.status = "pending"
    <2>1. ClosedMail(x) = "open" /\ ClosedMail(x)' = "open"
      BY <1>1, <1>2, <1>5 DEF ClosedMail
    <2>2. MailClosed' = MailClosed
      BY <1>4, <2>1 DEF MailClosed
    <2>3. MailQueue!Take(x)
      BY <1>3, <2>2 DEF MailQueue!Take, MailTaken, MailClosed
    <2> QED BY <2>3 DEF MailQueue!Next
  <1>6. CASE n.status = "suppressed"
    <2>1. ClosedMail(x)' = "given up"
      BY <1>1, <1>6 DEF ClosedMail
    <2>2. MailClosed' = [MailClosed EXCEPT ![x] = "given up"]
      BY <1>4, <2>1 DEF MailClosed
    <2>3. MailQueue!Refuse(x)
      BY <1>3, <2>2 DEF MailQueue!Refuse, MailTaken, MailClosed
    <2> QED BY <2>3 DEF MailQueue!Next
  <1> QED BY <1>5, <1>6

LEMMA NoticesUnchanged ==
  ASSUME notice' = notice PROVE UNCHANGED <<MailTaken, MailClosed>>
  BY DEF MailTaken, MailClosed, ClosedMail

LEMMA MailStepRefines ==
  ASSUME MailInv, [NotificationsNext]_noticeVars
  PROVE  MailQueue!Next \/ UNCHANGED <<MailTaken, accepted, MailClosed>>
PROOF
  <1> DEFINE Stutter == UNCHANGED <<MailTaken, accepted, MailClosed>>
  <1>1. ASSUME notice' = notice, accepted' = accepted PROVE Stutter
    BY <1>1, NoticesUnchanged
  <1>2. ASSUME NEW e \in Enqueuers, writeRow(e) PROVE MailQueue!Next \/ Stutter
    <2>1. PICK x \in Mails, s \in {"pending", "suppressed"} :
           \/ /\ notice[x] = NoNotice /\ recent' = recent \cup {x}
              /\ notice' = [notice EXCEPT ![x] = [status |-> s, attempts |-> 0, due |-> s = "pending"]]
           \/ UNCHANGED <<notice, recent>>
      BY <1>2, QueuedRow
    <2>2. accepted' = accepted
      BY <1>2 DEF writeRow
    <2>3. CASE UNCHANGED <<notice, recent>>
      BY <1>1, <2>2, <2>3
    <2>4. CASE notice[x] = NoNotice
               /\ notice' = [notice EXCEPT ![x] = [status |-> s, attempts |-> 0, due |-> s = "pending"]]
      <3>1. PICK n : n = [status |-> s, attempts |-> 0, due |-> s = "pending"]
        OBVIOUS
      <3>2. n.status = "pending" \/ n.status = "suppressed"
        BY <3>1, FreshRow
      <3>3. notice' = [notice EXCEPT ![x] = n]
        BY <2>4, <3>1, Zenon
      <3>4. notice[x] = NoNotice
        BY <2>4
      <3>5. MailQueue!Next
        BY <2>2, <3>2, <3>3, <3>4, NoticeTaken, Zenon
      <3> QED BY <3>5
    <2> QED BY <2>1, <2>3, <2>4
  <1>3. ASSUME NEW d \in Mailers, WriteSent(d) PROVE MailQueue!Next
    BY <1>3, SentRow, NoticeClosed DEF WriteSent
  <1>4. ASSUME NEW x \in Mails, NoticeDue(x) PROVE MailQueue!Next
    <2>1. notice[x] \in NoticeState /\ notice[x].status = "pending"
      BY <1>4 DEF NoticeDue, MailInv, MailRows, NoticesOK, NoticeOK
    <2>2. [notice[x] EXCEPT !.due = TRUE].status = "pending"
      BY <2>1 DEF NoticeState
    <2>3. notice' = [notice EXCEPT ![x] = [notice[x] EXCEPT !.due = TRUE]] /\ accepted' = accepted
      BY <1>4 DEF NoticeDue
    <2> QED BY <2>1, <2>2, <2>3, NoticeClosed DEF Posted
  <1>5. ASSUME NEW d \in Mailers, NEW o \in Replies, SendMail(d, o) PROVE MailQueue!Next \/ Stutter
    <2>1. PICK x \in Mails : x = mailer[d].mail /\ Posted(notice, x)
      BY <1>5 DEF SendMail, MailInv, MailersOK, MailerOK, Posted
    <2>2. UNCHANGED <<MailTaken, MailClosed>>
      BY <1>5, NoticesUnchanged DEF SendMail
    <2>3. accepted' = accepted \/ accepted' = accepted \cup {x}
      BY <1>5, <2>1 DEF SendMail
    <2>4. x \in MailTaken
      BY <2>1, PostedIsTaken DEF MailInv, MailRows
    <2>5. accepted' = accepted \cup {x} => MailQueue!Hear(x)
      BY <2>2, <2>4 DEF MailQueue!Hear, MailTaken, MailClosed
    <2> QED BY <2>2, <2>3, <2>5 DEF MailQueue!Next
  <1>6. ASSUME \/ \E r \in Requests : requestRestockAlert(r)
               \/ unsubscribeContact
               \/ \E v \in Variants : StockChanges(v)
               \/ \E x \in Mails : DayPasses(x)
               \/ Dies
               \/ UNCHANGED noticeVars
        PROVE  Stutter
    BY <1>1, <1>6 DEF requestRestockAlert, unsubscribeContact, StockChanges, DayPasses, Dies, noticeVars
  <1>7. ASSUME NEW w \in Scanners,
               ReadWaiting(w) \/ EndScan(w) \/ MarkNotified(w) \/ \E r \in Requests : CheckRequest(w, r)
        PROVE  Stutter
    BY <1>1, <1>7 DEF ReadWaiting, EndScan, MarkNotified, CheckRequest
  <1>8. ASSUME (\E o \in Others : EnqueueOther(o)) \/ (\E e \in Enqueuers : CountRecent(e)) PROVE Stutter
    BY <1>1, <1>8 DEF EnqueueOther, CountRecent
  <1>9. ASSUME NEW d \in Mailers, ReadDueNotices(d) \/ EndMailing(d) \/ \E x \in Mails : ReadNotice(d, x)
        PROVE  Stutter
    BY <1>1, <1>9 DEF ReadDueNotices, EndMailing, ReadNotice
  <1> QED BY <1>2, <1>3, <1>4, <1>5, <1>6, <1>7, <1>8, <1>9
          DEF NotificationsNext, ScanStep, EnqueueStep, MailStep, Enqueuers

\* No mail that was queued is lost, and none counts as sent that the provider
\* did not accept, whatever dies or overlaps.
THEOREM MailAtLeastOnce == NotificationsSpec => MailIsAtLeastOnce
PROOF
  <1>1. NotificationsInit => MailQueue!Init
    BY DEF NotificationsInit, MailQueue!Init, ClosedMail, NoNotice
  <1>2. MailInv /\ [NotificationsNext]_noticeVars
        => [MailQueue!Next]_<<{x \in Mails : notice[x] # NoNotice}, accepted, [x \in Mails |-> ClosedMail(x)]>>
    BY MailStepRefines DEF MailTaken, MailClosed
  <1> QED BY <1>1, <1>2, MailInvariant, PTL DEF NotificationsSpec, MailIsAtLeastOnce, MailQueue!Spec
=============================================================================
