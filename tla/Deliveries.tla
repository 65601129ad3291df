----------------------------- MODULE Deliveries -----------------------------
(***************************************************************************)
(* The outgoing webhooks (src/lib/webhooks): callers insert a row for each *)
(* subscribed endpoint, and the ticks of the scheduler send what is due.   *)
(* A tick reads the due rows without claiming them, looks at each row once *)
(* more before it sends, and writes the outcome by id alone.               *)
(***************************************************************************)
EXTENDS Naturals, FiniteSets

CONSTANTS
  Hooks,       \* endpoints registered by the merchant
  Calls,       \* calls of enqueueWebhookEvent and presses of "send a test event"
  CallMixes,   \* what they may be about: functions from some calls to [event, about]
  Ticks,       \* overlapping runs of drainDueDeliveries
  Merchants,   \* dashboards from which deliveries are retried
  MAX_DELIVERY_ATTEMPTS,
  MaxRetries,  \* bound: how often the merchant retries
  MaxFaults,   \* bound: how often a process dies or an insert throws
  Ops

ASSUME DeliveriesAssumption ==
  /\ \A mix \in CallMixes : DOMAIN mix \subseteq Calls
  /\ MAX_DELIVERY_ATTEMPTS \in Nat \ {0} /\ MaxRetries \in Nat /\ MaxFaults \in Nat

\* The unique index identifies a row by endpoint, event and sale; a test event
\* has no sale and every press makes a row of its own: it is about itself.
Messages == Hooks \X UNION {{mix[c] : c \in DOMAIN mix} : mix \in CallMixes}
NoRow == [status |-> "none", attempts |-> 0, due |-> FALSE]

VARIABLES
  call,      \* what each call is about
  active,    \* endpoints whose status is "active"
  row,       \* webhook_deliveries, per message
  caller,    \* each enqueueing call: [pc, todo]
  tick,      \* each drain under way
  hand,      \* the row each merchant has read in order to retry it
  retries, faults,
  heard,     \* messages the endpoint has accepted with a 2xx
  tries,     \* history: requests sent for each message since it was last queued
  overlap    \* history: messages retried while a drain was still sending them

deliveryVars == <<call, active, row, caller, tick, hand, retries, faults, heard, tries, overlap>>
history == <<heard, tries, overlap>>

NoMessage == <<"none", "none">>
TickIdle == [pc |-> "idle", todo |-> {}, m |-> NoMessage, seen |-> NoRow, outcome |-> "none"]

DeliveriesInit ==
  /\ call \in CallMixes
  /\ active \in SUBSET Hooks
  /\ row = [m \in Messages |-> NoRow]
  /\ caller = [c \in Calls |-> [pc |-> "idle", todo |-> {}]]
  /\ tick = [t \in Ticks |-> TickIdle]
  /\ hand = [x \in Merchants |-> NoMessage]
  /\ retries = 0 /\ faults = 0
  /\ heard = {}
  /\ tries = [m \in Messages |-> 0]
  /\ overlap = {}

Pending == [status |-> "pending", attempts |-> 0, due |-> TRUE]
Faulty == faults < MaxFaults /\ faults' = faults + 1

-----------------------------------------------------------------------------
(* enqueueWebhookEvent and enqueueTestDelivery *)

ReadHooks(c) ==
  /\ c \in DOMAIN call /\ call[c].event # "test"
  /\ caller[c].pc = "idle"
  /\ caller' = [caller EXCEPT ![c] = [pc |-> "insert", todo |-> active]]
  /\ UNCHANGED <<call, active, row, tick, hand, retries, faults, history>>

\* onConflictDoNothing.
Inserted(m) == [row EXCEPT ![m] = IF @ = NoRow THEN Pending ELSE @]

InsertRow(c, h) ==
  LET m == <<h, call[c]>> IN
  /\ caller[c].pc = "insert" /\ h \in caller[c].todo
  /\ row' = Inserted(m)
  /\ caller' = [caller EXCEPT ![c].todo = @ \ {h}]
  /\ UNCHANGED <<call, active, tick, hand, retries, faults, history>>

Enqueued(c) ==
  /\ caller[c].pc = "insert" /\ caller[c].todo = {}
  /\ caller' = [caller EXCEPT ![c].pc = "done"]
  /\ UNCHANGED <<call, active, row, tick, hand, retries, faults, history>>

\* The insert throws, or the caller dies: its call site logs it at most.
EnqueueFails(c) ==
  /\ "throw" \in Ops /\ Faulty
  /\ caller[c].pc = "insert"
  /\ caller' = [caller EXCEPT ![c] = [pc |-> "done", todo |-> {}]]
  /\ UNCHANGED <<call, active, row, tick, hand, retries, history>>

\* Whether the endpoint is active does not matter here.
SendTest(c, h) ==
  /\ c \in DOMAIN call /\ call[c].event = "test"
  /\ caller[c].pc = "idle"
  /\ row' = [row EXCEPT ![<<h, call[c]>>] = Pending]
  /\ caller' = [caller EXCEPT ![c].pc = "done"]
  /\ UNCHANGED <<call, active, tick, hand, retries, faults, history>>

-----------------------------------------------------------------------------
(* drainDueDeliveries and attemptDelivery *)

DueRows == {m \in Messages : row[m].status = "pending" /\ row[m].due}

ReadDue(t) ==
  /\ tick[t].pc = "idle" /\ DueRows # {}
  /\ tick' = [tick EXCEPT ![t].pc = "next", ![t].todo = DueRows]
  /\ UNCHANGED <<call, active, row, caller, hand, retries, faults, history>>

\* A row that is no longer pending is skipped; whether it is due is not asked again.
ReadRow(t, m) ==
  /\ tick[t].pc = "next" /\ m \in tick[t].todo
  /\ \/ /\ row[m].status = "pending"
        /\ tick' = [tick EXCEPT ![t].pc = "hook", ![t].todo = @ \ {m}, ![t].m = m, ![t].seen = row[m]]
     \/ /\ row[m].status # "pending"
        /\ tick' = [tick EXCEPT ![t].todo = @ \ {m}]
  /\ UNCHANGED <<call, active, row, caller, hand, retries, faults, history>>

EndDrain(t) ==
  /\ tick[t].pc = "next" /\ tick[t].todo = {}
  /\ tick' = [tick EXCEPT ![t] = TickIdle]
  /\ UNCHANGED <<call, active, row, caller, hand, retries, faults, history>>

\* A disabled endpoint, or one whose address is no longer allowed, is not called.
ReadHook(t) ==
  LET h == tick[t].m[1] IN
  /\ tick[t].pc = "hook"
  /\ tick' = [tick EXCEPT ![t].pc = IF h \in active THEN "send" ELSE "write",
                          ![t].outcome = IF h \in active THEN "none" ELSE "disabled"]
  /\ UNCHANGED <<call, active, row, caller, hand, retries, faults, history>>

\* The endpoint: accepts, rejects (4xx), fails (5xx or no connection), or
\* accepts and its answer is lost.
Outcomes == {"2xx", "4xx", "5xx", "timeout"}

Send(t, o) ==
  /\ tick[t].pc = "send" /\ o \in Outcomes \cap Ops
  /\ tick' = [tick EXCEPT ![t].pc = "write", ![t].outcome = o]
  /\ heard' = IF o \in {"2xx", "timeout"} THEN heard \cup {tick[t].m} ELSE heard
  /\ tries' = [tries EXCEPT ![tick[t].m] = @ + 1]
  /\ UNCHANGED <<call, active, row, caller, hand, retries, faults, overlap>>

\* Faulty variant: one attempt fewer.
hasExhaustedRetriesEarly(n) == n >= MAX_DELIVERY_ATTEMPTS - 1
hasExhaustedRetries(n) == n >= MAX_DELIVERY_ATTEMPTS

\* Faulty variant: a rejection counts as delivered.
AfterDeliveredUnless5xx(seen, o) ==
  [seen EXCEPT !.attempts = @ + 1, !.status = IF o \in {"5xx", "timeout"} THEN "pending" ELSE "delivered", !.due = FALSE]

\* What the tick writes, from the row it read and the outcome.
After(seen, o) ==
  LET n == seen.attempts + 1 IN
  CASE o = "disabled"          -> [seen EXCEPT !.status = "failed", !.due = FALSE]
    [] o = "2xx"               -> [status |-> "delivered", attempts |-> n, due |-> FALSE]
    [] o = "4xx"               -> [status |-> "failed", attempts |-> n, due |-> FALSE]
    [] o \in {"5xx", "timeout"} /\ hasExhaustedRetries(n) ->
                                  [status |-> "exhausted", attempts |-> n, due |-> FALSE]
    [] OTHER                   -> [seen EXCEPT !.attempts = n, !.due = FALSE]

\* A disabled endpoint's row keeps its count, a retried row its status: those
\* columns are not written.
Write(t) ==
  LET m == tick[t].m
      after == After(tick[t].seen, tick[t].outcome)
  IN
  /\ tick[t].pc = "write"
  /\ row' = [row EXCEPT ![m] =
       IF after.status = "pending" THEN [after EXCEPT !.status = row[m].status]
       ELSE IF tick[t].outcome = "disabled" THEN [after EXCEPT !.attempts = row[m].attempts] ELSE after]
  /\ tick' = [tick EXCEPT ![t].pc = "next", ![t].m = NoMessage, ![t].seen = NoRow, ![t].outcome = "none"]
  /\ UNCHANGED <<call, active, caller, hand, retries, faults, history>>

\* The shortest backoff is a minute and a request is cut off after ten seconds:
\* nobody is still sending a row when its backoff ends.
BackoffEnds(m) ==
  /\ row[m].status = "pending" /\ ~row[m].due
  /\ \A t \in Ticks : tick[t].m # m
  /\ row' = [row EXCEPT ![m].due = TRUE]
  /\ UNCHANGED <<call, active, caller, tick, hand, retries, faults, history>>

\* The platform stops the process; nothing was claimed, so nothing is stuck.
TickDies(t) ==
  /\ "crash" \in Ops /\ Faulty
  /\ tick[t].pc # "idle"
  /\ tick' = [tick EXCEPT ![t] = TickIdle]
  /\ UNCHANGED <<call, active, row, caller, hand, retries, history>>

-----------------------------------------------------------------------------
(* The merchant *)

\* setMerchantWebhookStatus.
ToggleHook(h) ==
  /\ "toggle" \in Ops
  /\ active' = IF h \in active THEN active \ {h} ELSE active \cup {h}
  /\ UNCHANGED <<call, row, caller, tick, hand, retries, faults, history>>

ReadForRetry(x, m) ==
  /\ hand[x] = NoMessage /\ retries < MaxRetries
  /\ row[m].status \in {"failed", "exhausted"}
  /\ hand' = [hand EXCEPT ![x] = m]
  /\ retries' = retries + 1
  /\ UNCHANGED <<call, active, row, caller, tick, faults, history>>

\* Puts the row back whatever it has become since.
Retry(x) ==
  LET m == hand[x] IN
  /\ m # NoMessage
  /\ row' = [row EXCEPT ![m] = Pending]
  /\ hand' = [hand EXCEPT ![x] = NoMessage]
  /\ tries' = [tries EXCEPT ![m] = 0]
  /\ overlap' = IF \E t \in Ticks : tick[t].m = m THEN overlap \cup {m} ELSE overlap \ {m}
  /\ UNCHANGED <<call, active, caller, tick, retries, faults, heard>>

-----------------------------------------------------------------------------
CallerStep(c) == ReadHooks(c) \/ Enqueued(c) \/ \E h \in Hooks : InsertRow(c, h)

SomeSend(t) == \E o \in Outcomes : Send(t, o)

TickStep(t) ==
  \/ ReadDue(t) \/ EndDrain(t) \/ ReadHook(t) \/ SomeSend(t) \/ Write(t)
  \/ \E m \in Messages : ReadRow(t, m)

DeliveriesNext ==
  \/ \E c \in Calls : CallerStep(c) \/ EnqueueFails(c) \/ \E h \in Hooks : SendTest(c, h)
  \/ \E t \in Ticks : TickStep(t) \/ TickDies(t)
  \/ \E m \in Messages : BackoffEnds(m) \/ \E x \in Merchants : ReadForRetry(x, m)
  \/ \E x \in Merchants : Retry(x)
  \/ \E h \in Hooks : ToggleHook(h)

\* The scheduler keeps calling, and time passes.
DeliveriesFairness ==
  /\ \A t \in Ticks : WF_deliveryVars(TickStep(t))
  /\ \A m \in Messages : WF_deliveryVars(BackoffEnds(m))

DeliveriesSpec == DeliveriesInit /\ [][DeliveriesNext]_deliveryVars /\ DeliveriesFairness

-----------------------------------------------------------------------------
DeliveriesTypeOK ==
  /\ active \subseteq Hooks
  /\ \A m \in Messages :
       /\ row[m].status \in {"none", "pending", "delivered", "failed", "exhausted"}
       /\ row[m].attempts \in 0..MAX_DELIVERY_ATTEMPTS
       /\ row[m].due => row[m].status = "pending"

\* Nobody gives up on an endpoint that was called fewer times than the schedule
\* says, whatever drains overlap, unless a drain was sending it during the retry.
GivenUpAfterAllAttempts ==
  \A m \in Messages \ overlap :
    row[m].status = "exhausted" => tries[m] >= MAX_DELIVERY_ATTEMPTS

\* The queue is at least once: a row is marked delivered only after the endpoint
\* has accepted it, and no row is ever lost.
Closed(m) ==
  CASE row[m].status = "delivered" -> "delivered"
    [] row[m].status \in {"failed", "exhausted"} -> "given up"
    [] OTHER -> "open"

Queue == INSTANCE AtLeastOnce WITH
  taken <- {m \in Messages : row[m] # NoRow}, closed <- [m \in Messages |-> Closed(m)]

QueueIsAtLeastOnce == Queue!Spec
=============================================================================
