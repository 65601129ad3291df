# ThirdMan: the money gate and the life of a payment, in TLA+

ThirdMan lets software agents spend a merchant's customers' money under limits
that code, never a model, enforces. Every purchase goes through one function,
`attemptMoneyAction` in `src/src/lib/gate.ts`, which reserves budget and stock,
records the action, calls Razorpay, and commits or releases. Everything runs in
short serverless handlers against one Postgres database: there are no locks, no
workers and almost no transactions, so correctness rests on what each single SQL
statement re-checks. That is what these modules model: *which statement runs
when, what it looks at, and what may happen in between.*

Paths below are relative to the repository; `gate.ts` is `src/src/lib/gate.ts`.

## The system

| Component | State | Operations | Interacts with |
|---|---|---|---|
| Money gate (`gate.ts` 79-1364) | `money_actions`, `spend_caps.spent_paise`, `product_variants.stock`, `escalations`, `reward_coin_ledger` | `attemptMoneyAction`, `executeAndSettle` | everything that spends: checkout, agent API, MCP, chat, recovery, AI credits |
| Spend caps (`dashboard-mutations.ts` 37-76) | `spend_caps` | `setSpendCap`; lazy expiry in `checkBounds` | gate, refunds and sweep look up "the latest cap" |
| Escalations (`gate.ts` 1366-1473, `notifications/expiry.ts`) | `escalations.outcome` | `resolveEscalation`, `expirePendingEscalations` | executes or releases what the gate reserved |
| Reservation sweep (`gate.ts` 1863-1936) | `reservation_expires_at` | `sweepAbandonedReservations` | races the executor of the row |
| Settlement (`gate.ts` 1478-1801) | `money_actions.status`, Razorpay's payment | `confirmCapture`, `captureHeldPayment`, `issueRefund` | checkout verification, Razorpay webhook, dashboard, returns desk |
| Escrow (`escrow.ts`) | `escrow_holds` | `sweepExpiredHolds` | refunds through `issueRefund` |
| Razorpay client (`razorpay.ts`) | outside | order, link, capture, refund, each raced with a 15 s timer | gate, settlement |
| Incoming webhook and checkout verification (`app/api/webhooks/razorpay`, `app/api/checkout/verify`) | `webhook_events`, `payment_failures`, `treasury_ledger`, coins | claim an event id, confirm, then issue coins, fund the treasury, queue the notice | settlement, treasury, rewards, recovery intake, outgoing webhooks |
| Guardian and kill switch (`guardian.ts`) | `agent_guardian_state`, `merchant_freezes`, `agent_freeze_snapshots` | evaluate, sweep, re-arm, freeze, unfreeze | the gate asks it before each purchase |
| Task runtime and recovery (`runtime/`, `recovery/`) | `agent_tasks`, `payment_failures`, `recovery_attempts` | create, claim with a lease, step, reschedule, cancel, retry; diagnose, attempt, write off, confirm | recovery links go through the gate |
| Outgoing webhooks (`webhooks/`) | `webhook_deliveries` | enqueue once, drain, deliver, back off, retry, disable | settlement enqueues |
| Notifications and restock requests (`notifications/`, `restock.ts`, `contacts.ts`) | `notification_deliveries`, `restock_requests`, `contacts` | enqueue under a cap, drain, unsubscribe, scan the shelf | recovery, returns and stock enqueue |
| Negotiation (`negotiation.ts`) | `negotiations` | open, counter, agree, redeem | gives the gate a price |
| Returns desk (`returns-desk*.ts`) | `return_requests` | open, talk, approve, reject, expire | refunds through `issueRefund` |
| Shadow mode, agents | `merchant_shadow_mode`, `agents.status` | toggle, suspend | read at the start of an attempt |
| Cron (`app/api/cron/run/route.ts`) | none | starts every sweep and drain each minute | stops waiting after 5 s; the jobs run on |
| Dashboard, chat, MCP server, accounts, CLI, imports, audit log | their own tables | reads, I/O, access control | callers of the above |

`PROJECT.json` lists each with what is modelled of it.

What is hard here, and what makes a component correct:

* *Gate.* Attempts interleave statement by statement; reservations precede the
  row that stands for them; processes die; a repeat with the same idempotency key
  may arrive at any moment. Correct means: no cap or variant is overspent, no
  reservation is lost or given back twice, one key creates one order, and the
  caller is told the truth.
* *Escalations and sweep.* Several handlers may settle the same row. Correct
  means a row is settled once and what it held comes back exactly if it failed.
* *Settlement.* Two signals confirm one payment; captures, refunds, and the
  sweep of expired holds overlap; Razorpay may act and the reply be lost. Correct
  means the books follow the money and no buyer's money stays held for ever.
* *Inbox.* An event id is claimed before the work it stands for, and the browser
  reports the same payment. Correct means that each effect of a sale happens, once.
* *Guardian.* State is read, signals are computed by a dozen queries, and then the
  next state is written over whatever is there. Correct means that a frozen agent
  stays stopped and gets back what it had.
* *Runtime and recovery.* Leases expire under a slow runner; a link may be paid
  while its failure is being written off. Correct means that a customer is not
  pestered, a recovered sale was paid, and an ended task stays ended.
* *Queues.* Drains do not claim and write their outcomes without looking at the row
  again. Correct means at least once, never after an unsubscribe, and no early end.
* *Desks.* A row is read, a model or Razorpay is called, and the row is written by
  id. Correct means: never below the floor, sold and refunded once, as decided.

## The modules

| Module | Models |
|---|---|
| `Ledger` | The two resources and the four UPDATEs of `gate.ts` 674-727 that move them, each one atomic action: `reserveBudget`, `releaseBudget`, `reserveStock`, `releaseStock`. `holds` is a history variable: what each row was charged and not given back. |
| `ResourceLedger` | Abstract: resources of fixed capacity of which holders take what is left and give back what they hold. |
| `Gate` | `attemptMoneyAction`, `executeAndSettle`, the reservation sweep, `resolveEscalation`, `setSpendCap` and the world around them. Extends `Ledger`; implements `ResourceLedger`. |
| `Settlement` | What happens to an executed row once the buyer pays. Extends `Ledger`; its initial states are those `Gate` reaches with executed rows. |
| `Treasury`, `Inbox` | The split of a capture; the two signals of a payment, the event table, and the effects of a capture one by one. `Inbox` implements `OnceEffects`. |
| `OnceEffects` | Abstract: a sale settles at most once and gets the row of each effect at most once, after it has settled. Both are counters, so a second row is a step it does not allow. |
| `Recovery` | The recovery pipeline and the tasks that drive it: leases, attempts, the gate's key, links, their payment. |
| `Guardian` | Evaluations, the sweep, re-arming, freeze and unfreeze. |
| `Deliveries`, `Notifications` | The two outgoing queues. Both implement `AtLeastOnce`. |
| `AtLeastOnce` | Abstract: a queue that calls a message delivered only when its receiver has accepted it, may give it up, and never loses one. |
| `Negotiation`, `Returns` | The two desks a buyer can turn to. |
| `MCGate`, `MCSettlement`, `MCRecovery`, `MCGuardian`, `MCInbox`, `MCDeliveries`, `MCDesks` | Small instances for the `.cfg` files. `MCDeliveries` holds two components and `MCDesks` three (both desks and `Recovery`) that share no state: a behaviour is about one of them. |
| `Ledger_proofs`, `Gate_proofs`, `Settlement_proofs`, `Inbox_proofs`, `Recovery_proofs`, `Guardian_proofs`, `Queues_proofs`, `Desks_proofs` | The proofs. |

### State and actions

One action is one statement or one outside call, with the code up to the next
`await`. Statements run under READ COMMITTED: an `UPDATE ... WHERE` that re-checks
its own row is atomic, because Postgres locks the row and evaluates the condition
again; a SELECT and a later UPDATE are two actions. A time is modelled by whether
it has passed. `Ops` says what may happen in an instance besides the calls
themselves.

**Gate.** An attempt is named after the `money_actions` row it inserts, so `Rows`
stands for both. `pc[p]` is the next statement of process `p`, `undo[p]` the grants
it has to give back if it fails (first the budget, then line by line), `row[p]` and
`cap[p]` what it works on. A variant purchase, a negotiated price, an offer's
bundle and a cart differ to the gate only in their list of lines, and so they do
here. Merged with care:

* `Begin` takes the shadow-mode read and the key lookup (1053-1071) as one step:
  they read different tables, and nothing is decided between them that a later
  step does not read again.
* `checkBounds` reads several tables in one step. None of its results is trusted
  later: budget, stock and the unique index are re-checked by the statement that
  takes them. The reads nothing re-checks (agent, agreed price, shadow mode)
  concern one table each, so the step stands for the moment of that read.
  Bounds that only read and are not modelled (terms, credentials, price match)
  are one unconditional deny.
* `InsertOrReplay` includes the cart snapshot and the risk model's call before it,
  neither of which touches modelled state; the risk layer may answer anything.
* The coin redemption (865-876) is an `INSERT ... SELECT` over a sum with no row to
  lock, so it takes two actions, `SumBalance` and `SettleCoins`.

A query that fails is taken not to have been applied (`ExecutionThrows` inside
`executeAndSettle`'s try, `QueryThrows` elsewhere, `HandlerThrows`). Coins are
worth one unit of money each. `logAuditEntry` swallows its own errors, so audit
writes are left out, and so are trace spans.

**Settlement.** `call[p]` is what a confirmation, a capture or a refund has in hand;
`refunded[r]` is what Razorpay has given back, `payment[r]` how far it has captured.
`ConfirmCapture` joins the read with the conditional UPDATE (1536-1540), which
decides alone. Captures and refunds ask for the row's status alone, as the code does,
whoever calls them: between the UPDATE and the hold's INSERT (1559) the returns desk
may refund a held row and a merchant capture it. `disturbed` is a history variable:
rows a process died over, a reply was lost for, whose capture met a refund, or of
whose hold a part was refunded. For these the code makes fewer promises, see below.
`late` is another: rows whose hold was inserted when they were no longer held.

**Inbox.** A `post` is one HTTP request: it claims the event's id, confirms, and
then runs the three effects, each in its own try block. Razorpay redelivers an
event until it is answered. Rows are counted (`coins`, `rows`, `notices`), never kept
as sets: an insert its unique index does not stop adds one. An issuance goes through
the gate and is two inserts, the `money_actions` row under the key `reward_issue:<id>`,
whose finder replays it, and the coins, which nothing guards. `splits` remembers which
settings funded a sale, `captured` how often it was captured, and `cut` which
issuances ended between their two rows.

**Recovery.** A runner is a tick of the scheduler or a merchant's click; both run
`runRecoveryForFailure` statement by statement. What a diagnosis concludes is a
choice, remembered in the row as the code does. `keys` and `sent` stand for the
gate: a key it has seen is replayed and sends nothing. `overrun` remembers tasks
whose lease lapsed under a live runner.

**Guardian.** `eval[p]` is what an evaluation has read, `hand[m]` what a merchant's
call has. The two kill-switch transactions read under READ COMMITTED and write at
commit, so each is a read step and a commit step. The eight signals are one
Boolean per agent. `raced`, `rearmed` and `before` are history variables.

**Deliveries and Notifications.** A tick reads the due rows, looks at each once
more, sends, and writes the outcome by id, in four steps. `heard` and `accepted`
stand for the receivers; `tries`, `overlap` and `late` are history variables. A scan
for restocked variants reads at most `ScanLimit` waiting requests, any of them, and
looks at the stock only afterwards (`restock.ts` 71-88).

**Negotiation and Returns.** `buyerCall`, `buy`, `opener` and `decider` hold what each
call has read; the write is a step of its own. A charged purchase may die before it has marked its negotiation redeemed, or
the mark may throw (`Interrupted`, `gate.ts` 1346-1362 and 1468-1470): the negotiation is
then sold and still agreed. `causes` counts, per negotiation, these deaths and each time
somebody took up what another had in hand; `disturbed` remembers the requests two
deciders had in hand at once. The refund of a return is `issueRefund`,
modelled in full in `Settlement`: here only what it does to payment and purchase.

## What is checked

Each property of a passing run is also broken by a mutant of the code
(`PROJECT.json`, the operators marked "Faulty variant"): a property that no slip
in the code could violate would say nothing. Deadlock is not checked: calls end,
and so may the system.

| Run | Instance | What it shows |
|---|---|---|
| `crash` | Three attempts that may die at any statement and two overlapping sweeps. | The cap holds (`CommittedWithinCap`), a failed row holds nothing at rest (`SweepReleasesAnything`), and what an abandoned row held comes back (`AbandonedIsReclaimed`). |
| `escalation` | Two attempts of nine requests: orders, a bundle asked for in both orders of its lines, a hold, a link, a redemption, an issuance, a dry run, a negotiated price, shared keys. Razorpay may refuse or answer late, any attempt may be escalated, two handlers approve and reject at once, the agent is suspended and shadow mode toggled meanwhile. | `TypeOK`. At rest budget and stock are what live rows account for (`LedgerMatchesRows`), callers are told the truth (`AnswersAreTrue`), a row is settled once (`RowsSettleOnce`) and is then what was decided: released if rejected, executed as asked or released if approved (`ResolutionsAreTrue`). Every attempt ends (`EveryAttemptEnds`). |
| `failures` | Two attempts and a handler, failing queries and dying processes everywhere, a cap that lapses and is replaced (`MaxCaps` 2). | Executed rows stay within the cap they were charged to (`ExecutedWithinCap`; an allowed row may by then hold nothing, so `CommittedWithinCap` does not hold), one key makes one thing (`OneArtifactPerKey`), and budget and stock implement `ResourceLedger` (`ReservationsAreLedger`): what leaks stays charged, and without a sweep nothing is given back twice. |
| `settlement` | Two sales, both signals, two merchants (or the returns desk) that capture and refund in full and in part, the escrow sweep; no fault or two. | `BooksFollowRefunds`, `OneHoldPerRow`, holds and rows agree but for late holds (`HoldsTellTheTruth`), budget and stock come back only as far as Razorpay refunded (`ReleasedOnlyIfRefunded`), `RefundedStaysFailed`, and overdue holds, late ones too, are resolved (`ExpiredHoldsAreResolved`). |
| `tasks` | One failure, two overlapping ticks, one merchant who cancels and retries, one crash, exception or lapsed lease; nobody pays and the recovery agent exists (both are in `desks`). | `ClaimsAreExclusive`, `EndedTasksStayEnded`, `EveryTaskEnds`. |
| `guardian` | One agent that registers later, a request, a sweep, two merchants. | `FrozenAgentsStayStopped`, `UnfreezeRestores`, an agent that keeps breaching is stopped (`BreachingAgentIsStopped`). |
| `inbox` | One sale of six paise, two events of one payment (captured and paid, or captured and failed), two requests at once and the browser, one change of settings, one fault. | `NeverOverFunded`, each row at most once and after the capture (`EffectsHappenOnce`, refinement of `OnceEffects`), notice, shares and coins all arrive (`CaptureIsCompleted`; the coins except where the fault hit between the issuance's two inserts). |
| `refused`, `coins`, `caps` | One refused payment, no faults. Two redemptions of two coins for a balance of three. Two handlers that set a cap. | Expected to fail: `RefusedPaymentIsQueued`, `BalanceNeverNegative`, `OneActiveCap`, see below. |
| `deliveries` | Webhooks: one endpoint, two callers of one event or a test event, two ticks, two attempts, one retry, one fault. Mail: one restock request, another notice, a scanner, a drain, one mail a day, two attempts, one death. Crowd: two requests for two variants that come and go, and a scan that reads one. | `GivenUpAfterAllAttempts`, `QueueIsAtLeastOnce` (refinement of `AtLeastOnce`), `UnsubscribedIsLeftAlone`, `RestockIsAnnounced` (once no more requests wait than a scan reads). |
| `desks` | Negotiation: one row, two calls and two purchases at once that may be denied or die, two prices and floors, one edit by the merchant, three counters allowed and four made, three sales. Returns: two requests of one purchase of two units of money, two deciders, the sweep, one fault. Recovery: one failure of three possible sizes, one tick and one click, two possible recovery agents, links that are refused, paid late, or confirmed by a webhook that dies. | `NeverBelowFloor`, one sale and one more for each overlap or death (`EverySaleHasACause`), `ApprovedMeansRefunded`, `RefundedForOneRequest`, `DecisionsStand`, links stay within the limits (`RecoveryWithinMeans`), recovered means paid (`RecoveredMeansPaid`), a success is final (`SucceededIsFinal`). |

### The runs that are expected to fail

`refused`: `recovery/intake.ts` 37 inserts with `ON CONFLICT` on the columns of a
*partial* unique index without repeating its predicate. Postgres finds no matching
index and refuses the statement, so a refused payment never enters the recovery
queue, which the route's comment says it does.

`coins`: `gate.ts` 852-857 says that of two redemptions racing for one balance exactly
one INSERT affects a row and "the balance can never go negative". The INSERT re-sums
the ledger in its own statement, but there is no row to lock, and under READ COMMITTED
neither statement sees the other's row before it is committed. Both insert.

`caps`: `dashboard-mutations.ts` 48-50 revokes so that old caps "don't linger as stale
active rows". Revoking and inserting are two statements: both calls revoke, then both
insert, and two caps are in force. (Readers take the latest of them.)

The three are the `findings` of `PROJECT.json`.

### Other disagreements

Found while modelling; those with operations in the last column were found by TLC,
with these added to a passing run. They have no run of their own.

The gate:

| Claim | What the code does | `Ops` |
|---|---|---|
| `gate.ts` 1864 "releases anything still holding budget and stock" | Rows claimed beyond `limit` are failed, never released (1896) | `crash`, `sweep`, `SweepLimit` below the expired rows |
| 1015-1017 "commits or releases the reservation" | A query failing before the insert denies and leaks (1351-1362) | `throw` |
| 1865-1867 "the one gap" is after the row is inserted | Reservations precede the row (1138, 1289) | `crash` |
| a settled row stays settled | The executor's final UPDATE is unconditional: a swept row is committed over | `slow`, `sweep` |
| 1342 "redeemed at most once" | Two attempts both see the price agreed; one that dies or throws after executing leaves it agreed (1346-1362). `EverySaleHasACause` counts both | a request with a deal, two attempts; `Negotiation` |
| 1050 "no money action can execute while shadow mode is on" | An escalation approved later executes | `shadow`, `escalate`, `approve` |
| 575 "Revoked agents can never transact" | Same path | `agent`, `escalate`, `approve` |
| an approval executes what was asked for | An escalated hold, once approved, is an ordinary order that captures at once (1447) | `escalate`, `approve` |
| 86 "A repeat with the same key returns the original outcome" | While the first call executes, a repeat is told allow (1025) | a shared key, `decline` |
| `gate.reservation-sweep.test.ts` 233 "released exactly once" | Dying or failing between release and failing the row (981-992) leaves it allowed: the sweep releases it again | `decline`, `crash` or `throw`, `sweep` |
| `gate.ts` 843 "releases the reservation, same as any other path" | A failure after the coins are debited denies and keeps them | redemption, `throw` |
| `webhooks/razorpay/route.ts` 163 "not possible via any code path here" | A reply lost to the timer orphans the order | `lost_reply` |

Settlement:

| Claim | What the code does | `Ops` |
|---|---|---|
| `gate.ts` 1753-1758 refunded is "same terminal state as a failed execution" | A racing capture writes captured over it (1635) | `capture`, `refund`, two merchants |
| `escrow.ts` 43 "never lets one sit past its expiry" | A refund whose reply was lost cannot be repeated | `overdue`, `lost_reply` |
| same | A crash between marking the row held and inserting the hold leaves money without a deadline (1554) | `crash` |
| `escrow.ts` 43 "expired unresolved" | Holds captured after the select are refunded too | `capture`, `overdue` |
| `gate.ts` 1555 "stops a hold from stranding" | A partial refund of a held payment closes its hold | `partial_held` |
| an open hold is on a held payment | Captured or refunded before its hold is inserted (1559), a row has an open hold no more call closes but the sweep: for a captured row that refunds a sale the merchant had released, for a row refunded in part before that it fails each time | `capture` or `refund`, `overdue` |
| a refund goes back where it was charged | It is credited to the latest cap (1728-1740) | `MaxCaps` 2 |

The other components:

* *Recovery.* A `not_yet` answer of the policy may write a failure off (`policy.ts`
  107). Two concurrent first uses provision two recovery agents (`sequencer.ts` 419):
  no index keeps them to one. A slow runner re-opens a failure that was recovered
  meanwhile (183). A link paid before its id is saved is dropped (282, 374). Two
  overlapping `retryTask` calls resurrect a task that has ended again (281-301), which
  is why two theorems assume one merchant. A reschedule by a runner whose lease has
  lapsed frees a task another tick holds (`tasks.ts` 217).
* *Guardian.* A stale evaluation writes throttled over suspended. A suspension by the
  Guardian during a freeze is lost on unfreezing. Agents registered after a freeze
  are not stopped. Two overlapping unfreezes with a new freeze between them leave an
  orphaned snapshot, on which every later freeze fails.
* *Inbox.* With two faults a captured sale may lose an effect for good. One suffices
  for the coins: a death or a failing query after the issuance's row is inserted and
  before its coins are (`gate.ts` 861-876) is never made up for, as every repeat finds
  the row (`cut`). An issuance the gate denies or escalates is dropped the same way
  until a repeat. Settings
  changed between the three inserts of one funding mix two splits; `treasury.ts`
  127-128 says "in one transaction", which it is not.
* *Deliveries.* `cron/run/route.ts` 33-37 calls the drains "idempotent and safe under
  overlapping ticks": an event may be sent twice. The last back-off of
  `webhooks/policy.ts` 12 is never used. A retry by the merchant that races a drain is
  overwritten. A second partial refund's `order.refunded` is dropped (`enqueue.ts` 78).
* *Notifications.* The scan "can't drift, only lag by at most one cron interval"
  (`restock.ts` 64-66), but it selects 200 waiting requests without an order and before it
  looks at the stock (71-81): where more than that wait, requests for variants that stay
  sold out can crowd out one whose variant is back, for ever. TLC finds this in the crowd
  of `deliveries` without the hypothesis of `RestockIsAnnounced`. Concurrent enqueuers overshoot the daily cap (`policy.ts` 49-54). A
  suppressed alert still marks its request notified (`restock.ts` 66-67). A drain that is
  already sending still mails once after the unsubscribing, which is what
  `UnsubscribedIsLeftAlone` allows.
* *Negotiation.* A list price lowered below the floor makes counters rise above it.
  Overlapping counters exceed the turn limit, raise a counter, or overwrite an
  agreement. One agreed price is used by two purchases at once, or by two in a row if the
  first dies before its mark. Nothing calls
  `sweepExpiredNegotiations`.
* *Returns.* An approval that dies after its refund leaves the request to expire. Two
  approvals refund a part twice. A second request may be opened on stale eligibility.

### Bounds

Bounds in guards: `MaxCaps` caps ever inserted, `MaxFaults`, `MaxDeaths`,
`MaxReturnFaults` and a scene's `faults` faults, `MaxRetries` retries, `MaxChanges` and
`MaxEdits` edits by the merchant, `MaxCounters` offers and `MaxSales` sales of one
negotiation. Nothing else is capped: the limits of the code itself
(`MAX_ATTEMPTS_PER_FAILURE`, `MAX_DELIVERY_ATTEMPTS`, ...) are its own constants, the
delivery attempts being fewer in an instance.

The instances are small. Two attempts suffice for every race on one resource; the
third is there for two that fail against one that succeeds. Stock and limits are
such that the instance as a whole asks for more than there is. Two units per line
and both orders of a bundle distinguish a wrong quantity, a forgotten line and a
wrong order of unwinding. In `Settlement` the sale of three admits two partial
refunds that add up to the whole. In `Recovery` the three amounts lie below, at and
above what the policy tells apart. In `Inbox` six paise do not divide evenly, so a
split that rounds up overdraws. In `Negotiation` the offers lie below and above both
floors, and a price may drop below its floor. One row of each queue suffices, because
rows do not depend on each other except through the daily cap, for which there is a
second notice, and through the scan's limit, for which there are two requests and a limit
of one. Where an instance is smaller than one would like (one drain of the mail
queue, one tick of the recovery in `desks`), the theorem listed below is about any number.

`RESERVATION_TIMEOUT_MINUTES` is far longer than an attempt: a row expires only
when its attempt is over or dead, unless `Ops` has `"slow"`.

### Fairness

A running call keeps running (`WF` on its steps: serverless functions that are
neither killed nor stuck, every outside call having a timeout), and the cron
ticks every minute (`WF` on claiming expired rows, expired holds, due tasks and due
deliveries, on the Guardian's sweep and on the scan for restocked variants). Time
passes (`WF` on lapsing leases and back-offs). Razorpay redelivers an event until it is
answered (`SF` on its delivery, since the instance has only so many requests at once).
Nobody is obliged to pay, approve, reject, set a cap, capture, refund or unsubscribe,
and nothing is obliged to fail.

## What is proved

Eight modules hold the theorems below, each for every number of rows, processes and amounts.
They rest on the assumptions the modules state about their constants, which only
say of what kind these are, and on the hypotheses a theorem names itself. Each
property was checked by TLC first, and so was each inductive invariant.

### The gate (`Ledger_proofs`, `Gate_proofs`)

Four invariants, each proved from the ones before it:

* `TypeInv`: the types, with `Shape`, which says that a process holding a reservation
  has a grant to give back, that it is at one of its own statements, and that an attempt
  works on its own row. `TypeOK` alone is not inductive: giving back takes the head
  of `undo`. Hence `TypeCorrectness`.
* `KeyInv`: two inserted rows never share a key, and whoever settles a row, or has
  created something for it, works on an inserted one. Hence `OneArtifact`, whatever
  fails, dies or stalls.
* `WorkInv`: every row has one owner. An attempt settles its row only while it is
  allowed, a handler only one whose escalation it has claimed, and no two handlers the
  same. Hence `SettledOnce`.
* `BookInv`: the double-entry books. What the caps and the shelf are missing is at
  least what `holds` says the rows hold (`Booked`, with sums over rows), every process
  that gives back holds exactly what its `undo` still lists (`HandOf`), and every row
  nobody has in hand is full, empty, or left over by a failure the code does not handle
  (`RestOf`). It needs the sum lemmas of `Ledger_proofs`: `TotalChanged`, `TotalRemove`,
  `TotalWithin` and the like, proved by induction over finite sets in the form of a least
  counterexample (`FS_StrictSubsetOrderingWellFounded` with `WFMin`), since a theorem with an
  operator parameter cannot be cited here.

On these rest `ExecutedFits` (executed rows stay within their caps), `CommittedFits`
(live rows stay within caps and stock; needs `LiveInv`, what is live is full),
`SweepReleases` and `LedgerMatches` (need `QueueInv` and `Vacated`, a failed row in
nobody's hand is empty), and `GateRefinesLedger`, the refinement of `ResourceLedger`: each
action keeps the ledger, takes, or gives (`StepKinds`), and `LimitInv` bounds the first
cap. `OneCapInForce` needs only the types and `OneCapInv`.

The last two are about what buyer and caller see. `CoinsCovered` says that who is about to
redeem has seen the coins there are; with it goes `BalanceHolds`: the balance is never
negative while redemptions take turns, so nothing but their race can overdraw it.
`AnswerInv` ties an answer to the row of its own
attempt: who was denied has given everything back and no sweep has the row, who was
allowed finds the row executed with the artifact it asked for, and its deal redeemed.
Hence `AnswersHold`; the part about escalations is already in `RestOf`.

Some theorems have hypotheses on `Ops` and on the requests. They are not weaknesses
of the proofs: without them TLC finds the property violated, and each is a place in
the code.

| Hypothesis | Says | Because |
|---|---|---|
| `Punctual` | where reservations are swept no attempt outlasts its own | the executor's final UPDATE does not look at the status (961-978) |
| `ReleasedOnce`, first part | no redemption where queries fail | a redemption that finds the balance short releases before it fails its row, inside the `try` whose `catch` releases again (877-896, 979) |
| `ReleasedOnce`, second part | where there is a sweep: punctual attempts, no failing queries, one cap; and where attempts die nothing makes one give up its row | the sweep releases to the latest cap (1905), and releases once more what an attempt that died while giving back had already given (981-992) |
| `NothingTorn` | no failing queries, and no deaths where something may be given back | a row whose process failed or died while giving back stays allowed with part of its reservation |
| `ReleasedInFull` | no failing queries or dying handlers, no more rows than a sweep's limit, and redemptions of coins alone | rows claimed beyond the limit are failed and never released (1896) |
| `RedeemedInTurn` | no two redemptions are between their sum and their INSERT | the INSERT locks no row that the other one would wait for (865-876), run `coins` |
| `"throw" \notin Ops` | no failing queries | one that fails outside the execution's `try` answers deny and releases nothing (1351) |
| `RedeemsCoinsAlone` | redemptions take nothing but budget, as all of the code's do | a redemption found short gives back its budget and no stock (881) |
| `CapsSetInTurn` | calls of `setSpendCap` do not overlap | its two statements are no transaction (`dashboard-mutations.ts` 51), run `caps` |

The runs `crash`, `escalation` and `failures` satisfy the hypotheses of the
theorems about the properties they check; all others are met by TLC's counterexamples above.

### Settlement (`Settlement_proofs`)

`SettlementInv`: the types and shapes, what every call under way knows of its row
(`CallOK`), that one confirmation alone is about to insert a row's hold (`InsertsAlone`), and, of a
row nothing disturbed, which call is about to make hold and status agree again
(`Agreeing`), unless its hold came `late`. The lemma `OneRowAtATime` reduces a step to the one row it is about. Hence
`HoldOpenedOnce`, `HoldsAreTrue` and `FailedForGood`.

`ReleaseInv` is about the money. A call that Razorpay has answered runs on for several
statements before budget and stock are back, so neither property is inductive without
saying how much each call has still to release (`CallMoney`: what it asked for until it
has read the cap, what its `undo` lists afterwards). Row by row, what was charged is then
held, refunded or on its way (`BudgetOK`), no two calls restock it, and until one does
its stock is full (`StockOK`). A step that moves money does so for one row
(`MoneyOfOneRow`), every other leaves the account alone (`AwayKeeps`, which needs
`FailedStays`: a row that was restocked is not brought back to be refunded again). Hence
`RefundedFirst`, without hypotheses. `Books` adds that each counter is the sum over the
rows of what they hold of it, by the lemmas of `Ledger_proofs`, hence `BooksBalance`,
under `SoldUnderLatestCap`: `issueRefund` gives budget back to the agent's latest cap
(`gate.ts` 1738), and a cap replaced since a sale receives what another one was charged.
The run `settlement` has one cap and satisfies it.

### Inbox (`Inbox_proofs`)

`InboxInv` ties the treasury's rows to the settings read (`splits`) and to what each
request still has to insert; the lemmas on floors and basis points say that a split never
exceeds its contribution. Hence `FundedWithinContribution`. Its other parts say what keeps
the counters at one: a sale's row, once captured, is not executed again (`Settled`), every
counted row is of a captured sale (`OnlyCaptured`), and only the one request that inserted
the issuance's row goes on to the coins (`OnePayer`). Hence `InboxRefinesOnce`: each step of
the handlers raises one counter of `OnceEffects` from 0 to 1, or none.

### Recovery (`Recovery_proofs`)

`MeansInv` (who is about to deliver a link has taken its key alone, and the policy's
limits held when it did) gives `WithinMeans`; `PaidInv` (each link belongs to one row, a
succeeded row's link was paid, a recovered failure has one) gives `RecoveredIsPaid` and
`SuccessIsFinal`; `ClaimInv` (a task in a tick's hands is claimed and in one tick's
hands) gives `ClaimsExclude` and `EndIsFinal`, under `OneMerchant`: two overlapping
`retryTask` calls break both.

### Guardian (`Guardian_proofs`)

`GuardianInv` ties snapshots, rows and everything calls under way have read together.
Hence `FrozenStayStopped`, `UnfreezeGivesBack`, `GuardianNeverLowers` and
`NoSnapshotOutlivesItsFreeze`; the last two are not checked by a run of their own.

### Queues (`Queues_proofs`)

`DeliveriesInv` counts the requests sent for a row against its attempts; `MailInv` says
who was sending when the customer unsubscribed. Hence `GivenUpOnlyThen`, `LeftAlone` and
the two refinements of `AtLeastOnce`, `WebhooksAtLeastOnce` and `MailAtLeastOnce`.

### Desks (`Desks_proofs`)

`FloorInv` rests on the floor of a row never being written again: what a call has read may
be stale, its floor is not. `SoldInv` tells the story of a
negotiation without causes; for all others `CountInv` bounds its sales, those still to come of
what is under way, and an agreement nobody is buying at, by one more than its causes.
`DeskInv` (a request shown as refunded was, or its
decider has just done so), `QuietInv` (what is undisturbed is in one hand) and
`OneRequestInv`. Hence `FloorHolds`, `SalesAreCaused`, `RefundsAreTrue`, `DeniedIsKept`,
`DecisionsAreFinal` and `OneRequestIsRefunded`.

### Left to TLC

* Liveness, and with it `ENABLED`: `EveryAttemptEnds`, `AbandonedIsReclaimed`,
  `ExpiredHoldsAreResolved`, `EveryTaskEnds`, `BreachingAgentIsStopped`,
  `CaptureIsCompleted`, `RestockIsAnnounced`. The provers have no rules for them.

## What is not modelled

Model calls and what they say, signatures, page rendering, imports, accounts, sessions
and rate limits decide nothing the gate does not check again. AI credits, mandates,
offers and carts reach the gate as one more request, and what they add to its answer is
its unconditional deny. Drawing on a treasury bucket, the merchant's digest, reward rules
and the other read-only projections are left out. The bound simulator and the risk layer
are pure functions, and the gate's model lets the latter answer anything. `Gate`,
`Settlement` and `Inbox` are not composed in one behaviour: each starts in the states the
one before it reaches, which the executed rows of `Settlement` and the sales of `Inbox` stand for.
