-------------------------------- MODULE Gate --------------------------------
(***************************************************************************)
(* gate.ts: the single entry point for every money action.                 *)
(*                                                                         *)
(* Each attempt is one call of attemptMoneyAction for one agent.  Handlers *)
(* are the other calls that reach the same rows: the cron's reservation    *)
(* sweep, a merchant or the expiry timer resolving an escalation, and      *)
(* setSpendCap.  Every action is one database statement or one outside     *)
(* call, with the code up to the next await; all else interleaves.         *)
(***************************************************************************)
EXTENDS Ledger

CONSTANTS Handlers,    \* calls of the cron and of the merchant's dashboard
          Requests,    \* what an attempt may ask for, see Request
          Keys, NoKey, Deals, NoDeal,
          CapChoices,  \* the [limit, txMax] a merchant may set; the first is in force
          FirstCap,
          SweepLimit,  \* the limit argument of sweepAbandonedReservations
          InitCoins,   \* the buyer's balance of reward coins
          Ops          \* what may happen besides attempts, see AllOps

AllOps == {"escalate",                       \* the risk layer may escalate
           "decline", "lost_reply",          \* Razorpay may refuse, or answer too late
           "throw",                          \* a query fails
           "crash", "handler_crash",         \* an attempt, a handler dies
           "slow",                           \* an attempt outlasts its reservation
           "sweep", "approve", "reject",     \* handlers
           "set_cap", "lapse", "shadow", "agent"}

Kinds     == {"order", "hold", "link", "redeem", "issue"}
CoinKinds == {"redeem", "issue"}
Request   == [amount : Nat \ {0}, lines : Seq(Line), key : Keys \cup {NoKey},
              kind : Kinds, deal : Deals \cup {NoDeal}, dryRun : BOOLEAN]

ASSUME GateAssumption ==
  /\ Rows # {} /\ Rows \cap Handlers = {}
  /\ NoKey \notin Keys /\ NoDeal \notin Deals
  /\ Requests \subseteq Request
  /\ CapChoices \subseteq [limit : Nat, txMax : Nat]
  /\ FirstCap \in CapChoices
  /\ SweepLimit \in Nat /\ InitCoins \in Nat
  /\ Ops \subseteq AllOps

Processes == Rows \cup Handlers

VARIABLES
  rows,         \* money_actions, with the escalation and the Razorpay side of each
  deals,        \* negotiations.status of the agreed prices
  coins,        \* sum of the buyer's reward_coin_ledger
  shadow,       \* merchant_shadow_mode holds a row
  agentActive,  \* agents.status = "active" and the Guardian has not suspended it
  req,          \* the request of each attempt
  pc,           \* the statement each process is about to run
  row,          \* the row it works on: its own, or the one it claimed
  cap,          \* the cap it read
  undo,         \* the grants it has to give back should it not succeed
  next,         \* where it goes on once they are given back
  queue,        \* the rows a sweep has claimed and not yet released
  reply         \* the decision returned to the caller

envVars  == <<deals, coins, shadow, agentActive>>
procVars == <<pc, row, cap, undo, next, queue, reply>>
vars     == <<ledgerVars, rows, envVars, req, procVars>>

RowStatus  == {"none", "allowed", "pending_escalation", "executed", "failed"}
Escalation == {"none", "pending", "approved", "rejected"}
Row == [status     : RowStatus,
        armed      : BOOLEAN,               \* reservation_expires_at is set
        escalation : Escalation,
        artifact   : {"none"} \cup Kinds,   \* what exists for it outside the row
        entity     : BOOLEAN]               \* razorpay_entity_id is set

AttemptPC == {"start", "check", "preflight", "read_cap", "reserve_budget",
              "reserve_stock", "insert", "replay", "escalate", "execute",
              "insert_coins", "release_short", "fail_short", "commit", "redeem", "give_back",
              "fail_row", "done", "dead"}
HandlerPC == {"idle", "sweep", "insert_cap", "execute", "commit", "redeem",
              "give_back", "fail_row"}
Decision  == {"none", "allow", "deny", "escalate"}

\* Faulty variant: a reservation is taken for its budget alone.
GrantsOfRowBudgetOnly(r) == <<[of |-> Budget, qty |-> req[r].amount]>>

GrantsOfRow(r) == GrantsOf(req[r].amount, req[r].lines)

TypeOK ==
  /\ LedgerTypeOK
  /\ rows \in [Rows -> Row]
  /\ deals \in [Deals -> {"agreed", "redeemed"}]
  /\ coins \in Int /\ shadow \in BOOLEAN /\ agentActive \in BOOLEAN
  /\ req \in [Rows -> Requests]
  /\ pc \in [Processes -> AttemptPC \cup HandlerPC]
  /\ row \in [Processes -> Rows]
  /\ cap \in [Processes -> CapIds]
  /\ undo \in [Processes -> Seq(Grant)]
  /\ next \in [Processes -> {"done", "idle", "replay", "fail_row", "sweep"}]
  /\ queue \in [Handlers -> SUBSET Rows]
  /\ reply \in [Rows -> Decision]

Init ==
  /\ caps = [c \in CapIds |-> IF c = 1 THEN FreshCap(FirstCap) ELSE AbsentCap]
  /\ capCount = 1
  /\ stock = InitStock
  /\ holds = [r \in Rows |-> [x \in Resource |-> 0]]
  /\ rows = [r \in Rows |-> [status |-> "none", armed |-> FALSE, escalation |-> "none",
                             artifact |-> "none", entity |-> FALSE]]
  /\ deals = [d \in Deals |-> "agreed"]
  /\ coins = InitCoins /\ shadow = FALSE /\ agentActive = TRUE
  /\ req \in [Rows -> Requests]
  /\ pc = [p \in Processes |-> IF p \in Rows THEN "start" ELSE "idle"]
  /\ row = [p \in Processes |-> IF p \in Rows THEN p ELSE CHOOSE r \in Rows : TRUE]
  /\ cap = [p \in Processes |-> 1]
  /\ undo = [p \in Processes |-> <<>>]
  /\ next = [p \in Processes |-> IF p \in Rows THEN "done" ELSE "idle"]
  /\ queue = [h \in Handlers |-> {}]
  /\ reply = [r \in Rows |-> "none"]

-----------------------------------------------------------------------------
(* Where a process goes on.                                                *)

Goto(p, label) == pc' = [pc EXCEPT ![p] = label]
Answer(r, decision) == reply' = [reply EXCEPT ![r] = decision]

\* An attempt is over when it has answered; a handler goes back to its loop.
Over(p) == IF p \in Rows THEN "done" ELSE "idle"

Deny(r) == Goto(r, "done") /\ Answer(r, "deny")

\* Give back everything in grants, then go on at label.
Unwind(p, grants, label) ==
  /\ undo' = [undo EXCEPT ![p] = grants]
  /\ next' = [next EXCEPT ![p] = label]
  /\ Goto(p, "give_back")

\* The unique index on (agent_id, idempotency_key).
\* Faulty variant: without the unique index.
SameKeyIgnored(r) == {}

SameKey(r) ==
  {o \in Rows : rows[o].status # "none" /\ req[r].key # NoKey /\ req[o].key = req[r].key}

resultFromExistingAction(r) ==
  CASE rows[r].status = "pending_escalation" -> "escalate"
    [] rows[r].status = "failed"             -> "deny"
    [] OTHER                                 -> "allow"

-----------------------------------------------------------------------------
(* attemptMoneyAction up to the insert of its row.                         *)

\* Shadow Mode turns the request into a dry run; a known key is replayed.
Begin(r) ==
  /\ pc[r] = "start"
  /\ \/ \E o \in SameKey(r) : Answer(r, resultFromExistingAction(o)) /\ Goto(r, "done")
     \/ /\ SameKey(r) = {}
        /\ Goto(r, IF shadow \/ req[r].dryRun THEN "preflight" ELSE "check")
        /\ UNCHANGED reply
  /\ UNCHANGED <<ledgerVars, rows, envVars, req, row, cap, undo, next, queue>>

checkCapArithmetic(amount, c) ==
  /\ amount <= caps[c].txMax
  /\ amount <= caps[c].limit - caps[c].spent

BoundsHold(r) ==
  /\ agentActive
  /\ caps[capCount].status = "active" /\ caps[capCount].open
  /\ checkCapArithmetic(req[r].amount, capCount)
  /\ req[r].deal # NoDeal => deals[req[r].deal] = "agreed"
  /\ \A i \in DOMAIN req[r].lines : StockAvailable(req[r].lines[i])

\* A deny may also come from a bound left out here (terms, price, credentials).
\* A cap found active past its window is marked expired on the way, and a dry
\* run stops here whatever the bounds say.
checkBounds(r) ==
  /\ pc[r] \in {"check", "preflight"}
  /\ \/ /\ agentActive /\ caps[capCount].status = "active" /\ ~caps[capCount].open
        /\ caps' = [caps EXCEPT ![capCount].status = "expired"]
        /\ Deny(r)
     \/ UNCHANGED caps /\ Deny(r)
     \/ /\ BoundsHold(r)
        /\ IF pc[r] = "check" THEN Goto(r, "read_cap") /\ UNCHANGED reply
                              ELSE Goto(r, "done") /\ Answer(r, "allow")
        /\ UNCHANGED caps
  /\ UNCHANGED <<capCount, stock, holds, rows, envVars, req, row, cap, undo, next, queue>>

\* "Re-fetch rather than thread the cap through from checkBounds."
ReadCap(r) ==
  /\ pc[r] = "read_cap"
  /\ cap' = [cap EXCEPT ![r] = capCount]
  /\ Goto(r, "reserve_budget")
  /\ UNCHANGED <<ledgerVars, rows, envVars, req, row, undo, next, queue, reply>>

AfterLine(r, n) == IF n = Len(req[r].lines) THEN "insert" ELSE "reserve_stock"

ReserveBudget(r) ==
  /\ pc[r] = "reserve_budget"
  /\ LET grant == Head(GrantsOfRow(r)) IN
       \/ /\ reserveBudget(r, cap[r], grant)
          /\ undo' = [undo EXCEPT ![r] = <<grant>>]
          /\ Goto(r, AfterLine(r, 0))
          /\ UNCHANGED reply
       \/ /\ ~BudgetAvailable(cap[r], grant.qty)
          /\ Deny(r)
          /\ UNCHANGED <<ledgerVars, undo>>
  /\ UNCHANGED <<rows, envVars, req, row, cap, next, queue>>

\* Faulty variant: a line that runs short gives back the budget alone.
ReserveStockKeepingLines(r) ==
  /\ pc[r] = "reserve_stock"
  /\ LET taken == undo[r]
         line  == req[r].lines[Len(taken)] IN
       \/ /\ reserveStock(r, line)
          /\ undo' = [undo EXCEPT ![r] = Append(taken, line)]
          /\ Goto(r, AfterLine(r, Len(taken)))
          /\ UNCHANGED <<next, reply>>
       \/ /\ ~StockAvailable(line)
          /\ Unwind(r, <<Head(taken)>>, "done")
          /\ Answer(r, "deny")
          /\ UNCHANGED ledgerVars
  /\ UNCHANGED <<rows, envVars, req, row, cap, queue>>

\* Line by line.  When one runs short, the lines already taken are given back
\* in the order they were taken, and then the budget.
ReserveStock(r) ==
  /\ pc[r] = "reserve_stock"
  /\ LET taken == undo[r]
         line  == req[r].lines[Len(taken)] IN
       \/ /\ reserveStock(r, line)
          /\ undo' = [undo EXCEPT ![r] = Append(taken, line)]
          /\ Goto(r, AfterLine(r, Len(taken)))
          /\ UNCHANGED <<next, reply>>
       \/ /\ ~StockAvailable(line)
          /\ Unwind(r, Append(Tail(taken), Head(taken)), "done")
          /\ Answer(r, "deny")
          /\ UNCHANGED ledgerVars
  /\ UNCHANGED <<rows, envVars, req, row, cap, queue>>

\* After the cart snapshot and the risk layer: the row is inserted allowed, with
\* a deadline, or pending_escalation, without one.  The loser of the unique index
\* gives back its own reservation and replays the winner's row.
InsertOrReplay(r) ==
  /\ pc[r] = "insert"
  /\ \/ /\ SameKey(r) # {}
        /\ Unwind(r, undo[r], "replay")
        /\ UNCHANGED rows
     \/ /\ SameKey(r) = {}
        /\ \/ /\ rows' = [rows EXCEPT ![r].status = "allowed", ![r].armed = TRUE]
              /\ Goto(r, "execute")
           \/ /\ "escalate" \in Ops
              /\ rows' = [rows EXCEPT ![r].status = "pending_escalation"]
              /\ Goto(r, "escalate")
        /\ UNCHANGED <<undo, next>>
  /\ UNCHANGED <<ledgerVars, envVars, req, row, cap, queue, reply>>

\* Faulty variant: the loser waits until the winner has executed.
ReplayWhenExecuted(r) ==
  /\ pc[r] = "replay"
  /\ \E o \in SameKey(r) : rows[o].status = "executed" /\ Answer(r, "allow")
  /\ Goto(r, "done")
  /\ UNCHANGED <<ledgerVars, rows, envVars, req, row, cap, undo, next, queue>>

Replay(r) ==
  /\ pc[r] = "replay"
  /\ \E o \in SameKey(r) : Answer(r, resultFromExistingAction(o))
  /\ Goto(r, "done")
  /\ UNCHANGED <<ledgerVars, rows, envVars, req, row, cap, undo, next, queue>>

\* The escalations row, with the cap to release if it is rejected.
InsertEscalation(r) ==
  /\ pc[r] = "escalate"
  /\ rows' = [rows EXCEPT ![r].escalation = "pending"]
  /\ undo' = [undo EXCEPT ![r] = <<>>]
  /\ Goto(r, "done") /\ Answer(r, "escalate")
  /\ UNCHANGED <<ledgerVars, envVars, req, row, cap, next, queue>>

-----------------------------------------------------------------------------
(* executeAndSettle, shared by an allowed attempt and an approved          *)
(* escalation.  The latter passes neither holdOnly, paymentLink nor        *)
(* rewardLedger, so what it creates is always an order.                    *)

ExecutedKind(p) == IF p \in Rows THEN req[p].kind ELSE "order"

CoinsDelta(p) ==
  IF ExecutedKind(p) = "issue" THEN req[row[p]].amount ELSE -req[row[p]].amount

\* The reward ledger takes one INSERT ... SELECT whose WHERE clause sums the
\* balance.  There is no row to lock and to look at again, so the sum is the one
\* of the statement's snapshot, and the row appears when the statement commits.
SumBalance(p) ==
  /\ pc[p] = "execute" /\ ExecutedKind(p) \in CoinKinds
  /\ \/ /\ CoinsDelta(p) > 0 \/ coins + CoinsDelta(p) >= 0
        /\ Goto(p, "insert_coins")
     \/ /\ CoinsDelta(p) <= 0 /\ coins + CoinsDelta(p) < 0
        /\ Goto(p, "release_short")
  /\ UNCHANGED <<ledgerVars, rows, envVars, req, row, cap, undo, next, queue, reply>>

\* Short: the budget is given back here, inside the try, so a failure from here on
\* gives it back once more.
ReleaseShort(p) ==
  /\ pc[p] = "release_short"
  /\ Release(row[p], cap[p], Head(undo[p]))
  /\ Goto(p, "fail_short")
  /\ UNCHANGED <<rows, envVars, req, row, cap, undo, next, queue, reply>>

SettleCoins(p) ==
  /\ pc[p] = "insert_coins"
  /\ coins' = coins + CoinsDelta(p)
  /\ rows' = [rows EXCEPT ![row[p]].artifact = ExecutedKind(p)]
  /\ Goto(p, "commit")
  /\ UNCHANGED <<ledgerVars, deals, shadow, agentActive, req, row, cap, undo, next, queue, reply>>

\* createOrder and createPaymentLink: the call answers, is refused, or times out
\* on this side after Razorpay has done it.
CallRazorpay(p) ==
  /\ pc[p] = "execute" /\ ExecutedKind(p) \notin CoinKinds
  /\ LET created == rows' = [rows EXCEPT ![row[p]].artifact = ExecutedKind(p)] IN
       \/ created /\ Goto(p, "commit") /\ UNCHANGED <<undo, next>>
       \/ "lost_reply" \in Ops /\ created /\ Unwind(p, undo[p], "fail_row")
       \/ "decline" \in Ops /\ UNCHANGED rows /\ Unwind(p, undo[p], "fail_row")
  /\ UNCHANGED <<ledgerVars, envVars, req, row, cap, queue, reply>>

\* Unconditional on the status the row has by now.
CommitRow(p) ==
  /\ pc[p] = "commit"
  /\ rows' = [rows EXCEPT ![row[p]].status = "executed", ![row[p]].armed = FALSE,
                          ![row[p]].entity = ExecutedKind(p) \notin CoinKinds]
  /\ undo' = [undo EXCEPT ![p] = <<>>]
  /\ IF p \in Rows THEN Answer(p, "allow") ELSE UNCHANGED reply
  /\ Goto(p, IF req[row[p]].deal = NoDeal THEN Over(p) ELSE "redeem")
  /\ UNCHANGED <<ledgerVars, envVars, req, row, cap, next, queue>>

\* A query that fails in here is caught here: the reservation is released.
ExecutionThrows(p) ==
  /\ pc[p] \in {"execute", "insert_coins", "release_short", "fail_short", "commit"}
  /\ "throw" \in Ops
  /\ Unwind(p, undo[p], "fail_row")
  /\ UNCHANGED <<ledgerVars, rows, envVars, req, row, cap, queue, reply>>

markNegotiationRedeemed(p) ==
  /\ pc[p] = "redeem"
  /\ deals' = [deals EXCEPT ![req[row[p]].deal] = "redeemed"]
  /\ Goto(p, Over(p))
  /\ UNCHANGED <<ledgerVars, rows, coins, shadow, agentActive, req, row, cap, undo,
                 next, queue, reply>>

GiveBack(p) ==
  /\ pc[p] = "give_back"
  /\ Release(row[p], cap[p], Head(undo[p]))
  /\ undo' = [undo EXCEPT ![p] = Tail(@)]
  /\ Goto(p, IF Len(undo[p]) = 1 THEN next[p] ELSE "give_back")
  /\ UNCHANGED <<rows, envVars, req, row, cap, next, queue, reply>>

FailRow(p) ==
  /\ pc[p] \in {"fail_row", "fail_short"}
  /\ rows' = [rows EXCEPT ![row[p]].status = "failed", ![row[p]].armed = FALSE]
  /\ undo' = [undo EXCEPT ![p] = <<>>]
  /\ IF p \in Rows THEN Answer(p, "deny") ELSE UNCHANGED reply
  /\ Goto(p, Over(p))
  /\ UNCHANGED <<ledgerVars, envVars, req, row, cap, next, queue>>

-----------------------------------------------------------------------------
(* What else may happen to an attempt.                                     *)

QueryPC == {"start", "check", "preflight", "read_cap", "reserve_budget", "reserve_stock",
            "insert", "replay", "escalate", "redeem", "give_back", "fail_row"}

\* A query that fails outside executeAndSettle's try, or inside its catch, ends in
\* attemptMoneyAction's own catch: it answers deny and releases nothing.
QueryThrows(r) ==
  /\ pc[r] \in QueryPC /\ "throw" \in Ops
  /\ Deny(r)
  /\ undo' = [undo EXCEPT ![r] = <<>>]
  /\ UNCHANGED <<ledgerVars, rows, envVars, req, row, cap, next, queue>>

Crash(r) ==
  /\ pc[r] \notin {"start", "done", "dead"} /\ "crash" \in Ops
  /\ Goto(r, "dead")
  /\ undo' = [undo EXCEPT ![r] = <<>>]
  /\ UNCHANGED <<ledgerVars, rows, envVars, req, row, cap, next, queue, reply>>

-----------------------------------------------------------------------------
(* sweepAbandonedReservations.                                             *)

\* Faulty variant: whatever is still allowed is taken for abandoned.
ExpiredAtOnce(r) == rows[r].status = "allowed" /\ rows[r].armed

\* RESERVATION_TIMEOUT_MINUTES is far longer than an attempt: only one that is
\* over has outlived it, unless attempts may stall.
Expired(r) ==
  /\ rows[r].status = "allowed" /\ rows[r].armed
  /\ pc[r] \in {"done", "dead"} \/ "slow" \in Ops

\* One UPDATE claims every expired row; only the first `limit` of them are
\* released afterwards.
ClaimExpired(h) ==
  /\ pc[h] = "idle" /\ "sweep" \in Ops
  /\ \E claimed \in SUBSET {r \in Rows : Expired(r)} :
       /\ claimed # {}
       /\ rows' = [r \in Rows |-> IF r \in claimed
                                  THEN [rows[r] EXCEPT !.status = "failed", !.armed = FALSE]
                                  ELSE rows[r]]
       /\ \E first \in SUBSET claimed :
            /\ IF Cardinality(claimed) <= SweepLimit
               THEN first = claimed ELSE Cardinality(first) = SweepLimit
            /\ queue' = [queue EXCEPT ![h] = first]
  /\ Goto(h, "sweep")
  /\ UNCHANGED <<ledgerVars, envVars, req, row, cap, undo, next, reply>>

\* The budget goes to the latest cap of the agent, whichever cap was charged.
ReleaseClaimed(h) ==
  /\ pc[h] = "sweep"
  /\ \/ \E r \in queue[h] :
          /\ queue' = [queue EXCEPT ![h] = @ \ {r}]
          /\ row' = [row EXCEPT ![h] = r]
          /\ cap' = [cap EXCEPT ![h] = capCount]
          /\ Unwind(h, GrantsOfRow(r), "sweep")
     \/ /\ queue[h] = {}
        /\ Goto(h, "idle")
        /\ UNCHANGED <<row, cap, undo, next, queue>>
  /\ UNCHANGED <<ledgerVars, rows, envVars, req, reply>>

-----------------------------------------------------------------------------
(* resolveEscalation.  The expiry timer rejects through the same function. *)

\* Faulty variant: an approval overrides a rejection.
ClaimEscalationAgain(h, r, outcome) ==
  /\ pc[h] = "idle"
  /\ rows[r].escalation \in IF outcome = "approved" THEN {"pending", "rejected"}
                                                  ELSE {"pending"}
  /\ rows' = [rows EXCEPT ![r].escalation = outcome]
  /\ row' = [row EXCEPT ![h] = r]
  /\ cap' = [cap EXCEPT ![h] = cap[r]]

ClaimEscalation(h, r, outcome) ==
  /\ pc[h] = "idle"
  /\ rows[r].escalation = "pending"
  /\ rows' = [rows EXCEPT ![r].escalation = outcome]
  /\ row' = [row EXCEPT ![h] = r]
  /\ cap' = [cap EXCEPT ![h] = cap[r]]

Approve(h, r) ==
  /\ "approve" \in Ops
  /\ ClaimEscalation(h, r, "approved")
  /\ undo' = [undo EXCEPT ![h] = GrantsOfRow(r)]
  /\ Goto(h, "execute")
  /\ UNCHANGED <<ledgerVars, envVars, req, next, queue, reply>>

Reject(h, r) ==
  /\ "reject" \in Ops
  /\ ClaimEscalation(h, r, "rejected")
  /\ Unwind(h, GrantsOfRow(r), "fail_row")
  /\ UNCHANGED <<ledgerVars, envVars, req, queue, reply>>

-----------------------------------------------------------------------------
(* setSpendCap: two statements, not one transaction.                       *)

RevokeCaps(h) ==
  /\ pc[h] = "idle" /\ "set_cap" \in Ops
  /\ capCount < MaxCaps       \* bound
  /\ caps' = [c \in CapIds |-> IF c <= capCount THEN [caps[c] EXCEPT !.status = "revoked"]
                                                ELSE caps[c]]
  /\ Goto(h, "insert_cap")
  /\ UNCHANGED <<capCount, stock, holds, rows, envVars, req, row, cap, undo, next,
                 queue, reply>>

InsertCap(h) ==
  /\ pc[h] = "insert_cap"
  /\ capCount < MaxCaps       \* bound
  /\ \E choice \in CapChoices : caps' = [caps EXCEPT ![capCount + 1] = FreshCap(choice)]
  /\ capCount' = capCount + 1
  /\ Goto(h, "idle")
  /\ UNCHANGED <<stock, holds, rows, envVars, req, row, cap, undo, next, queue, reply>>

-----------------------------------------------------------------------------
(* Failures of a handler, and the world around.                            *)

\* The sweep catches a failed release row by row; the others give up.
HandlerThrows(h) ==
  /\ pc[h] \in {"give_back", "fail_row", "redeem", "insert_cap"} /\ "throw" \in Ops
  /\ Goto(h, IF pc[h] = "give_back" /\ next[h] = "sweep" THEN "sweep" ELSE "idle")
  /\ undo' = [undo EXCEPT ![h] = <<>>]
  /\ UNCHANGED <<ledgerVars, rows, envVars, req, row, cap, next, queue, reply>>

HandlerCrash(h) ==
  /\ pc[h] # "idle" /\ "handler_crash" \in Ops
  /\ Goto(h, "idle")
  /\ undo' = [undo EXCEPT ![h] = <<>>]
  /\ queue' = [queue EXCEPT ![h] = {}]
  /\ UNCHANGED <<ledgerVars, rows, envVars, req, row, cap, next, reply>>

\* The window of the cap in force ends.
Lapse ==
  /\ "lapse" \in Ops /\ caps[capCount].open
  /\ caps' = [caps EXCEPT ![capCount].open = FALSE]
  /\ UNCHANGED <<capCount, stock, holds, rows, envVars, req, procVars>>

\* enableShadowMode and disableShadowMode.
ToggleShadow ==
  /\ "shadow" \in Ops
  /\ shadow' = ~shadow
  /\ UNCHANGED <<ledgerVars, rows, deals, coins, agentActive, req, procVars>>

\* The agent is suspended or revoked, or let in again.
ToggleAgent ==
  /\ "agent" \in Ops
  /\ agentActive' = ~agentActive
  /\ UNCHANGED <<ledgerVars, rows, deals, coins, shadow, req, procVars>>

-----------------------------------------------------------------------------
Settle(p) ==
  \/ SumBalance(p)
  \/ ReleaseShort(p)
  \/ SettleCoins(p)
  \/ CallRazorpay(p)
  \/ CommitRow(p)
  \/ markNegotiationRedeemed(p)
  \/ GiveBack(p)
  \/ FailRow(p)

AttemptStep(r) ==
  \/ Begin(r)
  \/ checkBounds(r)
  \/ ReadCap(r)
  \/ ReserveBudget(r)
  \/ ReserveStock(r)
  \/ InsertOrReplay(r)
  \/ Replay(r)
  \/ InsertEscalation(r)
  \/ Settle(r)

HandlerStep(h) ==
  \/ ReleaseClaimed(h)
  \/ InsertCap(h)
  \/ Settle(h)

HandlerCall(h) ==
  \/ ClaimExpired(h)
  \/ \E r \in Rows : Approve(h, r) \/ Reject(h, r)
  \/ RevokeCaps(h)

Failure ==
  \/ \E p \in Processes : ExecutionThrows(p)
  \/ \E r \in Rows : QueryThrows(r) \/ Crash(r)
  \/ \E h \in Handlers : HandlerThrows(h) \/ HandlerCrash(h)

Next ==
  \/ \E r \in Rows : AttemptStep(r)
  \/ \E h \in Handlers : HandlerStep(h) \/ HandlerCall(h)
  \/ Failure
  \/ Lapse
  \/ ToggleShadow
  \/ ToggleAgent

\* A running call keeps running, and the cron ticks every minute.  Nobody has to
\* resolve an escalation, set a cap or fail.
Fairness ==
  /\ \A r \in Rows : WF_vars(AttemptStep(r))
  /\ \A h \in Handlers : WF_vars(HandlerStep(h)) /\ WF_vars(ClaimExpired(h))

Spec == Init /\ [][Next]_vars /\ Fairness

-----------------------------------------------------------------------------
(* Properties.                                                             *)

\* A row counts from its insert until it is failed, or a process starts to give
\* its reservation back: the status of the row follows last.
BeingReleased(r) ==
  \E p \in Processes :
    row[p] = r /\ pc[p] \in {"release_short", "fail_short", "give_back", "fail_row"}
Live(r) ==
  /\ rows[r].status \in {"allowed", "pending_escalation", "executed"}
  /\ ~BeingReleased(r)
Busy    == \/ \E r \in Rows : pc[r] \notin {"start", "done", "dead"}
           \/ \E h \in Handlers : pc[h] # "idle"

\* What the live rows of the table are worth: on cap c, and in units of v.
Amounts        == [r \in Rows |-> req[r].amount]
Units(v)       == [r \in Rows |-> Worth(req[r].lines, v)]
CommittedOn(c) == Total(Amounts, {r \in Rows : Live(r) /\ cap[r] = c})
SoldOf(v)      == Total(Units(v), {r \in Rows : Live(r)})

\* The live rows never add up to more than the cap they were charged to, nor to
\* more units than the variant had: reserveBudget, reserveStock and every path
\* that releases either.
CommittedWithinCap == \A c \in CapIds : CommittedOn(c) <= caps[c].limit
SoldWithinStock    == \A v \in Variants : SoldOf(v) <= InitStock[v]

\* Even where failing queries and dying processes leave rows allowed that hold
\* nothing any more, the rows that are executed stay within their cap.
ExecutedWithinCap ==
  \A c \in CapIds :
    Total(Amounts, {r \in Rows : rows[r].status = "executed" /\ cap[r] = c}) <= caps[c].limit

\* Whenever nothing is under way, spent_paise and stock are exactly what the live
\* rows account for: no path has lost a reservation or released one twice.
LedgerMatchesRows ==
  Busy \/ /\ \A c \in CapIds : caps[c].spent = CommittedOn(c)
          /\ \A v \in Variants : stock[v] = InitStock[v] - SoldOf(v)

\* A caller that was denied is charged nothing and has no live row, one that was
\* told "allow" by its own row has what it asked for, named by that row, and one
\* that was escalated is still fully reserved while nobody has resolved it.
AnswersAreTrue ==
  \A r \in Rows : pc[r] = "done" =>
    /\ reply[r] = "deny" => ~Live(r) /\ \A x \in Resource : holds[r][x] = 0
    /\ reply[r] = "allow" /\ rows[r].status # "none" =>
         /\ rows[r].status = "executed"
         /\ rows[r].artifact = req[r].kind
         /\ rows[r].entity <=> req[r].kind \notin CoinKinds
         /\ req[r].deal # NoDeal => deals[req[r].deal] = "redeemed"
    /\ rows[r].escalation = "pending" =>
         \A x \in Resource : holds[r][x] = Worth(GrantsOfRow(r), x)

\* Of all the attempts made with one idempotency key at most one ever creates
\* anything at Razorpay or in the reward ledger.
OneArtifactPerKey ==
  \A r, o \in Rows :
    /\ r # o /\ req[r].key # NoKey /\ req[r].key = req[o].key
    => rows[r].artifact = "none" \/ rows[o].artifact = "none"

Lifecycle == {<<"none", "allowed">>, <<"none", "pending_escalation">>,
              <<"allowed", "executed">>, <<"allowed", "failed">>,
              <<"pending_escalation", "executed">>, <<"pending_escalation", "failed">>}

StatusStep ==
  \A r \in Rows : \/ rows'[r].status = rows[r].status
                  \/ <<rows[r].status, rows'[r].status>> \in Lifecycle

\* A settled row stays settled: whichever of the executor, the sweep, the merchant
\* and the expiry timer settles it first, none of the others overwrites it.
RowsSettleOnce == [][StatusStep]_vars

\* Once no handler has an escalated row in hand any more, it is what was decided: a
\* rejected row has failed, holds nothing and has created nothing, and an approved one
\* has executed, is still fully reserved and has created an order and redeemed its
\* deal, or has failed and holds nothing.  resolveEscalation, whoever and however many
\* resolve, and whatever happened since the row was escalated.
ResolutionsAreTrue ==
  \A r \in Rows :
    LET outcome == rows[r].escalation
        empty   == \A x \in Resource : holds[r][x] = 0
        full    == \A x \in Resource : holds[r][x] = Worth(GrantsOfRow(r), x) IN
    (\A h \in Handlers : row[h] = r => pc[h] = "idle") =>
      /\ outcome = "rejected" =>
           rows[r].status = "failed" /\ rows[r].artifact = "none" /\ empty
      /\ outcome = "approved" =>
           \/ /\ rows[r].status = "executed" /\ rows[r].artifact = "order" /\ full
              /\ req[r].deal # NoDeal => deals[req[r].deal] = "redeemed"
           \/ rows[r].status = "failed" /\ empty

\* "Two concurrent redemptions racing for the same balance leave exactly one INSERT
\* affecting a row and the other affecting zero -- the balance can never go negative",
\* as executeAndSettle says of its conditional INSERT.
BalanceNeverNegative == coins >= 0

\* At most one cap of the agent is in force: setSpendCap revokes "so checkBounds's
\* 'most recent cap' lookup always finds exactly the intended cap and old ones don't
\* linger as stale active rows".
OneActiveCap == Cardinality({c \in CapIds : caps[c].status = "active"}) <= 1

\* Each attempt is answered, or its process is dead.
EveryAttemptEnds == \A r \in Rows : <>(pc[r] \in {"done", "dead"})

\* An attempt that dies with its row allowed is failed, and everything it had
\* reserved comes back.
AbandonedIsReclaimed ==
  \A r \in Rows :
    pc[r] = "dead" /\ rows[r].status = "allowed"
      ~> rows[r].status = "failed" /\ \A x \in Resource : holds[r][x] = 0

\* Whatever the sweep fails it also releases: a failed row holds nothing once
\* nothing is under way, however sweeps and dying attempts overlap.
SweepReleasesAnything ==
  \A r \in Rows :
    ~Busy /\ rows[r].status = "failed" => \A x \in Resource : holds[r][x] = 0

\* The budget of the first cap and the stock of every variant, as a resource
\* ledger whose holders are the rows.
GateLedger ==
  INSTANCE ResourceLedger
    WITH Resources <- Resource,
         Holders   <- Rows,
         Capacity  <- [x \in Resource |-> IF x = Budget THEN FirstCap.limit ELSE InitStock[x]],
         used      <- [x \in Resource |-> IF x = Budget THEN caps[1].spent
                                                        ELSE InitStock[x] - stock[x]],
         held      <- [r \in Rows |-> [x \in Resource |->
                         IF x = Budget /\ cap[r] # 1 THEN 0 ELSE holds[r][x]]]

\* Every step of the gate takes from one resource no more than is left, or gives
\* back no more than its row holds: nothing leaks and nothing is given back twice.
ReservationsAreLedger == GateLedger!Spec
=============================================================================
