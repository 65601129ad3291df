----------------------------- MODULE Settlement -----------------------------
(***************************************************************************)
(* What happens to an executed order once the buyer pays: confirmCapture,  *)
(* captureHeldPayment and issueRefund of gate.ts, and escrow.ts's sweep of *)
(* expired holds.  It starts where Gate ends, with rows that are executed  *)
(* and charged to a cap and to stock.                                      *)
(*                                                                         *)
(* Signals are the two ways a payment is confirmed, the checkout's         *)
(* verification and Razorpay's webhook; both end in confirmCapture.        *)
(* Merchants are the requests of the dashboard and the returns desk.       *)
(* Sweepers are runs of the escrow sweep.                                  *)
(***************************************************************************)
EXTENDS Ledger

CONSTANTS Signals, Merchants, Sweepers,
          Scenes,      \* what the rows may have sold and what may go wrong, see Scene
          FirstCaps,   \* the caps in the order they were set; the last is in force
          Ops          \* what may happen, see AllOps

AllOps == {"capture", "refund",              \* the merchant captures, refunds
           "partial", "partial_held",        \* in part a captured, a held payment
           "overdue",                        \* holds reach their deadline
           "decline", "lost_reply",          \* Razorpay refuses, or answers too late
           "crash"}

\* An order's price and lines, whether it is an escrow hold, and the cap it was
\* charged to.  Not every buyer pays.
Sale == [amount : Nat \ {0}, lines : Seq(Line), holdOnly : BOOLEAN, cap : CapIds,
         pays : BOOLEAN]

\* faults bounds the refusals, lost replies and dying processes of a behaviour.
Scene == [sale : [Rows -> Sale], faults : Nat]

NoRow == "none"

ASSUME SettlementAssumption ==
  /\ Signals \cap Merchants = {} /\ (Signals \cup Merchants) \cap Sweepers = {}
  /\ Rows # {} /\ NoRow \notin Rows
  /\ Scenes \subseteq Scene
  /\ FirstCaps \in Seq([limit : Nat, txMax : Nat]) /\ Len(FirstCaps) = MaxCaps
  /\ Ops \subseteq AllOps

Calls     == Signals \cup Merchants
Processes == Calls \cup Sweepers

VARIABLES
  sale,      \* the immutable part of each row
  status,    \* money_actions.status
  hold,      \* escrow_holds.outcome, "none" before the hold is inserted
  holdRows,  \* history: how many escrow_holds rows the action was given
  late,      \* history: rows captured or refunded before their hold was inserted
  overdue,   \* the hold is past its expires_at
  payment,   \* the payment as Razorpay has it
  refunded,  \* how much of it Razorpay has given back
  call,      \* what each process has in hand, see Idle
  queue,     \* the holds a sweep has selected and not yet looked at
  faults,    \* how many more there may be
  disturbed  \* history: rows a process died over or a reply was lost for, whose
             \* capture met a refund, or of whose hold a part was refunded

rowVars   == <<sale, status, hold, holdRows, late, overdue>>
payVars   == <<payment, refunded>>
faultVars == <<faults, disturbed>>
vars      == <<ledgerVars, rowVars, payVars, call, queue, faultVars>>

\* amount is the refund a process is making, wasHeld whether it found the row held.
Idle == [pc |-> "idle", row |-> NoRow, amount |-> 0, wasHeld |-> FALSE, cap |-> 1, undo |-> <<>>]

PC == {"idle", "insert_hold", "capture", "mark_captured", "mark_hold_captured", "refund",
       "read_cap", "give_back", "fail_row", "close_hold", "sweep", "expire_hold"}

GrantsOfRow(r) == GrantsOf(sale[r].amount, sale[r].lines)

\* Next to LedgerTypeOK.
SettlementTypeOK ==
  /\ capCount \in CapIds
  /\ \E scene \in Scenes : sale = scene.sale /\ faults \in 0 .. scene.faults
  /\ status \in [Rows -> {"executed", "held", "captured", "failed"}]
  /\ hold \in [Rows -> {"none", "held", "captured", "refunded", "expired_refunded"}]
  /\ holdRows \in [Rows -> Nat] /\ late \subseteq Rows
  /\ overdue \in [Rows -> BOOLEAN]
  /\ payment \in [Rows -> {"none", "authorized", "captured"}]
  /\ \A r \in Rows : refunded[r] \in 0 .. sale[r].amount
  /\ call \in [Processes -> [pc : PC, row : Rows \cup {NoRow}, amount : Nat, wasHeld : BOOLEAN,
                             cap : CapIds, undo : Seq(Grant)]]
  /\ queue \in [Sweepers -> SUBSET Rows]
  /\ disturbed \subseteq Rows

\* Everything the rows bought has been charged by the gate.
ChargedTo(c) == Total([r \in Rows |-> sale[r].amount], {r \in Rows : sale[r].cap = c})
BoughtOf(v)  == Total([r \in Rows |-> Worth(sale[r].lines, v)], Rows)

Init ==
  /\ \E scene \in Scenes : sale = scene.sale /\ faults = scene.faults
  /\ caps = [c \in CapIds |-> [FreshCap(FirstCaps[c]) EXCEPT
                                 !.spent = ChargedTo(c),
                                 !.status = IF c = MaxCaps THEN "active" ELSE "revoked"]]
  /\ \A c \in CapIds : caps[c].spent <= caps[c].limit
  /\ capCount = MaxCaps
  /\ \A v \in Variants : BoughtOf(v) <= InitStock[v]
  /\ stock = [v \in Variants |-> InitStock[v] - BoughtOf(v)]
  /\ holds = [r \in Rows |-> [x \in Resource |-> Worth(GrantsOfRow(r), x)]]
  /\ status = [r \in Rows |-> "executed"]
  /\ hold = [r \in Rows |-> "none"]
  /\ holdRows = [r \in Rows |-> 0] /\ late = {}
  /\ overdue = [r \in Rows |-> FALSE]
  /\ payment = [r \in Rows |-> "none"]
  /\ refunded = [r \in Rows |-> 0]
  /\ call = [p \in Processes |-> Idle]
  /\ queue = [s \in Sweepers |-> {}]
  /\ disturbed = {}

At(p, label)   == call[p].pc = label
Goto(p, label) == call' = [call EXCEPT ![p].pc = label]

\* A sweep goes on with its next hold, any other call is over.
Leave(p) ==
  call' = [call EXCEPT ![p] = IF p \in Sweepers THEN [Idle EXCEPT !.pc = "sweep"] ELSE Idle]

\* One more fault; some of them disturb the row.
Fault(op) == op \in Ops /\ faults > 0 /\ faults' = faults - 1

Undisturbed  == UNCHANGED faultVars
Refused      == Fault("decline") /\ UNCHANGED disturbed
ReplyLost(r) == Fault("lost_reply") /\ disturbed' = disturbed \cup {r}

CaptureSteps == {"capture", "mark_captured", "mark_hold_captured"}
RefundSteps  == {"refund", "read_cap", "give_back", "fail_row", "close_hold"}
Busy(r, steps) == \E q \in Processes : call[q].row = r /\ call[q].pc \in steps

-----------------------------------------------------------------------------
(* The buyer, outside the system: a hold is only authorised.               *)

Pay(r) ==
  /\ sale[r].pays /\ payment[r] = "none"
  /\ payment' = [payment EXCEPT ![r] = IF sale[r].holdOnly THEN "authorized" ELSE "captured"]
  /\ UNCHANGED <<ledgerVars, rowVars, refunded, call, queue, faultVars>>

Overdue(r) ==
  /\ "overdue" \in Ops /\ hold[r] = "held" /\ ~overdue[r]
  /\ overdue' = [overdue EXCEPT ![r] = TRUE]
  /\ UNCHANGED <<ledgerVars, sale, status, hold, holdRows, late, payVars, call, queue, faultVars>>

-----------------------------------------------------------------------------
(* confirmCapture.  Its UPDATE is conditional on the status still being    *)
(* executed; in any other status the call changes nothing.                 *)

\* Faulty variants: a held payment, or a refunded one, is confirmed again.
ConfirmableAgain(r)     == payment[r] # "none" /\ status[r] \in {"executed", "held"}
ConfirmableRefunded(r)  == payment[r] # "none" /\ status[r] \in {"executed", "failed"}

Confirmable(r) == payment[r] # "none" /\ status[r] = "executed"

ConfirmCapture(p, r) ==
  /\ At(p, "idle") /\ Confirmable(r)
  /\ status' = [status EXCEPT ![r] = IF sale[r].holdOnly THEN "held" ELSE "captured"]
  /\ IF sale[r].holdOnly THEN call' = [call EXCEPT ![p].pc = "insert_hold", ![p].row = r]
     ELSE UNCHANGED call
  /\ UNCHANGED <<ledgerVars, sale, hold, holdRows, late, overdue, payVars, queue, faultVars>>

\* By now the row may be captured, or refunded: nothing waits for its hold.
InsertHold(p) ==
  /\ At(p, "insert_hold")
  /\ hold' = [hold EXCEPT ![call[p].row] = "held"]
  /\ holdRows' = [holdRows EXCEPT ![call[p].row] = @ + 1]
  /\ late' = IF status[call[p].row] = "held" THEN late ELSE late \cup {call[p].row}
  /\ Leave(p)
  /\ UNCHANGED <<ledgerVars, sale, status, overdue, payVars, queue, faultVars>>

-----------------------------------------------------------------------------
(* captureHeldPayment: a read, the Razorpay call, and two updates that     *)
(* look at nothing that may have changed meanwhile.                        *)

CaptureHeld(p, r) ==
  /\ At(p, "idle") /\ "capture" \in Ops
  /\ status[r] = "held"
  /\ call' = [call EXCEPT ![p].pc = "capture", ![p].row = r]
  /\ disturbed' = IF Busy(r, RefundSteps) THEN disturbed \cup {r} ELSE disturbed
  /\ UNCHANGED <<ledgerVars, rowVars, payVars, queue, faults>>

CaptureCall(p) ==
  /\ At(p, "capture")
  /\ LET r == call[p].row
         accepted == refunded[r] = 0 /\ payment' = [payment EXCEPT ![r] = "captured"] IN
       \/ accepted /\ Goto(p, "mark_captured") /\ Undisturbed
       \/ accepted /\ Leave(p) /\ ReplyLost(r)
       \/ /\ (refunded[r] > 0 /\ Undisturbed) \/ Refused
          /\ UNCHANGED payment /\ Leave(p)
  /\ UNCHANGED <<ledgerVars, rowVars, refunded, queue>>

MarkCaptured(p) ==
  /\ At(p, "mark_captured")
  /\ status' = [status EXCEPT ![call[p].row] = "captured"]
  /\ Goto(p, "mark_hold_captured")
  /\ UNCHANGED <<ledgerVars, sale, hold, holdRows, late, overdue, payVars, queue, faultVars>>

\* Faulty variant: the hold keeps the outcome it was opened with.
CloseHoldAsNever(r, outcome) == UNCHANGED hold

CloseHoldAs(r, outcome) == hold' = [hold EXCEPT ![r] = IF @ = "none" THEN @ ELSE outcome]

MarkHoldCaptured(p) ==
  /\ At(p, "mark_hold_captured")
  /\ CloseHoldAs(call[p].row, "captured")
  /\ Leave(p)
  /\ UNCHANGED <<ledgerVars, sale, status, holdRows, late, overdue, payVars, queue, faultVars>>

-----------------------------------------------------------------------------
(* issueRefund.  Razorpay refuses to give back more than is left of a      *)
(* payment; nothing in the database counts what was refunded.              *)

\* Every caller refunds in full but the returns desk.
RefundAmounts(r) ==
  {sale[r].amount} \cup
  (IF \/ "partial" \in Ops /\ status[r] = "captured"
      \/ "partial_held" \in Ops /\ status[r] = "held"
   THEN 1 .. sale[r].amount - 1 ELSE {})

StartRefund(p, r, n) ==
  /\ status[r] \in {"captured", "held"}
  /\ call' = [call EXCEPT ![p] = [Idle EXCEPT !.pc = "refund", !.row = r, !.amount = n,
                                              !.wasHeld = status[r] = "held"]]
  /\ disturbed' = IF Busy(r, CaptureSteps) \/ (status[r] = "held" /\ n < sale[r].amount)
                  THEN disturbed \cup {r} ELSE disturbed
  /\ UNCHANGED faults

Refund(p, r) ==
  /\ At(p, "idle") /\ "refund" \in Ops
  /\ \E n \in RefundAmounts(r) : StartRefund(p, r, n)
  /\ UNCHANGED <<ledgerVars, rowVars, payVars, queue>>

\* Faulty variant: whatever is refunded, the order is closed as if it were all.
IsFullRefundAlways(p) == call[p].amount > 0

IsFullRefund(p) == call[p].amount = sale[call[p].row].amount

RefundCall(p) ==
  /\ At(p, "refund")
  /\ LET r == call[p].row
         n == call[p].amount
         left == sale[r].amount - refunded[r]
         accepted == n <= left /\ refunded' = [refunded EXCEPT ![r] = @ + n] IN
       \/ accepted /\ Goto(p, "read_cap") /\ Undisturbed
       \/ accepted /\ Leave(p) /\ ReplyLost(r)
       \/ /\ (n > left /\ Undisturbed) \/ Refused
          /\ UNCHANGED refunded /\ Leave(p)
  /\ UNCHANGED <<ledgerVars, rowVars, payment, queue>>

\* Faulty variant: a partial refund restocks the whole order.
ReadCapAllLines(p) ==
  /\ At(p, "read_cap")
  /\ call' = [call EXCEPT ![p].pc = "give_back", ![p].cap = capCount,
                ![p].undo = GrantsOf(call[p].amount, sale[call[p].row].lines)]
  /\ UNCHANGED <<ledgerVars, rowVars, payVars, queue, faultVars>>

\* The latest cap of the agent.  Stock comes back on a full refund only.
ReadCap(p) ==
  /\ At(p, "read_cap")
  /\ call' = [call EXCEPT ![p].pc = "give_back", ![p].cap = capCount,
                ![p].undo = GrantsOf(call[p].amount,
                                     IF IsFullRefund(p) THEN sale[call[p].row].lines ELSE <<>>)]
  /\ UNCHANGED <<ledgerVars, rowVars, payVars, queue, faultVars>>

\* The sweep writes its own outcome over the one issueRefund leaves.
Returned(p) ==
  IF p \in Sweepers THEN [Idle EXCEPT !.pc = "expire_hold", !.row = call[p].row] ELSE Idle

\* Faulty variant: the hold of a refunded payment is left to the sweep.
AfterRowOpen(p) == Returned(p)

AfterRow(p) ==
  IF call[p].wasHeld THEN [call[p] EXCEPT !.pc = "close_hold", !.undo = <<>>] ELSE Returned(p)

AfterRelease(p) == IF IsFullRefund(p) THEN [call[p] EXCEPT !.pc = "fail_row", !.undo = <<>>]
                   ELSE AfterRow(p)

GiveBack(p) ==
  LET undo == call[p].undo IN
  /\ At(p, "give_back")
  /\ Release(call[p].row, call[p].cap, Head(undo))
  /\ call' = [call EXCEPT ![p] = IF Len(undo) > 1 THEN [call[p] EXCEPT !.undo = Tail(undo)]
                                 ELSE AfterRelease(p)]
  /\ UNCHANGED <<rowVars, payVars, queue, faultVars>>

FailRow(p) ==
  /\ At(p, "fail_row")
  /\ status' = [status EXCEPT ![call[p].row] = "failed"]
  /\ call' = [call EXCEPT ![p] = AfterRow(p)]
  /\ UNCHANGED <<ledgerVars, sale, hold, holdRows, late, overdue, payVars, queue, faultVars>>

CloseHold(p) ==
  /\ At(p, "close_hold")
  /\ CloseHoldAs(call[p].row, "refunded")
  /\ call' = [call EXCEPT ![p] = Returned(p)]
  /\ UNCHANGED <<ledgerVars, sale, status, holdRows, late, overdue, payVars, queue, faultVars>>

-----------------------------------------------------------------------------
(* sweepExpiredHolds: selects, then refunds hold by hold.                  *)

Due == {r \in Rows : hold[r] = "held" /\ overdue[r]}

SelectExpired(s) ==
  /\ At(s, "idle")
  /\ Due # {}
  /\ queue' = [queue EXCEPT ![s] = Due]
  /\ Goto(s, "sweep")
  /\ UNCHANGED <<ledgerVars, rowVars, payVars, faultVars>>

\* issueRefund denies a row that is neither captured nor held by now, and the
\* sweep leaves that hold alone.
RefundExpired(s) ==
  /\ At(s, "sweep")
  /\ \E r \in queue[s] :
       /\ queue' = [queue EXCEPT ![s] = @ \ {r}]
       /\ \/ StartRefund(s, r, sale[r].amount)
          \/ status[r] \notin {"captured", "held"} /\ UNCHANGED <<call, faultVars>>
  /\ UNCHANGED <<ledgerVars, rowVars, payVars>>

EndSweep(s) ==
  /\ At(s, "sweep") /\ queue[s] = {}
  /\ Goto(s, "idle")
  /\ UNCHANGED <<ledgerVars, rowVars, payVars, queue, faultVars>>

ExpireHold(s) ==
  /\ At(s, "expire_hold")
  /\ CloseHoldAs(call[s].row, "expired_refunded")
  /\ Leave(s)
  /\ UNCHANGED <<ledgerVars, sale, status, holdRows, late, overdue, payVars, queue, faultVars>>

\* A process dies between two statements.
Crash(p) ==
  /\ ~At(p, "idle") /\ Fault("crash")
  /\ call' = [call EXCEPT ![p] = Idle]
  /\ queue' = [s \in Sweepers |-> IF s = p THEN {} ELSE queue[s]]
  /\ disturbed' = disturbed \cup ({call[p].row} \ {NoRow})
  /\ UNCHANGED <<ledgerVars, rowVars, payVars>>

-----------------------------------------------------------------------------
RefundStep(p) ==
  \/ RefundCall(p)
  \/ ReadCap(p)
  \/ GiveBack(p)
  \/ FailRow(p)
  \/ CloseHold(p)

CallStep(p) ==
  \/ InsertHold(p)
  \/ CaptureCall(p)
  \/ MarkCaptured(p)
  \/ MarkHoldCaptured(p)
  \/ RefundStep(p)

SweepStep(s) ==
  \/ SelectExpired(s)
  \/ RefundExpired(s)
  \/ EndSweep(s)
  \/ RefundStep(s)
  \/ ExpireHold(s)

Next ==
  \/ \E r \in Rows : Pay(r) \/ Overdue(r)
  \/ \E p \in Signals, r \in Rows : ConfirmCapture(p, r)
  \/ \E p \in Merchants, r \in Rows : CaptureHeld(p, r) \/ Refund(p, r)
  \/ \E p \in Calls : CallStep(p)
  \/ \E s \in Sweepers : SweepStep(s)
  \/ \E p \in Processes : Crash(p)

\* A call that is running keeps running and the cron ticks; nobody has to pay,
\* to confirm, to capture or to refund.
Fairness ==
  /\ \A p \in Calls : WF_vars(CallStep(p))
  /\ \A s \in Sweepers : WF_vars(SweepStep(s))

Spec == Init /\ [][Next]_vars /\ Fairness

-----------------------------------------------------------------------------
(* Properties.                                                             *)

Quiet == \A p \in Processes : At(p, "idle")

\* Whenever nothing is under way and no row was disturbed, the cap carries what
\* was sold and not refunded, stock is missing what the rows that stand have sold,
\* and a row is failed only if all of it was given back: issueRefund's releases,
\* whoever calls it and however refunds, sweeps and confirmations interleave.
BooksFollowRefunds ==
  Quiet /\ disturbed = {} =>
    /\ \A c \in CapIds :
         caps[c].spent = Total([r \in Rows |-> sale[r].amount - refunded[r]],
                               {r \in Rows : sale[r].cap = c})
    /\ \A v \in Variants :
         stock[v] = InitStock[v] - Total([r \in Rows |-> Worth(sale[r].lines, v)],
                                         {r \in Rows : status[r] # "failed"})
    /\ \A r \in Rows : status[r] = "failed" => refunded[r] = sale[r].amount

\* The two signals of one payment open at most one hold.
OneHoldPerRow == \A r \in Rows : holdRows[r] <= 1

\* A held row has its hold open, an open hold is on a held row unless it was inserted
\* after the row had been captured or refunded, a hold recorded as captured was
\* captured at Razorpay, and one recorded as refunded was refunded in full.
HoldsTellTheTruth ==
  Quiet => \A r \in Rows \ disturbed :
    /\ status[r] = "held" => hold[r] = "held"
    /\ hold[r] = "held" => status[r] = "held" \/ r \in late
    /\ hold[r] = "captured" => payment[r] = "captured"
    /\ hold[r] \in {"refunded", "expired_refunded"} => refunded[r] = sale[r].amount

\* Whatever fails on the way, budget is given back only as far as Razorpay gave
\* money back, and stock only once all of it was: issueRefund's order of steps.
ReleasedOnlyIfRefunded ==
  \A r \in Rows :
    /\ sale[r].amount - holds[r][Budget] <= refunded[r]
    /\ \A v \in Variants :
         /\ holds[r][v] >= 0
         /\ holds[r][v] < Worth(sale[r].lines, v) => refunded[r] = sale[r].amount

\* A hold that is overdue is resolved, late ones included, with four exceptions to
\* escrow.ts's "this codebase never lets one sit past its expiry": a process died
\* over the row, the reply to its refund was lost, it was refunded in part or while it
\* was being captured, or some of it was refunded before a late hold came.
ExpiredHoldsAreResolved ==
  \A r \in Rows :
    overdue[r] ~> \/ hold[r] # "held" \/ r \in disturbed
                  \/ r \in late /\ refunded[r] > 0

\* A fully refunded action is in the "same terminal state as a failed execution":
\* no confirmation, capture or sweep brings it back, except a capture that was
\* under way together with the refund.
RefundedStaysFailed ==
  [][\A r \in Rows \ disturbed : status[r] = "failed" => status'[r] = "failed"]_vars
=============================================================================
