-------------------------- MODULE Settlement_proofs --------------------------
(***************************************************************************)
(* What confirmations, captures, refunds and sweeps of expired holds keep  *)
(* true of a payment and its hold, for any number of orders and callers,   *)
(* whatever fails and whoever dies.                                        *)
(*                                                                         *)
(* None of the properties is inductive: a call writes a row it read some   *)
(* statements ago.  SettlementInv says what every call under way knows of  *)
(* its row (CallOK), that a confirmation has its row to itself until the   *)
(* hold is there (InsertsAlone), and, of a row that nothing disturbed,     *)
(* which call is about to make hold and status agree again (Agreeing).     *)
(*                                                                         *)
(* What a refund gives back needs the money as well (ReleaseInv, at the    *)
(* end): how much every call under way has still to release, and, row by   *)
(* row, that what was charged, refunded and is on its way balance.  Books  *)
(* adds the counters: each is the sum over the rows of what they hold.     *)
(***************************************************************************)
EXTENDS Settlement, Ledger_proofs, TLAPS

CallSet == [pc : PC, row : Rows \cup {NoRow}, amount : Nat, wasHeld : BOOLEAN,
            cap : CapIds, undo : Seq(Grant)]

Shape ==
  /\ capCount \in CapIds
  /\ \E scene \in Scenes : sale = scene.sale /\ faults \in 0 .. scene.faults
  /\ sale \in [Rows -> Sale] /\ faults \in Nat
  /\ status \in [Rows -> {"executed", "held", "captured", "failed"}]
  /\ hold \in [Rows -> {"none", "held", "captured", "refunded", "expired_refunded"}]
  /\ holdRows \in [Rows -> Nat] /\ late \subseteq Rows
  /\ overdue \in [Rows -> BOOLEAN]
  /\ payment \in [Rows -> {"none", "authorized", "captured"}]
  /\ refunded \in [Rows -> Nat]
  /\ \A r \in Rows : refunded[r] <= sale[r].amount
  /\ call \in [Processes -> CallSet]
  /\ queue \in [Sweepers -> SUBSET Rows]
  /\ disturbed \subseteq Rows

OnRow(p, r) == call[p].row = r
Does(p, r, steps) == call[p].row = r /\ call[p].pc \in steps

\* What a call that has got so far knows of itself and of its row.
CallOK(p) ==
  LET c == call[p]
      r == call[p].row
  IN
  /\ c.pc \in {"idle", "sweep"} <=> r = NoRow
  /\ c.pc \in {"sweep", "expire_hold"} => p \in Sweepers
  /\ c.pc \in RefundSteps => c.amount >= 1 /\ c.amount <= sale[r].amount
  /\ c.pc \in RefundSteps /\ p \in Sweepers => c.amount = sale[r].amount
  /\ c.pc = "fail_row" => c.amount = sale[r].amount
  /\ c.pc = "close_hold" => c.wasHeld
  /\ c.pc \in RefundSteps \ {"refund"} /\ c.amount = sale[r].amount =>
       refunded[r] = sale[r].amount
  /\ c.pc = "expire_hold" => refunded[r] = sale[r].amount
  /\ c.pc \in {"mark_captured", "mark_hold_captured"} => payment[r] = "captured"

\* Nobody has an executed row in hand, at most one confirmation is about to insert the
\* row's hold, and a refund that found the row captured will not see it held again.
InsertsAlone(r) ==
  /\ status[r] = "executed" =>
       hold[r] = "none" /\ holdRows[r] = 0 /\ \A p \in Processes : ~OnRow(p, r)
  /\ \A p \in Processes : Does(p, r, {"insert_hold"}) =>
       /\ hold[r] = "none" /\ holdRows[r] = 0
       /\ \A q \in Processes : q # p => ~Does(q, r, {"insert_hold"})
  /\ \A p \in Processes :
       Does(p, r, RefundSteps) /\ ~call[p].wasHeld => status[r] # "held"
  /\ \A s \in Sweepers : r \in queue[s] => hold[r] # "none"

\* What the calls on an undisturbed row know of its status, and of each other.
Undisturbing(r) ==
  /\ \A p \in Processes :
       /\ Does(p, r, {"capture", "mark_captured"}) => status[r] \in {"held", "captured"}
       /\ Does(p, r, {"mark_hold_captured"}) => status[r] = "captured"
       /\ Does(p, r, RefundSteps) /\ call[p].wasHeld => call[p].amount = sale[r].amount
       /\ Does(p, r, RefundSteps) /\ ~call[p].wasHeld => hold[r] # "held" \/ r \in late
       /\ Does(p, r, {"close_hold", "expire_hold"}) => status[r] = "failed"
  /\ \A p, q \in Processes : ~(Does(p, r, CaptureSteps) /\ Does(q, r, RefundSteps))

\* Where hold and status of an undisturbed row disagree, some call is about to mend it,
\* unless the hold came late.
Agreeing(r) ==
  /\ status[r] = "held" => hold[r] = "held" \/ \E p \in Processes : Does(p, r, {"insert_hold"})
  /\ hold[r] = "held" /\ status[r] = "captured" /\ r \notin late =>
       \E p \in Processes : Does(p, r, {"mark_hold_captured"})
  /\ hold[r] = "held" /\ status[r] = "failed" /\ r \notin late =>
       \E p \in Processes : Does(p, r, {"close_hold"})
  /\ hold[r] \in {"refunded", "expired_refunded"} => refunded[r] = sale[r].amount

RowOK(r) ==
  /\ InsertsAlone(r)
  /\ holdRows[r] <= 1
  /\ hold[r] = "captured" => payment[r] = "captured"
  /\ r \notin disturbed => Undisturbing(r) /\ Agreeing(r)

SettlementInv ==
  /\ Shape
  /\ \A p \in Processes : CallOK(p)
  /\ \A r \in Rows : RowOK(r)

-----------------------------------------------------------------------------
(* A step concerns one call and one row.                                   *)

\* Whatever a call does to one row leaves every other row as it was, so only that
\* row and that call have to be looked at.
LEMMA OneRowAtATime ==
  ASSUME SettlementInv, Shape', NEW p \in Processes, NEW n, NEW r \in Rows,
         call' = [call EXCEPT ![p] = n],
         OnRow(p, r) \/ OnRow(p, NoRow), n.row = r \/ n.row = NoRow,
         sale' = sale,
         \A x \in Rows : x # r =>
           /\ status'[x] = status[x] /\ hold'[x] = hold[x] /\ holdRows'[x] = holdRows[x]
           /\ payment'[x] = payment[x] /\ refunded'[x] = refunded[x]
           /\ x \in disturbed <=> x \in disturbed'
           /\ x \in late <=> x \in late'
           /\ \A s \in Sweepers : x \in queue'[s] => x \in queue[s] \/ hold[x] # "none",
         payment[r] = "captured" => payment'[r] = "captured",
         refunded[r] = sale[r].amount => refunded'[r] = sale[r].amount,
         CallOK(p)', RowOK(r)'
  PROVE  SettlementInv'
<1>1. call \in [Processes -> CallSet] /\ NoRow \notin Rows
  BY SettlementAssumption DEF SettlementInv, Shape
<1>2. \A q \in Processes : q # p => call'[q] = call[q]
  BY <1>1
<1>3. call'[p] = n BY <1>1
<1>4. ASSUME NEW q \in Processes PROVE CallOK(q)'
  <2>1. CASE q = p BY <2>1
  <2>2. CASE q # p
    <3>1. CallOK(q) /\ call'[q] = call[q] /\ call[q].row \in Rows \cup {NoRow}
      BY <1>1, <1>2, <2>2 DEF SettlementInv, CallSet
    <3>2. CASE call[q].row = NoRow
      BY <3>1, <3>2 DEF CallOK, RefundSteps
    <3>3. CASE call[q].row \in Rows
      BY <3>1, <3>3 DEF CallOK
    <3>4. QED BY <3>1, <3>2, <3>3
  <2>3. QED BY <2>1, <2>2
<1>5. ASSUME NEW x \in Rows PROVE RowOK(x)'
  <2>1. CASE x = r BY <2>1
  <2>2. CASE x # r
    <3>1. RowOK(x) BY DEF SettlementInv
    <3>2. \A q \in Processes : OnRow(q, x)' <=> OnRow(q, x)
      BY <1>1, <1>2, <1>3, <2>2 DEF OnRow
    <3>3. \A q \in Processes : OnRow(q, x) => call'[q] = call[q]
      BY <1>1, <1>2, <2>2 DEF OnRow
    <3>4. \A q \in Processes : \A steps : Does(q, x, steps)' <=> Does(q, x, steps)
      BY <3>2, <3>3 DEF Does, OnRow
    <3>5. InsertsAlone(x)'
      <4>1. \A q \in Processes : Does(q, x, RefundSteps) => call'[q] = call[q]
        BY <3>3 DEF Does, OnRow
      <4>2. QED BY <3>1, <3>2, <3>4, <4>1, <2>2 DEF RowOK, InsertsAlone
    <3>6. ASSUME x \notin disturbed' PROVE Undisturbing(x)'
      <4>1. Undisturbing(x) BY <3>1, <3>6, <2>2 DEF RowOK
      <4>2. \A q \in Processes : Does(q, x, RefundSteps) => call'[q] = call[q]
        BY <3>3 DEF Does, OnRow
      <4>3. QED BY <4>1, <4>2, <3>4, <2>2 DEF Undisturbing
    <3>7. ASSUME x \notin disturbed' PROVE Agreeing(x)'
      BY <3>1, <3>4, <3>7, <2>2 DEF RowOK, Agreeing
    <3>8. QED BY <3>1, <3>5, <3>6, <3>7, <2>2 DEF RowOK
  <2>3. QED BY <2>1, <2>2
<1>6. QED BY <1>4, <1>5 DEF SettlementInv

\* Where every call stands relative to the row an action is about.
LEMMA CallTyped ==
  ASSUME SettlementInv, NEW p \in Processes
  PROVE  /\ call \in [Processes -> CallSet] /\ call[p] \in CallSet /\ CallOK(p)
         /\ call[p].row \in Rows \cup {NoRow} /\ NoRow \notin Rows
         /\ call[p].pc \notin {"idle", "sweep"} => call[p].row \in Rows
BY SettlementAssumption DEF SettlementInv, Shape, CallSet, CallOK

LEMMA IdleTyped ==
  /\ Idle \in CallSet /\ Idle.pc = "idle" /\ Idle.row = NoRow /\ Idle.undo = <<>>
  /\ [Idle EXCEPT !.pc = "sweep"] \in CallSet
  /\ [Idle EXCEPT !.pc = "sweep"].pc = "sweep" /\ [Idle EXCEPT !.pc = "sweep"].row = NoRow
  /\ \A r \in Rows : LET n == [Idle EXCEPT !.pc = "expire_hold", !.row = r] IN
       n \in CallSet /\ n.pc = "expire_hold" /\ n.row = r
<1>1. Idle \in CallSet /\ Idle.pc = "idle" /\ Idle.row = NoRow /\ Idle.undo = <<>>
  BY LedgerAssumption DEF Idle, CallSet, PC, CapIds
<1>2. ASSUME NEW r \in Rows
      PROVE  LET n == [Idle EXCEPT !.pc = "expire_hold", !.row = r] IN
               n \in CallSet /\ n.pc = "expire_hold" /\ n.row = r
  BY <1>1 DEF CallSet, PC
<1>3. QED BY <1>1, <1>2 DEF CallSet, PC

\* Leaving, a call is at rest or a sweep goes on: it has no row in hand.
LEMMA LeaveIsRest ==
  ASSUME NEW p, Leave(p)
  PROVE  \E n \in CallSet : /\ call' = [call EXCEPT ![p] = n]
                            /\ n.row = NoRow /\ n.pc \in {"idle", "sweep"}
                            /\ n.pc = "sweep" => p \in Sweepers
<1>1. CASE p \in Sweepers
  BY <1>1, IdleTyped DEF Leave
<1>2. CASE p \notin Sweepers
  BY <1>2, IdleTyped DEF Leave
<1>3. QED BY <1>1, <1>2

\* A call without a row is all right, whatever the rows.
LEMMA RestOK ==
  ASSUME NEW p \in Processes, call \in [Processes -> CallSet], NEW n \in CallSet,
         call' = [call EXCEPT ![p] = n],
         n.row = NoRow, n.pc \in {"idle", "sweep"}, n.pc = "sweep" => p \in Sweepers
  PROVE  CallOK(p)'
BY DEF CallOK, RefundSteps

-----------------------------------------------------------------------------
(* The buyer and the clock.                                                *)

LEMMA PayKeeps == ASSUME SettlementInv, NEW r \in Rows, Pay(r) PROVE SettlementInv'
<1>1. /\ payment' = [payment EXCEPT ![r] = IF sale[r].holdOnly THEN "authorized" ELSE "captured"]
      /\ payment[r] = "none"
      /\ UNCHANGED <<sale, status, hold, holdRows, late, overdue, refunded, call, queue, faults,
                     disturbed, capCount>>
  BY DEF Pay, ledgerVars, rowVars, faultVars
<1>2. Shape BY DEF SettlementInv
<1>3. /\ payment' \in [Rows -> {"none", "authorized", "captured"}]
      /\ \A x \in Rows : payment[x] = "captured" => payment'[x] = "captured"
  BY <1>1, <1>2 DEF Shape
<1>4. Shape' BY <1>1, <1>2, <1>3 DEF Shape
<1>5. ASSUME NEW p \in Processes PROVE CallOK(p)'
  <2>1. CallOK(p) /\ call[p].row \in Rows \cup {NoRow} /\ call[p].pc \notin {"idle", "sweep"} => call[p].row \in Rows
    BY CallTyped
  <2>2. QED BY <2>1, <1>1, <1>3, CallTyped DEF CallOK
<1>6. ASSUME NEW x \in Rows PROVE RowOK(x)'
  BY <1>1, <1>3 DEF SettlementInv, RowOK, InsertsAlone, Undisturbing, Agreeing, Does, OnRow
<1>7. QED BY <1>4, <1>5, <1>6 DEF SettlementInv

LEMMA OverdueKeeps == ASSUME SettlementInv, NEW r \in Rows, Overdue(r) PROVE SettlementInv'
<1>1. /\ overdue' = [overdue EXCEPT ![r] = TRUE]
      /\ UNCHANGED <<sale, status, hold, holdRows, late, payment, refunded, call, queue, faults,
                     disturbed, capCount>>
  BY DEF Overdue, ledgerVars, payVars, faultVars
<1>2. Shape' BY <1>1 DEF Shape, SettlementInv
<1>3. ASSUME NEW p \in Processes PROVE CallOK(p)'
  BY <1>1 DEF SettlementInv, CallOK
<1>4. ASSUME NEW x \in Rows PROVE RowOK(x)'
  BY <1>1 DEF SettlementInv, RowOK, InsertsAlone, Undisturbing, Agreeing, Does, OnRow
<1>5. QED BY <1>2, <1>3, <1>4 DEF SettlementInv

-----------------------------------------------------------------------------
(* Confirmation.                                                           *)

LEMMA ConfirmCaptureKeeps ==
  ASSUME SettlementInv, NEW p \in Processes, NEW r \in Rows, ConfirmCapture(p, r)
  PROVE  SettlementInv'
<1> DEFINE n == IF sale[r].holdOnly THEN [call[p] EXCEPT !.pc = "insert_hold", !.row = r]
                ELSE call[p]
<1>1. Shape /\ RowOK(r) /\ call \in [Processes -> CallSet] /\ call[p] \in CallSet /\ CallOK(p)
      /\ call[p].pc = "idle" /\ call[p].row = NoRow /\ NoRow \notin Rows /\ status[r] = "executed"
  BY CallTyped DEF SettlementInv, ConfirmCapture, At, Confirmable, CallOK
<1>2. /\ status' = [status EXCEPT ![r] = IF sale[r].holdOnly THEN "held" ELSE "captured"]
      /\ UNCHANGED <<sale, hold, holdRows, late, overdue, payment, refunded, queue, faults, disturbed,
                     capCount>>
  BY DEF ConfirmCapture, ledgerVars, payVars, faultVars
<1>3. call' = [call EXCEPT ![p] = n]
  <2>1. CASE sale[r].holdOnly BY <2>1, <1>1 DEF ConfirmCapture
  <2>2. CASE ~sale[r].holdOnly BY <2>2, <1>1 DEF ConfirmCapture
  <2>3. QED BY <2>1, <2>2
<1>4. /\ n \in CallSet
      /\ sale[r].holdOnly => n.pc = "insert_hold" /\ n.row = r
      /\ ~sale[r].holdOnly => n = call[p]
  BY <1>1 DEF CallSet, PC
<1> HIDE DEF n
<1>5. /\ status' \in [Rows -> {"executed", "held", "captured", "failed"}]
      /\ status'[r] = IF sale[r].holdOnly THEN "held" ELSE "captured"
      /\ \A x \in Rows : x # r => status'[x] = status[x]
  BY <1>1, <1>2 DEF Shape
<1>6. Shape' BY <1>1, <1>2, <1>3, <1>4, <1>5 DEF Shape
<1>7. call'[p] = n /\ \A q \in Processes : q # p => call'[q] = call[q] BY <1>1, <1>3
<1>8. CallOK(p)'
  BY <1>1, <1>4, <1>7, <1>2 DEF CallOK, RefundSteps
<1>9. hold[r] = "none" /\ holdRows[r] = 0 /\ \A q \in Processes : call[q].row # r
  BY <1>1 DEF RowOK, InsertsAlone, OnRow
<1>10. \A q \in Processes : call'[q].row = r => q = p /\ sale[r].holdOnly /\ call'[q].pc = "insert_hold"
  BY <1>1, <1>4, <1>7, <1>9
<1>11. InsertsAlone(r)'
  BY <1>1, <1>2, <1>5, <1>9, <1>10 DEF RowOK, InsertsAlone, OnRow, Does, RefundSteps
<1>12. Undisturbing(r)'
  BY <1>10 DEF Undisturbing, Does, RefundSteps, CaptureSteps
<1>13. Agreeing(r)'
  BY <1>2, <1>4, <1>5, <1>7, <1>9 DEF Agreeing, Does
<1>14. RowOK(r)' BY <1>2, <1>9, <1>11, <1>12, <1>13 DEF RowOK
<1>15. QED BY <1>1, <1>2, <1>3, <1>4, <1>5, <1>6, <1>8, <1>14, OneRowAtATime DEF OnRow

LEMMA InsertHoldKeeps ==
  ASSUME SettlementInv, NEW p \in Processes, InsertHold(p) PROVE SettlementInv'
<1>1. PICK r \in Rows : /\ call[p].row = r /\ call[p].pc = "insert_hold"
                        /\ Shape /\ call \in [Processes -> CallSet] /\ NoRow \notin Rows
  BY CallTyped DEF SettlementInv, InsertHold, At
<1>2. /\ hold' = [hold EXCEPT ![r] = "held"]
      /\ holdRows' = [holdRows EXCEPT ![r] = @ + 1]
      /\ late' = IF status[r] = "held" THEN late ELSE late \cup {r}
      /\ UNCHANGED <<sale, status, overdue, payment, refunded, queue, faults, disturbed, capCount>>
  BY <1>1 DEF InsertHold, ledgerVars, payVars, faultVars
<1>3. PICK n \in CallSet : /\ call' = [call EXCEPT ![p] = n]
                           /\ n.row = NoRow /\ n.pc \in {"idle", "sweep"}
                           /\ n.pc = "sweep" => p \in Sweepers
  BY LeaveIsRest DEF InsertHold
<1>4. CallOK(p)' BY <1>1, <1>3, RestOK
<1>5. RowOK(r) BY <1>1 DEF SettlementInv
<1>6. /\ status[r] # "executed" /\ hold[r] = "none" /\ holdRows[r] = 0
      /\ \A q \in Processes : q # p => ~Does(q, r, {"insert_hold"})
  BY <1>1, <1>5 DEF RowOK, InsertsAlone, Does, OnRow
<1>7. OnRow(p, r) BY <1>1 DEF OnRow
<1>8. \A q \in Processes : call'[q].row = r => q # p /\ call'[q] = call[q] BY <1>1, <1>3
<1>9. /\ hold' \in [Rows -> {"none", "held", "captured", "refunded", "expired_refunded"}]
      /\ holdRows' \in [Rows -> Nat] /\ hold'[r] = "held" /\ holdRows'[r] = 1
      /\ \A x \in Rows : x # r => hold'[x] = hold[x] /\ holdRows'[x] = holdRows[x]
      /\ late' \subseteq Rows /\ \A x \in Rows : x # r => (x \in late <=> x \in late')
      /\ status[r] # "held" => r \in late'
  BY <1>1, <1>2, <1>6 DEF Shape
<1>10. Shape' BY <1>1, <1>2, <1>3, <1>9 DEF Shape
<1>11. InsertsAlone(r)'
  BY <1>2, <1>5, <1>6, <1>8, <1>9 DEF RowOK, InsertsAlone, Does, OnRow
<1>12. ASSUME r \notin disturbed PROVE Undisturbing(r)' /\ Agreeing(r)'
  <2>1. Undisturbing(r) /\ InsertsAlone(r) BY <1>5, <1>12 DEF RowOK
  <2>2. Undisturbing(r)'
    <3>1. ASSUME NEW q \in Processes
          PROVE  /\ (Does(q, r, {"capture", "mark_captured"}) => status[r] \in {"held", "captured"})'
                 /\ (Does(q, r, {"mark_hold_captured"}) => status[r] = "captured")'
                 /\ (Does(q, r, RefundSteps) /\ call[q].wasHeld => call[q].amount = sale[r].amount)'
                 /\ (Does(q, r, RefundSteps) /\ ~call[q].wasHeld => hold[r] # "held" \/ r \in late)'
                 /\ (Does(q, r, {"close_hold", "expire_hold"}) => status[r] = "failed")'
      BY <1>2, <1>8, <1>9, <2>1 DEF Undisturbing, InsertsAlone, Does
    <3>2. \A q \in Processes : \A steps : Does(q, r, steps)' => Does(q, r, steps)
      BY <1>8 DEF Does
    <3>3. QED BY <2>1, <3>1, <3>2 DEF Undisturbing
  <2>3. Agreeing(r)'
    BY <1>1, <1>2, <1>6, <1>9 DEF Agreeing, Shape
  <2>4. QED BY <2>2, <2>3
<1>13. RowOK(r)' BY <1>2, <1>5, <1>9, <1>11, <1>12 DEF RowOK
<1>14. QED BY <1>1, <1>2, <1>3, <1>4, <1>7, <1>9, <1>10, <1>13, OneRowAtATime

-----------------------------------------------------------------------------
(* The merchant's capture.                                                 *)

LEMMA CaptureHeldKeeps ==
  ASSUME SettlementInv, NEW p \in Processes, NEW r \in Rows, CaptureHeld(p, r)
  PROVE  SettlementInv'
<1>1. /\ Shape /\ RowOK(r) /\ call \in [Processes -> CallSet] /\ call[p] \in CallSet /\ CallOK(p)
      /\ call[p].pc = "idle" /\ call[p].row = NoRow /\ NoRow \notin Rows
      /\ status[r] = "held"
  BY CallTyped DEF SettlementInv, CaptureHeld, At, CallOK
<1>2. /\ UNCHANGED <<sale, status, hold, holdRows, late, overdue, payment, refunded, queue, faults,
                     capCount>>
      /\ disturbed' = IF Busy(r, RefundSteps) THEN disturbed \cup {r} ELSE disturbed
  BY DEF CaptureHeld, ledgerVars, rowVars, payVars
<1>3. PICK n \in CallSet : /\ call' = [call EXCEPT ![p] = n]
                           /\ n.pc = "capture" /\ n.row = r
  <2> DEFINE m == [call[p] EXCEPT !.pc = "capture", !.row = r]
  <2>1. call' = [call EXCEPT ![p] = m] BY <1>1 DEF CaptureHeld
  <2>2. m \in CallSet /\ m.pc = "capture" /\ m.row = r BY <1>1 DEF CallSet, PC
  <2> HIDE DEF m
  <2>3. QED BY <2>1, <2>2
<1>4. call'[p] = n /\ \A q \in Processes : q # p => call'[q] = call[q] BY <1>1, <1>3
<1>5. Shape' BY <1>1, <1>2, <1>3 DEF Shape
<1>6. CallOK(p)' BY <1>1, <1>3, <1>4 DEF CallOK, RefundSteps
<1>8. InsertsAlone(r)'
  BY <1>1, <1>2, <1>3, <1>4 DEF RowOK, InsertsAlone, OnRow, Does, RefundSteps
<1>9. ASSUME r \notin disturbed' PROVE Undisturbing(r)' /\ Agreeing(r)'
  <2>1. r \notin disturbed /\ \A q \in Processes : ~Does(q, r, RefundSteps)
    BY <1>2, <1>9 DEF Busy, Does
  <2>2. Undisturbing(r) /\ Agreeing(r) BY <1>1, <2>1 DEF RowOK
  <2>3. \A q \in Processes : ~Does(q, r, RefundSteps)'
    BY <1>3, <1>4, <2>1 DEF Does, RefundSteps
  <2>4. Undisturbing(r)'
    BY <1>1, <1>2, <1>3, <1>4, <2>2, <2>3 DEF Undisturbing, Does
  <2>5. Agreeing(r)'
    BY <1>1, <1>2, <1>3, <1>4, <2>2 DEF Agreeing, Does
  <2>6. QED BY <2>4, <2>5
<1>10. RowOK(r)' BY <1>1, <1>2, <1>8, <1>9 DEF RowOK
<1>11. \A x \in Rows : x # r => (x \in disturbed <=> x \in disturbed') BY <1>2
<1>12. QED BY <1>1, <1>2, <1>3, <1>5, <1>6, <1>10, <1>11, OneRowAtATime DEF OnRow

\* A call that leaves takes nothing with it, unless it was about to mend its row.
LEMMA LeavingKeepsRow ==
  ASSUME SettlementInv, NEW p \in Processes, NEW r \in Rows, call[p].row = r,
         call[p].pc \notin {"insert_hold", "mark_hold_captured", "close_hold"},
         NEW n \in CallSet, call' = [call EXCEPT ![p] = n], n.row = NoRow,
         sale' = sale, status' = status, hold' = hold, holdRows' = holdRows, late' = late, queue' = queue,
         disturbed \subseteq disturbed',
         payment[r] = "captured" => payment'[r] = "captured",
         refunded[r] = sale[r].amount => refunded'[r] = sale[r].amount
  PROVE  RowOK(r)'
<1>1. RowOK(r) /\ call \in [Processes -> CallSet] /\ NoRow \notin Rows
  BY CallTyped DEF SettlementInv
<1>2. call'[p] = n /\ \A q \in Processes : q # p => call'[q] = call[q] BY <1>1
<1>3. InsertsAlone(r)' BY <1>1, <1>2 DEF RowOK, InsertsAlone, OnRow, Does
<1>4. ASSUME r \notin disturbed' PROVE Undisturbing(r)' /\ Agreeing(r)'
  <2>1. Undisturbing(r) /\ Agreeing(r) BY <1>1, <1>4 DEF RowOK
  <2>2. \A q \in Processes : call'[q].row = r => q # p /\ call'[q] = call[q]
    BY <1>1, <1>2
  <2>3. \A q \in Processes : \A steps : Does(q, r, steps)' => Does(q, r, steps)
    BY <2>2 DEF Does
  <2>4. Undisturbing(r)'
    BY <2>1, <2>2, <2>3 DEF Undisturbing, Does
  <2>5. Agreeing(r)'
    <3>1. \A q \in Processes : Does(q, r, {"insert_hold", "mark_hold_captured", "close_hold"})
             => q # p
      BY DEF Does
    <3>2. QED BY <1>2, <2>1, <3>1 DEF Agreeing, Does
  <2>6. QED BY <2>4, <2>5
<1>5. QED BY <1>1, <1>3, <1>4 DEF RowOK

LEMMA FaultsSpent ==
  ASSUME Shape, faults' = faults \/ (faults > 0 /\ faults' = faults - 1)
  PROVE  faults' \in Nat /\ \E scene \in Scenes : sale = scene.sale /\ faults' \in 0 .. scene.faults
<1>1. PICK scene \in Scenes : sale = scene.sale /\ faults \in 0 .. scene.faults BY DEF Shape
<1>2. scene.faults \in Nat /\ faults \in Nat BY SettlementAssumption DEF Scene, Shape
<1>3. faults' \in Nat /\ faults' \in 0 .. scene.faults BY <1>1, <1>2
<1>4. QED BY <1>1, <1>3

\* Razorpay accepts and the call goes on, or it is over; what it does to the payment
\* never turns a captured one into anything else.
LEMMA CaptureCallKeeps ==
  ASSUME SettlementInv, NEW p \in Processes, CaptureCall(p) PROVE SettlementInv'
<1>1. PICK r \in Rows : /\ call[p].row = r /\ call[p].pc = "capture" /\ call[p] \in CallSet
                        /\ CallOK(p) /\ RowOK(r)
                        /\ Shape /\ call \in [Processes -> CallSet] /\ NoRow \notin Rows
  BY CallTyped DEF SettlementInv, CaptureCall, At
<1>2. /\ UNCHANGED <<sale, status, hold, holdRows, late, overdue, refunded, queue, capCount>>
      /\ payment' = payment \/ payment' = [payment EXCEPT ![r] = "captured"]
      /\ disturbed' = disturbed \/ disturbed' = disturbed \cup {r}
      /\ faults' = faults \/ (faults > 0 /\ faults' = faults - 1)
  BY <1>1 DEF CaptureCall, ledgerVars, rowVars, Undisturbed, faultVars, Refused, ReplyLost, Fault
<1>3. /\ payment' \in [Rows -> {"none", "authorized", "captured"}]
      /\ payment[r] = "captured" => payment'[r] = "captured"
      /\ \A x \in Rows : x # r => payment'[x] = payment[x]
  BY <1>1, <1>2 DEF Shape
<1>4. \/ /\ payment' = [payment EXCEPT ![r] = "captured"] /\ disturbed' = disturbed
         /\ Goto(p, "mark_captured")
      \/ Leave(p)
  BY <1>1 DEF CaptureCall, Undisturbed, faultVars
<1>5. ASSUME NEW n \in CallSet, call' = [call EXCEPT ![p] = n], n.row = r \/ n.row = NoRow,
             CallOK(p)', RowOK(r)'
      PROVE  SettlementInv'
  <2>1. Shape'
    <3>1. faults' \in Nat /\ \E scene \in Scenes : sale = scene.sale /\ faults' \in 0 .. scene.faults
      BY <1>1, <1>2, FaultsSpent
    <3>2. disturbed' \subseteq Rows /\ call' \in [Processes -> CallSet]
      BY <1>1, <1>2, <1>5 DEF Shape
    <3>3. QED BY <1>1, <1>2, <1>3, <3>1, <3>2 DEF Shape
  <2>2. \A x \in Rows : x # r => (x \in disturbed <=> x \in disturbed') BY <1>2
  <2>3. QED BY <1>1, <1>2, <1>3, <1>5, <2>1, <2>2, OneRowAtATime DEF OnRow
<1>6. CASE Leave(p)
  <2>1. PICK n \in CallSet : /\ call' = [call EXCEPT ![p] = n]
                             /\ n.row = NoRow /\ n.pc \in {"idle", "sweep"}
                             /\ n.pc = "sweep" => p \in Sweepers
    BY <1>6, LeaveIsRest
  <2>2. CallOK(p)' BY <1>1, <2>1, RestOK
  <2>3. disturbed \subseteq disturbed' BY <1>2
  <2>4. RowOK(r)' BY <1>1, <1>2, <1>3, <2>1, <2>3, LeavingKeepsRow
  <2>5. QED BY <1>5, <2>1, <2>2, <2>4
<1>7. CASE /\ payment' = [payment EXCEPT ![r] = "captured"] /\ disturbed' = disturbed
           /\ Goto(p, "mark_captured")
  <2> DEFINE m == [call[p] EXCEPT !.pc = "mark_captured"]
  <2>1. call' = [call EXCEPT ![p] = m] BY <1>7 DEF Goto
  <2>2. m \in CallSet /\ m.pc = "mark_captured" /\ m.row = r BY <1>1 DEF CallSet, PC
  <2> HIDE DEF m
  <2>3. call'[p] = m /\ \A q \in Processes : q # p => call'[q] = call[q] BY <1>1, <2>1
  <2>4. payment'[r] = "captured" BY <1>1, <1>7 DEF Shape
  <2>5. CallOK(p)' BY <1>1, <2>2, <2>3, <2>4 DEF CallOK, RefundSteps
  <2>6. InsertsAlone(r)' BY <1>1, <1>2, <2>2, <2>3 DEF RowOK, InsertsAlone, OnRow, Does, RefundSteps
  <2>7. ASSUME r \notin disturbed' PROVE Undisturbing(r)' /\ Agreeing(r)'
    <3>1. Undisturbing(r) /\ Agreeing(r) BY <1>1, <1>7, <2>7 DEF RowOK
    <3>2. Undisturbing(r)'
      BY <1>1, <1>2, <2>2, <2>3, <3>1 DEF Undisturbing, Does, RefundSteps, CaptureSteps
    <3>3. Agreeing(r)' BY <1>1, <1>2, <2>2, <2>3, <3>1 DEF Agreeing, Does
    <3>4. QED BY <3>2, <3>3
  <2>8. RowOK(r)' BY <1>1, <1>2, <1>3, <2>6, <2>7 DEF RowOK
  <2>9. QED BY <1>5, <2>1, <2>2, <2>5, <2>8
<1>8. QED BY <1>4, <1>6, <1>7

LEMMA MarkCapturedKeeps ==
  ASSUME SettlementInv, NEW p \in Processes, MarkCaptured(p) PROVE SettlementInv'
<1>1. PICK r \in Rows : /\ call[p].row = r /\ call[p].pc = "mark_captured"
                        /\ call[p] \in CallSet /\ CallOK(p) /\ RowOK(r)
                        /\ Shape /\ call \in [Processes -> CallSet] /\ NoRow \notin Rows
  BY CallTyped DEF SettlementInv, MarkCaptured, At
<1>2. /\ status' = [status EXCEPT ![r] = "captured"]
      /\ UNCHANGED <<sale, hold, holdRows, late, overdue, payment, refunded, queue, faults, disturbed,
                     capCount>>
  BY <1>1 DEF MarkCaptured, ledgerVars, payVars, faultVars
<1> DEFINE m == [call[p] EXCEPT !.pc = "mark_hold_captured"]
<1>3. call' = [call EXCEPT ![p] = m] BY DEF MarkCaptured, Goto
<1>4. m \in CallSet /\ m.pc = "mark_hold_captured" /\ m.row = r BY <1>1 DEF CallSet, PC
<1> HIDE DEF m
<1>5. call'[p] = m /\ \A q \in Processes : q # p => call'[q] = call[q] BY <1>1, <1>3
<1>6. /\ status' \in [Rows -> {"executed", "held", "captured", "failed"}]
      /\ status'[r] = "captured" /\ \A x \in Rows : x # r => status'[x] = status[x]
  BY <1>1, <1>2 DEF Shape
<1>7. Shape' BY <1>1, <1>2, <1>3, <1>4, <1>6 DEF Shape
<1>8. CallOK(p)' BY <1>1, <1>2, <1>4, <1>5 DEF CallOK, RefundSteps
<1>9. InsertsAlone(r)'
  BY <1>1, <1>2, <1>4, <1>5, <1>6 DEF RowOK, InsertsAlone, OnRow, Does
<1>10. ASSUME r \notin disturbed PROVE Undisturbing(r)' /\ Agreeing(r)'
  <2>1. Undisturbing(r) /\ Agreeing(r) BY <1>1, <1>10 DEF RowOK
  <2>2. Does(p, r, CaptureSteps) /\ status[r] \in {"held", "captured"}
    BY <1>1, <2>1 DEF Undisturbing, Does, CaptureSteps
  <2>3. \A q \in Processes : ~Does(q, r, RefundSteps \cup {"expire_hold"})
    BY <2>1, <2>2 DEF Undisturbing, Does, RefundSteps
  <2>4. \A q \in Processes : ~Does(q, r, RefundSteps \cup {"expire_hold"})'
    BY <1>4, <1>5, <2>3 DEF Does, RefundSteps
  <2>5. Undisturbing(r)'
    BY <1>6, <2>4 DEF Undisturbing, Does, RefundSteps
  <2>6. Agreeing(r)' BY <1>2, <1>4, <1>5, <1>6, <2>1 DEF Agreeing, Does
  <2>7. QED BY <2>5, <2>6
<1>11. RowOK(r)' BY <1>1, <1>2, <1>9, <1>10 DEF RowOK
<1>12. QED BY <1>1, <1>2, <1>3, <1>4, <1>6, <1>7, <1>8, <1>11, OneRowAtATime DEF OnRow

\* What CloseHoldAs does to the hold of one row.
LEMMA ClosingHold ==
  ASSUME Shape, NEW r \in Rows, NEW o \in {"captured", "refunded", "expired_refunded"},
         CloseHoldAs(r, o)
  PROVE  /\ hold' \in [Rows -> {"none", "held", "captured", "refunded", "expired_refunded"}]
         /\ IF hold[r] = "none" THEN hold'[r] = "none" ELSE hold'[r] = o
         /\ \A x \in Rows : x # r => hold'[x] = hold[x]
BY DEF Shape, CloseHoldAs

LEMMA MarkHoldCapturedKeeps ==
  ASSUME SettlementInv, NEW p \in Processes, MarkHoldCaptured(p) PROVE SettlementInv'
<1>1. PICK r \in Rows : /\ call[p].row = r /\ call[p].pc = "mark_hold_captured"
                        /\ call[p] \in CallSet /\ CallOK(p) /\ RowOK(r)
                        /\ Shape /\ call \in [Processes -> CallSet] /\ NoRow \notin Rows
  BY CallTyped DEF SettlementInv, MarkHoldCaptured, At
<1>2. /\ CloseHoldAs(r, "captured")
      /\ UNCHANGED <<sale, status, holdRows, late, overdue, payment, refunded, queue, faults, disturbed,
                     capCount>>
  BY <1>1 DEF MarkHoldCaptured, ledgerVars, payVars, faultVars
<1>3. PICK n \in CallSet : /\ call' = [call EXCEPT ![p] = n]
                           /\ n.row = NoRow /\ n.pc \in {"idle", "sweep"}
                           /\ n.pc = "sweep" => p \in Sweepers
  BY LeaveIsRest DEF MarkHoldCaptured
<1>4. call'[p] = n /\ \A q \in Processes : q # p => call'[q] = call[q] BY <1>1, <1>3
<1>5. /\ hold' \in [Rows -> {"none", "held", "captured", "refunded", "expired_refunded"}]
      /\ IF hold[r] = "none" THEN hold'[r] = "none" ELSE hold'[r] = "captured"
      /\ \A x \in Rows : x # r => hold'[x] = hold[x]
  BY <1>1, <1>2, ClosingHold
<1>6. Shape' BY <1>1, <1>2, <1>3, <1>5 DEF Shape
<1>7. CallOK(p)' BY <1>1, <1>3, RestOK
<1>8. InsertsAlone(r)'
  BY <1>1, <1>2, <1>3, <1>4, <1>5 DEF RowOK, InsertsAlone, OnRow, Does
<1>9. ASSUME r \notin disturbed PROVE Undisturbing(r)' /\ Agreeing(r)'
  <2>1. Undisturbing(r) /\ Agreeing(r) BY <1>1, <1>9 DEF RowOK
  <2>2. status[r] = "captured" BY <1>1, <2>1 DEF Undisturbing, Does
  <2>3. \A q \in Processes : call'[q].row = r => q # p /\ call'[q] = call[q] BY <1>1, <1>3, <1>4
  <2>4. Undisturbing(r)'
    BY <1>2, <1>5, <2>1, <2>3 DEF Undisturbing, Does
  <2>5. Agreeing(r)' BY <1>2, <1>5, <2>2 DEF Agreeing
  <2>6. QED BY <2>4, <2>5
<1>10. payment[r] = "captured" BY <1>1 DEF CallOK
<1>11. RowOK(r)' BY <1>1, <1>2, <1>8, <1>9, <1>10 DEF RowOK
<1>12. QED BY <1>1, <1>2, <1>3, <1>5, <1>6, <1>7, <1>11, OneRowAtATime DEF OnRow

-----------------------------------------------------------------------------
(* The refund, of a merchant, of the returns desk or of the sweep.         *)

LEMMA StartRefundKeeps ==
  ASSUME SettlementInv, NEW p \in Processes, NEW r \in Rows, NEW k \in Nat,
         k >= 1, k <= sale[r].amount, p \in Sweepers => k = sale[r].amount,
         call[p].row = NoRow, StartRefund(p, r, k),
         UNCHANGED <<capCount, rowVars, payVars>>,
         queue' \in [Sweepers -> SUBSET Rows], \A s \in Sweepers : queue'[s] \subseteq queue[s]
  PROVE  SettlementInv'
<1>1. /\ Shape /\ RowOK(r) /\ call \in [Processes -> CallSet] /\ NoRow \notin Rows
      /\ status[r] \in {"captured", "held"}
  BY CallTyped DEF SettlementInv, StartRefund
<1>2. /\ UNCHANGED <<sale, status, hold, holdRows, late, overdue, payment, refunded, faults, capCount>>
      /\ disturbed' = IF Busy(r, CaptureSteps) \/ (status[r] = "held" /\ k < sale[r].amount)
                      THEN disturbed \cup {r} ELSE disturbed
  BY DEF StartRefund, rowVars, payVars
<1>3. PICK n \in CallSet : /\ call' = [call EXCEPT ![p] = n]
                           /\ n.pc = "refund" /\ n.row = r /\ n.amount = k
                           /\ n.wasHeld = (status[r] = "held")
  <2> DEFINE h == status[r] = "held"
             m == [Idle EXCEPT !.pc = "refund", !.row = r, !.amount = k, !.wasHeld = h]
  <2>1. call' = [call EXCEPT ![p] = m] BY DEF StartRefund
  <2>2. h \in BOOLEAN OBVIOUS
  <2>3. m \in CallSet /\ m.pc = "refund" /\ m.row = r /\ m.amount = k /\ m.wasHeld = h
    <3> HIDE DEF h
    <3>1. QED BY <2>2, IdleTyped DEF CallSet, PC
  <2> HIDE DEF m
  <2>4. QED BY <2>1, <2>3
<1>4. call'[p] = n /\ \A q \in Processes : q # p => call'[q] = call[q] BY <1>1, <1>3
<1>5. Shape' BY <1>1, <1>2, <1>3 DEF Shape
<1>6. CallOK(p)' BY <1>1, <1>2, <1>3, <1>4 DEF CallOK, RefundSteps
<1>8. InsertsAlone(r)'
  BY <1>1, <1>2, <1>3, <1>4 DEF RowOK, InsertsAlone, OnRow, Does
<1>9. ASSUME r \notin disturbed' PROVE Undisturbing(r)' /\ Agreeing(r)'
  <2>1. /\ r \notin disturbed /\ \A q \in Processes : ~Does(q, r, CaptureSteps)
        /\ status[r] = "held" => k = sale[r].amount
    <3>1. sale[r].amount \in Nat BY <1>1 DEF Shape, Sale
    <3>2. QED BY <1>2, <1>9, <3>1 DEF Busy, Does
  <2>2. Undisturbing(r) /\ Agreeing(r) BY <1>1, <2>1 DEF RowOK
  <2>3. \A q \in Processes : ~Does(q, r, CaptureSteps)'
    BY <1>3, <1>4, <2>1 DEF Does, CaptureSteps
  <2>4. status[r] = "captured" => hold[r] # "held" \/ r \in late
    BY <2>1, <2>2 DEF Agreeing, Does, CaptureSteps
  <2>5. \A q \in Processes : q # p => \A steps : Does(q, r, steps)' <=> Does(q, r, steps)
    BY <1>4 DEF Does
  <2>6. Undisturbing(r)'
    <3>1. ASSUME NEW q \in Processes
          PROVE  /\ ~Does(q, r, {"capture", "mark_captured", "mark_hold_captured"})'
                 /\ (Does(q, r, RefundSteps) /\ call[q].wasHeld => call[q].amount = sale[r].amount)'
                 /\ (Does(q, r, RefundSteps) /\ ~call[q].wasHeld => hold[r] # "held" \/ r \in late)'
                 /\ (Does(q, r, {"close_hold", "expire_hold"}) => status[r] = "failed")'
      <4>1. CASE q = p BY <4>1, <1>1, <1>2, <1>3, <1>4, <2>1, <2>4 DEF Does
      <4>2. CASE q # p BY <4>2, <1>2, <1>4, <2>2, <2>3, <2>5 DEF Undisturbing, CaptureSteps
      <4>3. QED BY <4>1, <4>2
    <3>2. QED BY <3>1, <2>3 DEF Undisturbing, Does
  <2>7. Agreeing(r)'
    <3>1. \A q \in Processes : Does(q, r, {"insert_hold", "mark_hold_captured", "close_hold"})
             => q # p
      BY <1>1 DEF Does
    <3>2. QED BY <1>2, <1>4, <2>2, <3>1 DEF Agreeing, Does
  <2>8. QED BY <2>6, <2>7
<1>10. RowOK(r)' BY <1>1, <1>2, <1>8, <1>9 DEF RowOK
<1>11. \A x \in Rows : x # r => (x \in disturbed <=> x \in disturbed') BY <1>2
<1>12. QED BY <1>1, <1>2, <1>3, <1>5, <1>6, <1>10, <1>11, OneRowAtATime DEF OnRow

LEMMA RefundKeeps ==
  ASSUME SettlementInv, NEW p \in Merchants, NEW r \in Rows, Refund(p, r)
  PROVE  SettlementInv'
<1>1. p \in Processes /\ p \notin Sweepers
  BY SettlementAssumption DEF Processes, Calls
<1>2. PICK k \in RefundAmounts(r) : StartRefund(p, r, k) BY DEF Refund
<1>3. sale[r].amount \in Nat /\ sale[r].amount >= 1 BY DEF SettlementInv, Shape, Sale
<1>4. k \in Nat /\ k >= 1 /\ k <= sale[r].amount BY <1>2, <1>3 DEF RefundAmounts
<1>5. call[p].row = NoRow BY <1>1, CallTyped DEF Refund, At, CallOK
<1>7. UNCHANGED <<capCount, rowVars, payVars>> /\ queue' = queue BY DEF Refund, ledgerVars
<1>8. queue' \in [Sweepers -> SUBSET Rows] /\ \A s \in Sweepers : queue'[s] \subseteq queue[s]
  BY <1>7 DEF SettlementInv, Shape
<1>9. QED BY <1>1, <1>2, <1>4, <1>5, <1>7, <1>8, StartRefundKeeps

\* A refund that moves on without touching its row.
LEMMA RefundMovesOn ==
  ASSUME SettlementInv, NEW p \in Processes, NEW r \in Rows, call[p].row = r,
         call[p].pc \in RefundSteps \ {"close_hold"},
         NEW n \in CallSet, call' = [call EXCEPT ![p] = n], n.row = r, n.pc \in RefundSteps,
         n.pc = "close_hold" => r \in disturbed,
         n.wasHeld = call[p].wasHeld, n.amount = call[p].amount,
         sale' = sale, status' = status, hold' = hold, holdRows' = holdRows, late' = late, queue' = queue,
         disturbed' = disturbed, payment' = payment,
         refunded[r] = sale[r].amount => refunded'[r] = sale[r].amount
  PROVE  RowOK(r)'
<1>1. RowOK(r) /\ call \in [Processes -> CallSet] /\ NoRow \notin Rows
  BY CallTyped DEF SettlementInv
<1>2. call'[p] = n /\ \A q \in Processes : q # p => call'[q] = call[q] BY <1>1
<1>3. InsertsAlone(r)' BY <1>1, <1>2 DEF RowOK, InsertsAlone, OnRow, Does, RefundSteps
<1>4. ASSUME r \notin disturbed PROVE Undisturbing(r)' /\ Agreeing(r)'
  <2>1. Undisturbing(r) /\ Agreeing(r) BY <1>1, <1>4 DEF RowOK
  <2>2. Does(p, r, RefundSteps) /\ Does(p, r, RefundSteps)' /\ n.pc # "close_hold"
    BY <1>2, <1>4 DEF Does
  <2>3. \A q \in Processes : Does(q, r, RefundSteps)' <=> Does(q, r, RefundSteps)
    BY <1>2, <2>2 DEF Does
  <2>4. \A q \in Processes : Does(q, r, CaptureSteps)' <=> Does(q, r, CaptureSteps)
    BY <1>2 DEF Does, RefundSteps, CaptureSteps
  <2>5. \A q \in Processes : call'[q].wasHeld = call[q].wasHeld /\ call'[q].amount = call[q].amount
    BY <1>2
  <2>6. Undisturbing(r)'
    <3>1. ASSUME NEW q \in Processes
          PROVE  /\ (Does(q, r, {"capture", "mark_captured"}) => status[r] \in {"held", "captured"})'
                 /\ (Does(q, r, {"mark_hold_captured"}) => status[r] = "captured")'
                 /\ (Does(q, r, {"close_hold", "expire_hold"}) => status[r] = "failed")'
      <4>1. CASE q = p BY <4>1, <1>2, <1>4 DEF Does, RefundSteps
      <4>2. CASE q # p BY <4>2, <1>2, <2>1 DEF Undisturbing, Does
      <4>3. QED BY <4>1, <4>2
    <3>2. QED BY <2>1, <2>3, <2>4, <2>5, <3>1 DEF Undisturbing
  <2>7. Agreeing(r)'
    <3>1. \A q \in Processes : Does(q, r, {"insert_hold", "mark_hold_captured", "close_hold"})
             => q # p
      BY DEF Does, RefundSteps
    <3>2. QED BY <1>2, <2>1, <3>1 DEF Agreeing, Does
  <2>8. QED BY <2>6, <2>7
<1>5. QED BY <1>1, <1>3, <1>4 DEF RowOK

LEMMA RefundCallKeeps ==
  ASSUME SettlementInv, NEW p \in Processes, RefundCall(p) PROVE SettlementInv'
<1>1. PICK r \in Rows : /\ call[p].row = r /\ call[p].pc = "refund" /\ call[p] \in CallSet
                        /\ CallOK(p) /\ RowOK(r)
                        /\ Shape /\ call \in [Processes -> CallSet] /\ NoRow \notin Rows
  BY CallTyped DEF SettlementInv, RefundCall, At
<1>2. PICK k \in Nat : call[p].amount = k /\ k >= 1 /\ k <= sale[r].amount
  BY <1>1 DEF CallOK, CallSet, RefundSteps
<1> DEFINE Accepted == k <= sale[r].amount - refunded[r] /\ refunded' = [refunded EXCEPT ![r] = @ + k]
<1>3. /\ UNCHANGED <<sale, status, hold, holdRows, late, overdue, payment, queue, capCount>>
      /\ refunded' = refunded \/ Accepted
      /\ disturbed' = disturbed \/ disturbed' = disturbed \cup {r}
      /\ faults' = faults \/ (faults > 0 /\ faults' = faults - 1)
      /\ (Accepted /\ disturbed' = disturbed /\ Goto(p, "read_cap")) \/ Leave(p)
  BY <1>1, <1>2 DEF RefundCall, ledgerVars, rowVars, Undisturbed, faultVars, Refused, ReplyLost, Fault
<1>4. sale[r].amount \in Nat /\ refunded[r] \in Nat /\ refunded[r] <= sale[r].amount
  BY <1>1 DEF Shape, Sale
<1>5. /\ refunded' \in [Rows -> Nat] /\ refunded'[r] <= sale[r].amount
      /\ refunded[r] = sale[r].amount => refunded'[r] = sale[r].amount
      /\ \A x \in Rows : x # r => refunded'[x] = refunded[x]
  BY <1>1, <1>2, <1>3, <1>4 DEF Shape
<1>6. ASSUME NEW n \in CallSet, call' = [call EXCEPT ![p] = n], n.row = r \/ n.row = NoRow,
             CallOK(p)', RowOK(r)'
      PROVE  SettlementInv'
  <2>1. Shape'
    <3>1. faults' \in Nat /\ \E scene \in Scenes : sale = scene.sale /\ faults' \in 0 .. scene.faults
      BY <1>1, <1>3, FaultsSpent
    <3>2. disturbed' \subseteq Rows /\ call' \in [Processes -> CallSet]
      BY <1>1, <1>3, <1>6 DEF Shape
    <3>3. \A x \in Rows : refunded'[x] <= sale[x].amount BY <1>1, <1>5 DEF Shape
    <3>4. QED BY <1>1, <1>3, <1>5, <3>1, <3>2, <3>3 DEF Shape
  <2>2. \A x \in Rows : x # r => (x \in disturbed <=> x \in disturbed') BY <1>3
  <2>3. QED BY <1>1, <1>3, <1>5, <1>6, <2>1, <2>2, OneRowAtATime DEF OnRow
<1>7. CASE Leave(p)
  <2>1. PICK n \in CallSet : /\ call' = [call EXCEPT ![p] = n]
                             /\ n.row = NoRow /\ n.pc \in {"idle", "sweep"}
                             /\ n.pc = "sweep" => p \in Sweepers
    BY <1>7, LeaveIsRest
  <2>2. CallOK(p)' BY <1>1, <2>1, RestOK
  <2>3. disturbed \subseteq disturbed' BY <1>3
  <2>4. RowOK(r)' BY <1>1, <1>3, <1>5, <2>1, <2>3, LeavingKeepsRow
  <2>5. QED BY <1>6, <2>1, <2>2, <2>4
<1>8. CASE Accepted /\ disturbed' = disturbed /\ Goto(p, "read_cap")
  <2> DEFINE m == [call[p] EXCEPT !.pc = "read_cap"]
  <2>1. call' = [call EXCEPT ![p] = m] BY <1>8 DEF Goto
  <2>2. /\ m \in CallSet /\ m.pc = "read_cap" /\ m.row = r /\ m.amount = k
        /\ m.wasHeld = call[p].wasHeld
    BY <1>1, <1>2 DEF CallSet, PC
  <2> HIDE DEF m
  <2>3. call'[p] = m BY <1>1, <2>1
  <2>4. k = sale[r].amount => refunded'[r] = sale[r].amount
    <3>1. refunded'[r] = refunded[r] + k BY <1>1, <1>8 DEF Shape
    <3>2. QED BY <1>2, <1>4, <1>8, <3>1
  <2>5. p \in Sweepers => k = sale[r].amount BY <1>1, <1>2 DEF CallOK, RefundSteps
  <2>6. CallOK(p)' BY <1>1, <1>2, <1>3, <2>2, <2>3, <2>4, <2>5 DEF CallOK, RefundSteps
  <2>7. RowOK(r)' BY <1>1, <1>2, <1>3, <1>5, <1>8, <2>1, <2>2, RefundMovesOn DEF RefundSteps
  <2>8. QED BY <1>6, <2>1, <2>2, <2>6, <2>7
<1>9. QED BY <1>3, <1>7, <1>8

LEMMA GrantsTyped ==
  ASSUME NEW amount \in Nat, NEW lines \in Seq(Line)
  PROVE  GrantsOf(amount, lines) \in Seq(Grant)
<1>1. Line \subseteq Grant BY DEF Line, Grant, Resource
<1>2. lines \in Seq(Grant) BY <1>1
<1>3. <<[of |-> Budget, qty |-> amount]>> \in Seq(Grant) BY DEF Grant, Resource
<1>4. QED BY <1>2, <1>3 DEF GrantsOf

LEMMA UndoTyped ==
  /\ <<>> \in Seq(Grant)
  /\ \A s \in Seq(Grant) : Len(s) > 1 => Tail(s) \in Seq(Grant)
<1>1. <<>> \in Seq(Grant) OBVIOUS
<1>2. ASSUME NEW s \in Seq(Grant), Len(s) > 1 PROVE Tail(s) \in Seq(Grant)
  BY <1>2
<1>3. QED BY <1>1, <1>2

\* A step of a refund that moves on, or is over, without touching its row.
LEMMA RefundStepKeeps ==
  ASSUME SettlementInv, NEW p \in Processes, NEW r \in Rows, call[p].row = r,
         call[p].pc \in {"read_cap", "give_back"},
         NEW n \in CallSet, call' = [call EXCEPT ![p] = n], CallOK(p)',
         \/ /\ n.row = r /\ n.pc \in RefundSteps
            /\ n.pc = "close_hold" => r \in disturbed
            /\ n.wasHeld = call[p].wasHeld /\ n.amount = call[p].amount
         \/ n.row = NoRow,
         UNCHANGED <<capCount, rowVars, payVars, queue, faultVars>>
  PROVE  SettlementInv'
<1>1. UNCHANGED <<capCount, sale, status, hold, holdRows, late, overdue, payment, refunded, queue,
                  faults, disturbed>>
  BY DEF rowVars, payVars, faultVars
<1>2. Shape /\ call \in [Processes -> CallSet] BY DEF SettlementInv, Shape
<1>3. Shape' BY <1>1, <1>2 DEF Shape
<1>4. RowOK(r)'
  <2>1. CASE n.row = NoRow BY <1>1, <2>1, LeavingKeepsRow
  <2>2. CASE n.row # NoRow BY <1>1, <2>2, RefundMovesOn DEF RefundSteps
  <2>3. QED BY <2>1, <2>2
<1>5. QED BY <1>1, <1>3, <1>4, OneRowAtATime DEF OnRow

LEMMA ReadCapKeeps ==
  ASSUME SettlementInv, NEW p \in Processes, ReadCap(p) PROVE SettlementInv'
<1>1. PICK r \in Rows : /\ call[p].row = r /\ call[p].pc = "read_cap" /\ call[p] \in CallSet
                        /\ CallOK(p) /\ Shape /\ NoRow \notin Rows
  BY CallTyped DEF SettlementInv, ReadCap, At
<1> DEFINE u == GrantsOf(call[p].amount, IF IsFullRefund(p) THEN sale[r].lines ELSE <<>>)
           m == [call[p] EXCEPT !.pc = "give_back", !.cap = capCount, !.undo = u]
<1>2. call' = [call EXCEPT ![p] = m] /\ UNCHANGED <<capCount, rowVars, payVars, queue, faultVars>>
  BY <1>1 DEF ReadCap, ledgerVars
<1>3. u \in Seq(Grant)
  <2>1. sale[r].lines \in Seq(Line) /\ <<>> \in Seq(Line) /\ call[p].amount \in Nat
    BY <1>1 DEF Shape, Sale, CallSet
  <2>2. CASE IsFullRefund(p) BY <2>1, <2>2, GrantsTyped
  <2>3. CASE ~IsFullRefund(p) BY <2>1, <2>3, GrantsTyped
  <2>4. QED BY <2>2, <2>3
<1> HIDE DEF u
<1>4. /\ m \in CallSet /\ m.pc = "give_back" /\ m.row = r /\ m.undo = u
      /\ m.wasHeld = call[p].wasHeld /\ m.amount = call[p].amount
  BY <1>1, <1>3 DEF CallSet, PC, Shape
<1> HIDE DEF m
<1>5. call'[p] = m BY <1>2, CallTyped
<1>6. CallOK(p)'
  BY <1>1, <1>2, <1>3, <1>4, <1>5 DEF CallOK, RefundSteps, rowVars, payVars
<1>7. QED BY <1>1, <1>2, <1>4, <1>6, RefundStepKeeps DEF RefundSteps

\* Where a refund goes once everything is given back: a partial one leaves the row
\* and closes at most the hold of a disturbed row.
LEMMA GiveBackKeeps ==
  ASSUME SettlementInv, NEW p \in Processes, GiveBack(p) PROVE SettlementInv'
<1>1. PICK r \in Rows : /\ call[p].row = r /\ call[p].pc = "give_back" /\ call[p] \in CallSet
                        /\ CallOK(p) /\ Shape /\ NoRow \notin Rows /\ RowOK(r)
  BY CallTyped DEF SettlementInv, GiveBack, At
<1> DEFINE undo == call[p].undo
           m == IF Len(undo) > 1 THEN [call[p] EXCEPT !.undo = Tail(undo)] ELSE AfterRelease(p)
<1>2. call' = [call EXCEPT ![p] = m] /\ UNCHANGED <<capCount, rowVars, payVars, queue, faultVars>>
  <2>1. capCount' = capCount
    BY DEF GiveBack, Release, releaseBudget, releaseStock
  <2>2. QED BY <2>1 DEF GiveBack
<1> HIDE DEF m
<1>3. ASSUME m \in CallSet, CallOK(p)',
             \/ /\ m.row = r /\ m.pc \in RefundSteps
                /\ m.pc = "close_hold" => r \in disturbed
                /\ m.wasHeld = call[p].wasHeld /\ m.amount = call[p].amount
             \/ m.row = NoRow
      PROVE  SettlementInv'
  BY <1>1, <1>2, <1>3, RefundStepKeeps
<1>4. call'[p] = m /\ sale' = sale /\ refunded' = refunded
  BY <1>2, CallTyped DEF rowVars, payVars
<1>5. CASE Len(undo) > 1
  <2>1. m = [call[p] EXCEPT !.undo = Tail(undo)] BY <1>5 DEF m
  <2>2. undo \in Seq(Grant) /\ Tail(undo) \in Seq(Grant)
    BY <1>1, <1>5, UndoTyped DEF CallSet
  <2>3. /\ m \in CallSet /\ m.pc = "give_back" /\ m.row = r /\ m.undo = Tail(undo)
        /\ m.wasHeld = call[p].wasHeld /\ m.amount = call[p].amount
    BY <1>1, <2>1, <2>2 DEF CallSet
  <2>4. CallOK(p)' BY <1>1, <1>4, <2>2, <2>3 DEF CallOK, RefundSteps
  <2>5. QED BY <1>3, <2>3, <2>4 DEF RefundSteps
<1>6. CASE ~(Len(undo) > 1) /\ IsFullRefund(p)
  <2>1. m = [call[p] EXCEPT !.pc = "fail_row", !.undo = <<>>] BY <1>6 DEF m, AfterRelease
  <2>2. /\ m \in CallSet /\ m.pc = "fail_row" /\ m.row = r
        /\ m.wasHeld = call[p].wasHeld /\ m.amount = call[p].amount
    BY <1>1, <2>1, UndoTyped DEF CallSet, PC
  <2>3. CallOK(p)' BY <1>1, <1>4, <1>6, <2>2 DEF CallOK, RefundSteps, IsFullRefund
  <2>4. QED BY <1>3, <2>2, <2>3 DEF RefundSteps
<1>7. CASE ~(Len(undo) > 1) /\ ~IsFullRefund(p) /\ call[p].wasHeld
  <2>1. m = [call[p] EXCEPT !.pc = "close_hold", !.undo = <<>>]
    BY <1>7 DEF m, AfterRelease, AfterRow
  <2>2. /\ m \in CallSet /\ m.pc = "close_hold" /\ m.row = r
        /\ m.wasHeld = call[p].wasHeld /\ m.amount = call[p].amount
    BY <1>1, <2>1, UndoTyped DEF CallSet, PC
  <2>3. CallOK(p)' BY <1>1, <1>4, <1>7, <2>2 DEF CallOK, RefundSteps
  <2>4. r \in disturbed
    BY <1>1, <1>7 DEF RowOK, Undisturbing, Does, RefundSteps, IsFullRefund
  <2>5. QED BY <1>3, <2>2, <2>3, <2>4 DEF RefundSteps
<1>8. CASE ~(Len(undo) > 1) /\ ~IsFullRefund(p) /\ ~call[p].wasHeld
  <2>1. p \notin Sweepers BY <1>1, <1>8 DEF CallOK, RefundSteps, IsFullRefund
  <2>2. m = Idle BY <1>8, <2>1 DEF m, AfterRelease, AfterRow, Returned
  <2>3. m \in CallSet /\ m.pc = "idle" /\ m.row = NoRow BY <2>2, IdleTyped
  <2>4. CallOK(p)' BY <1>2, <2>3, RestOK, CallTyped
  <2>5. QED BY <1>3, <2>3, <2>4
<1>9. QED BY <1>5, <1>6, <1>7, <1>8

\* What a refund does after it has closed the row, and the hold.
LEMMA ReturnedIs ==
  ASSUME SettlementInv, NEW p \in Processes, NEW r \in Rows, call[p].row = r
  PROVE  /\ Returned(p) \in CallSet
         /\ p \in Sweepers => Returned(p).pc = "expire_hold" /\ Returned(p).row = r
         /\ p \notin Sweepers => Returned(p).pc = "idle" /\ Returned(p).row = NoRow
<1>1. CASE p \in Sweepers BY <1>1, IdleTyped DEF Returned
<1>2. CASE p \notin Sweepers BY <1>2, IdleTyped DEF Returned
<1>3. QED BY <1>1, <1>2

LEMMA FailRowKeeps ==
  ASSUME SettlementInv, NEW p \in Processes, FailRow(p) PROVE SettlementInv'
<1>1. PICK r \in Rows : /\ call[p].row = r /\ call[p].pc = "fail_row" /\ call[p] \in CallSet
                        /\ CallOK(p) /\ RowOK(r)
                        /\ Shape /\ call \in [Processes -> CallSet] /\ NoRow \notin Rows
  BY CallTyped DEF SettlementInv, FailRow, At
<1>2. /\ status' = [status EXCEPT ![r] = "failed"]
      /\ UNCHANGED <<sale, hold, holdRows, late, overdue, payment, refunded, queue, faults, disturbed,
                     capCount>>
  BY <1>1 DEF FailRow, ledgerVars, payVars, faultVars
<1>3. /\ status' \in [Rows -> {"executed", "held", "captured", "failed"}]
      /\ status'[r] = "failed" /\ \A x \in Rows : x # r => status'[x] = status[x]
  BY <1>1, <1>2 DEF Shape
<1>4. refunded[r] = sale[r].amount /\ call[p].amount = sale[r].amount
  BY <1>1 DEF CallOK, RefundSteps
<1>5. PICK n \in CallSet :
        /\ call' = [call EXCEPT ![p] = n]
        /\ call[p].wasHeld => /\ n.row = r /\ n.pc = "close_hold" /\ n.wasHeld
                              /\ n.amount = sale[r].amount
        /\ ~call[p].wasHeld /\ p \in Sweepers => n.row = r /\ n.pc = "expire_hold"
        /\ ~call[p].wasHeld /\ p \notin Sweepers => n.row = NoRow /\ n.pc = "idle"
  <2> DEFINE m == AfterRow(p)
  <2>1. call' = [call EXCEPT ![p] = m] BY DEF FailRow
  <2>2. CASE call[p].wasHeld
    <3>1. m = [call[p] EXCEPT !.pc = "close_hold", !.undo = <<>>] BY <2>2 DEF AfterRow
    <3>2. m \in CallSet /\ m.row = r /\ m.pc = "close_hold" /\ m.wasHeld /\ m.amount = sale[r].amount
      BY <1>1, <1>4, <2>2, <3>1, UndoTyped DEF CallSet, PC
    <3> HIDE DEF m
    <3>3. QED BY <2>1, <2>2, <3>2
  <2>3. CASE ~call[p].wasHeld
    <3>1. m = Returned(p) BY <2>3 DEF AfterRow
    <3> HIDE DEF m
    <3>2. QED BY <1>1, <2>1, <2>3, <3>1, ReturnedIs
  <2>4. QED BY <2>2, <2>3
<1>6. call'[p] = n /\ \A q \in Processes : q # p => call'[q] = call[q] BY <1>1, <1>5
<1>7. n.row = r \/ n.row = NoRow BY <1>5
<1>8. n.pc \in {"close_hold", "expire_hold", "idle"} BY <1>5
<1>9. Shape' BY <1>1, <1>2, <1>3, <1>5 DEF Shape
<1>10. CallOK(p)'
  <2>1. CASE n.pc = "close_hold"
    BY <1>1, <1>2, <1>4, <1>5, <1>6, <2>1 DEF CallOK, RefundSteps, CallSet
  <2>2. CASE n.pc = "expire_hold"
    BY <1>1, <1>2, <1>4, <1>5, <1>6, <2>2 DEF CallOK, RefundSteps, CallSet
  <2>3. CASE n.pc = "idle"
    BY <1>1, <1>2, <1>4, <1>5, <1>6, <2>3 DEF CallOK, RefundSteps, CallSet
  <2>4. QED BY <1>8, <2>1, <2>2, <2>3
<1>11. InsertsAlone(r)'
  BY <1>1, <1>2, <1>3, <1>6, <1>7, <1>8 DEF RowOK, InsertsAlone, OnRow, Does, RefundSteps
<1>12. ASSUME r \notin disturbed PROVE Undisturbing(r)' /\ Agreeing(r)'
  <2>1. Undisturbing(r) /\ Agreeing(r) BY <1>1, <1>12 DEF RowOK
  <2>2. Does(p, r, RefundSteps) BY <1>1 DEF Does, RefundSteps
  <2>3. \A q \in Processes : ~Does(q, r, CaptureSteps) BY <2>1, <2>2 DEF Undisturbing
  <2>4. \A q \in Processes : ~Does(q, r, CaptureSteps)'
    BY <1>6, <1>8, <2>3 DEF Does, CaptureSteps
  <2>5. ~call[p].wasHeld => hold[r] # "held" \/ r \in late BY <2>1, <2>2 DEF Undisturbing
  <2>6. Undisturbing(r)'
    <3>1. ASSUME NEW q \in Processes
          PROVE  /\ ~Does(q, r, {"capture", "mark_captured", "mark_hold_captured"})'
                 /\ (Does(q, r, RefundSteps) /\ call[q].wasHeld => call[q].amount = sale[r].amount)'
                 /\ (Does(q, r, RefundSteps) /\ ~call[q].wasHeld => hold[r] # "held" \/ r \in late)'
      <4>1. CASE q = p BY <4>1, <1>2, <1>5, <1>6, <1>8 DEF Does, RefundSteps
      <4>2. CASE q # p BY <4>2, <1>2, <1>6, <2>1, <2>4 DEF Undisturbing, Does, CaptureSteps
      <4>3. QED BY <4>1, <4>2
    <3>2. QED BY <1>3, <2>4, <3>1 DEF Undisturbing, Does
  <2>7. (hold[r] = "held" /\ r \notin late => \E q \in Processes : Does(q, r, {"close_hold"}))'
    BY <1>2, <1>5, <1>6, <2>5 DEF Does
  <2>8. Agreeing(r)' BY <1>2, <1>3, <1>4, <2>7 DEF Agreeing
  <2>9. QED BY <2>6, <2>8
<1>13. RowOK(r)' BY <1>1, <1>2, <1>11, <1>12 DEF RowOK
<1>14. QED BY <1>1, <1>2, <1>3, <1>5, <1>7, <1>9, <1>10, <1>13, OneRowAtATime DEF OnRow

\* Closing the hold, or writing the sweep's own outcome over it, of a row that failed.
LEMMA ClosingKeepsRow ==
  ASSUME SettlementInv, NEW p \in Processes, NEW r \in Rows, call[p].row = r,
         call[p].pc \in {"close_hold", "expire_hold"},
         NEW o \in {"refunded", "expired_refunded"},
         IF hold[r] = "none" THEN hold'[r] = "none" ELSE hold'[r] = o,
         NEW n \in CallSet, call' = [call EXCEPT ![p] = n],
         (n.row = r /\ n.pc = "expire_hold") \/ n.row = NoRow,
         sale' = sale, status' = status, holdRows' = holdRows, late' = late, queue' = queue,
         disturbed' = disturbed, payment' = payment, refunded' = refunded
  PROVE  RowOK(r)'
<1>1. /\ RowOK(r) /\ call \in [Processes -> CallSet] /\ NoRow \notin Rows /\ CallOK(p)
  BY CallTyped DEF SettlementInv
<1>2. call'[p] = n /\ \A q \in Processes : q # p => call'[q] = call[q] BY <1>1
<1>3. InsertsAlone(r)' BY <1>1, <1>2 DEF RowOK, InsertsAlone, OnRow, Does, RefundSteps
<1>4. ASSUME r \notin disturbed PROVE Undisturbing(r)' /\ Agreeing(r)'
  <2>1. Undisturbing(r) /\ Agreeing(r) BY <1>1, <1>4 DEF RowOK
  <2>2. status[r] = "failed" BY <2>1 DEF Undisturbing, Does
  <2>3. refunded[r] = sale[r].amount
    <3>1. CASE call[p].pc = "expire_hold" BY <1>1, <3>1 DEF CallOK
    <3>2. CASE call[p].pc = "close_hold"
      <4>1. Does(p, r, RefundSteps) /\ call[p].wasHeld
        BY <1>1, <3>2 DEF CallOK, Does, RefundSteps
      <4>2. call[p].amount = sale[r].amount BY <2>1, <4>1 DEF Undisturbing
      <4>3. QED BY <1>1, <3>2, <4>2 DEF CallOK, RefundSteps
    <3>3. QED BY <3>1, <3>2
  <2>4. Undisturbing(r)'
    <3>1. ASSUME NEW q \in Processes
          PROVE  /\ ~Does(q, r, {"capture", "mark_captured", "mark_hold_captured"})'
                 /\ (Does(q, r, RefundSteps) /\ call[q].wasHeld => call[q].amount = sale[r].amount)'
      <4>1. CASE q = p BY <4>1, <1>1, <1>2 DEF Does, RefundSteps
      <4>2. CASE q # p BY <4>2, <1>2, <2>1, <2>2 DEF Undisturbing, Does
      <4>3. QED BY <4>1, <4>2
    <3>2. QED BY <2>2, <3>1 DEF Undisturbing, Does, CaptureSteps
  <2>5. Agreeing(r)' BY <2>2, <2>3 DEF Agreeing
  <2>6. QED BY <2>4, <2>5
<1>5. QED BY <1>1, <1>3, <1>4 DEF RowOK

LEMMA CloseHoldKeeps ==
  ASSUME SettlementInv, NEW p \in Processes, CloseHold(p) PROVE SettlementInv'
<1>1. PICK r \in Rows : /\ call[p].row = r /\ call[p].pc = "close_hold" /\ call[p] \in CallSet
                        /\ CallOK(p) /\ RowOK(r)
                        /\ Shape /\ call \in [Processes -> CallSet] /\ NoRow \notin Rows
  BY CallTyped DEF SettlementInv, CloseHold, At
<1>2. /\ CloseHoldAs(r, "refunded")
      /\ UNCHANGED <<sale, status, holdRows, late, overdue, payment, refunded, queue, faults, disturbed,
                     capCount>>
  BY <1>1 DEF CloseHold, ledgerVars, payVars, faultVars
<1>3. /\ hold' \in [Rows -> {"none", "held", "captured", "refunded", "expired_refunded"}]
      /\ IF hold[r] = "none" THEN hold'[r] = "none" ELSE hold'[r] = "refunded"
      /\ \A x \in Rows : x # r => hold'[x] = hold[x]
  BY <1>1, <1>2, ClosingHold
<1>4. PICK n \in CallSet : /\ call' = [call EXCEPT ![p] = n]
                           /\ p \in Sweepers => n.pc = "expire_hold" /\ n.row = r
                           /\ p \notin Sweepers => n.pc = "idle" /\ n.row = NoRow
  BY <1>1, ReturnedIs DEF CloseHold
<1>5. call'[p] = n BY <1>1, <1>4
<1>6. Shape' BY <1>1, <1>2, <1>3, <1>4 DEF Shape
<1>7. p \in Sweepers => refunded[r] = sale[r].amount BY <1>1 DEF CallOK, RefundSteps
<1>8. CallOK(p)' BY <1>1, <1>2, <1>4, <1>5, <1>7 DEF CallOK, RefundSteps
<1>9. RowOK(r)' BY <1>1, <1>2, <1>3, <1>4, ClosingKeepsRow
<1>10. n.row = r \/ n.row = NoRow BY <1>4
<1>11. QED BY <1>1, <1>2, <1>3, <1>4, <1>6, <1>8, <1>9, <1>10, OneRowAtATime DEF OnRow

LEMMA ExpireHoldKeeps ==
  ASSUME SettlementInv, NEW p \in Processes, ExpireHold(p) PROVE SettlementInv'
<1>1. PICK r \in Rows : /\ call[p].row = r /\ call[p].pc = "expire_hold" /\ call[p] \in CallSet
                        /\ CallOK(p) /\ RowOK(r)
                        /\ Shape /\ call \in [Processes -> CallSet] /\ NoRow \notin Rows
  BY CallTyped DEF SettlementInv, ExpireHold, At
<1>2. /\ CloseHoldAs(r, "expired_refunded")
      /\ UNCHANGED <<sale, status, holdRows, late, overdue, payment, refunded, queue, faults, disturbed,
                     capCount>>
  BY <1>1 DEF ExpireHold, ledgerVars, payVars, faultVars
<1>3. /\ hold' \in [Rows -> {"none", "held", "captured", "refunded", "expired_refunded"}]
      /\ IF hold[r] = "none" THEN hold'[r] = "none" ELSE hold'[r] = "expired_refunded"
      /\ \A x \in Rows : x # r => hold'[x] = hold[x]
  BY <1>1, <1>2, ClosingHold
<1>4. PICK n \in CallSet : /\ call' = [call EXCEPT ![p] = n]
                           /\ n.row = NoRow /\ n.pc \in {"idle", "sweep"}
                           /\ n.pc = "sweep" => p \in Sweepers
  BY LeaveIsRest DEF ExpireHold
<1>5. Shape' BY <1>1, <1>2, <1>3, <1>4 DEF Shape
<1>6. CallOK(p)' BY <1>1, <1>4, RestOK
<1>7. RowOK(r)' BY <1>1, <1>2, <1>3, <1>4, ClosingKeepsRow
<1>8. QED BY <1>1, <1>2, <1>3, <1>4, <1>5, <1>6, <1>7, OneRowAtATime DEF OnRow

-----------------------------------------------------------------------------
(* The sweep's own steps, and a process that dies.                         *)

\* A sweep between two holds touches no row.
LEMMA SweepMoves ==
  ASSUME SettlementInv, NEW p \in Sweepers, call[p].row = NoRow,
         NEW n \in CallSet, call' = [call EXCEPT ![p] = n],
         n.row = NoRow, n.pc \in {"idle", "sweep"},
         UNCHANGED <<capCount, rowVars, payVars, faultVars>>,
         queue' \in [Sweepers -> SUBSET Rows],
         \A s \in Sweepers : \A x \in queue'[s] : x \in queue[s] \/ hold[x] # "none"
  PROVE  SettlementInv'
<1>1. UNCHANGED <<capCount, sale, status, hold, holdRows, late, overdue, payment, refunded, faults,
                  disturbed>>
  BY DEF rowVars, payVars, faultVars
<1>2. /\ p \in Processes /\ Shape /\ call \in [Processes -> CallSet] /\ NoRow \notin Rows
  BY SettlementAssumption DEF SettlementInv, Shape, Processes
<1>3. Shape' BY <1>1, <1>2 DEF Shape
<1>4. CallOK(p)' BY <1>2, RestOK
<1>5. PICK r : r \in Rows BY SettlementAssumption
<1>6. RowOK(r)'
  <2>1. RowOK(r) BY <1>5 DEF SettlementInv
  <2>2. \A q \in Processes : call'[q].row = r \/ call[q].row = r => call'[q] = call[q]
    BY <1>2, <1>5
  <2>3. \A q \in Processes : OnRow(q, r)' <=> OnRow(q, r) BY <2>2 DEF OnRow
  <2>4. \A q \in Processes : \A steps : Does(q, r, steps)' <=> Does(q, r, steps)
    BY <2>2 DEF Does
  <2>5. InsertsAlone(r)' BY <1>1, <1>5, <2>1, <2>2, <2>3, <2>4 DEF RowOK, InsertsAlone, Does, OnRow, RefundSteps
  <2>6. ASSUME r \notin disturbed PROVE Undisturbing(r)' /\ Agreeing(r)'
    <3>1. Undisturbing(r) /\ Agreeing(r) BY <2>1, <2>6 DEF RowOK
    <3>2. \A q \in Processes : Does(q, r, RefundSteps) => call'[q] = call[q]
      BY <2>2 DEF Does
    <3>3. Undisturbing(r)' BY <1>1, <2>4, <3>1, <3>2 DEF Undisturbing
    <3>4. Agreeing(r)' BY <1>1, <2>4, <3>1 DEF Agreeing
    <3>5. QED BY <3>3, <3>4
  <2>7. QED BY <1>1, <2>1, <2>5, <2>6 DEF RowOK
<1>7. QED BY <1>1, <1>2, <1>3, <1>4, <1>5, <1>6, OneRowAtATime DEF OnRow

LEMMA SweepGoto ==
  ASSUME SettlementInv, NEW p \in Sweepers, call[p].pc \in {"idle", "sweep"},
         NEW l \in {"idle", "sweep"}, Goto(p, l)
  PROVE  /\ call[p].row = NoRow
         /\ \E n \in CallSet : call' = [call EXCEPT ![p] = n] /\ n.row = NoRow /\ n.pc = l
<1>1. p \in Processes BY DEF Processes
<1>2. call[p] \in CallSet /\ call[p].row = NoRow BY <1>1, CallTyped DEF CallOK
<1> DEFINE m == [call[p] EXCEPT !.pc = l]
<1>3. call' = [call EXCEPT ![p] = m] BY DEF Goto
<1>4. m \in CallSet /\ m.row = NoRow /\ m.pc = l BY <1>2 DEF CallSet, PC
<1> HIDE DEF m
<1>5. QED BY <1>2, <1>3, <1>4

LEMMA SelectExpiredKeeps ==
  ASSUME SettlementInv, NEW s \in Sweepers, SelectExpired(s) PROVE SettlementInv'
<1>1. Shape BY DEF SettlementInv
<1>2. queue' \in [Sweepers -> SUBSET Rows]
  BY <1>1 DEF SelectExpired, Shape, Due
<1>3. \A t \in Sweepers : \A x \in queue'[t] : x \in queue[t] \/ hold[x] # "none"
  BY <1>1 DEF SelectExpired, Shape, Due
<1>4. call[s].row = NoRow
      /\ \E n \in CallSet : call' = [call EXCEPT ![s] = n] /\ n.row = NoRow /\ n.pc = "sweep"
  BY SweepGoto DEF SelectExpired, At
<1>5. UNCHANGED <<capCount, rowVars, payVars, faultVars>> BY DEF SelectExpired, ledgerVars
<1>6. QED BY <1>2, <1>3, <1>4, <1>5, SweepMoves

LEMMA EndSweepKeeps ==
  ASSUME SettlementInv, NEW s \in Sweepers, EndSweep(s) PROVE SettlementInv'
<1>1. queue' = queue /\ queue \in [Sweepers -> SUBSET Rows]
  BY DEF SettlementInv, Shape, EndSweep
<1>2. call[s].row = NoRow
      /\ \E n \in CallSet : call' = [call EXCEPT ![s] = n] /\ n.row = NoRow /\ n.pc = "idle"
  BY SweepGoto DEF EndSweep, At
<1>3. UNCHANGED <<capCount, rowVars, payVars, faultVars>> BY DEF EndSweep, ledgerVars
<1>4. QED BY <1>1, <1>2, <1>3, SweepMoves

LEMMA RefundExpiredKeeps ==
  ASSUME SettlementInv, NEW s \in Sweepers, RefundExpired(s) PROVE SettlementInv'
<1>1. /\ Shape /\ s \in Processes /\ call[s].row = NoRow /\ call[s].pc = "sweep"
      /\ call[s] \in CallSet /\ call \in [Processes -> CallSet]
  <2>1. s \in Processes BY DEF Processes
  <2>2. QED BY <2>1, CallTyped DEF SettlementInv, RefundExpired, At, CallOK
<1>2. PICK r \in queue[s] :
        /\ queue' = [queue EXCEPT ![s] = @ \ {r}]
        /\ \/ StartRefund(s, r, sale[r].amount)
           \/ status[r] \notin {"captured", "held"} /\ UNCHANGED <<call, faultVars>>
  BY DEF RefundExpired
<1>3. /\ r \in Rows /\ hold[r] # "none"
      /\ queue' \in [Sweepers -> SUBSET Rows]
      /\ \A t \in Sweepers : queue'[t] \subseteq queue[t]
  BY <1>1, <1>2 DEF SettlementInv, Shape, RowOK, InsertsAlone
<1>4. sale[r].amount \in Nat /\ sale[r].amount >= 1 BY <1>1, <1>3 DEF Shape, Sale
<1>5. UNCHANGED <<capCount, rowVars, payVars>> BY DEF RefundExpired, ledgerVars
<1>6. CASE StartRefund(s, r, sale[r].amount)
  BY <1>1, <1>3, <1>4, <1>5, <1>6, StartRefundKeeps
<1>7. CASE UNCHANGED <<call, faultVars>>
  <2>1. call' = [call EXCEPT ![s] = call[s]] BY <1>1, <1>7
  <2>2. QED BY <1>1, <1>3, <1>5, <1>7, <2>1, SweepMoves
<1>8. QED BY <1>2, <1>6, <1>7

LEMMA CrashKeeps ==
  ASSUME SettlementInv, NEW p \in Processes, Crash(p) PROVE SettlementInv'
<1>1. /\ Shape /\ call \in [Processes -> CallSet] /\ NoRow \notin Rows
      /\ call[p].row \in Rows \cup {NoRow} /\ \E x : x \in Rows
  BY CallTyped, SettlementAssumption DEF SettlementInv
<1>2. PICK r \in Rows : call[p].row = r \/ call[p].row = NoRow BY <1>1
<1>3. /\ call' = [call EXCEPT ![p] = Idle]
      /\ queue' = [s \in Sweepers |-> IF s = p THEN {} ELSE queue[s]]
      /\ disturbed' = disturbed \cup ({call[p].row} \ {NoRow})
      /\ faults > 0 /\ faults' = faults - 1
      /\ UNCHANGED <<capCount, sale, status, hold, holdRows, late, overdue, payment, refunded>>
  BY DEF Crash, Fault, ledgerVars, rowVars, payVars
<1>4. call'[p] = Idle /\ \A q \in Processes : q # p => call'[q] = call[q] BY <1>1, <1>3
<1>5. Shape'
  <2>1. faults' \in Nat /\ \E scene \in Scenes : sale = scene.sale /\ faults' \in 0 .. scene.faults
    BY <1>1, <1>3, FaultsSpent
  <2>2. call' \in [Processes -> CallSet] BY <1>1, <1>3, IdleTyped
  <2>3. queue' \in [Sweepers -> SUBSET Rows] BY <1>1, <1>3 DEF Shape
  <2>4. disturbed' \subseteq Rows BY <1>1, <1>3 DEF Shape
  <2>5. QED BY <1>1, <1>3, <2>1, <2>2, <2>3, <2>4 DEF Shape
<1>6. CallOK(p)' BY <1>1, <1>3, IdleTyped, RestOK
<1>7. RowOK(r) BY DEF SettlementInv
<1>8. InsertsAlone(r)'
  BY <1>1, <1>3, <1>4, <1>7, IdleTyped DEF RowOK, InsertsAlone, OnRow, Does
<1>9. ASSUME r \notin disturbed' PROVE Undisturbing(r)' /\ Agreeing(r)'
  <2>1. call[p].row = NoRow /\ r \notin disturbed BY <1>1, <1>2, <1>3, <1>9
  <2>2. Undisturbing(r) /\ Agreeing(r) BY <1>7, <2>1 DEF RowOK
  <2>3. \A q \in Processes : call'[q].row = r \/ call[q].row = r => call'[q] = call[q]
    <3>1. Idle.row = NoRow BY IdleTyped
    <3>2. call'[p].row # r /\ call[p].row # r BY <1>1, <1>4, <2>1, <3>1
    <3>3. QED BY <1>4, <3>2
  <2>4. \A q \in Processes : \A steps : Does(q, r, steps)' <=> Does(q, r, steps)
    BY <2>3 DEF Does
  <2>5. \A q \in Processes : Does(q, r, RefundSteps) => call'[q] = call[q]
    BY <2>3 DEF Does
  <2>6. Undisturbing(r)' BY <1>3, <2>2, <2>4, <2>5 DEF Undisturbing
  <2>7. Agreeing(r)' BY <1>3, <2>2, <2>4 DEF Agreeing
  <2>8. QED BY <2>6, <2>7
<1>10. RowOK(r)' BY <1>3, <1>7, <1>8, <1>9 DEF RowOK
<1>11. \A x \in Rows : x # r => /\ x \in disturbed <=> x \in disturbed'
                                /\ \A s \in Sweepers : x \in queue'[s] => x \in queue[s]
  BY <1>1, <1>2, <1>3
<1>12. Idle.row = NoRow BY IdleTyped
<1>13. QED BY <1>2, <1>3, <1>5, <1>6, <1>10, <1>11, <1>12, OneRowAtATime DEF OnRow

-----------------------------------------------------------------------------
(* The invariant and what follows from it.                                 *)

LEMMA InitHolds == ASSUME Init PROVE SettlementInv
<1>1. PICK scene \in Scenes : sale = scene.sale /\ faults = scene.faults BY DEF Init
<1>2. sale \in [Rows -> Sale] /\ faults \in Nat /\ scene.faults \in Nat
  BY <1>1, SettlementAssumption DEF Scene
<1>3. faults \in 0 .. scene.faults BY <1>1, <1>2
<1>4. capCount \in CapIds
  <2>1. capCount = MaxCaps BY DEF Init
  <2>2. MaxCaps \in Nat /\ MaxCaps # 0 BY LedgerAssumption
  <2>3. QED BY <2>1, <2>2 DEF CapIds
<1>5. /\ status = [r \in Rows |-> "executed"] /\ hold = [r \in Rows |-> "none"]
      /\ holdRows = [r \in Rows |-> 0] /\ late = {} /\ overdue = [r \in Rows |-> FALSE]
      /\ payment = [r \in Rows |-> "none"] /\ refunded = [r \in Rows |-> 0]
      /\ call = [p \in Processes |-> Idle] /\ queue = [s \in Sweepers |-> {}]
      /\ disturbed = {}
  BY DEF Init
<1>6. \A r \in Rows : sale[r].amount \in Nat BY <1>2 DEF Sale
<1>7. Shape
  <2>1. call \in [Processes -> CallSet] BY <1>5, IdleTyped
  <2>2. \A r \in Rows : refunded[r] <= sale[r].amount BY <1>5, <1>6
  <2>3. /\ status \in [Rows -> {"executed", "held", "captured", "failed"}]
        /\ hold \in [Rows -> {"none", "held", "captured", "refunded", "expired_refunded"}]
        /\ holdRows \in [Rows -> Nat] /\ late \subseteq Rows /\ overdue \in [Rows -> BOOLEAN]
        /\ payment \in [Rows -> {"none", "authorized", "captured"}]
        /\ refunded \in [Rows -> Nat] /\ queue \in [Sweepers -> SUBSET Rows]
        /\ disturbed \subseteq Rows
    BY <1>5
  <2>4. QED BY <1>1, <1>2, <1>3, <1>4, <2>1, <2>2, <2>3 DEF Shape
<1>8. NoRow \notin Rows /\ \A p \in Processes : call[p].pc = "idle" /\ call[p].row = NoRow
  BY <1>5, IdleTyped, SettlementAssumption
<1>9. ASSUME NEW p \in Processes PROVE CallOK(p)
  BY <1>8 DEF CallOK, RefundSteps
<1>10. ASSUME NEW r \in Rows PROVE RowOK(r)
  BY <1>5, <1>8 DEF RowOK, InsertsAlone, Undisturbing, Agreeing, OnRow, Does
<1>11. QED BY <1>7, <1>9, <1>10 DEF SettlementInv

LEMMA NextKeeps == ASSUME SettlementInv, Next PROVE SettlementInv'
<1>1. Signals \subseteq Processes /\ Merchants \subseteq Processes
      /\ Calls \subseteq Processes /\ Sweepers \subseteq Processes
  BY DEF Processes, Calls
<1>2. ASSUME NEW p \in Processes, RefundStep(p) PROVE SettlementInv'
  BY <1>2, RefundCallKeeps, ReadCapKeeps, GiveBackKeeps, FailRowKeeps, CloseHoldKeeps
     DEF RefundStep
<1>3. ASSUME NEW p \in Calls, CallStep(p) PROVE SettlementInv'
  BY <1>1, <1>2, <1>3, InsertHoldKeeps, CaptureCallKeeps, MarkCapturedKeeps,
     MarkHoldCapturedKeeps DEF CallStep
<1>4. ASSUME NEW s \in Sweepers, SweepStep(s) PROVE SettlementInv'
  BY <1>1, <1>2, <1>4, SelectExpiredKeeps, RefundExpiredKeeps, EndSweepKeeps, ExpireHoldKeeps
     DEF SweepStep
<1>5. QED
  BY <1>1, <1>3, <1>4, PayKeeps, OverdueKeeps, ConfirmCaptureKeeps, CaptureHeldKeeps,
     RefundKeeps, CrashKeeps DEF Next

LEMMA StutterKeeps == ASSUME SettlementInv, UNCHANGED vars PROVE SettlementInv'
<1>1. UNCHANGED <<capCount, sale, status, hold, holdRows, late, overdue, payment, refunded, call,
                  queue, faults, disturbed>>
  BY DEF vars, ledgerVars, rowVars, payVars, faultVars
<1>2. Shape' BY <1>1 DEF SettlementInv, Shape
<1>3. ASSUME NEW p \in Processes PROVE CallOK(p)' BY <1>1 DEF SettlementInv, CallOK
<1>4. ASSUME NEW r \in Rows PROVE RowOK(r)'
  BY <1>1 DEF SettlementInv, RowOK, InsertsAlone, Undisturbing, Agreeing, Does, OnRow
<1>5. QED BY <1>2, <1>3, <1>4 DEF SettlementInv

\* What calls under way know of their rows, and rows of the calls that will mend them,
\* survives every interleaving, refusal, lost reply and crash.
THEOREM SettlementInvariant == Spec => []SettlementInv
<1>1. Init => SettlementInv BY InitHolds
<1>2. SettlementInv /\ [Next]_vars => SettlementInv' BY NextKeeps, StutterKeeps
<1>3. QED BY <1>1, <1>2, PTL DEF Spec

\* Every row, hold, payment and call is in a state the code knows, and Razorpay never
\* gives back more than was paid.
THEOREM SettlementTyped == Spec => []SettlementTypeOK
<1>1. SettlementInv => SettlementTypeOK
  <2> SUFFICES ASSUME Shape PROVE SettlementTypeOK BY DEF SettlementInv
  <2>1. \A r \in Rows : refunded[r] \in 0 .. sale[r].amount BY DEF Shape, Sale
  <2>2. QED BY <2>1 DEF Shape, SettlementTypeOK, CallSet
<1>2. QED BY <1>1, SettlementInvariant, PTL

\* However checkout verification and webhook race in confirmCapture, one payment opens
\* at most one escrow hold.
THEOREM HoldOpenedOnce == Spec => []OneHoldPerRow
<1>1. SettlementInv => OneHoldPerRow BY DEF SettlementInv, RowOK, OneHoldPerRow
<1>2. QED BY <1>1, SettlementInvariant, PTL

\* Once nothing is under way, an undisturbed row that is held has its hold open, an open
\* hold is on a held row or came late, and what a hold says was captured or given back
\* was so at Razorpay.
THEOREM HoldsAreTrue == Spec => []HoldsTellTheTruth
<1>1. ASSUME SettlementInv, Quiet, NEW r \in Rows \ disturbed
      PROVE  /\ status[r] = "held" => hold[r] = "held"
             /\ hold[r] = "held" => status[r] = "held" \/ r \in late
             /\ hold[r] = "captured" => payment[r] = "captured"
             /\ hold[r] \in {"refunded", "expired_refunded"} => refunded[r] = sale[r].amount
  <2>1. RowOK(r) /\ Agreeing(r) /\ status[r] \in {"executed", "held", "captured", "failed"}
    BY <1>1 DEF SettlementInv, RowOK, Shape
  <2>2. \A p \in Processes : ~Does(p, r, {"insert_hold", "mark_hold_captured", "close_hold"})
    BY <1>1 DEF Quiet, At, Does
  <2>3. /\ status[r] = "held" => hold[r] = "held"
        /\ hold[r] = "held" => status[r] = "held" \/ r \in late
    BY <2>1, <2>2 DEF RowOK, InsertsAlone, Agreeing, Does
  <2>4. QED BY <2>1, <2>3 DEF RowOK, Agreeing
<1>2. SettlementInv => HoldsTellTheTruth BY <1>1 DEF HoldsTellTheTruth
<1>3. QED BY <1>2, SettlementInvariant, PTL

\* Only markCaptured writes a status over another, and no capture is under way on an
\* undisturbed row that failed.
LEMMA FailedStays ==
  ASSUME SettlementInv, [Next]_vars, NEW r \in Rows \ disturbed, status[r] = "failed"
  PROVE  status'[r] = "failed"
<1>1. Undisturbing(r) /\ status \in [Rows -> {"executed", "held", "captured", "failed"}]
  BY DEF SettlementInv, RowOK, Shape
<1>2. CASE \E p \in Processes : MarkCaptured(p)
  <2>1. PICK p \in Processes : MarkCaptured(p) BY <1>2
  <2>2. call[p].row # r
    BY <1>1, <2>1 DEF Undisturbing, Does, MarkCaptured, At
  <2>3. QED BY <1>1, <2>1, <2>2 DEF MarkCaptured
<1>3. CASE \E p \in Processes, x \in Rows : ConfirmCapture(p, x)
  BY <1>1, <1>3 DEF ConfirmCapture, Confirmable
<1>4. CASE \E p \in Processes : FailRow(p)
  BY <1>1, <1>4 DEF FailRow
<1>5. CASE status' = status BY <1>1, <1>5
<1>6. QED
  BY <1>1, <1>2, <1>3, <1>4, <1>5
     DEF Next, vars, rowVars, RefundStep, CallStep, SweepStep, Processes, Calls, Pay, Overdue,
         InsertHold, CaptureHeld, CaptureCall, MarkHoldCaptured, Refund, RefundCall, ReadCap,
         GiveBack, CloseHold, SelectExpired, RefundExpired, EndSweep, ExpireHold, Crash

\* No confirmation, capture or sweep brings an undisturbed failed row back.
THEOREM FailedForGood == Spec => RefundedStaysFailed
<1>1. SettlementInv /\ [Next]_vars =>
        \A r \in Rows \ disturbed : status[r] = "failed" => status'[r] = "failed"
  BY FailedStays
<1>2. QED BY <1>1, SettlementInvariant, PTL DEF RefundedStaysFailed, Spec
-----------------------------------------------------------------------------
(* What a refund gives back.                                               *)
(*                                                                         *)
(* ReleaseInv says of every call how much it has still to give back        *)
(* (CallMoney), and of every row that what it was charged, what Razorpay   *)
(* gave back and what is on its way balance, and that at most one call     *)
(* restocks it (RowMoney).                                                 *)

Releases == {"read_cap", "give_back"}

\* What a call has still to give back.
Left(p) ==
  IF At(p, "read_cap")
  THEN GrantsOf(call[p].amount, IF IsFullRefund(p) THEN sale[call[p].row].lines ELSE <<>>)
  ELSE IF At(p, "give_back") THEN call[p].undo ELSE <<>>

BudgetLeft   == [p \in Processes |-> Worth(Left(p), Budget)]
Releasing(r) == {p \in Processes : Does(p, r, Releases)}

\* The call has refunded all of the row and not closed it yet.
RefundsAll(p, r) == Does(p, r, Releases \cup {"fail_row"}) /\ call[p].amount = sale[r].amount

\* A release under way has something to give back, to the latest cap, and stock only
\* after a full refund.
CallMoney(p) ==
  /\ At(p, "give_back") => call[p].undo # <<>> /\ call[p].cap = MaxCaps
  /\ call[p].pc \in Releases /\ ~IsFullRefund(p) =>
       \A v \in Variants : Worth(Left(p), v) = 0

\* The budget of a row is what it sold for, less what Razorpay gave back and no call
\* has still to release; less than that only where a process died or lost a reply.
BudgetOK(r) ==
  /\ IsFiniteSet(Releasing(r))
  /\ sale[r].amount + Total(BudgetLeft, Releasing(r)) <= refunded[r] + holds[r][Budget]
  /\ r \notin disturbed =>
       sale[r].amount + Total(BudgetLeft, Releasing(r)) = refunded[r] + holds[r][Budget]

\* The stock of a row is what it sold until one call gives it back after a full refund.
StockOK(r) ==
  /\ \A p, q \in Processes : RefundsAll(p, r) /\ RefundsAll(q, r) => p = q
  /\ status[r] = "failed" =>
       refunded[r] = sale[r].amount /\ \A p \in Processes : ~RefundsAll(p, r)
  /\ \A v \in Variants :
       /\ holds[r][v] \in Nat
       /\ refunded[r] < sale[r].amount => holds[r][v] = Worth(sale[r].lines, v)
       /\ \A p \in Processes : RefundsAll(p, r) => holds[r][v] = Worth(Left(p), v)
       /\ status[r] = "failed" => holds[r][v] = 0
       /\ r \notin disturbed /\ status[r] # "failed" =>
            holds[r][v] = Worth(sale[r].lines, v) \/ \E p \in Processes : RefundsAll(p, r)

ReleaseInv ==
  /\ LedgerTypeOK /\ capCount = MaxCaps
  /\ \A p \in Processes : CallMoney(p)
  /\ \A r \in Rows : BudgetOK(r) /\ StockOK(r)

\* What is left to give back is a matter of the call alone.
LEMMA LeftSame ==
  ASSUME NEW p, call'[p] = call[p], sale' = sale
  PROVE  Left(p)' = Left(p)
BY DEF Left, At, IsFullRefund

LEMMA LeftTyped ==
  ASSUME SettlementInv, NEW p \in Processes
  PROVE  /\ Left(p) \in Seq(Grant)
         /\ \A x : Worth(Left(p), x) \in Nat
         /\ BudgetLeft[p] = Worth(Left(p), Budget)
         /\ call[p].pc \notin Releases => Left(p) = <<>>
<1>1. call[p] \in CallSet /\ call[p].amount \in Nat /\ call[p].undo \in Seq(Grant)
  BY CallTyped DEF CallSet
<1>2. <<>> \in Seq(Grant) /\ <<>> \in Seq(Line) OBVIOUS
<1>3. ASSUME At(p, "read_cap") PROVE Left(p) \in Seq(Grant)
  <2>1. call[p].row \in Rows BY <1>3, CallTyped DEF At
  <2>2. sale[call[p].row].lines \in Seq(Line) BY <2>1 DEF SettlementInv, Shape, Sale
  <2>3. CASE IsFullRefund(p) BY <1>1, <1>3, <2>2, <2>3, GrantsTyped DEF Left
  <2>4. CASE ~IsFullRefund(p) BY <1>1, <1>2, <1>3, <2>4, GrantsTyped DEF Left
  <2>5. QED BY <2>3, <2>4
<1>4. Left(p) \in Seq(Grant) BY <1>1, <1>2, <1>3 DEF Left
<1>5. \A x : Worth(Left(p), x) \in Nat BY <1>4, WorthNat
<1>6. QED BY <1>4, <1>5 DEF Left, BudgetLeft, Releases, At

\* A refund that stays full or partial gives back what it should.
LEMMA FullOrPart ==
  ASSUME SettlementInv, NEW p \in Processes, NEW r \in Rows, call[p].row = r
  PROVE  IsFullRefund(p) <=> call[p].amount = sale[r].amount
BY DEF IsFullRefund

\* Where no money moves: nothing is charged or given back, and only a call whose row
\* is disturbed by that leaves a release.
LEMMA AwayKeeps ==
  ASSUME SettlementInv, SettlementInv', ReleaseInv, UNCHANGED <<ledgerVars, sale, refunded>>,
         \A p \in Processes :
           \/ call'[p] = call[p]
           \/ /\ call'[p].pc \notin Releases \cup {"fail_row"}
              /\ call[p].pc \notin Releases \cup {"fail_row"} \/ call[p].row \in disturbed',
         disturbed \subseteq disturbed',
         \A r \in Rows : status'[r] = "failed" => status[r] = "failed",
         \A r \in Rows \ disturbed : status[r] = "failed" => status'[r] = "failed"
  PROVE  ReleaseInv'
<1>1. /\ caps' = caps /\ capCount' = capCount /\ stock' = stock /\ holds' = holds
      /\ sale' = sale /\ refunded' = refunded
  BY DEF ledgerVars
<1>2. LedgerTypeOK' /\ capCount' = MaxCaps BY <1>1 DEF ReleaseInv, LedgerTypeOK
<1>3. ASSUME NEW p \in Processes PROVE CallMoney(p)'
  <2>1. CASE call'[p] = call[p]
    <3>1. Left(p)' = Left(p) BY <1>1, <2>1, LeftSame
    <3>2. CallMoney(p) BY DEF ReleaseInv
    <3>3. QED BY <1>1, <2>1, <3>1, <3>2 DEF CallMoney, At, IsFullRefund
  <2>2. CASE call'[p].pc \notin Releases \cup {"fail_row"}
    BY <2>2 DEF CallMoney, At, Releases
  <2>3. QED BY <2>1, <2>2
<1>4. ASSUME NEW r \in Rows, NEW p \in Processes, Does(p, r, Releases \cup {"fail_row"})'
      PROVE  call'[p] = call[p] /\ Left(p)' = Left(p)
  BY <1>1, <1>4, LeftSame DEF Does
<1>5. ASSUME NEW r \in Rows, NEW p \in Processes, r \notin disturbed',
             Does(p, r, Releases \cup {"fail_row"})
      PROVE  call'[p] = call[p]
  BY <1>5 DEF Does
<1>6. ASSUME NEW r \in Rows PROVE BudgetOK(r)'
  <2>1. BudgetOK(r) BY DEF ReleaseInv
  <2> DEFINE S == Releasing(r)
             T == Releasing(r)'
             g == BudgetLeft
             h == BudgetLeft'
  <2>2. T \subseteq S BY <1>4 DEF Releasing, Does
  <2>3. r \notin disturbed' => S \subseteq T BY <1>5 DEF Releasing, Does
  <2>4. \A p \in S : g[p] \in Nat
    <3>1. \A p \in S : p \in Processes BY DEF Releasing
    <3>2. QED BY <3>1, LeftTyped
  <2>5. \A p \in T : h[p] = g[p]
    <3>1. ASSUME NEW p \in T PROVE h[p] = g[p]
      <4>1. p \in Processes /\ Does(p, r, Releases)' BY DEF Releasing
      <4>2. Left(p)' = Left(p) BY <4>1, <1>4 DEF Does
      <4>3. h[p] = Worth(Left(p)', Budget) BY <4>1 DEF BudgetLeft
      <4>4. g[p] = Worth(Left(p), Budget) BY <4>1 DEF BudgetLeft
      <4>5. QED BY <4>2, <4>3, <4>4
    <3>2. QED BY <3>1
  <2>6. IsFiniteSet(S) BY <2>1 DEF BudgetOK
  <2>7. sale[r].amount \in Nat /\ refunded[r] \in Nat /\ holds[r][Budget] \in Int
    BY DEF SettlementInv, Shape, Sale, ReleaseInv, LedgerTypeOK, Resource
  <2>8. /\ sale[r].amount + Total(g, S) <= refunded[r] + holds[r][Budget]
        /\ r \notin disturbed => sale[r].amount + Total(g, S) = refunded[r] + holds[r][Budget]
    BY <2>1 DEF BudgetOK
  <2> HIDE DEF S, T, g, h
  <2>9. IsFiniteSet(T) BY <2>2, <2>6, FS_Subset
  <2>10. Total(h, T) = Total(g, T) BY <2>5, <2>9, TotalSame
  <2>11. Total(g, T) <= Total(g, S) /\ Total(g, T) \in Nat /\ Total(g, S) \in Nat
    <3>1. \A p \in T : g[p] \in Nat BY <2>2, <2>4
    <3>2. QED BY <2>2, <2>4, <2>6, <2>9, <3>1, TotalPart, TotalNat
  <2>12. r \notin disturbed' => T = S BY <2>2, <2>3
  <2>13. /\ sale[r].amount + Total(h, T) <= refunded[r] + holds[r][Budget]
         /\ r \notin disturbed' => sale[r].amount + Total(h, T) = refunded[r] + holds[r][Budget]
    BY <2>7, <2>8, <2>10, <2>11, <2>12
  <2>14. QED BY <1>1, <2>9, <2>13 DEF BudgetOK, T, h
<1>7. ASSUME NEW r \in Rows PROVE StockOK(r)'
  <2>1. StockOK(r) BY DEF ReleaseInv
  <2>2. \A p \in Processes : RefundsAll(p, r)' => RefundsAll(p, r) /\ Left(p)' = Left(p)
    BY <1>1, <1>4 DEF RefundsAll, Does
  <2>3. r \notin disturbed' => \A p \in Processes : RefundsAll(p, r) => RefundsAll(p, r)'
    BY <1>1, <1>5 DEF RefundsAll, Does
  <2>4. ASSUME NEW v \in Variants
        PROVE  /\ holds[r][v] \in Nat
               /\ refunded[r] < sale[r].amount => holds[r][v] = Worth(sale[r].lines, v)
               /\ \A p \in Processes : RefundsAll(p, r)' => holds[r][v] = Worth(Left(p)', v)
               /\ status'[r] = "failed" => holds[r][v] = 0
               /\ r \notin disturbed' /\ status'[r] # "failed" =>
                    holds[r][v] = Worth(sale[r].lines, v) \/ \E p \in Processes : RefundsAll(p, r)'
    BY <2>1, <2>2, <2>3 DEF StockOK
  <2>5. /\ \A p, q \in Processes : RefundsAll(p, r)' /\ RefundsAll(q, r)' => p = q
        /\ status'[r] = "failed" =>
             refunded[r] = sale[r].amount /\ \A p \in Processes : ~RefundsAll(p, r)'
    BY <2>1, <2>2 DEF StockOK
  <2>6. QED BY <1>1, <2>4, <2>5 DEF StockOK
<1>8. QED BY <1>2, <1>3, <1>6, <1>7 DEF ReleaseInv

\* Money moves for one call and one row at a time.
LEMMA MoneyOfOneRow ==
  ASSUME SettlementInv, ReleaseInv, LedgerTypeOK', capCount' = capCount,
         NEW p \in Processes, NEW n, NEW r \in Rows, call' = [call EXCEPT ![p] = n],
         call[p].row = r \/ call[p].row = NoRow, n.row = r \/ n.row = NoRow,
         sale' = sale,
         \A x \in Rows : x # r =>
           /\ status'[x] = status[x] /\ refunded'[x] = refunded[x] /\ holds'[x] = holds[x]
           /\ x \in disturbed <=> x \in disturbed',
         CallMoney(p)', BudgetOK(r)', StockOK(r)'
  PROVE  ReleaseInv'
<1>1. call \in [Processes -> CallSet] /\ NoRow \notin Rows
  BY CallTyped DEF SettlementInv, Shape
<1>2. call'[p] = n /\ \A q \in Processes : q # p => call'[q] = call[q] BY <1>1
<1>3. ASSUME NEW q \in Processes, q # p PROVE call'[q] = call[q] /\ Left(q)' = Left(q)
  BY <1>2, <1>3, LeftSame
<1>4. ASSUME NEW q \in Processes PROVE CallMoney(q)'
  <2>1. CASE q = p BY <2>1
  <2>2. CASE q # p
    <3>1. CallMoney(q) BY DEF ReleaseInv
    <3>2. QED BY <1>3, <2>2, <3>1 DEF CallMoney, At, IsFullRefund
  <2>3. QED BY <2>1, <2>2
<1>5. ASSUME NEW x \in Rows, x # r PROVE BudgetOK(x)' /\ StockOK(x)'
  <2>1. BudgetOK(x) /\ StockOK(x) BY DEF ReleaseInv
  <2>2. call[p].row # x /\ call'[p].row # x BY <1>1, <1>2, <1>5
  <2>3. \A q \in Processes : \A steps : Does(q, x, steps)' <=> Does(q, x, steps)
    BY <1>3, <2>2 DEF Does
  <2>4. \A q \in Processes : call[q].row = x => call'[q] = call[q] /\ Left(q)' = Left(q)
    BY <1>3, <2>2
  <2>5. \A q \in Processes : /\ RefundsAll(q, x)' <=> RefundsAll(q, x)
                             /\ RefundsAll(q, x) => Left(q)' = Left(q)
    BY <2>3, <2>4 DEF RefundsAll, Does
  <2>6. StockOK(x)'
    <3>1. status'[x] = status[x] /\ refunded'[x] = refunded[x] /\ holds'[x] = holds[x]
          /\ (x \in disturbed <=> x \in disturbed')
      BY <1>5
    <3>2. ASSUME NEW v \in Variants
          PROVE  /\ holds[x][v] \in Nat
                 /\ refunded[x] < sale[x].amount => holds[x][v] = Worth(sale[x].lines, v)
                 /\ \A q \in Processes : RefundsAll(q, x)' => holds[x][v] = Worth(Left(q)', v)
                 /\ status[x] = "failed" => holds[x][v] = 0
                 /\ x \notin disturbed /\ status[x] # "failed" =>
                      holds[x][v] = Worth(sale[x].lines, v) \/ \E q \in Processes : RefundsAll(q, x)'
      BY <2>1, <2>5 DEF StockOK
    <3>3. /\ \A q, s \in Processes : RefundsAll(q, x)' /\ RefundsAll(s, x)' => q = s
          /\ status[x] = "failed" =>
               refunded[x] = sale[x].amount /\ \A q \in Processes : ~RefundsAll(q, x)'
      BY <2>1, <2>5 DEF StockOK
    <3>4. QED BY <3>1, <3>2, <3>3 DEF StockOK
  <2> DEFINE S == Releasing(x)
             g == BudgetLeft
             h == BudgetLeft'
  <2>7. Releasing(x)' = S BY <2>3 DEF Releasing
  <2>8. \A q \in S : h[q] = g[q]
    <3>1. ASSUME NEW q \in S PROVE h[q] = g[q]
      <4>1. q \in Processes /\ call[q].row = x BY DEF Releasing, Does
      <4>2. Left(q)' = Left(q) BY <4>1, <2>4
      <4>3. h[q] = Worth(Left(q)', Budget) BY <4>1 DEF BudgetLeft
      <4>4. g[q] = Worth(Left(q), Budget) BY <4>1 DEF BudgetLeft
      <4>5. QED BY <4>2, <4>3, <4>4
    <3>2. QED BY <3>1
  <2>9. IsFiniteSet(S) BY <2>1 DEF BudgetOK
  <2> HIDE DEF S, g, h
  <2>10. Total(h, S) = Total(g, S) BY <2>8, <2>9, TotalSame
  <2>11. /\ IsFiniteSet(S)
         /\ sale[x].amount + Total(h, S) <= refunded[x] + holds[x][Budget]
         /\ x \notin disturbed => sale[x].amount + Total(h, S) = refunded[x] + holds[x][Budget]
    BY <2>1, <2>10 DEF BudgetOK, S, g
  <2>12. refunded'[x] = refunded[x] /\ holds'[x] = holds[x] /\ (x \in disturbed <=> x \in disturbed')
    BY <1>5
  <2>13. BudgetOK(x)' BY <2>7, <2>11, <2>12 DEF BudgetOK, h
  <2>14. QED BY <2>6, <2>13
<1>6. QED BY <1>4, <1>5 DEF ReleaseInv

\* What is on its way changes by what one call has still to release.
LEMMA ReleasingMoves ==
  ASSUME SettlementInv, NEW p \in Processes, NEW n, NEW r \in Rows,
         call' = [call EXCEPT ![p] = n], sale' = sale, IsFiniteSet(Releasing(r)),
         NEW k \in Nat, k = IF Does(p, r, Releases) THEN Worth(Left(p), Budget) ELSE 0,
         NEW w \in Nat, w = IF Does(p, r, Releases)' THEN Worth(Left(p)', Budget) ELSE 0
  PROVE  /\ IsFiniteSet(Releasing(r)') /\ Total(BudgetLeft, Releasing(r)) \in Nat
         /\ k <= Total(BudgetLeft, Releasing(r))
         /\ Total(BudgetLeft, Releasing(r))' = Total(BudgetLeft, Releasing(r)) + w - k
<1> DEFINE S == Releasing(r)
           T == Releasing(r)'
           U == S \ {p}
           g == BudgetLeft
           h == BudgetLeft'
<1>1. call \in [Processes -> CallSet] BY DEF SettlementInv, Shape
<1>2. ASSUME NEW q \in Processes, q # p PROVE call'[q] = call[q] /\ Left(q)' = Left(q)
  BY <1>1, <1>2, LeftSame
<1>3. T \ {p} = U BY <1>2 DEF Releasing, Does
<1>4. p \in S <=> Does(p, r, Releases) BY DEF Releasing
<1>5. p \in T <=> Does(p, r, Releases)' BY DEF Releasing
<1>6. g[p] = Worth(Left(p), Budget) BY DEF BudgetLeft
<1>7. h[p] = Worth(Left(p)', Budget) BY DEF BudgetLeft
<1>8. \A q \in S : g[q] \in Nat
  <2>1. \A q \in S : q \in Processes BY DEF Releasing
  <2>2. QED BY <2>1, LeftTyped
<1>9. \A q \in U : h[q] = g[q]
  <2>1. ASSUME NEW q \in U PROVE h[q] = g[q]
    <3>1. q \in Processes /\ q # p BY DEF Releasing
    <3>2. Left(q)' = Left(q) BY <3>1, <1>2
    <3>3. h[q] = Worth(Left(q)', Budget) BY <3>1 DEF BudgetLeft
    <3>4. g[q] = Worth(Left(q), Budget) BY <3>1 DEF BudgetLeft
    <3>5. QED BY <3>2, <3>3, <3>4
  <2>2. QED BY <2>1
<1>10. IsFiniteSet(S) OBVIOUS
<1>11. IsFiniteSet(U) BY <1>10, FS_Subset
<1>12. IsFiniteSet(T)
  <2>1. T \subseteq U \cup {p} BY <1>3
  <2>2. IsFiniteSet(U \cup {p}) BY <1>11, FS_AddElement
  <2> HIDE DEF T, U
  <2>3. QED BY <2>1, <2>2, FS_Subset
<1> HIDE DEF S, T, g, h
<1>13. \A q \in U : g[q] \in Nat BY <1>8
<1>14. Total(g, S) \in Nat /\ Total(g, U) \in Nat
  <2>1. Total(g, S) \in Nat BY <1>8, <1>10, TotalNat
  <2>2. Total(g, U) \in Nat BY <1>11, <1>13, TotalNat
  <2>3. QED BY <2>1, <2>2
<1>15. Total(h, U) = Total(g, U) BY <1>9, <1>11, TotalSame
<1>16. Total(g, S) = k + Total(g, U)
  <2>1. CASE p \in S
    <3>1. \A q \in S : g[q] \in Int BY <1>8
    <3>2. Total(g, S) = g[p] + Total(g, S \ {p}) BY <1>10, <2>1, <3>1, TotalRemove
    <3>3. k = g[p] BY <1>4, <1>6, <2>1
    <3>4. QED BY <3>2, <3>3
  <2>2. CASE p \notin S
    <3>1. U = S BY <2>2
    <3>2. k = 0 BY <1>4, <2>2
    <3> HIDE DEF U
    <3>3. QED BY <1>14, <3>1, <3>2
  <2>3. QED BY <2>1, <2>2
<1>17. Total(h, T) = w + Total(g, U)
  <2>1. CASE p \in T
    <3>1. w = h[p] BY <1>5, <1>7, <2>1
    <3>2. \A q \in T : q # p => q \in U BY <1>3
    <3>3. \A q \in T : h[q] \in Int BY <1>9, <1>13, <3>1, <3>2
    <3>4. Total(h, T) = h[p] + Total(h, T \ {p}) BY <1>12, <2>1, <3>3, TotalRemove
    <3>5. QED BY <1>3, <1>15, <3>1, <3>4
  <2>2. CASE p \notin T
    <3>1. U = T BY <1>3, <2>2
    <3>2. w = 0 BY <1>5, <2>2
    <3>3. QED BY <1>14, <1>15, <3>1, <3>2
  <2>3. QED BY <2>1, <2>2
<1>18. Total(h, T) = Total(g, S) + w - k /\ k <= Total(g, S)
  BY <1>14, <1>16, <1>17
<1>19. QED BY <1>12, <1>14, <1>18 DEF S, T, g, h

\* Razorpay gives money back: the call has that much to release, or its row is disturbed.
LEMMA RefundAccepted ==
  ASSUME SettlementInv, ReleaseInv, NEW p \in Processes, NEW r \in Rows, NEW n \in CallSet,
         call[p].row = r, At(p, "refund"),
         call[p].amount <= sale[r].amount - refunded[r],
         refunded' = [refunded EXCEPT ![r] = @ + call[p].amount],
         call' = [call EXCEPT ![p] = n],
         UNCHANGED <<ledgerVars, sale, status>>,
         \/ n.pc = "read_cap" /\ n.row = r /\ n.amount = call[p].amount /\ disturbed' = disturbed
         \/ n.pc \in {"idle", "sweep"} /\ n.row = NoRow /\ disturbed' = disturbed \cup {r}
  PROVE  ReleaseInv'
<1>0. PICK k \in Nat : k = call[p].amount
  BY CallTyped DEF CallSet
<1>1. /\ k \in Nat /\ k >= 1 /\ k <= sale[r].amount /\ NoRow \notin Rows
      /\ call \in [Processes -> CallSet] /\ refunded \in [Rows -> Nat]
      /\ sale[r].amount \in Nat /\ sale[r].lines \in Seq(Line) /\ holds[r][Budget] \in Int
  <2>1. CallOK(p) /\ call[p] \in CallSet /\ NoRow \notin Rows BY CallTyped
  <2>2. k >= 1 /\ k <= sale[r].amount BY <1>0, <2>1 DEF CallOK, At, RefundSteps
  <2>3. Budget \in Resource /\ LedgerTypeOK BY DEF Resource, ReleaseInv
  <2>4. holds[r][Budget] \in Int BY <2>3 DEF LedgerTypeOK
  <2>5. /\ call \in [Processes -> CallSet] /\ refunded \in [Rows -> Nat]
        /\ sale[r].amount \in Nat /\ sale[r].lines \in Seq(Line)
    BY DEF SettlementInv, Shape, Sale
  <2>6. QED BY <2>1, <2>2, <2>4, <2>5
<1>2. /\ refunded'[r] = refunded[r] + k /\ \A x \in Rows : x # r => refunded'[x] = refunded[x]
      /\ refunded[r] < sale[r].amount /\ refunded[r] \in Nat
  BY <1>0, <1>1
<1>3. LedgerTypeOK' BY DEF ReleaseInv, LedgerTypeOK, ledgerVars
<1>4. call'[p] = n /\ \A q \in Processes : q # p => call'[q] = call[q] BY <1>1
<1>5. \A q \in Processes : ~RefundsAll(q, r)
  <2>1. ASSUME NEW q \in Processes, RefundsAll(q, r) PROVE refunded[r] = sale[r].amount
    <3>1. CallOK(q) BY CallTyped
    <3>2. QED BY <2>1, <3>1 DEF CallOK, RefundsAll, Does, Releases, RefundSteps
  <2>2. QED BY <1>1, <1>2, <2>1
<1>6. status[r] # "failed"
  <2>1. StockOK(r) BY DEF ReleaseInv
  <2>2. QED BY <1>1, <1>2, <2>1 DEF StockOK
<1>7. \A v \in Variants : holds[r][v] = Worth(sale[r].lines, v) /\ holds[r][v] \in Nat
  <2>1. StockOK(r) BY DEF ReleaseInv
  <2>2. QED BY <1>2, <2>1 DEF StockOK
<1>8. ~Does(p, r, Releases) BY DEF Does, Releases, At
<1>9. holds' = holds /\ sale' = sale /\ status' = status /\ capCount' = capCount BY DEF ledgerVars
<1>10. CASE n.pc = "read_cap"
  <2>1. n.row = r /\ n.amount = k /\ disturbed' = disturbed BY <1>0, <1>10
  <2>2. At(p, "read_cap")' /\ IsFullRefund(p)' <=> k = sale[r].amount
    BY <1>4, <1>9, <1>10, <2>1 DEF At, IsFullRefund
  <2>3. /\ k = sale[r].amount => Left(p)' = GrantsOf(k, sale[r].lines)
        /\ k # sale[r].amount => Left(p)' = GrantsOf(k, <<>>)
    <3>1. At(p, "read_cap")' BY <1>4, <1>10 DEF At
    <3>2. Left(p)' = GrantsOf(n.amount, IF IsFullRefund(p)' THEN sale'[n.row].lines ELSE <<>>)
      BY <1>4, <3>1 DEF Left
    <3>3. IsFullRefund(p)' <=> k = sale[r].amount BY <1>4, <1>9, <2>1 DEF IsFullRefund
    <3>4. QED BY <1>9, <2>1, <3>2, <3>3
  <2>4. /\ Worth(Left(p)', Budget) = k
        /\ \A v \in Variants : k = sale[r].amount => Worth(Left(p)', v) = Worth(sale[r].lines, v)
        /\ \A v \in Variants : k # sale[r].amount => Worth(Left(p)', v) = 0
    <3>1. LedgerAssumption /\ <<>> \in Seq(Line) BY LedgerAssumption
    <3>2. CASE k = sale[r].amount
      <4>1. Left(p)' = GrantsOf(k, sale[r].lines) BY <2>3, <3>2
      <4>2. QED BY <1>1, <3>1, <3>2, <4>1, WorthOfRow
    <3>3. CASE k # sale[r].amount
      <4>1. Left(p)' = GrantsOf(k, <<>>) BY <2>3, <3>3
      <4>2. /\ Worth(GrantsOf(k, <<>>), Budget) = k
            /\ \A v \in Variants : Worth(GrantsOf(k, <<>>), v) = Worth(<<>>, v)
        BY <1>1, <3>1, WorthOfRow
      <4>3. \A v \in Variants : Worth(<<>>, v) = 0 BY WorthEmpty
      <4>4. QED BY <3>3, <4>1, <4>2, <4>3
    <3>4. QED BY <3>2, <3>3
  <2>5. Does(p, r, Releases)' BY <1>4, <1>10, <2>1 DEF Does, Releases
  <2>6. BudgetOK(r)'
    <3>1. BudgetOK(r) BY DEF ReleaseInv
    <3>2. IsFiniteSet(Releasing(r)) BY <3>1 DEF BudgetOK
    <3>3. /\ IsFiniteSet(Releasing(r)') /\ Total(BudgetLeft, Releasing(r)) \in Nat
          /\ Total(BudgetLeft, Releasing(r))' = Total(BudgetLeft, Releasing(r)) + k - 0
      <4>1. 0 \in Nat /\ 0 = IF Does(p, r, Releases) THEN Worth(Left(p), Budget) ELSE 0
        BY <1>8
      <4>2. k = IF Does(p, r, Releases)' THEN Worth(Left(p)', Budget) ELSE 0
        BY <2>4, <2>5
         <4>3. k \in Nat /\ sale' = sale BY <1>9
      <4>4. QED BY <3>2, <4>1, <4>2, <4>3, ReleasingMoves
    <3> DEFINE total == Total(BudgetLeft, Releasing(r))
               after == Total(BudgetLeft, Releasing(r))'
    <3>4. total \in Nat /\ after = total + k BY <3>3
    <3> DEFINE amount == sale[r].amount
               before == refunded[r]
               now == refunded'[r]
               budget == holds[r][Budget]
    <3>5. amount \in Nat /\ before \in Nat /\ now = before + k /\ budget \in Int /\ k >= 1
      BY <1>1, <1>2
    <3>6. /\ amount + total <= before + budget
          /\ r \notin disturbed => amount + total = before + budget
      BY <3>1 DEF BudgetOK
    <3> HIDE DEF total, after, amount, before, now, budget
    <3>7. /\ amount + after <= now + budget
          /\ r \notin disturbed => amount + after = now + budget
      BY <3>4, <3>5, <3>6
    <3>8. QED BY <1>9, <2>1, <3>3, <3>7 DEF BudgetOK, after, amount, now, budget
  <2>7. StockOK(r)'
    <3>1. \A q \in Processes : RefundsAll(q, r)' => q = p
      BY <1>4, <1>5, <1>9 DEF RefundsAll, Does
    <3>2. RefundsAll(p, r)' <=> k = sale[r].amount
      BY <1>4, <1>9, <1>10, <2>1 DEF RefundsAll, Does, Releases
    <3>3. ASSUME NEW v \in Variants
          PROVE  /\ holds[r][v] \in Nat /\ holds[r][v] = Worth(sale[r].lines, v)
                 /\ \A q \in Processes : RefundsAll(q, r)' => holds[r][v] = Worth(Left(q)', v)
      BY <1>7, <2>4, <3>1, <3>2
    <3>4. QED BY <1>6, <1>9, <3>1, <3>3 DEF StockOK
  <2>8. CallMoney(p)'
    BY <1>4, <1>9, <1>10, <2>1, <2>4 DEF CallMoney, At, IsFullRefund
  <2>9. \A x \in Rows : x # r =>
          /\ status'[x] = status[x] /\ refunded'[x] = refunded[x] /\ holds'[x] = holds[x]
          /\ x \in disturbed <=> x \in disturbed'
    BY <1>2, <1>9, <2>1
  <2>10. QED BY <1>3, <1>9, <2>1, <2>6, <2>7, <2>8, <2>9, MoneyOfOneRow
<1>11. CASE n.pc \in {"idle", "sweep"}
  <2>1. n.row = NoRow /\ disturbed' = disturbed \cup {r} BY <1>11
  <2>2. ~Does(p, r, Releases)' BY <1>4, <1>11 DEF Does, Releases
  <2>3. BudgetOK(r)'
    <3>1. BudgetOK(r) BY DEF ReleaseInv
    <3>2. IsFiniteSet(Releasing(r)) BY <3>1 DEF BudgetOK
    <3>3. /\ IsFiniteSet(Releasing(r)') /\ Total(BudgetLeft, Releasing(r)) \in Nat
          /\ Total(BudgetLeft, Releasing(r))' = Total(BudgetLeft, Releasing(r)) + 0 - 0
      <4>1. 0 \in Nat /\ 0 = IF Does(p, r, Releases) THEN Worth(Left(p), Budget) ELSE 0
        BY <1>8
      <4>2. 0 = IF Does(p, r, Releases)' THEN Worth(Left(p)', Budget) ELSE 0
        BY <2>2
      <4>3. QED BY <1>9, <3>2, <4>1, <4>2, ReleasingMoves
    <3> DEFINE total == Total(BudgetLeft, Releasing(r))
               after == Total(BudgetLeft, Releasing(r))'
    <3>4. total \in Nat /\ after = total BY <3>3
    <3> DEFINE amount == sale[r].amount
               before == refunded[r]
               now == refunded'[r]
               budget == holds[r][Budget]
    <3>5. amount \in Nat /\ before \in Nat /\ now = before + k /\ budget \in Int /\ k >= 1
      BY <1>1, <1>2
    <3>6. amount + total <= before + budget BY <3>1 DEF BudgetOK
    <3> HIDE DEF total, after, amount, before, now, budget
    <3>7. amount + after <= now + budget BY <3>4, <3>5, <3>6
    <3>8. QED BY <1>9, <2>1, <3>3, <3>7 DEF BudgetOK, after, amount, now, budget
  <2>4. StockOK(r)'
    <3>1. \A q \in Processes : ~RefundsAll(q, r)'
      BY <1>1, <1>4, <1>5, <1>9, <2>1 DEF RefundsAll, Does
    <3>2. QED BY <1>6, <1>7, <1>9, <3>1 DEF StockOK
  <2>5. CallMoney(p)' BY <1>4, <1>11 DEF CallMoney, At, Releases
  <2>6. \A x \in Rows : x # r =>
          /\ status'[x] = status[x] /\ refunded'[x] = refunded[x] /\ holds'[x] = holds[x]
          /\ x \in disturbed <=> x \in disturbed'
    BY <1>2, <1>9, <2>1
  <2>7. QED BY <1>3, <1>9, <2>1, <2>3, <2>4, <2>5, <2>6, MoneyOfOneRow
<1>12. QED BY <1>10, <1>11

\* A step after which as much is left to give back as before, and nothing moved.
LEMMA ReadCapMoney ==
  ASSUME SettlementInv, ReleaseInv, NEW p \in Processes, ReadCap(p)
  PROVE  ReleaseInv'
<1>1. PICK r \in Rows : /\ call[p].row = r /\ call[p].pc = "read_cap" /\ call[p] \in CallSet
                        /\ call \in [Processes -> CallSet]
  BY CallTyped DEF SettlementInv, Shape, ReadCap, At
<1> DEFINE u == GrantsOf(call[p].amount, IF IsFullRefund(p) THEN sale[r].lines ELSE <<>>)
           m == [call[p] EXCEPT !.pc = "give_back", !.cap = capCount, !.undo = u]
<1>2. /\ call' = [call EXCEPT ![p] = m]
      /\ UNCHANGED <<caps, capCount, stock, holds, sale, status, refunded, disturbed>>
  BY <1>1 DEF ReadCap, ledgerVars, rowVars, payVars, faultVars
<1>3. Left(p) = u /\ u # <<>>
  <2>1. Left(p) = u BY <1>1 DEF Left, At
  <2>2. Left(p) \in Seq(Grant) BY LeftTyped
  <2>3. Worth(u, Budget) = call[p].amount
    <3>1. /\ LedgerAssumption /\ <<>> \in Seq(Line) /\ call[p].amount \in Nat
          /\ sale[r].lines \in Seq(Line)
      BY <1>1, LedgerAssumption DEF SettlementInv, Shape, Sale, CallSet
    <3>2. CASE IsFullRefund(p) BY <3>1, <3>2, WorthOfRow
    <3>3. CASE ~IsFullRefund(p) BY <3>1, <3>3, WorthOfRow
    <3>4. QED BY <3>2, <3>3
  <2>4. call[p].amount >= 1
    <3>1. CallOK(p) BY CallTyped
    <3>2. QED BY <1>1, <3>1 DEF CallOK, RefundSteps
  <2>5. Worth(<<>>, Budget) = 0 BY WorthEmpty
  <2> HIDE DEF u
  <2>6. QED BY <2>1, <2>3, <2>4, <2>5
<1> HIDE DEF u
<1>4. /\ m.pc = "give_back" /\ m.row = r /\ m.undo = u /\ m.amount = call[p].amount
      /\ m.cap = capCount
  BY <1>1 DEF CallSet
<1> HIDE DEF m
<1>5. call'[p] = m /\ \A q \in Processes : q # p => call'[q] = call[q] BY <1>1, <1>2
<1>6. Left(p)' = u BY <1>4, <1>5 DEF Left, At
<1>7. LedgerTypeOK' BY <1>2 DEF ReleaseInv, LedgerTypeOK
<1>8. /\ \A q \in Processes : Left(q)' = Left(q)
      /\ \A q \in Processes : Does(q, r, Releases)' <=> Does(q, r, Releases)
      /\ \A q \in Processes : RefundsAll(q, r)' <=> RefundsAll(q, r)
  <2>1. ASSUME NEW q \in Processes, q # p
        PROVE  /\ Left(q)' = Left(q)
               /\ Does(q, r, Releases)' <=> Does(q, r, Releases)
               /\ RefundsAll(q, r)' <=> RefundsAll(q, r)
    <3>1. call'[q] = call[q] /\ sale' = sale BY <1>2, <1>5, <2>1
    <3>2. QED BY <3>1, LeftSame DEF Does, RefundsAll
  <2>2. Left(p)' = Left(p) BY <1>3, <1>6
  <2>3. /\ Does(p, r, Releases)' <=> Does(p, r, Releases)
        /\ RefundsAll(p, r)' <=> RefundsAll(p, r)
    BY <1>1, <1>2, <1>4, <1>5 DEF Does, RefundsAll, Releases
  <2>4. QED BY <2>1, <2>2, <2>3
<1>9. CallMoney(p)'
  <2>1. CallMoney(p) /\ capCount = MaxCaps BY DEF ReleaseInv
  <2>2. IsFullRefund(p)' <=> IsFullRefund(p) BY <1>1, <1>2, <1>4, <1>5 DEF IsFullRefund
  <2>3. QED BY <1>1, <1>3, <1>4, <1>5, <1>8, <2>1, <2>2 DEF CallMoney, At, Releases
<1>10. StockOK(r)'
  <2>1. StockOK(r) BY DEF ReleaseInv
  <2>2. QED BY <1>2, <1>8, <2>1 DEF StockOK
<1>11. BudgetOK(r)'
  <2>1. BudgetOK(r) BY DEF ReleaseInv
  <2>2. Releasing(r)' = Releasing(r) BY <1>8 DEF Releasing
  <2>3. BudgetLeft' = BudgetLeft BY <1>8 DEF BudgetLeft
  <2>4. QED BY <1>2, <2>1, <2>2, <2>3 DEF BudgetOK
<1>12. QED BY <1>1, <1>2, <1>4, <1>7, <1>9, <1>10, <1>11, MoneyOfOneRow

\* Where the last release leads.
LEMMA AfterReleaseIs ==
  ASSUME SettlementInv, NEW p \in Processes, NEW r \in Rows, call[p].row = r
  PROVE  /\ IsFullRefund(p) => /\ AfterRelease(p).pc = "fail_row" /\ AfterRelease(p).row = r
                               /\ AfterRelease(p).amount = call[p].amount
         /\ ~IsFullRefund(p) => AfterRelease(p) = AfterRow(p)
         /\ AfterRow(p).pc \in {"close_hold", "expire_hold", "idle"}
         /\ AfterRow(p).row = r \/ AfterRow(p).row = NoRow
<1>1. call[p] \in CallSet BY CallTyped
<1>2. IsFullRefund(p) => /\ AfterRelease(p).pc = "fail_row" /\ AfterRelease(p).row = r
                         /\ AfterRelease(p).amount = call[p].amount
  BY <1>1 DEF AfterRelease, CallSet
<1>3. ~IsFullRefund(p) => AfterRelease(p) = AfterRow(p) BY DEF AfterRelease
<1>4. CASE call[p].wasHeld
  BY <1>1, <1>2, <1>3, <1>4 DEF AfterRow, CallSet
<1>5. CASE ~call[p].wasHeld
  <2>1. AfterRow(p) = Returned(p) BY <1>5 DEF AfterRow
  <2>2. QED BY <1>2, <1>3, <2>1, ReturnedIs
<1>6. QED BY <1>4, <1>5

\* What one release does to the row's account, whatever it is of.
LEMMA ReleasedOf ==
  ASSUME LedgerTypeOK, NEW r \in Rows, NEW c \in CapIds, NEW grant \in Grant, Release(r, c, grant)
  PROVE  /\ \A x \in Resource : holds'[r][x] = holds[r][x] - Part(grant, x)
         /\ \A y \in Rows : y # r => holds'[y] = holds[y]
<1>1. holds' = [holds EXCEPT ![r][grant.of] = @ - grant.qty]
  BY DEF Release, releaseBudget, releaseStock, Uncharge
<1>2. holds \in [Rows -> [Resource -> Int]] /\ grant.of \in Resource /\ grant.qty \in Nat
  BY DEF LedgerTypeOK, Grant
<1>3. \A y \in Rows : y # r => holds'[y] = holds[y] BY <1>1, <1>2
<1>4. holds'[r][grant.of] = holds[r][grant.of] - grant.qty BY <1>1, <1>2
<1>5. \A x \in Resource : x # grant.of => holds'[r][x] = holds[r][x] BY <1>1, <1>2
<1>6. \A x \in Resource : holds[r][x] \in Int BY <1>2
<1>7. QED BY <1>2, <1>3, <1>4, <1>5, <1>6 DEF Part

LEMMA GiveBackMoney ==
  ASSUME SettlementInv, ReleaseInv, NEW p \in Processes, GiveBack(p)
  PROVE  ReleaseInv'
<1>1. PICK r \in Rows : /\ call[p].row = r /\ call[p].pc = "give_back" /\ call[p] \in CallSet
                        /\ call \in [Processes -> CallSet] /\ CallOK(p) /\ NoRow \notin Rows
  BY CallTyped DEF SettlementInv, Shape, GiveBack, At
<1>2. PICK undo \in Seq(Grant) : undo = call[p].undo /\ undo # <<>> /\ call[p].cap = MaxCaps
  <2>1. CallMoney(p) BY DEF ReleaseInv
  <2>2. QED BY <1>1, <2>1 DEF CallMoney, At, CallSet
<1> DEFINE grant == Head(undo)
           rest == Tail(undo)
<1>3. grant \in Grant /\ rest \in Seq(Grant) /\ (Len(undo) > 1 <=> rest # <<>>)
  <2>1. grant \in Grant /\ rest \in Seq(Grant) BY <1>2
  <2>2. Len(rest) = Len(undo) - 1 /\ Len(undo) \in Nat BY <1>2
  <2> HIDE DEF rest
  <2>3. rest = <<>> <=> Len(rest) = 0 BY <2>1
  <2>4. Len(undo) # 0 BY <1>2
  <2>5. QED BY <2>1, <2>2, <2>3, <2>4
<1>4. \A x \in Resource : /\ Worth(undo, x) = Part(grant, x) + Worth(rest, x)
                          /\ Worth(undo, x) \in Nat /\ Worth(rest, x) \in Nat
                          /\ Part(grant, x) \in Nat
  <2>1. \A x : Worth(undo, x) = Part(grant, x) + Worth(rest, x) BY <1>2, WorthTail
  <2>2. \A x : Worth(undo, x) \in Nat /\ Worth(rest, x) \in Nat BY <1>3, WorthNat
  <2>3. \A x : Part(grant, x) \in Nat BY <1>3 DEF Part, Grant
  <2>4. QED BY <2>1, <2>2, <2>3
<1> HIDE DEF grant, rest
<1>5. /\ Release(r, call[p].cap, grant) /\ call[p].cap \in CapIds
      /\ UNCHANGED <<sale, status, refunded, disturbed>> /\ capCount' = capCount
  BY <1>1, <1>2 DEF GiveBack, CallSet, rowVars, payVars, faultVars, grant, Release, releaseBudget,
     releaseStock
<1>6. LedgerTypeOK BY DEF ReleaseInv
<1>7. LedgerTypeOK' BY <1>3, <1>5, <1>6, ReleaseTyped
<1>8. /\ \A x \in Resource : holds'[r][x] = holds[r][x] - Part(grant, x)
      /\ \A y \in Rows : y # r => holds'[y] = holds[y]
  BY <1>3, <1>5, <1>6, ReleasedOf
<1>9. PICK n :
        /\ call' = [call EXCEPT ![p] = n]
        /\ rest # <<>> => /\ n.pc = "give_back" /\ n.row = r /\ n.undo = rest
                          /\ n.amount = call[p].amount /\ n.cap = MaxCaps
        /\ rest = <<>> /\ IsFullRefund(p) =>
             n.pc = "fail_row" /\ n.row = r /\ n.amount = call[p].amount
        /\ rest = <<>> /\ ~IsFullRefund(p) =>
             n.pc \in {"close_hold", "expire_hold", "idle"} /\ (n.row = r \/ n.row = NoRow)
  <2> DEFINE m == IF Len(undo) > 1 THEN [call[p] EXCEPT !.undo = rest] ELSE AfterRelease(p)
  <2>1. call' = [call EXCEPT ![p] = m] BY <1>2 DEF GiveBack, rest
  <2>2. CASE rest # <<>>
    <3>1. m = [call[p] EXCEPT !.undo = rest] BY <1>3, <2>2
    <3>2. /\ m.pc = "give_back" /\ m.row = r /\ m.undo = rest /\ m.amount = call[p].amount
          /\ m.cap = MaxCaps
      BY <1>1, <1>2, <3>1 DEF CallSet
    <3> HIDE DEF m
    <3>3. QED BY <2>1, <2>2, <3>2
  <2>3. CASE rest = <<>>
    <3>1. m = AfterRelease(p) BY <1>3, <2>3
    <3> HIDE DEF m
    <3>2. QED BY <1>1, <2>1, <2>3, <3>1, AfterReleaseIs
  <2>4. QED BY <2>2, <2>3
<1>10. call'[p] = n /\ \A q \in Processes : q # p => call'[q] = call[q] BY <1>1, <1>9
<1>11. n.row = r \/ n.row = NoRow BY <1>9
<1>12. Left(p) = undo BY <1>1, <1>2 DEF Left, At
<1>13. Left(p)' = rest
  <2>1. CASE rest # <<>> BY <1>9, <1>10, <2>1 DEF Left, At
  <2>2. CASE rest = <<>>
    <3>1. n.pc \notin Releases BY <1>9, <2>2 DEF Releases
    <3>2. QED BY <1>10, <2>2, <3>1 DEF Left, At, Releases
  <2>3. QED BY <2>1, <2>2
<1>14. Does(p, r, Releases) BY <1>1 DEF Does, Releases
<1>15. Does(p, r, Releases)' <=> rest # <<>>
  BY <1>1, <1>9, <1>10 DEF Does, Releases
<1>16. RefundsAll(p, r) <=> IsFullRefund(p)
  BY <1>1, FullOrPart DEF RefundsAll, Does, Releases
<1>17. RefundsAll(p, r)' <=> IsFullRefund(p)
  <2>1. IsFullRefund(p) <=> call[p].amount = sale[r].amount BY <1>1, FullOrPart
  <2>2. CASE rest # <<>> BY <1>5, <1>9, <1>10, <2>1, <2>2 DEF RefundsAll, Does, Releases
  <2>3. CASE rest = <<>> BY <1>5, <1>9, <1>10, <2>1, <2>3 DEF RefundsAll, Does, Releases
  <2>4. QED BY <2>2, <2>3
<1>18. \A q \in Processes : q # p => /\ RefundsAll(q, r)' <=> RefundsAll(q, r)
                                     /\ Left(q)' = Left(q)
  <2>1. ASSUME NEW q \in Processes, q # p
        PROVE  (RefundsAll(q, r)' <=> RefundsAll(q, r)) /\ Left(q)' = Left(q)
    <3>1. call'[q] = call[q] /\ sale' = sale BY <1>5, <1>10, <2>1
    <3>2. QED BY <3>1, LeftSame DEF Does, RefundsAll
  <2>2. QED BY <2>1
<1>19. ~IsFullRefund(p) => \A v \in Variants : Worth(undo, v) = 0
  <2>1. CallMoney(p) BY DEF ReleaseInv
  <2>2. QED BY <1>1, <1>12, <2>1 DEF CallMoney, Releases
<1>20. \A v \in Variants : v \in Resource BY DEF Resource
<1>21. CallMoney(p)'
  <2>1. rest # <<>> => (IsFullRefund(p)' <=> IsFullRefund(p))
    BY <1>1, <1>5, <1>9, <1>10 DEF IsFullRefund
  <2>2. ~IsFullRefund(p) => \A v \in Variants : Worth(rest, v) = 0 BY <1>4, <1>19, <1>20
  <2>3. CASE rest # <<>>
    BY <1>9, <1>10, <1>13, <2>1, <2>2, <2>3 DEF CallMoney, At
  <2>4. CASE rest = <<>>
    <3>1. n.pc \notin Releases BY <1>9, <2>4 DEF Releases
    <3>2. QED BY <1>10, <3>1 DEF CallMoney, At, Releases
  <2>5. QED BY <2>3, <2>4
<1>22. BudgetOK(r)'
  <2>1. BudgetOK(r) /\ Budget \in Resource BY DEF ReleaseInv, Resource
  <2>2. IsFiniteSet(Releasing(r)) BY <2>1 DEF BudgetOK
  <2>3. PICK k \in Nat, w \in Nat, d \in Nat :
          k = Worth(undo, Budget) /\ w = Worth(rest, Budget) /\ d = Part(grant, Budget) /\ k = d + w
    BY <1>4, <2>1
  <2>4. k = IF Does(p, r, Releases) THEN Worth(Left(p), Budget) ELSE 0
    BY <1>12, <1>14, <2>3
  <2>5. w = IF Does(p, r, Releases)' THEN Worth(Left(p)', Budget) ELSE 0
    <3>1. CASE rest # <<>> BY <1>13, <1>15, <2>3, <3>1
    <3>2. CASE rest = <<>>
      <4>1. Worth(<<>>, Budget) = 0 BY WorthEmpty
      <4>2. QED BY <1>15, <2>3, <3>2, <4>1
    <3>3. QED BY <3>1, <3>2
  <2>6. sale' = sale BY <1>5
  <2>7. /\ IsFiniteSet(Releasing(r)') /\ Total(BudgetLeft, Releasing(r)) \in Nat
        /\ Total(BudgetLeft, Releasing(r))' = Total(BudgetLeft, Releasing(r)) + w - k
    BY <1>9, <2>2, <2>4, <2>5, <2>6, ReleasingMoves
  <2> DEFINE total == Total(BudgetLeft, Releasing(r))
             after == Total(BudgetLeft, Releasing(r))'
             amount == sale[r].amount
             given == refunded[r]
             before == holds[r][Budget]
             now == holds'[r][Budget]
  <2>8. amount \in Nat /\ given \in Nat /\ before \in Int /\ now = before - d
    <3>1. holds[r][Budget] \in Int BY <1>6, <2>1 DEF LedgerTypeOK
    <3>2. QED BY <1>8, <2>1, <2>3, <3>1 DEF SettlementInv, Shape, Sale
  <2>9. /\ amount + total <= given + before
        /\ r \notin disturbed => amount + total = given + before
    BY <2>1 DEF BudgetOK
  <2>10. total \in Nat /\ after = total + w - k BY <2>7
  <2>11. k = d + w BY <2>3
  <2> HIDE DEF total, after, amount, given, before, now
  <2>12. /\ amount + after <= given + now
         /\ r \notin disturbed => amount + after = given + now
    BY <2>8, <2>9, <2>10, <2>11
  <2>13. QED BY <1>5, <2>7, <2>12 DEF BudgetOK, after, amount, given, now
<1>23. StockOK(r)'
  <2>1. StockOK(r) BY DEF ReleaseInv
  <2>2. /\ \A q, s \in Processes : RefundsAll(q, r)' /\ RefundsAll(s, r)' => q = s
        /\ status[r] = "failed" =>
             refunded[r] = sale[r].amount /\ \A q \in Processes : ~RefundsAll(q, r)'
    BY <1>16, <1>17, <1>18, <2>1 DEF StockOK
  <2>3. ASSUME NEW v \in Variants
        PROVE  /\ holds'[r][v] \in Nat
               /\ refunded[r] < sale[r].amount => holds'[r][v] = Worth(sale[r].lines, v)
               /\ \A q \in Processes : RefundsAll(q, r)' => holds'[r][v] = Worth(Left(q)', v)
               /\ status[r] = "failed" => holds'[r][v] = 0
               /\ r \notin disturbed /\ status[r] # "failed" =>
                    holds'[r][v] = Worth(sale[r].lines, v) \/ \E q \in Processes : RefundsAll(q, r)'
    <3>1. /\ holds'[r][v] = holds[r][v] - Part(grant, v) /\ holds[r][v] \in Nat
          /\ Worth(undo, v) = Part(grant, v) + Worth(rest, v)
          /\ Worth(rest, v) \in Nat /\ Part(grant, v) \in Nat
      BY <1>4, <1>8, <1>20, <2>1 DEF StockOK
    <3>2. CASE IsFullRefund(p)
      <4>1. RefundsAll(p, r) /\ RefundsAll(p, r)' BY <1>16, <1>17, <3>2
      <4>2. \A q \in Processes : RefundsAll(q, r)' => q = p BY <2>2, <4>1
      <4>3. holds[r][v] = Worth(undo, v) BY <1>12, <2>1, <4>1 DEF StockOK
      <4>4. holds'[r][v] = Worth(rest, v) BY <3>1, <4>3
      <4>5. status[r] # "failed" BY <2>1, <4>1 DEF StockOK
      <4>6. refunded[r] = sale[r].amount /\ sale[r].amount \in Nat
        <5>1. sale[r].amount \in Nat BY DEF SettlementInv, Shape, Sale
        <5>2. QED BY <1>1, <3>2, <5>1, FullOrPart DEF CallOK, RefundSteps
      <4>7. ~(refunded[r] < sale[r].amount) BY <4>6
      <4>8. \A q \in Processes : RefundsAll(q, r)' => holds'[r][v] = Worth(Left(q)', v)
        BY <1>13, <4>2, <4>4
      <4>9. holds'[r][v] \in Nat BY <3>1, <4>4
      <4>10. QED BY <4>1, <4>5, <4>7, <4>8, <4>9
    <3>3. CASE ~IsFullRefund(p)
      <4>1. Part(grant, v) = 0 BY <1>19, <3>1, <3>3
      <4>2. holds'[r][v] = holds[r][v] BY <3>1, <4>1
      <4>3. \A q \in Processes : RefundsAll(q, r)' <=> RefundsAll(q, r)
        BY <1>16, <1>17, <1>18
      <4>4. \A q \in Processes : RefundsAll(q, r)' => Left(q)' = Left(q)
        BY <1>17, <1>18, <3>3
      <4>5. QED BY <2>1, <3>1, <4>2, <4>3, <4>4 DEF StockOK
    <3>4. QED BY <3>2, <3>3
  <2>4. QED BY <1>5, <2>2, <2>3 DEF StockOK
<1>24. \A x \in Rows : x # r =>
         /\ status'[x] = status[x] /\ refunded'[x] = refunded[x] /\ holds'[x] = holds[x]
         /\ x \in disturbed <=> x \in disturbed'
  BY <1>5, <1>8
<1>25. QED BY <1>1, <1>5, <1>7, <1>9, <1>11, <1>21, <1>22, <1>23, <1>24, MoneyOfOneRow

\* A row is failed by the one call that has given all of it back.
LEMMA FailRowMoney ==
  ASSUME SettlementInv, ReleaseInv, NEW p \in Processes, FailRow(p)
  PROVE  ReleaseInv'
<1>1. PICK r \in Rows : /\ call[p].row = r /\ call[p].pc = "fail_row" /\ CallOK(p)
                        /\ call \in [Processes -> CallSet] /\ NoRow \notin Rows
  BY CallTyped DEF SettlementInv, Shape, FailRow, At
<1>2. /\ status' = [status EXCEPT ![r] = "failed"]
      /\ UNCHANGED <<caps, capCount, stock, holds, sale, refunded, disturbed>>
  BY <1>1 DEF FailRow, ledgerVars, payVars, faultVars
<1>3. PICK n : /\ call' = [call EXCEPT ![p] = n]
               /\ n.pc \in {"close_hold", "expire_hold", "idle"}
               /\ n.row = r \/ n.row = NoRow
  BY <1>1, AfterReleaseIs DEF FailRow
<1>4. call'[p] = n /\ \A q \in Processes : q # p => call'[q] = call[q] BY <1>1, <1>3
<1>5. status'[r] = "failed" /\ \A x \in Rows : x # r => status'[x] = status[x]
  BY <1>2 DEF SettlementInv, Shape
<1>6. refunded[r] = sale[r].amount /\ RefundsAll(p, r)
  BY <1>1 DEF CallOK, RefundSteps, RefundsAll, Does
<1>7. \A q \in Processes : ~RefundsAll(q, r)'
  <2>1. StockOK(r) BY DEF ReleaseInv
  <2>2. \A q \in Processes : q # p => ~RefundsAll(q, r) BY <1>6, <2>1 DEF StockOK
  <2>3. \A q \in Processes : q # p => ~RefundsAll(q, r)'
    BY <1>2, <1>4, <2>2 DEF RefundsAll, Does
  <2>4. ~RefundsAll(p, r)' BY <1>3, <1>4 DEF RefundsAll, Does, Releases
  <2>5. QED BY <2>3, <2>4
<1>8. StockOK(r)'
  <2>1. StockOK(r) BY DEF ReleaseInv
  <2>2. Left(p) = <<>> BY <1>1 DEF Left, At
  <2>3. \A v \in Variants : holds[r][v] = 0
    <3>1. \A v \in Variants : Worth(<<>>, v) = 0 BY WorthEmpty
    <3>2. QED BY <1>6, <2>1, <2>2, <3>1 DEF StockOK
  <2>4. refunded[r] < sale[r].amount <=> FALSE
    <3>1. sale[r].amount \in Nat BY DEF SettlementInv, Shape, Sale
    <3>2. QED BY <1>6, <3>1
  <2>5. QED BY <1>2, <1>5, <1>6, <1>7, <2>3, <2>4 DEF StockOK
<1>9. BudgetOK(r)'
  <2>1. BudgetOK(r) BY DEF ReleaseInv
  <2>2. ~Does(p, r, Releases) /\ ~Does(p, r, Releases)'
    BY <1>1, <1>3, <1>4 DEF Does, Releases
  <2>3. Releasing(r)' = Releasing(r) BY <1>4, <2>2 DEF Releasing, Does
  <2> DEFINE S == Releasing(r)
             g == BudgetLeft
             h == BudgetLeft'
  <2>4. \A q \in S : h[q] = g[q]
    <3>1. ASSUME NEW q \in S PROVE h[q] = g[q]
      <4>1. q \in Processes /\ q # p BY <2>2 DEF Releasing
      <4>2. Left(q)' = Left(q) BY <1>2, <1>4, <4>1, LeftSame
      <4>3. h[q] = Worth(Left(q)', Budget) BY <4>1 DEF BudgetLeft
      <4>4. g[q] = Worth(Left(q), Budget) BY <4>1 DEF BudgetLeft
      <4>5. QED BY <4>2, <4>3, <4>4
    <3>2. QED BY <3>1
  <2>5. IsFiniteSet(S) BY <2>1 DEF BudgetOK
  <2> HIDE DEF S, g, h
  <2>6. Total(h, S) = Total(g, S) BY <2>4, <2>5, TotalSame
  <2>7. Total(BudgetLeft, Releasing(r))' = Total(BudgetLeft, Releasing(r))
    BY <2>3, <2>6 DEF S, g, h
  <2>8. QED BY <1>2, <2>1, <2>3, <2>7 DEF BudgetOK
<1>10. LedgerTypeOK' BY <1>2 DEF ReleaseInv, LedgerTypeOK
<1>11. CallMoney(p)' BY <1>3, <1>4 DEF CallMoney, At, Releases
<1>12. QED BY <1>1, <1>2, <1>3, <1>5, <1>8, <1>9, <1>10, <1>11, MoneyOfOneRow

\* Everything else a call does moves no money.
LEMMA OtherSteps ==
  ASSUME SettlementInv, SettlementInv', ReleaseInv, [Next]_vars,
         UNCHANGED <<ledgerVars, sale, refunded>>, disturbed \subseteq disturbed',
         NEW p \in Processes, NEW n, call' = [call EXCEPT ![p] = n],
         n.pc \notin Releases \cup {"fail_row"},
         call[p].pc \notin Releases \cup {"fail_row"} \/ call[p].row \in disturbed',
         \A r \in Rows : status'[r] = "failed" => status[r] = "failed"
  PROVE  ReleaseInv'
<1>1. call \in [Processes -> CallSet] BY DEF SettlementInv, Shape
<1>2. call'[p] = n /\ \A q \in Processes : q # p => call'[q] = call[q] BY <1>1
<1>3. \A q \in Processes :
        \/ call'[q] = call[q]
        \/ /\ call'[q].pc \notin Releases \cup {"fail_row"}
           /\ call[q].pc \notin Releases \cup {"fail_row"} \/ call[q].row \in disturbed'
  BY <1>2
<1>4. \A r \in Rows \ disturbed : status[r] = "failed" => status'[r] = "failed"
  BY FailedStays
<1>5. QED BY <1>3, <1>4, AwayKeeps

\* Where no call moves at all.
LEMMA OutsideSteps ==
  ASSUME SettlementInv, SettlementInv', ReleaseInv,
         UNCHANGED <<ledgerVars, sale, status, refunded, call, disturbed>>
  PROVE  ReleaseInv'
BY AwayKeeps

LEMMA ConfirmationMoney ==
  ASSUME SettlementInv, SettlementInv', ReleaseInv, [Next]_vars, NEW p \in Processes,
         (\E r \in Rows : ConfirmCapture(p, r)) \/ InsertHold(p)
  PROVE  ReleaseInv'
<1>1. CASE \E r \in Rows : ConfirmCapture(p, r)
  <2>1. PICK r \in Rows : ConfirmCapture(p, r) BY <1>1
  <2>2. /\ call[p].pc = "idle" /\ call[p] \in CallSet /\ status[r] = "executed"
        /\ UNCHANGED <<ledgerVars, sale, refunded, disturbed>>
        /\ status' = [status EXCEPT ![r] = IF sale[r].holdOnly THEN "held" ELSE "captured"]
    BY <2>1, CallTyped DEF ConfirmCapture, At, Confirmable, payVars, faultVars
  <2>3. \A x \in Rows : status'[x] = "failed" => status[x] = "failed"
    BY <2>2 DEF SettlementInv, Shape
  <2>4. PICK n : call' = [call EXCEPT ![p] = n] /\ n.pc \in {"insert_hold", "idle"}
    <3> DEFINE m == [call[p] EXCEPT !.pc = "insert_hold", !.row = r]
    <3>1. m.pc = "insert_hold" BY <2>2 DEF CallSet
    <3>2. CASE sale[r].holdOnly
      <4>1. call' = [call EXCEPT ![p] = m] BY <2>1, <3>2 DEF ConfirmCapture
      <4> HIDE DEF m
      <4>2. QED BY <3>1, <4>1
    <3>3. CASE ~sale[r].holdOnly
      <4>1. call' = [call EXCEPT ![p] = call[p]]
        BY <2>1, <3>3 DEF ConfirmCapture, SettlementInv, Shape
      <4>2. QED BY <2>2, <4>1
    <3>4. QED BY <3>2, <3>3
  <2>5. QED BY <2>2, <2>3, <2>4, OtherSteps DEF Releases
<1>2. CASE InsertHold(p)
  <2>1. /\ UNCHANGED <<ledgerVars, sale, status, refunded, disturbed>>
        /\ call[p].pc = "insert_hold"
    BY <1>2 DEF InsertHold, At, payVars, faultVars
  <2>2. PICK n \in CallSet : call' = [call EXCEPT ![p] = n] /\ n.pc \in {"idle", "sweep"}
    BY <1>2, LeaveIsRest DEF InsertHold
  <2>3. QED BY <2>1, <2>2, OtherSteps DEF Releases
<1>3. QED BY <1>1, <1>2

LEMMA CaptureMoney ==
  ASSUME SettlementInv, SettlementInv', ReleaseInv, [Next]_vars, NEW p \in Processes,
         \/ \E r \in Rows : CaptureHeld(p, r)
         \/ CaptureCall(p) \/ MarkCaptured(p) \/ MarkHoldCaptured(p)
  PROVE  ReleaseInv'
<1>1. call[p] \in CallSet /\ call \in [Processes -> CallSet]
  BY CallTyped DEF SettlementInv, Shape
<1>2. CASE \E r \in Rows : CaptureHeld(p, r)
  <2>1. PICK r \in Rows : CaptureHeld(p, r) BY <1>2
  <2>2. /\ UNCHANGED <<ledgerVars, sale, status, refunded>> /\ call[p].pc = "idle"
        /\ disturbed \subseteq disturbed'
    BY <2>1 DEF CaptureHeld, At, rowVars, payVars
  <2> DEFINE m == [call[p] EXCEPT !.pc = "capture", !.row = r]
  <2>3. m.pc = "capture" BY <1>1 DEF CallSet
  <2>4. call' = [call EXCEPT ![p] = m] BY <1>1, <2>1 DEF CaptureHeld
  <2> HIDE DEF m
  <2>5. QED BY <2>2, <2>3, <2>4, OtherSteps DEF Releases
<1>3. CASE CaptureCall(p)
  <2>1. /\ UNCHANGED <<ledgerVars, sale, status, refunded>> /\ call[p].pc = "capture"
        /\ disturbed \subseteq disturbed' /\ (Goto(p, "mark_captured") \/ Leave(p))
    BY <1>3 DEF CaptureCall, At, rowVars, Undisturbed, faultVars, Refused, ReplyLost
  <2>2. PICK n : call' = [call EXCEPT ![p] = n] /\ n.pc \in {"mark_captured", "idle", "sweep"}
    <3>1. CASE Leave(p) BY <3>1, LeaveIsRest
    <3>2. CASE Goto(p, "mark_captured")
      <4> DEFINE m == [call[p] EXCEPT !.pc = "mark_captured"]
      <4>1. m.pc = "mark_captured" /\ call' = [call EXCEPT ![p] = m]
        BY <1>1, <3>2 DEF CallSet, Goto
      <4> HIDE DEF m
      <4>2. QED BY <4>1
    <3>3. QED BY <2>1, <3>1, <3>2
  <2>3. QED BY <2>1, <2>2, OtherSteps DEF Releases
<1>4. CASE MarkCaptured(p)
  <2>1. /\ UNCHANGED <<ledgerVars, sale, refunded, disturbed>> /\ call[p].pc = "mark_captured"
        /\ status' = [status EXCEPT ![call[p].row] = "captured"]
    BY <1>4 DEF MarkCaptured, At, payVars, faultVars
  <2>2. \A r \in Rows : status'[r] = "failed" => status[r] = "failed"
    BY <2>1 DEF SettlementInv, Shape
  <2> DEFINE m == [call[p] EXCEPT !.pc = "mark_hold_captured"]
  <2>3. m.pc = "mark_hold_captured" /\ call' = [call EXCEPT ![p] = m]
    BY <1>1, <1>4 DEF CallSet, MarkCaptured, Goto
  <2> HIDE DEF m
  <2>4. QED BY <2>1, <2>2, <2>3, OtherSteps DEF Releases
<1>5. CASE MarkHoldCaptured(p)
  <2>1. /\ UNCHANGED <<ledgerVars, sale, status, refunded, disturbed>>
        /\ call[p].pc = "mark_hold_captured"
    BY <1>5 DEF MarkHoldCaptured, At, payVars, faultVars
  <2>2. PICK n \in CallSet : call' = [call EXCEPT ![p] = n] /\ n.pc \in {"idle", "sweep"}
    BY <1>5, LeaveIsRest DEF MarkHoldCaptured
  <2>3. QED BY <2>1, <2>2, OtherSteps DEF Releases
<1>6. QED BY <1>2, <1>3, <1>4, <1>5

\* A refund that is only about to be asked for.
LEMMA StartRefundMoney ==
  ASSUME SettlementInv, SettlementInv', ReleaseInv, [Next]_vars, NEW p \in Processes,
         call[p].pc \in {"idle", "sweep"}, NEW r \in Rows, NEW k, StartRefund(p, r, k),
         UNCHANGED <<ledgerVars, rowVars, payVars>>
  PROVE  ReleaseInv'
<1>1. UNCHANGED <<ledgerVars, sale, status, refunded>> /\ disturbed \subseteq disturbed'
  BY DEF StartRefund, rowVars, payVars
<1> DEFINE m == [Idle EXCEPT !.pc = "refund", !.row = r, !.amount = k,
                             !.wasHeld = status[r] = "held"]
<1>2. call' = [call EXCEPT ![p] = m] BY DEF StartRefund
<1>3. m.pc = "refund" BY DEF Idle
<1> HIDE DEF m
<1>4. QED BY <1>1, <1>2, <1>3, OtherSteps DEF Releases

LEMMA RefundCallMoney ==
  ASSUME SettlementInv, SettlementInv', ReleaseInv, [Next]_vars, NEW p \in Processes,
         RefundCall(p)
  PROVE  ReleaseInv'
<1>1. PICK r \in Rows : /\ call[p].row = r /\ call[p].pc = "refund" /\ call[p] \in CallSet
                        /\ call \in [Processes -> CallSet] /\ NoRow \notin Rows
  BY CallTyped DEF SettlementInv, Shape, RefundCall, At
<1>2. UNCHANGED <<ledgerVars, sale, status>> BY DEF RefundCall, rowVars
<1>3. ASSUME call[p].amount <= sale[r].amount - refunded[r],
             refunded' = [refunded EXCEPT ![r] = @ + call[p].amount],
             Goto(p, "read_cap"), Undisturbed
      PROVE  ReleaseInv'
  <2> DEFINE m == [call[p] EXCEPT !.pc = "read_cap"]
  <2>1. call' = [call EXCEPT ![p] = m] BY <1>3 DEF Goto
  <2>2. m \in CallSet /\ m.pc = "read_cap" /\ m.row = r /\ m.amount = call[p].amount
    BY <1>1 DEF CallSet, PC
  <2> HIDE DEF m
  <2>3. QED BY <1>1, <1>2, <1>3, <2>1, <2>2, RefundAccepted DEF At, Undisturbed, faultVars
<1>4. ASSUME call[p].amount <= sale[r].amount - refunded[r],
             refunded' = [refunded EXCEPT ![r] = @ + call[p].amount],
             Leave(p), ReplyLost(r)
      PROVE  ReleaseInv'
  <2>1. PICK n \in CallSet : /\ call' = [call EXCEPT ![p] = n]
                             /\ n.row = NoRow /\ n.pc \in {"idle", "sweep"}
    BY <1>4, LeaveIsRest
  <2>2. QED BY <1>1, <1>2, <1>4, <2>1, RefundAccepted DEF At, ReplyLost
<1>5. ASSUME UNCHANGED refunded, Leave(p), disturbed' = disturbed PROVE ReleaseInv'
  <2>1. PICK n \in CallSet : call' = [call EXCEPT ![p] = n] /\ n.pc \in {"idle", "sweep"}
    BY <1>5, LeaveIsRest
  <2>2. QED BY <1>1, <1>2, <1>5, <2>1, OtherSteps DEF Releases
<1>6. \/ /\ call[p].amount <= sale[r].amount - refunded[r]
         /\ refunded' = [refunded EXCEPT ![r] = @ + call[p].amount]
         /\ (Goto(p, "read_cap") /\ Undisturbed) \/ (Leave(p) /\ ReplyLost(r))
      \/ UNCHANGED refunded /\ Leave(p) /\ disturbed' = disturbed
  BY <1>1 DEF RefundCall, Undisturbed, faultVars, Refused
<1>7. QED BY <1>3, <1>4, <1>5, <1>6

LEMMA ClosingMoney ==
  ASSUME SettlementInv, SettlementInv', ReleaseInv, [Next]_vars, NEW p \in Processes,
         CloseHold(p) \/ ExpireHold(p)
  PROVE  ReleaseInv'
<1>1. CASE CloseHold(p)
  <2>1. PICK r \in Rows : call[p].row = r BY <1>1, CallTyped DEF CloseHold, At
  <2>2. /\ UNCHANGED <<ledgerVars, sale, status, refunded, disturbed>>
        /\ call[p].pc = "close_hold" /\ call' = [call EXCEPT ![p] = Returned(p)]
    BY <1>1 DEF CloseHold, At, payVars, faultVars
  <2>3. Returned(p).pc \in {"expire_hold", "idle"} BY <2>1, ReturnedIs
  <2>4. QED BY <2>2, <2>3, OtherSteps DEF Releases
<1>2. CASE ExpireHold(p)
  <2>1. /\ UNCHANGED <<ledgerVars, sale, status, refunded, disturbed>>
        /\ call[p].pc = "expire_hold"
    BY <1>2 DEF ExpireHold, At, payVars, faultVars
  <2>2. PICK n \in CallSet : call' = [call EXCEPT ![p] = n] /\ n.pc \in {"idle", "sweep"}
    BY <1>2, LeaveIsRest DEF ExpireHold
  <2>3. QED BY <2>1, <2>2, OtherSteps DEF Releases
<1>3. QED BY <1>1, <1>2

LEMMA SweepMoney ==
  ASSUME SettlementInv, SettlementInv', ReleaseInv, [Next]_vars, NEW s \in Sweepers,
         SelectExpired(s) \/ EndSweep(s) \/ RefundExpired(s)
  PROVE  ReleaseInv'
<1>1. s \in Processes BY DEF Processes
<1>2. ASSUME UNCHANGED <<ledgerVars, sale, status, refunded, disturbed>>,
             call[s].pc \in {"idle", "sweep"}, NEW l \in {"idle", "sweep"}, Goto(s, l)
      PROVE  ReleaseInv'
  <2>1. PICK n \in CallSet : call' = [call EXCEPT ![s] = n] /\ n.pc = l BY <1>2, SweepGoto
  <2>2. QED BY <1>1, <1>2, <2>1, OtherSteps DEF Releases
<1>3. CASE SelectExpired(s) BY <1>2, <1>3 DEF SelectExpired, At, rowVars, payVars, faultVars
<1>4. CASE EndSweep(s) BY <1>2, <1>4 DEF EndSweep, At, rowVars, payVars, faultVars
<1>5. CASE RefundExpired(s)
  <2>1. PICK r \in queue[s] :
          \/ StartRefund(s, r, sale[r].amount)
          \/ UNCHANGED <<call, faultVars>>
    BY <1>5 DEF RefundExpired
  <2>2. UNCHANGED <<ledgerVars, rowVars, payVars>> /\ call[s].pc = "sweep"
    BY <1>5 DEF RefundExpired, At
  <2>3. r \in Rows BY DEF SettlementInv, Shape
  <2>4. CASE StartRefund(s, r, sale[r].amount)
    BY <1>1, <2>2, <2>3, <2>4, StartRefundMoney
  <2>5. CASE UNCHANGED <<call, faultVars>>
    BY <2>2, <2>5, OutsideSteps DEF rowVars, payVars, faultVars
  <2>6. QED BY <2>1, <2>4, <2>5
<1>6. QED BY <1>3, <1>4, <1>5

LEMMA CrashMoney ==
  ASSUME SettlementInv, SettlementInv', ReleaseInv, [Next]_vars, NEW p \in Processes, Crash(p)
  PROVE  ReleaseInv'
<1>1. /\ UNCHANGED <<ledgerVars, sale, status, refunded>>
      /\ call' = [call EXCEPT ![p] = Idle]
      /\ disturbed' = disturbed \cup ({call[p].row} \ {NoRow})
  BY DEF Crash, rowVars, payVars
<1>2. call[p].pc \notin Releases \cup {"fail_row"} \/ call[p].row \in disturbed'
  BY <1>1, CallTyped DEF Releases
<1>3. Idle.pc = "idle" BY IdleTyped
<1>4. QED BY <1>1, <1>2, <1>3, OtherSteps DEF Releases

LEMMA ReleaseNext ==
  ASSUME SettlementInv, SettlementInv', ReleaseInv, [Next]_vars PROVE ReleaseInv'
<1>1. Signals \subseteq Processes /\ Merchants \subseteq Processes
      /\ Calls \subseteq Processes /\ Sweepers \subseteq Processes
  BY DEF Processes, Calls
<1>2. ASSUME NEW p \in Processes, RefundStep(p) PROVE ReleaseInv'
  BY <1>2, RefundCallMoney, ReadCapMoney, GiveBackMoney, FailRowMoney, ClosingMoney DEF RefundStep
<1>3. ASSUME NEW p \in Calls, CallStep(p) PROVE ReleaseInv'
  BY <1>1, <1>2, <1>3, ConfirmationMoney, CaptureMoney DEF CallStep
<1>4. ASSUME NEW s \in Sweepers, SweepStep(s) PROVE ReleaseInv'
  BY <1>1, <1>2, <1>4, SweepMoney, ClosingMoney DEF SweepStep
<1>5. ASSUME NEW p \in Merchants, NEW r \in Rows, Refund(p, r) PROVE ReleaseInv'
  <2>1. PICK k \in RefundAmounts(r) : StartRefund(p, r, k) BY <1>5 DEF Refund
  <2>2. UNCHANGED <<ledgerVars, rowVars, payVars>> /\ call[p].pc = "idle"
    BY <1>5 DEF Refund, At
  <2>3. QED BY <1>1, <2>1, <2>2, StartRefundMoney
<1>6. ASSUME NEW r \in Rows, Pay(r) \/ Overdue(r) PROVE ReleaseInv'
  BY <1>6, OutsideSteps DEF Pay, Overdue, rowVars, payVars, faultVars
<1>7. ASSUME UNCHANGED vars PROVE ReleaseInv'
  BY <1>7, OutsideSteps DEF vars, rowVars, payVars, faultVars
<1>8. ASSUME Next PROVE ReleaseInv'
  BY <1>1, <1>3, <1>4, <1>5, <1>6, <1>8, ConfirmationMoney, CaptureMoney, CrashMoney DEF Next
<1>9. QED BY <1>7, <1>8

LEMMA ReleaseInit == ASSUME SettlementInv, Init PROVE ReleaseInv
<1>1. /\ sale \in [Rows -> Sale] /\ IsFiniteSet(Rows) /\ NoRow \notin Rows
      /\ InitStock \in [Variants -> Nat] /\ MaxCaps \in Nat \ {0}
  BY LedgerAssumption, SettlementAssumption DEF SettlementInv, Shape
<1>2. /\ holds = [r \in Rows |-> [x \in Resource |-> Worth(GrantsOfRow(r), x)]]
      /\ refunded = [r \in Rows |-> 0] /\ status = [r \in Rows |-> "executed"]
      /\ call = [p \in Processes |-> Idle] /\ capCount = MaxCaps
      /\ stock = [v \in Variants |-> InitStock[v] - BoughtOf(v)]
      /\ \A v \in Variants : BoughtOf(v) <= InitStock[v]
      /\ caps = [c \in CapIds |-> [FreshCap(FirstCaps[c]) EXCEPT
                                     !.spent = ChargedTo(c),
                                     !.status = IF c = MaxCaps THEN "active" ELSE "revoked"]]
  BY DEF Init
<1>3. \A p \in Processes : call[p].pc = "idle" /\ call[p].row = NoRow
  BY <1>2, IdleTyped
<1>4. ASSUME NEW r \in Rows
      PROVE  /\ sale[r].amount \in Nat /\ holds[r] \in [Resource -> Nat]
             /\ holds[r][Budget] = sale[r].amount
             /\ \A v \in Variants : holds[r][v] = Worth(sale[r].lines, v)
  <2>1. sale[r].amount \in Nat /\ sale[r].lines \in Seq(Line) BY <1>1 DEF Sale
  <2>2. /\ GrantsOfRow(r) \in Seq(Grant) /\ Worth(GrantsOfRow(r), Budget) = sale[r].amount
        /\ \A v \in Variants : Worth(GrantsOfRow(r), v) = Worth(sale[r].lines, v)
    BY <2>1, LedgerAssumption, WorthOfRow DEF GrantsOfRow
  <2>3. holds[r] = [x \in Resource |-> Worth(GrantsOfRow(r), x)] BY <1>2
  <2>4. \A x \in Resource : Worth(GrantsOfRow(r), x) \in Nat BY <2>2, WorthNat
  <2>5. QED BY <2>1, <2>2, <2>3, <2>4 DEF Resource
<1>5. \A v \in Variants : BoughtOf(v) \in Nat
  <2>1. ASSUME NEW v \in Variants PROVE BoughtOf(v) \in Nat
    <3> DEFINE g == [r \in Rows |-> Worth(sale[r].lines, v)]
    <3>1. \A r \in Rows : g[r] \in Nat BY <1>4 DEF Resource
    <3> HIDE DEF g
    <3>2. Total(g, Rows) \in Nat BY <1>1, <3>1, TotalNat
    <3>3. QED BY <3>2 DEF BoughtOf, g
  <2>2. QED BY <2>1
<1>6. \A c \in CapIds : ChargedTo(c) \in Nat
  <2>1. ASSUME NEW c \in CapIds PROVE ChargedTo(c) \in Nat
    <3> DEFINE g == [r \in Rows |-> sale[r].amount]
               S == {r \in Rows : sale[r].cap = c}
    <3>1. \A r \in S : g[r] \in Nat BY <1>4
    <3>2. IsFiniteSet(S) BY <1>1, FS_Subset
    <3> HIDE DEF g, S
    <3>3. Total(g, S) \in Nat BY <3>1, <3>2, TotalNat
    <3>4. QED BY <3>3 DEF ChargedTo, g, S
  <2>2. QED BY <2>1
<1>7. caps \in [CapIds -> Cap]
  <2>1. ASSUME NEW c \in CapIds PROVE caps[c] \in Cap
    <3>1. FirstCaps[c] \in [limit : Nat, txMax : Nat]
      <4> DEFINE Choice == [limit : Nat, txMax : Nat]
      <4>1. FirstCaps \in Seq(Choice) /\ Len(FirstCaps) = MaxCaps BY SettlementAssumption
      <4>2. c \in 1 .. Len(FirstCaps) BY <4>1 DEF CapIds
      <4> HIDE DEF Choice
      <4>3. FirstCaps[c] \in Choice BY <4>1, <4>2
      <4>4. QED BY <4>3 DEF Choice
    <3>2. FreshCap(FirstCaps[c]) \in Cap BY <3>1 DEF FreshCap, Cap, CapStatus
    <3>3. ChargedTo(c) \in Nat BY <1>6
    <3>4. QED BY <1>2, <3>2, <3>3 DEF Cap, CapStatus
  <2>2. QED BY <1>2, <2>1
<1>8. stock \in [Variants -> Nat]
  <2>1. \A v \in Variants : InitStock[v] \in Nat /\ BoughtOf(v) \in Nat /\ BoughtOf(v) <= InitStock[v]
    BY <1>1, <1>2, <1>5
  <2>2. \A m, k \in Nat : k <= m => m - k \in Nat OBVIOUS
  <2>3. QED BY <1>2, <2>1, <2>2
<1>9. holds \in [Rows -> [Resource -> Int]]
  <2>1. \A r \in Rows : holds[r] \in [Resource -> Int] BY <1>4
  <2>2. QED BY <1>2, <2>1
<1>10. LedgerTypeOK BY <1>2, <1>7, <1>8, <1>9 DEF LedgerTypeOK, SettlementInv, Shape
<1>11. \A p \in Processes : CallMoney(p) BY <1>3 DEF CallMoney, At, Releases
<1>12. ASSUME NEW r \in Rows PROVE BudgetOK(r) /\ StockOK(r)
  <2>1. \A p \in Processes : \A steps : ~Does(p, r, steps) BY <1>1, <1>3 DEF Does
  <2>2. Releasing(r) = {} BY <2>1 DEF Releasing
  <2>3. Total(BudgetLeft, Releasing(r)) = 0 /\ IsFiniteSet(Releasing(r))
    BY <2>2, TotalEmpty, FS_EmptySet
  <2>4. refunded[r] = 0 /\ status[r] = "executed" BY <1>2
  <2>5. BudgetOK(r) BY <1>4, <2>3, <2>4 DEF BudgetOK
  <2>6. \A p \in Processes : ~RefundsAll(p, r) BY <2>1 DEF RefundsAll
  <2>7. \A v \in Variants : holds[r][v] \in Nat /\ holds[r][v] = Worth(sale[r].lines, v)
    BY <1>4 DEF Resource
  <2>8. StockOK(r) BY <2>4, <2>6, <2>7 DEF StockOK
  <2>9. QED BY <2>5, <2>8
<1>13. QED BY <1>2, <1>10, <1>11, <1>12 DEF ReleaseInv

\* At every point of every call, whatever fails: what a row was charged is held, refunded
\* or about to be released by one call, and nobody restocks a row twice.
THEOREM ReleaseInvariant == Spec => [](SettlementInv /\ ReleaseInv)
<1>1. Init => SettlementInv /\ ReleaseInv BY InitHolds, ReleaseInit
<1>2. SettlementInv /\ ReleaseInv /\ [Next]_vars => SettlementInv' /\ ReleaseInv'
  BY NextKeeps, StutterKeeps, ReleaseNext
<1>3. QED BY <1>1, <1>2, PTL DEF Spec

\* issueRefund asks Razorpay first: whatever fails or dies on the way, no more budget is
\* back than was refunded, and no stock before all of it was.
THEOREM RefundedFirst == Spec => []ReleasedOnlyIfRefunded
<1>1. ASSUME SettlementInv, ReleaseInv, NEW r \in Rows
      PROVE  /\ sale[r].amount - holds[r][Budget] <= refunded[r]
             /\ \A v \in Variants :
                  /\ holds[r][v] >= 0
                  /\ holds[r][v] < Worth(sale[r].lines, v) => refunded[r] = sale[r].amount
  <2>1. BudgetOK(r) /\ StockOK(r) BY <1>1 DEF ReleaseInv
  <2>2. /\ sale[r].amount \in Nat /\ refunded[r] \in Nat /\ refunded[r] <= sale[r].amount
        /\ holds[r][Budget] \in Int
    BY <1>1 DEF SettlementInv, Shape, Sale, ReleaseInv, LedgerTypeOK, Resource
  <2>3. Total(BudgetLeft, Releasing(r)) \in Nat
    <3>1. \A p \in Releasing(r) : BudgetLeft[p] \in Nat
      <4>1. \A p \in Releasing(r) : p \in Processes BY DEF Releasing
      <4>2. QED BY <1>1, <4>1, LeftTyped
    <3>2. QED BY <2>1, <3>1, TotalNat DEF BudgetOK
  <2>4. sale[r].amount - holds[r][Budget] <= refunded[r] BY <2>1, <2>2, <2>3 DEF BudgetOK
  <2>5. ASSUME NEW v \in Variants
        PROVE  /\ holds[r][v] >= 0
               /\ holds[r][v] < Worth(sale[r].lines, v) => refunded[r] = sale[r].amount
    <3>1. /\ holds[r][v] \in Nat
          /\ refunded[r] < sale[r].amount => holds[r][v] = Worth(sale[r].lines, v)
      BY <2>1 DEF StockOK
    <3>2. QED BY <2>2, <3>1
  <2>6. QED BY <2>4, <2>5
<1>2. SettlementInv /\ ReleaseInv => ReleasedOnlyIfRefunded
  BY <1>1 DEF ReleasedOnlyIfRefunded
<1>3. QED BY <1>2, ReleaseInvariant, PTL

-----------------------------------------------------------------------------
(* What budget and shelves show for it.                                    *)

Held(x)   == [r \in Rows |-> holds[r][x]]
RowsOf(c) == {r \in Rows : sale[r].cap = c}

\* Every cap carries what its rows hold of it, and the shelves lack what they hold of them.
Books ==
  /\ \A c \in CapIds : caps[c].spent = Total(Held(Budget), RowsOf(c))
  /\ \A v \in Variants : stock[v] = InitStock[v] - Total(Held(v), Rows)

\* Everything was sold under the cap in force, so the latest cap, to which issueRefund
\* gives back, is the one that was charged.
SoldUnderLatestCap == \A scene \in Scenes : \A r \in Rows : scene.sale[r].cap = MaxCaps

LEMMA HeldTyped ==
  ASSUME SettlementInv, ReleaseInv, NEW r \in Rows
  PROVE  \A x \in Resource : Held(x)[r] = holds[r][x] /\ holds[r][x] \in Nat
<1>1. BudgetOK(r) /\ StockOK(r) BY DEF ReleaseInv
<1>2. Total(BudgetLeft, Releasing(r)) \in Nat
  <2>1. \A p \in Releasing(r) : BudgetLeft[p] \in Nat
    <3>1. \A p \in Releasing(r) : p \in Processes BY DEF Releasing
    <3>2. QED BY <3>1, LeftTyped
  <2>2. QED BY <1>1, <2>1, TotalNat DEF BudgetOK
<1>3. holds[r][Budget] \in Nat
  <2>1. /\ sale[r].amount \in Nat /\ refunded[r] \in Nat /\ refunded[r] <= sale[r].amount
        /\ holds[r][Budget] \in Int
    BY DEF SettlementInv, Shape, Sale, ReleaseInv, LedgerTypeOK, Resource
  <2>2. QED BY <1>1, <1>2, <2>1 DEF BudgetOK
<1>4. QED BY <1>1, <1>3 DEF StockOK, Resource, Held

\* A row holds at least as much budget as any one call has still to release.
LEMMA CoveredRelease ==
  ASSUME SettlementInv, ReleaseInv, NEW p \in Processes, NEW r \in Rows, Does(p, r, Releases)
  PROVE  Worth(Left(p), Budget) <= holds[r][Budget]
<1>1. BudgetOK(r) BY DEF ReleaseInv
<1>2. \A q \in Releasing(r) : BudgetLeft[q] \in Nat
  <2>1. \A q \in Releasing(r) : q \in Processes BY DEF Releasing
  <2>2. QED BY <2>1, LeftTyped
<1>3. p \in Releasing(r) BY DEF Releasing
<1>4. BudgetLeft[p] <= Total(BudgetLeft, Releasing(r)) BY <1>1, <1>2, <1>3, TotalMember DEF BudgetOK
<1>5. Total(BudgetLeft, Releasing(r)) \in Nat BY <1>1, <1>2, TotalNat DEF BudgetOK
<1>6. /\ sale[r].amount \in Nat /\ refunded[r] \in Nat /\ refunded[r] <= sale[r].amount
      /\ holds[r][Budget] \in Nat
  BY HeldTyped DEF SettlementInv, Shape, Sale, Resource
<1>7. BudgetLeft[p] = Worth(Left(p), Budget) /\ Worth(Left(p), Budget) \in Nat BY LeftTyped
<1>8. QED BY <1>1, <1>4, <1>5, <1>6, <1>7 DEF BudgetOK

LEMMA BooksInit == ASSUME SettlementInv, ReleaseInv, Init PROVE Books
<1>1. IsFiniteSet(Rows) /\ LedgerAssumption BY LedgerAssumption
<1>2. /\ holds = [r \in Rows |-> [x \in Resource |-> Worth(GrantsOfRow(r), x)]]
      /\ stock = [v \in Variants |-> InitStock[v] - BoughtOf(v)]
      /\ caps = [c \in CapIds |-> [FreshCap(FirstCaps[c]) EXCEPT
                                     !.spent = ChargedTo(c),
                                     !.status = IF c = MaxCaps THEN "active" ELSE "revoked"]]
  BY DEF Init
<1>3. ASSUME NEW r \in Rows
      PROVE  /\ Held(Budget)[r] = sale[r].amount
             /\ \A v \in Variants : Held(v)[r] = Worth(sale[r].lines, v)
  <2>1. sale[r].amount \in Nat /\ sale[r].lines \in Seq(Line) BY DEF SettlementInv, Shape, Sale
  <2>2. /\ Worth(GrantsOfRow(r), Budget) = sale[r].amount
        /\ \A v \in Variants : Worth(GrantsOfRow(r), v) = Worth(sale[r].lines, v)
    BY <1>1, <2>1, WorthOfRow DEF GrantsOfRow
  <2>3. \A x \in Resource : Held(x)[r] = Worth(GrantsOfRow(r), x) BY <1>2 DEF Held
  <2>4. QED BY <2>2, <2>3 DEF Resource
<1>4. ASSUME NEW c \in CapIds PROVE caps[c].spent = Total(Held(Budget), RowsOf(c))
  <2> DEFINE g == [r \in Rows |-> sale[r].amount]
             S == RowsOf(c)
  <2>1. \A r \in S : g[r] = Held(Budget)[r] BY <1>3 DEF RowsOf
  <2>2. IsFiniteSet(S) BY <1>1, FS_Subset DEF RowsOf
  <2>3. caps[c].spent = ChargedTo(c) BY <1>2 DEF FreshCap
  <2>4. ChargedTo(c) = Total(g, S) BY DEF ChargedTo, RowsOf
  <2> HIDE DEF g, S
  <2>5. Total(g, S) = Total(Held(Budget), S) BY <2>1, <2>2, TotalSame
  <2>6. QED BY <2>3, <2>4, <2>5 DEF S
<1>5. ASSUME NEW v \in Variants PROVE stock[v] = InitStock[v] - Total(Held(v), Rows)
  <2> DEFINE g == [r \in Rows |-> Worth(sale[r].lines, v)]
  <2>1. \A r \in Rows : g[r] = Held(v)[r] BY <1>3
  <2>2. stock[v] = InitStock[v] - BoughtOf(v) BY <1>2
  <2>3. BoughtOf(v) = Total(g, Rows) BY DEF BoughtOf
  <2> HIDE DEF g
  <2>4. Total(g, Rows) = Total(Held(v), Rows) BY <1>1, <2>1, TotalSame
  <2>5. QED BY <2>2, <2>3, <2>4
<1>6. QED BY <1>4, <1>5 DEF Books

\* The release of one grant, as the sum over the rows sees it.
LEMMA HeldChanges ==
  ASSUME SettlementInv, ReleaseInv, LedgerTypeOK', NEW r \in Rows, NEW grant \in Grant,
         \A x \in Resource : holds'[r][x] = holds[r][x] - Part(grant, x),
         \A y \in Rows : y # r => holds'[y] = holds[y],
         NEW x \in Resource
  PROVE  /\ Total(Held(x), Rows)' = Total(Held(x), Rows) - Part(grant, x)
         /\ Total(Held(x), Rows) \in Nat
<1> DEFINE g == Held(x)
           h == Held(x)'
<1>1. \A y \in Rows : g[y] = holds[y][x] /\ g[y] \in Nat BY HeldTyped
<1>2. \A y \in Rows : h[y] = holds'[y][x] /\ h[y] \in Int BY DEF Held, LedgerTypeOK
<1>3. h[r] = g[r] - Part(grant, x) /\ \A y \in Rows : y # r => h[y] = g[y] BY <1>1, <1>2
<1>4. IsFiniteSet(Rows) /\ Part(grant, x) \in Int BY LedgerAssumption DEF Part, Grant
<1> HIDE DEF g, h
<1>5. Total(h, Rows) = Total(g, Rows) + h[r] - g[r]
  <2>1. \A y \in Rows : g[y] \in Int /\ h[y] \in Int BY <1>1, <1>2
  <2>2. \A y \in Rows : y # r => h[y] = g[y] BY <1>3
  <2>3. QED BY <1>4, <2>1, <2>2, TotalChanged
<1>6. Total(g, Rows) \in Nat BY <1>1, <1>4, TotalNat
<1>7. g[r] \in Nat BY <1>1
<1>8. Total(h, Rows) = Total(g, Rows) - Part(grant, x) BY <1>3, <1>4, <1>5, <1>6, <1>7
<1>9. QED BY <1>6, <1>8 DEF g, h

LEMMA GiveBackBooks ==
  ASSUME SoldUnderLatestCap, SettlementInv, ReleaseInv, ReleaseInv', Books,
         NEW p \in Processes, GiveBack(p)
  PROVE  Books'
<1>1. PICK r \in Rows : /\ call[p].row = r /\ call[p].pc = "give_back"
                        /\ call[p].undo \in Seq(Grant) /\ call[p].undo # <<>>
                        /\ call[p].cap = MaxCaps
  <2>1. CallMoney(p) BY DEF ReleaseInv
  <2>2. QED BY <2>1, CallTyped DEF CallMoney, GiveBack, At, CallSet
<1>2. PICK grant \in Grant : grant = Head(call[p].undo) BY <1>1
<1>3. Release(r, MaxCaps, grant) /\ sale' = sale
  BY <1>1, <1>2 DEF GiveBack, rowVars
<1>4. LedgerTypeOK /\ LedgerTypeOK' /\ MaxCaps \in CapIds /\ LedgerAssumption
  BY LedgerAssumption DEF ReleaseInv, CapIds
<1>5. /\ \A x \in Resource : holds'[r][x] = holds[r][x] - Part(grant, x)
      /\ \A y \in Rows : y # r => holds'[y] = holds[y]
  BY <1>3, <1>4, ReleasedOf
<1>6. \A x \in Resource : /\ Total(Held(x), Rows)' = Total(Held(x), Rows) - Part(grant, x)
                          /\ Total(Held(x), Rows) \in Nat
  BY <1>4, <1>5, HeldChanges
<1>7. RowsOf(MaxCaps) = Rows /\ \A c \in CapIds : c # MaxCaps => RowsOf(c) = {}
  BY DEF SoldUnderLatestCap, SettlementInv, Shape, RowsOf
<1>8. \A c \in CapIds : RowsOf(c)' = RowsOf(c) BY <1>3 DEF RowsOf
<1>9. \A c \in CapIds : c # MaxCaps => Total(Held(Budget), RowsOf(c))' = caps[c].spent
  <2>1. ASSUME NEW c \in CapIds, c # MaxCaps
        PROVE  Total(Held(Budget), RowsOf(c))' = caps[c].spent
    <3>1. caps[c].spent = Total(Held(Budget), RowsOf(c)) BY DEF Books
    <3>2. RowsOf(c) = {} /\ RowsOf(c)' = {} BY <1>7, <1>8, <2>1
    <3>3. Total(Held(Budget), {}) = 0 /\ Total(Held(Budget)', {}) = 0 BY TotalEmpty
    <3>4. QED BY <3>1, <3>2, <3>3
  <2>2. QED BY <2>1
<1>10. Total(Held(Budget), RowsOf(MaxCaps))' = Total(Held(Budget), Rows)'
  BY <1>4, <1>7, <1>8
<1>11. /\ caps[MaxCaps].spent = Total(Held(Budget), Rows)
       /\ \A v \in Variants : stock[v] = InitStock[v] - Total(Held(v), Rows)
  BY <1>4, <1>7 DEF Books
<1>12. Budget \in Resource /\ \A v \in Variants : v \in Resource /\ v # Budget
  BY <1>4 DEF Resource, LedgerAssumption
<1>13. CASE grant.of = Budget
  <2>1. /\ caps' = [caps EXCEPT ![MaxCaps].spent = FlooredDifference(@, grant.qty)]
        /\ stock' = stock
    BY <1>3, <1>13 DEF Release, releaseBudget
  <2>2. /\ Part(grant, Budget) = grant.qty /\ grant.qty \in Nat
        /\ \A v \in Variants : Part(grant, v) = 0
    BY <1>12, <1>13 DEF Part, Grant
  <2>3. grant.qty <= Total(Held(Budget), Rows)
    <3>1. Worth(call[p].undo, Budget) = Part(grant, Budget) + Worth(Tail(call[p].undo), Budget)
      BY <1>1, <1>2, WorthTail
    <3>2. Tail(call[p].undo) \in Seq(Grant) BY <1>1
    <3>3. Worth(Tail(call[p].undo), Budget) \in Nat BY <3>2, WorthNat
    <3>4. Left(p) = call[p].undo /\ Does(p, r, Releases) BY <1>1 DEF Left, At, Does, Releases
    <3>5. Worth(call[p].undo, Budget) <= holds[r][Budget] BY <3>4, CoveredRelease
    <3>6. holds[r][Budget] \in Nat BY <1>12, HeldTyped
    <3>7. holds[r][Budget] <= Total(Held(Budget), Rows)
      <4>1. \A y \in Rows : Held(Budget)[y] \in Nat BY <1>12, HeldTyped
      <4>2. IsFiniteSet(Rows) BY LedgerAssumption
      <4>3. Held(Budget)[r] <= Total(Held(Budget), Rows) BY <4>1, <4>2, TotalMember
      <4>4. QED BY <4>3, <1>12, HeldTyped
    <3>8. QED BY <1>6, <1>12, <2>2, <3>1, <3>3, <3>5, <3>6, <3>7
  <2>4. caps'[MaxCaps].spent = caps[MaxCaps].spent - grant.qty
    <3>1. caps'[MaxCaps].spent = FlooredDifference(caps[MaxCaps].spent, grant.qty)
      BY <1>4, <2>1 DEF LedgerTypeOK, Cap
    <3>2. QED BY <1>11, <2>3, <3>1 DEF FlooredDifference
  <2>5. \A c \in CapIds : c # MaxCaps => caps'[c].spent = caps[c].spent
    BY <1>4, <2>1 DEF LedgerTypeOK, Cap
  <2>6. \A c \in CapIds : caps'[c].spent = Total(Held(Budget), RowsOf(c))'
    <3>1. caps'[MaxCaps].spent = Total(Held(Budget), RowsOf(MaxCaps))'
      BY <1>6, <1>10, <1>11, <1>12, <2>2, <2>4
    <3>2. QED BY <1>9, <2>5, <3>1
  <2>7. \A v \in Variants : stock'[v] = InitStock[v] - Total(Held(v), Rows)'
    <3>1. ASSUME NEW v \in Variants PROVE stock'[v] = InitStock[v] - Total(Held(v), Rows)'
      <4>1. Total(Held(v), Rows)' = Total(Held(v), Rows) - 0 /\ Total(Held(v), Rows) \in Nat
        BY <1>6, <1>12, <2>2
      <4>2. Total(Held(v), Rows)' = Total(Held(v), Rows) BY <4>1
      <4>3. QED BY <1>11, <2>1, <4>2
    <3>2. QED BY <3>1
  <2>8. QED BY <2>6, <2>7 DEF Books
<1>14. CASE grant.of # Budget
  <2>1. PICK w \in Variants : w = grant.of BY <1>14 DEF Grant, Resource
  <2>2. stock' = [stock EXCEPT ![w] = @ + grant.qty] /\ caps' = caps
    BY <1>3, <1>14, <2>1 DEF Release, releaseStock
  <2>3. /\ Part(grant, Budget) = 0 /\ Part(grant, w) = grant.qty /\ grant.qty \in Nat
        /\ \A v \in Variants : v # w => Part(grant, v) = 0
    BY <1>14, <2>1 DEF Part, Grant
  <2>4. \A c \in CapIds : caps'[c].spent = Total(Held(Budget), RowsOf(c))'
    <3>1. Total(Held(Budget), Rows)' = Total(Held(Budget), Rows) - 0
          /\ Total(Held(Budget), Rows) \in Nat
      BY <1>6, <1>12, <2>3
    <3>2. Total(Held(Budget), Rows)' = Total(Held(Budget), Rows) BY <3>1
    <3>3. caps'[MaxCaps].spent = Total(Held(Budget), RowsOf(MaxCaps))'
      BY <1>10, <1>11, <2>2, <3>2
    <3>4. QED BY <1>9, <2>2, <3>3
  <2>5. \A v \in Variants : stock'[v] = InitStock[v] - Total(Held(v), Rows)'
    <3>1. ASSUME NEW v \in Variants PROVE stock'[v] = InitStock[v] - Total(Held(v), Rows)'
      <4>1. /\ Total(Held(v), Rows)' = Total(Held(v), Rows) - Part(grant, v)
            /\ Total(Held(v), Rows) \in Nat /\ stock[v] = InitStock[v] - Total(Held(v), Rows)
            /\ InitStock[v] \in Nat /\ stock[v] \in Nat
        BY <1>4, <1>6, <1>11, <1>12 DEF LedgerAssumption, LedgerTypeOK
      <4>2. CASE v = w
        <5>1. stock'[v] = stock[v] + grant.qty BY <1>4, <2>2, <4>2 DEF LedgerTypeOK
        <5>2. Part(grant, v) = grant.qty BY <2>3, <4>2
        <5>3. QED BY <2>3, <4>1, <5>1, <5>2
      <4>3. CASE v # w
        <5>1. stock'[v] = stock[v] BY <1>4, <2>2, <4>3 DEF LedgerTypeOK
        <5>2. Part(grant, v) = 0 BY <2>3, <4>3
        <5>3. QED BY <4>1, <5>1, <5>2
      <4>4. QED BY <4>2, <4>3
    <3>2. QED BY <3>1
  <2>6. QED BY <2>4, <2>5 DEF Books
<1>15. QED BY <1>13, <1>14

\* Budget and stock are touched by giving back, and by nothing else.
LEMMA OnlyGivingBack ==
  ASSUME [Next]_vars, \A p \in Processes : ~GiveBack(p)
  PROVE  UNCHANGED <<caps, stock, holds, sale>>
BY DEF Next, vars, ledgerVars, rowVars, RefundStep, CallStep, SweepStep, Processes, Calls, Pay,
       Overdue, ConfirmCapture, InsertHold, CaptureHeld, CaptureCall, MarkCaptured,
       MarkHoldCaptured, Refund, RefundCall, ReadCap, FailRow, CloseHold, SelectExpired,
       RefundExpired, EndSweep, ExpireHold, Crash

LEMMA BooksNext ==
  ASSUME SoldUnderLatestCap, SettlementInv, ReleaseInv, ReleaseInv', Books, [Next]_vars
  PROVE  Books'
<1>1. CASE \E p \in Processes : GiveBack(p) BY <1>1, GiveBackBooks
<1>2. CASE \A p \in Processes : ~GiveBack(p)
  <2>1. UNCHANGED <<caps, stock, holds, sale>> BY <1>2, OnlyGivingBack
  <2>2. QED BY <2>1 DEF Books, Held, RowsOf
<1>3. QED BY <1>1, <1>2

\* As long as the agent's cap was not replaced since: budget and shelves show at every
\* point what the rows sold under them still hold.
THEOREM BooksInvariant ==
  ASSUME SoldUnderLatestCap
  PROVE  Spec => [](SettlementInv /\ ReleaseInv /\ Books)
<1>1. Init => SettlementInv /\ ReleaseInv /\ Books BY InitHolds, ReleaseInit, BooksInit
<1>2. SettlementInv /\ ReleaseInv /\ Books /\ [Next]_vars =>
        (SettlementInv /\ ReleaseInv /\ Books)'
  BY NextKeeps, StutterKeeps, ReleaseNext, BooksNext
<1>3. QED BY <1>1, <1>2, PTL DEF Spec

\* As long as the agent's cap was not replaced since: at rest and with nothing disturbed,
\* the caps carry what was sold and not refunded, the shelves lack what stands, and only
\* what was refunded in full has failed.
THEOREM BooksBalance ==
  ASSUME SoldUnderLatestCap
  PROVE  Spec => []BooksFollowRefunds
<1>1. ASSUME SettlementInv, ReleaseInv, Books, Quiet, disturbed = {}
      PROVE  /\ \A c \in CapIds :
                  caps[c].spent = Total([r \in Rows |-> sale[r].amount - refunded[r]],
                                        {r \in Rows : sale[r].cap = c})
             /\ \A v \in Variants :
                  stock[v] = InitStock[v] - Total([r \in Rows |-> Worth(sale[r].lines, v)],
                                                  {r \in Rows : status[r] # "failed"})
             /\ \A r \in Rows : status[r] = "failed" => refunded[r] = sale[r].amount
  <2>1. IsFiniteSet(Rows) BY LedgerAssumption
  <2>2. ASSUME NEW r \in Rows
        PROVE  /\ holds[r][Budget] = sale[r].amount - refunded[r]
               /\ \A p \in Processes : ~RefundsAll(p, r)
    <3>1. \A p \in Processes : ~Does(p, r, Releases) /\ ~RefundsAll(p, r)
      BY <1>1 DEF Quiet, At, Does, RefundsAll, Releases
    <3>2. Releasing(r) = {} BY <3>1 DEF Releasing
    <3>3. Total(BudgetLeft, Releasing(r)) = 0 BY <3>2, TotalEmpty
    <3>4. BudgetOK(r) BY <1>1 DEF ReleaseInv
    <3>5. sale[r].amount + 0 = refunded[r] + holds[r][Budget] BY <1>1, <3>3, <3>4 DEF BudgetOK
    <3>6. sale[r].amount \in Nat /\ refunded[r] \in Nat /\ holds[r][Budget] \in Nat
      BY <1>1, HeldTyped DEF SettlementInv, Shape, Sale, Resource
    <3>7. QED BY <3>1, <3>5, <3>6
  <2>3. ASSUME NEW c \in CapIds
        PROVE  caps[c].spent = Total([r \in Rows |-> sale[r].amount - refunded[r]], RowsOf(c))
    <3> DEFINE g == [r \in Rows |-> sale[r].amount - refunded[r]]
               S == RowsOf(c)
    <3>1. \A r \in S : g[r] = Held(Budget)[r] BY <2>2 DEF RowsOf, Held
    <3>2. IsFiniteSet(S) BY <2>1, FS_Subset DEF RowsOf
    <3>3. caps[c].spent = Total(Held(Budget), S) BY <1>1 DEF Books
    <3> HIDE DEF g, S
    <3>4. Total(g, S) = Total(Held(Budget), S) BY <3>1, <3>2, TotalSame
    <3>5. QED BY <3>3, <3>4 DEF g, S
  <2>4. ASSUME NEW v \in Variants
        PROVE  stock[v] = InitStock[v] - Total([r \in Rows |-> Worth(sale[r].lines, v)],
                                               {r \in Rows : status[r] # "failed"})
    <3> DEFINE g == [r \in Rows |-> Worth(sale[r].lines, v)]
               S == {r \in Rows : status[r] # "failed"}
    <3>1. \A r \in Rows : Held(v)[r] = holds[r][v] /\ Held(v)[r] \in Nat
      BY <1>1, HeldTyped DEF Resource
    <3>2. \A r \in Rows : r \notin S => Held(v)[r] = 0
      BY <1>1, <3>1 DEF ReleaseInv, StockOK
    <3>3. \A r \in S : g[r] = Held(v)[r]
      BY <1>1, <2>2, <3>1 DEF ReleaseInv, StockOK
    <3>4. IsFiniteSet(S) /\ S \subseteq Rows BY <2>1, FS_Subset
    <3>5. stock[v] = InitStock[v] - Total(Held(v), Rows) BY <1>1 DEF Books
    <3> HIDE DEF g, S
    <3>6. Total(Held(v), Rows) = Total(Held(v), S) BY <2>1, <3>1, <3>2, <3>4, TotalWithin
    <3>7. Total(g, S) = Total(Held(v), S) BY <3>3, <3>4, TotalSame
    <3>8. QED BY <3>5, <3>6, <3>7 DEF g, S
  <2>5. \A r \in Rows : status[r] = "failed" => refunded[r] = sale[r].amount
    BY <1>1 DEF ReleaseInv, StockOK
  <2>6. QED BY <2>3, <2>4, <2>5 DEF RowsOf
<1>2. SettlementInv /\ ReleaseInv /\ Books => BooksFollowRefunds
  BY <1>1 DEF BooksFollowRefunds
<1>3. QED BY <1>2, BooksInvariant, PTL
=============================================================================
