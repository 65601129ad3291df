---------------------------- MODULE Inbox_proofs ----------------------------
(* What holds of Inbox for every number of sales, events and requests. *)
EXTENDS Inbox, TLAPS

-----------------------------------------------------------------------------
(* The arithmetic of Treasury *)

LEMMA BasisPoints == TOTAL_BASIS_POINTS \in Nat \ {0}
  BY DEF TOTAL_BASIS_POINTS

LEMMA FloorShare ==
  ASSUME NEW paise \in Nat, NEW bps \in Nat
  PROVE  ShareOf(paise, bps) \in Nat /\ TOTAL_BASIS_POINTS * ShareOf(paise, bps) <= paise * bps
PROOF
  <1>1. paise * bps \in Nat
    BY SMT
  <1>2. \A n \in Nat : n \div 10000 \in Nat /\ 10000 * (n \div 10000) <= n
    BY SMT
  <1> QED BY <1>1, <1>2 DEF ShareOf, TOTAL_BASIS_POINTS

LEMMA SettingsAreNumbers ==
  ASSUME NEW s, ValidSettings(s)
  PROVE  /\ s.allocationBasisPoints \in Nat /\ s.buyerShareBps \in Nat /\ s.merchantShareBps \in Nat
         /\ s.buyerShareBps + s.merchantShareBps <= TOTAL_BASIS_POINTS
PROOF
  <1>1. \A t \in Nat : \A x : x \in 0..t => x \in Nat
    BY SMT
  <1>2. \A t, x, y, z \in Nat : x + y + z = t => x + y <= t
    BY SMT
  <1> QED BY <1>1, <1>2, BasisPoints, Zenon DEF ValidSettings

LEMMA ContributionTyped ==
  ASSUME NEW paise \in Nat, NEW s, ValidSettings(s)
  PROVE  Contribution(paise, s) \in Nat
  BY SettingsAreNumbers, FloorShare DEF Contribution

\* Two shares of a whole together take no more than the whole.
LEMMA SharesFit ==
  ASSUME NEW c \in Nat, NEW x \in Nat, NEW y \in Nat, x + y <= TOTAL_BASIS_POINTS
  PROVE  c - ShareOf(c, x) - ShareOf(c, y) \in Nat
PROOF
  <1> DEFINE t == TOTAL_BASIS_POINTS
             a == ShareOf(c, x)
             b == ShareOf(c, y)
  <1>1. t \in Nat \ {0} /\ x + y <= t
    BY BasisPoints
  <1>2. a \in Nat /\ b \in Nat /\ t * a <= c * x /\ t * b <= c * y
    BY FloorShare
  <1> HIDE DEF t, a, b
  <1>3. c * x + c * y <= c * t
    <2>1. c * (x + y) <= c * t
      BY <1>1, SMT
    <2>2. c * (x + y) = c * x + c * y
      BY SMT
    <2> QED BY <2>1, <2>2
  <1>4. t * (a + b) <= t * c
    <2>1. t * (a + b) = t * a + t * b
      BY <1>1, <1>2, SMT
    <2>2. t * a \in Nat /\ t * b \in Nat /\ c * x \in Nat /\ c * y \in Nat /\ c * t \in Nat
      BY <1>1, <1>2, SMT
    <2>3. t * a + t * b <= c * t
      BY <1>2, <1>3, <2>2, SMT
    <2>4. c * t = t * c
      BY <1>1, SMT
    <2> QED BY <2>1, <2>3, <2>4
  <1>5. a + b <= c
    <2> SUFFICES ASSUME a + b >= c + 1 PROVE FALSE
      BY <1>2
    <2>1. t * (a + b) >= t * (c + 1)
      BY <1>1, <1>2, SMT
    <2>2. t * (c + 1) = t * c + t
      BY <1>1, SMT
    <2>3. t * c \in Nat
      BY <1>1, SMT
    <2>4. t * (a + b) \in Nat
      BY <1>1, <1>2, SMT
    <2> QED BY <1>1, <1>4, <2>1, <2>2, <2>3, <2>4
  <1>6. c - a - b \in Nat
    BY <1>2, <1>5
  <1> QED BY <1>6 DEF a, b

\* Three floors never take more than there is, and the reserve takes the rest:
\* the split is whole, with no negative share.
LEMMA SplitIsWhole ==
  ASSUME NEW paise \in Nat, NEW s, ValidSettings(s)
  PROVE  /\ computeAllocationSplit(paise, s) \in [Buckets -> Nat]
         /\ Total(computeAllocationSplit(paise, s)) = Contribution(paise, s)
PROOF
  <1> DEFINE c == Contribution(paise, s)
             buyer == ShareOf(c, s.buyerShareBps)
             merchant == ShareOf(c, s.merchantShareBps)
             split == computeAllocationSplit(paise, s)
  <1>1. c \in Nat /\ buyer \in Nat /\ merchant \in Nat
    BY ContributionTyped, SettingsAreNumbers, FloorShare
  <1>2. c - buyer - merchant \in Nat
    BY ContributionTyped, SettingsAreNumbers, SharesFit
  <1>3. /\ split = [b \in Buckets |-> split[b]]
        /\ split["buyer_credits"] = buyer
        /\ split["merchant_ai_budget"] = merchant
        /\ split["reserve"] = c - buyer - merchant
    BY DEF computeAllocationSplit, Buckets
  <1> HIDE DEF c, buyer, merchant, split
  <1>4. Total(split) = c
    BY <1>1, <1>3 DEF Total
  <1>5. \A b \in Buckets : split[b] \in Nat
    BY <1>1, <1>2, <1>3 DEF Buckets
  <1>6. split \in [Buckets -> Nat]
    BY <1>3, <1>5
  <1> QED BY <1>4, <1>6 DEF split, c

-----------------------------------------------------------------------------
(* The inductive invariant *)

Kind == {"payment.captured", "order.paid", "payment.failed"}
Effectful == {"rewards", "coins", "settings", "fund", "notify"}
PC == {"idle", "claim", "refused", "read", "update", "respond"} \cup Effectful
PostState ==
  [pc : PC, signal : Events \cup {Browser}, sale : Sales \cup {"none"},
   split : Settings \cup {NoSettings}, bucket : 1..3]

RowsTyped ==
  /\ status \in [Sales -> {"executed", "captured", "held", "failed"}]
  /\ holdOnly \subseteq Sales /\ event \in [Events -> [kind : Kind, sale : Sales]]
  /\ answered \subseteq claimed /\ claimed \subseteq Events
  /\ issues \subseteq Sales /\ failures \subseteq Sales /\ cut \subseteq Sales
  /\ coins \in [Sales -> {0, 1}] /\ notices \in [Sales -> {0, 1}] /\ captured \in [Sales -> {0, 1}]
  /\ rows \in [Sales -> [Buckets -> {0, 1}]] /\ funded \in [Sales -> [Buckets -> Nat]]
  /\ splits \in [Sales -> SUBSET Settings]
  /\ settings \in Settings /\ changes \in 0..MaxChanges /\ faults \in 0..MaxFaults

Paid == {s \in Sales : captured[s] = 1}

\* What a request knows: it gives effects only to a sale that was captured, and
\* answers for an event only after the claim.
PostOK(r, paid, ids) ==
  /\ r \in PostState
  /\ r.pc # "idle" => r.sale \in Sales
  /\ r.pc \in Effectful => r.sale \in paid
  /\ r.pc = "fund" => r.split \in Settings
  /\ r.pc = "claim" => r.signal \in Events
  /\ r.pc \notin {"idle", "claim"} => r.signal \in ids \cup {Browser}

PostsOK == DOMAIN post = Posts /\ post = [p \in Posts |-> post[p]] /\ \A p \in Posts : PostOK(post[p], Paid, claimed)

\* Only a request that inserted the issuance's row goes on to the coins, and one
\* per sale does: that is what keeps the unguarded insert from happening twice.
Payer(p) == post[p].pc = "coins"
OnePayer ==
  /\ \A s \in Sales : coins[s] = 1 => s \in issues
  /\ \A p \in Posts : Payer(p) => post[p].sale \in issues /\ coins[post[p].sale] = 0
  /\ \A p, q \in Posts : Payer(p) /\ Payer(q) /\ p # q => post[p].sale # post[q].sale

\* The status tells what became of the payment, and each amount in the treasury
\* is the share one reading of the settings gave.
Settled ==
  \A s \in Sales : /\ status[s] = "executed" => captured[s] = 0
                   /\ status[s] \in {"captured", "failed"} => captured[s] = 1
                   /\ status[s] = "held" => s \in holdOnly
Shared ==
  \A s \in Sales, b \in Buckets :
    /\ rows[s][b] = 0 => funded[s][b] = 0
    /\ rows[s][b] = 1 => \E x \in splits[s] : funded[s][b] = computeAllocationSplit(Amount[s], x)[b]
OnlyCaptured ==
  \A s \in Sales :
    coins[s] = 1 \/ notices[s] = 1 \/ (\E b \in Buckets : rows[s][b] = 1) => captured[s] = 1

InboxInv == RowsTyped /\ PostsOK /\ OnePayer /\ Settled /\ Shared /\ OnlyCaptured

LEMMA InitInv == Init => InboxInv
PROOF
  <1> SUFFICES ASSUME Init PROVE InboxInv
    OBVIOUS
  <1> USE DEF Init
  <1>1. RowsTyped
    BY InboxAssumption DEF RowsTyped, NoRows, None, Kind
  <1>2. Idle \in PostState
    BY DEF Idle, PostState, PC
  <1>3. PostsOK
    BY <1>2 DEF PostsOK, PostOK, Idle, Effectful
  <1>4. Settled
    BY DEF Settled, None
  <1>5. \A s \in Sales, b \in Buckets : funded[s][b] = 0 /\ rows[s][b] = 0 /\ coins[s] = 0 /\ notices[s] = 0
    BY DEF NoRows, None
  <1>6. Shared /\ OnlyCaptured
    BY <1>5 DEF Shared, OnlyCaptured
  <1>7. OnePayer
    <2>1. \A p \in Posts : ~Payer(p)
      BY DEF Payer, Idle
    <2>2. \A s \in Sales : coins[s] # 1
      BY DEF None
    <2> QED BY <2>1, <2>2 DEF OnePayer
  <1> QED BY <1>1, <1>3, <1>4, <1>6, <1>7 DEF InboxInv

\* A step of one request: what it becomes has to be in order, the others stay so.
LEMMA PostMoves ==
  ASSUME PostsOK, NEW p \in Posts, NEW r, post' = [post EXCEPT ![p] = r], PostOK(r, Paid', claimed'),
         Paid \subseteq Paid', claimed \subseteq claimed'
  PROVE  PostsOK'
PROOF
  <1>1. ASSUME NEW q \in Posts PROVE PostOK(post'[q], Paid', claimed')
    <2>1. CASE q = p
      BY <2>1 DEF PostsOK
    <2>2. CASE q # p
      <3>1. post'[q] = post[q] /\ PostOK(post[q], Paid, claimed)
        BY <2>2 DEF PostsOK
      <3> QED BY <3>1 DEF PostOK, PostState
    <2> QED BY <2>1, <2>2
  <1>2. DOMAIN post' = Posts /\ post' = [q \in Posts |-> post'[q]]
    BY DEF PostsOK
  <1> QED BY <1>1, <1>2 DEF PostsOK

LEMMA PostsStay ==
  ASSUME PostsOK, post' = post, Paid \subseteq Paid', claimed \subseteq claimed'
  PROVE  PostsOK'
  BY DEF PostsOK, PostOK, PostState

\* A request that does not go to the coins leaves the payers as they are, or one fewer.
LEMMA PayersStay ==
  ASSUME PostsOK, OnePayer, UNCHANGED <<issues, coins>>,
         \/ post' = post
         \/ \E p \in Posts : \E r : post' = [post EXCEPT ![p] = r] /\ r.pc # "coins"
  PROVE  OnePayer'
PROOF
  <1>1. CASE post' = post
    BY <1>1 DEF OnePayer, Payer
  <1>2. CASE \E p \in Posts : \E r : post' = [post EXCEPT ![p] = r] /\ r.pc # "coins"
    <2>1. PICK p \in Posts : \E r : post' = [post EXCEPT ![p] = r] /\ r.pc # "coins"
      BY <1>2
    <2>2. PICK r : post' = [post EXCEPT ![p] = r] /\ r.pc # "coins"
      BY <2>1
    <2>3. DOMAIN post = Posts
      BY DEF PostsOK
    <2>4. ASSUME NEW q \in Posts, Payer(q)' PROVE Payer(q) /\ post'[q] = post[q]
      <3>1. q # p
        BY <2>2, <2>3, <2>4 DEF Payer
      <3> QED BY <2>2, <2>3, <2>4, <3>1 DEF Payer
    <2>5. \A q \in Posts : Payer(q)' => Payer(q) /\ post'[q] = post[q]
      BY <2>4
    <2> QED BY <2>5 DEF OnePayer
  <1> QED BY <1>1, <1>2

LEMMA IdleIsTyped == Idle \in PostState
  BY DEF Idle, PostState, PC

LEMMA IdleIsOK == \A paid, ids : PostOK(Idle, paid, ids) /\ Idle.pc # "coins"
  BY IdleIsTyped DEF PostOK, Idle, Effectful

\* What depends on the rows alone.
LEMMA RowsStay ==
  ASSUME InboxInv, UNCHANGED <<effectRows, holdOnly, captured, status>>
  PROVE  Settled' /\ Shared' /\ OnlyCaptured' /\ Paid' = Paid /\ UNCHANGED <<issues, coins>>
PROOF
  <1>1. UNCHANGED <<issues, coins, rows, funded, notices, splits>>
    BY DEF effectRows
  <1>2. Settled' /\ Paid' = Paid
    BY DEF InboxInv, Settled, Paid
  <1>3. Shared'
    BY <1>1 DEF InboxInv, Shared
  <1>4. OnlyCaptured'
    BY <1>1 DEF InboxInv, OnlyCaptured
  <1> QED BY <1>1, <1>2, <1>3, <1>4

-----------------------------------------------------------------------------
(* One lemma per group of actions *)

LEMMA SignalSteps ==
  ASSUME InboxInv, NEW p \in Posts,
         \/ \E e \in Events : Deliver(p, e)
         \/ \E s \in Sales : Verify(p, s)
         \/ ClaimEvent(p) \/ RecordPaymentFailure(p)
  PROVE  InboxInv'
PROOF
  <1> USE DEF InboxInv
  <1>0. PostOK(post[p], Paid, claimed) /\ post[p] \in PostState
    BY DEF PostsOK, PostOK
  <1>a. UNCHANGED <<effects, holdOnly, captured, status>>
    BY DEF Deliver, Verify, ClaimEvent, RecordPaymentFailure, merchantVars
  <1>b. /\ Settled' /\ Shared' /\ OnlyCaptured' /\ Paid' = Paid /\ UNCHANGED <<issues, coins>>
        /\ UNCHANGED <<rows, funded, notices, failures, splits, cut>>
    BY <1>a, RowsStay DEF effects, effectRows
  <1>c. ASSUME NEW r, post' = [post EXCEPT ![p] = r], PostOK(r, Paid', claimed'), r.pc # "coins", claimed \subseteq claimed'
        PROVE  PostsOK' /\ OnePayer'
    BY <1>b, <1>c, PostMoves, PayersStay
  <1>1. ASSUME NEW e \in Events, Deliver(p, e) PROVE RowsTyped' /\ PostsOK' /\ OnePayer'
    <2> DEFINE r == [Idle EXCEPT !.pc = "claim", !.signal = e, !.sale = event[e].sale]
    <2>1. event[e].sale \in Sales
      BY DEF RowsTyped
    <2>2. r \in PostState /\ r.pc = "claim" /\ r.signal = e /\ r.sale = event[e].sale
      <3>1. r.pc = "claim" /\ r.signal = e /\ r.sale = event[e].sale
        BY DEF Idle
      <3> QED BY <3>1, <2>1, IdleIsTyped DEF PostState, PC
    <2>3. RowsTyped'
      BY <1>1, <1>b DEF Deliver, RowsTyped, merchantVars
    <2>4. post' = [post EXCEPT ![p] = r] /\ claimed' = claimed
      BY <1>1 DEF Deliver
    <2>5. PostOK(r, Paid', claimed') /\ r.pc # "coins"
      <3> HIDE DEF r
      <3> QED BY <2>1, <2>2 DEF PostOK, Effectful
    <2> HIDE DEF r
    <2> QED BY <1>c, <2>3, <2>4, <2>5
  <1>2. ASSUME NEW s \in Sales, Verify(p, s) PROVE RowsTyped' /\ PostsOK' /\ OnePayer'
    <2> DEFINE r == [Idle EXCEPT !.pc = "read", !.sale = s]
    <2>1. r \in PostState /\ r.pc = "read" /\ r.signal = Browser /\ r.sale = s
      <3>1. r.pc = "read" /\ r.signal = Browser /\ r.sale = s
        BY DEF Idle
      <3> QED BY <3>1, IdleIsTyped DEF PostState, PC
    <2>2. post' = [post EXCEPT ![p] = r] /\ claimed' = claimed
      BY <1>2 DEF Verify
    <2>3. RowsTyped'
      BY <1>2, <1>b DEF Verify, RowsTyped, merchantVars
    <2> HIDE DEF r
    <2>4. PostOK(r, Paid', claimed') /\ r.pc # "coins"
      BY <2>1 DEF PostOK, Effectful
    <2> QED BY <1>c, <2>2, <2>3, <2>4
  <1>3. ASSUME ClaimEvent(p) PROVE RowsTyped' /\ PostsOK' /\ OnePayer'
    <2> DEFINE e == post[p].signal
               r == [post[p] EXCEPT !.pc = IF e \in claimed THEN "respond" ELSE Handler(event[e].kind)]
    <2>1. e \in Events /\ claimed' = claimed \cup {e} /\ post' = [post EXCEPT ![p] = r]
      BY <1>0, <1>3 DEF ClaimEvent, PostOK, Goto
    <2>2. r.pc \in {"respond", "refused", "read"}
      BY <1>0 DEF Handler, PostState
    <2>3. PostOK(r, Paid', claimed') /\ r.pc # "coins"
      BY <1>0, <1>3, <2>1, <2>2 DEF ClaimEvent, PostOK, PostState, PC, Effectful
    <2>4. RowsTyped'
      BY <1>3, <1>b, <2>1 DEF ClaimEvent, RowsTyped, merchantVars
    <2> HIDE DEF r
    <2> QED BY <1>c, <2>1, <2>3, <2>4
  <1>4. ASSUME RecordPaymentFailure(p) PROVE RowsTyped' /\ PostsOK' /\ OnePayer'
    <2>1. RowsTyped'
      BY <1>4, <1>b DEF RecordPaymentFailure, RowsTyped, merchantVars
    <2> QED BY <1>4, <1>c, <2>1, IdleIsOK DEF RecordPaymentFailure
  <1> QED BY <1>1, <1>2, <1>3, <1>4, <1>b

LEMMA ReadStep ==
  ASSUME InboxInv, NEW p \in Posts, ReadStatus(p)
  PROVE  InboxInv'
PROOF
  <1> DEFINE s == post[p].sale
             pc == CASE status[s] \in {"captured", "held"} -> AfterAllow(s)
                     [] status[s] = "executed"             -> "update"
                     [] OTHER                              -> "respond"
             r == [post[p] EXCEPT !.pc = pc]
  <1>1. PostOK(post[p], Paid, claimed) /\ post[p] \in PostState
    BY DEF InboxInv, PostsOK, PostOK
  <1>2. s \in Sales /\ post' = [post EXCEPT ![p] = r]
    BY <1>1 DEF PostOK, ReadStatus, Goto
  <1>3. pc \in {"respond", "update", "rewards"} /\ (pc = "rewards" => s \in Paid)
    BY <1>2 DEF AfterAllow, InboxInv, Settled, Paid
  <1>4. /\ Settled' /\ Shared' /\ OnlyCaptured' /\ Paid' = Paid /\ UNCHANGED <<issues, coins>>
        /\ UNCHANGED <<rows, funded, notices, failures, splits, cut>>
    BY RowsStay DEF ReadStatus, merchantVars, effects, effectRows
  <1>5. PostOK(r, Paid', claimed') /\ r.pc # "coins"
    BY <1>1, <1>2, <1>3, <1>4 DEF PostOK, PostState, PC, Effectful, ReadStatus
  <1>6. RowsTyped'
    BY <1>4 DEF InboxInv, ReadStatus, RowsTyped, merchantVars
  <1> HIDE DEF r
  <1>7. PostsOK' /\ OnePayer'
    BY <1>2, <1>4, <1>5, PostMoves, PayersStay DEF InboxInv, ReadStatus
  <1> QED BY <1>4, <1>6, <1>7 DEF InboxInv

LEMMA ConfirmStep ==
  ASSUME InboxInv, NEW p \in Posts, ConfirmCapture(p)
  PROVE  InboxInv'
PROOF
  <1> DEFINE s == post[p].sale
             r == [post[p] EXCEPT !.pc = AfterAllow(s)]
  <1>1. PostOK(post[p], Paid, claimed) /\ post[p] \in PostState
    BY DEF InboxInv, PostsOK, PostOK
  <1>2. s \in Sales /\ post' = [post EXCEPT ![p] = r]
    BY <1>1 DEF PostOK, ConfirmCapture, Goto
  <1>3. captured \in [Sales -> {0, 1}] /\ status \in [Sales -> {"executed", "captured", "held", "failed"}]
    BY DEF InboxInv, RowsTyped
  <1>4. /\ UNCHANGED <<issues, coins, rows, funded, notices, failures, splits, cut>>
        /\ UNCHANGED <<claimed, answered, holdOnly, event, settings, changes, faults>>
    BY DEF ConfirmCapture, effects, effectRows, merchantVars
  <1>5. \/ UNCHANGED <<status, captured>> /\ status[s] # "executed"
        \/ /\ captured' = captured /\ s \in holdOnly
           /\ status' = [status EXCEPT ![s] = "held"]
        \/ /\ captured[s] = 0 /\ captured' = [captured EXCEPT ![s] = 1] /\ s \notin holdOnly
           /\ status' = [status EXCEPT ![s] = "captured"]
    <2>1. CASE status[s] = "executed"
      <3>1. captured[s] = 0
        BY <1>2, <2>1 DEF InboxInv, Settled
      <3>2. CASE s \in holdOnly
        BY <2>1, <3>2 DEF ConfirmCapture
      <3>3. CASE s \notin holdOnly
        <4>1. captured' = [captured EXCEPT ![s] = captured[s] + 1]
          BY <2>1, <3>3 DEF ConfirmCapture
        <4>2. captured' = [captured EXCEPT ![s] = 1]
          BY <3>1, <4>1
        <4> QED BY <2>1, <3>1, <3>3, <4>2 DEF ConfirmCapture
      <3> QED BY <3>2, <3>3
    <2>2. CASE status[s] # "executed"
      BY <2>2 DEF ConfirmCapture
    <2> QED BY <2>1, <2>2
  <1> HIDE DEF s
  <1>6. captured' \in [Sales -> {0, 1}] /\ status' \in [Sales -> {"executed", "captured", "held", "failed"}]
    BY <1>3, <1>5
  <1>7. Paid \subseteq Paid'
    BY <1>3, <1>5 DEF Paid
  <1>8. s \notin holdOnly => s \in Paid'
    BY <1>2, <1>3, <1>5 DEF Paid, InboxInv, Settled
  <1>9. PostOK(r, Paid', claimed') /\ r.pc # "coins"
    BY <1>1, <1>2, <1>4, <1>8 DEF PostOK, PostState, PC, Effectful, ConfirmCapture, AfterAllow, s
  <1>10. RowsTyped'
    BY <1>4, <1>6 DEF InboxInv, RowsTyped
  <1> HIDE DEF r
  <1>11. PostsOK' /\ OnePayer'
    BY <1>2, <1>4, <1>7, <1>9, PostMoves, PayersStay DEF InboxInv
  <1>12. Settled'
    BY <1>2, <1>3, <1>4, <1>5 DEF InboxInv, Settled
  <1>13. Shared'
    BY <1>4 DEF InboxInv, Shared
  <1>14. OnlyCaptured'
    BY <1>4, <1>7 DEF InboxInv, OnlyCaptured, Paid
  <1> QED BY <1>10, <1>11, <1>12, <1>13, <1>14 DEF InboxInv

\* The two statements of the issuance.  The row goes in first and once, so only the
\* request that inserted it reaches the coins.
LEMMA ReserveStep ==
  ASSUME InboxInv, NEW p \in Posts, ReserveIssue(p)
  PROVE  InboxInv'
PROOF
  <1> DEFINE s == post[p].sale
             pc == IF s \in issues THEN "settings" ELSE "coins"
             r == [post[p] EXCEPT !.pc = pc]
  <1>1. PostOK(post[p], Paid, claimed) /\ post[p] \in PostState /\ post[p].pc = "rewards"
    BY DEF InboxInv, PostsOK, PostOK, ReserveIssue
  <1>2. s \in Sales /\ s \in Paid
    BY <1>1 DEF PostOK, Effectful
  <1>3. /\ post' = [post EXCEPT ![p] = r] /\ issues' = issues \cup {s}
        /\ UNCHANGED <<status, claimed, answered, coins, rows, funded, notices, failures, splits, cut>>
        /\ UNCHANGED <<holdOnly, event, settings, changes, faults, captured>>
    BY DEF ReserveIssue, Goto, IssueTaken, merchantVars
  <1>4. r.pc = pc /\ r.sale = s /\ pc \in {"settings", "coins"}
    BY <1>1 DEF PostState
  <1>5. PostOK(r, Paid, claimed)
    BY <1>1, <1>2, <1>4 DEF PostOK, PostState, PC, Effectful
  <1> HIDE DEF r, pc, s
  <1>6. Paid' = Paid
    BY <1>3 DEF Paid
  <1>7. RowsTyped'
    BY <1>2, <1>3 DEF InboxInv, RowsTyped
  <1>8. PostsOK'
    BY <1>3, <1>5, <1>6, PostMoves DEF InboxInv
  <1>9. Settled' /\ Shared' /\ OnlyCaptured'
    BY <1>3 DEF InboxInv, Settled, Shared, OnlyCaptured
  <1>10. OnePayer'
    <2>1. DOMAIN post = Posts
      BY DEF InboxInv, PostsOK
    <2>2. post'[p] = r /\ \A q \in Posts : q # p => post'[q] = post[q]
      BY <1>3, <2>1
    <2>3. CASE s \in issues
      <3>1. issues' = issues /\ r.pc # "coins"
        BY <1>3, <1>4, <2>3 DEF pc
      <3> QED BY <1>3, <3>1, PayersStay DEF InboxInv
    <2>4. CASE s \notin issues
      <3>1. \A q \in Posts : Payer(q) => post[q].sale # s
        BY <2>4 DEF InboxInv, OnePayer
      <3>2. coins[s] = 0
        BY <1>2, <2>4 DEF InboxInv, OnePayer, RowsTyped
      <3>3. \A q \in Posts : q # p => (Payer(q)' <=> Payer(q))
        BY <2>2 DEF Payer
      <3>4. post'[p].sale = s
        BY <1>4, <2>2
      <3>5. \A t \in Sales : coins'[t] = 1 => t \in issues'
        BY <1>3 DEF InboxInv, OnePayer
      <3>6. ASSUME NEW q \in Posts, Payer(q)' PROVE post'[q].sale \in issues' /\ coins'[post'[q].sale] = 0
        <4>1. CASE q = p
          BY <1>3, <3>2, <3>4, <4>1
        <4>2. CASE q # p
          BY <1>3, <2>2, <3>3, <3>6, <4>2 DEF InboxInv, OnePayer
        <4> QED BY <4>1, <4>2
      <3>7. ASSUME NEW q \in Posts, NEW u \in Posts, Payer(q)', Payer(u)', q # u
            PROVE  post'[q].sale # post'[u].sale
        <4>1. CASE q = p
          <5>1. Payer(u) /\ post'[u].sale = post[u].sale
            BY <2>2, <3>3, <3>7, <4>1
          <5> QED BY <3>1, <3>4, <4>1, <5>1
        <4>2. CASE u = p
          <5>1. Payer(q) /\ post'[q].sale = post[q].sale
            BY <2>2, <3>3, <3>7, <4>2
          <5> QED BY <3>1, <3>4, <4>2, <5>1
        <4>3. CASE q # p /\ u # p
          <5>1. Payer(q) /\ Payer(u) /\ post'[q].sale = post[q].sale /\ post'[u].sale = post[u].sale
            BY <2>2, <3>3, <3>7, <4>3
          <5> QED BY <3>7, <5>1 DEF InboxInv, OnePayer
        <4> QED BY <4>1, <4>2, <4>3
      <3> QED BY <3>5, <3>6, <3>7 DEF OnePayer
    <2> QED BY <2>3, <2>4
  <1> QED BY <1>7, <1>8, <1>9, <1>10 DEF InboxInv

LEMMA CoinsFacts ==
  ASSUME InboxInv, NEW p \in Posts, IssueRewardCoins(p)
  PROVE  \E s \in Sales :
           /\ s = post[p].sale /\ captured[s] = 1 /\ s \in issues /\ coins[s] = 0
           /\ coins' = [coins EXCEPT ![s] = 1]
           /\ UNCHANGED <<status, claimed, answered, issues, rows, funded, notices, failures, splits, cut>>
           /\ UNCHANGED <<holdOnly, event, settings, changes, faults, captured>>
PROOF
  <1>1. PostOK(post[p], Paid, claimed) /\ post[p].pc = "coins"
    BY DEF InboxInv, PostsOK, IssueRewardCoins
  <1>2. PICK s : s = post[p].sale
    OBVIOUS
  <1>3. s \in Sales /\ captured[s] = 1
    BY <1>1, <1>2 DEF PostOK, Effectful, Paid
  <1>4. s \in issues /\ coins[s] = 0
    BY <1>1, <1>2 DEF InboxInv, OnePayer, Payer
  <1>5. coins' = [coins EXCEPT ![s] = coins[s] + 1]
    BY <1>2 DEF IssueRewardCoins
  <1>6. coins' = [coins EXCEPT ![s] = 1]
    BY <1>4, <1>5
  <1>7. /\ UNCHANGED <<status, claimed, answered, issues, rows, funded, notices, failures, splits, cut>>
        /\ UNCHANGED <<holdOnly, event, settings, changes, faults, captured>>
    BY DEF IssueRewardCoins, merchantVars
  <1> QED BY <1>2, <1>3, <1>4, <1>6, <1>7

LEMMA CoinsStep ==
  ASSUME InboxInv, NEW p \in Posts, IssueRewardCoins(p)
  PROVE  InboxInv'
PROOF
  <1> DEFINE r == [post[p] EXCEPT !.pc = "settings"]
  <1>1. PostOK(post[p], Paid, claimed) /\ post[p] \in PostState /\ post[p].pc = "coins"
    BY DEF InboxInv, PostsOK, PostOK, IssueRewardCoins
  <1>2. PICK s \in Sales :
          /\ s = post[p].sale /\ captured[s] = 1 /\ s \in issues /\ coins[s] = 0
          /\ coins' = [coins EXCEPT ![s] = 1]
          /\ UNCHANGED <<status, claimed, answered, issues, rows, funded, notices, failures, splits, cut>>
          /\ UNCHANGED <<holdOnly, event, settings, changes, faults, captured>>
    BY CoinsFacts
  <1>3. post' = [post EXCEPT ![p] = r]
    BY DEF IssueRewardCoins, Goto
  <1>4. PostOK(r, Paid, claimed) /\ r.pc = "settings"
    BY <1>1 DEF PostOK, PostState, PC, Effectful
  <1> HIDE DEF r
  <1>5. Paid' = Paid
    BY <1>2 DEF Paid
  <1>6. coins \in [Sales -> {0, 1}]
    BY DEF InboxInv, RowsTyped
  <1>7. coins' \in [Sales -> {0, 1}] /\ coins'[s] = 1 /\ \A t \in Sales : t # s => coins'[t] = coins[t]
    BY <1>2, <1>6
  <1>8. RowsTyped'
    BY <1>2, <1>7 DEF InboxInv, RowsTyped
  <1>9. PostsOK'
    BY <1>2, <1>3, <1>4, <1>5, PostMoves DEF InboxInv
  <1>10. Settled' /\ Shared'
    BY <1>2 DEF InboxInv, Settled, Shared
  <1>11. OnlyCaptured'
    BY <1>2, <1>7 DEF InboxInv, OnlyCaptured
  <1>12. OnePayer'
    <2>1. DOMAIN post = Posts
      BY DEF InboxInv, PostsOK
    <2>2. \A q \in Posts : Payer(q)' => q # p /\ Payer(q) /\ post'[q] = post[q]
      BY <1>3, <1>4, <2>1 DEF Payer
    <2>3. Payer(p)
      BY <1>1 DEF Payer
    <2>4. \A t \in Sales : coins'[t] = 1 => t \in issues'
      BY <1>2, <1>7 DEF InboxInv, OnePayer
    <2>5. ASSUME NEW q \in Posts, Payer(q)' PROVE post'[q].sale \in issues' /\ coins'[post'[q].sale] = 0
      <3>1. post[q].sale # s
        BY <1>2, <2>2, <2>3, <2>5 DEF InboxInv, OnePayer
      <3>2. post[q].sale \in issues /\ coins[post[q].sale] = 0 /\ issues \subseteq Sales
        BY <2>2, <2>5 DEF InboxInv, OnePayer, RowsTyped
      <3> QED BY <1>2, <1>7, <2>2, <2>5, <3>1, <3>2
    <2> QED BY <2>2, <2>4, <2>5 DEF InboxInv, OnePayer
  <1> QED BY <1>8, <1>9, <1>10, <1>11, <1>12 DEF InboxInv

\* The notice, and the reading before the treasury's rows.
LEMMA NoticeFacts ==
  ASSUME InboxInv, NEW p \in Posts, EnqueueNotice(p)
  PROVE  \E s \in Sales :
           /\ s = post[p].sale /\ captured[s] = 1
           /\ \/ notices[s] = 0 /\ notices' = [notices EXCEPT ![s] = 1]
              \/ notices' = notices
           /\ UNCHANGED <<status, claimed, answered, issues, coins, rows, funded, failures, splits, cut>>
           /\ UNCHANGED <<holdOnly, event, settings, changes, faults, captured>>
PROOF
  <1>1. PostOK(post[p], Paid, claimed) /\ post[p].pc = "notify"
    BY DEF InboxInv, PostsOK, EnqueueNotice
  <1>2. PICK s : s = post[p].sale
    OBVIOUS
  <1>3. s \in Sales /\ captured[s] = 1
    BY <1>1, <1>2 DEF PostOK, Effectful, Paid
  <1>4. notices[s] \in {0, 1}
    BY <1>3 DEF InboxInv, RowsTyped
  <1>5. CASE notices[s] = 0
    <2>1. notices' = [notices EXCEPT ![s] = notices[s] + 1]
      BY <1>2, <1>5 DEF EnqueueNotice, NoticeConflicts
    <2>2. notices' = [notices EXCEPT ![s] = 1]
      BY <1>5, <2>1
    <2> QED BY <1>2, <1>3, <1>5, <2>2 DEF EnqueueNotice, merchantVars
  <1>6. CASE notices[s] = 1
    <2>1. notices' = notices
      BY <1>2, <1>6 DEF EnqueueNotice, NoticeConflicts
    <2> QED BY <1>2, <1>3, <2>1 DEF EnqueueNotice, merchantVars
  <1> QED BY <1>4, <1>5, <1>6

LEMMA NoticeStep ==
  ASSUME InboxInv, NEW p \in Posts, EnqueueNotice(p)
  PROVE  InboxInv'
PROOF
  <1> DEFINE r == [post[p] EXCEPT !.pc = "respond"]
  <1>1. PostOK(post[p], Paid, claimed) /\ post[p] \in PostState /\ post[p].pc = "notify"
    BY DEF InboxInv, PostsOK, PostOK, EnqueueNotice
  <1>2. PICK s \in Sales :
          /\ s = post[p].sale /\ captured[s] = 1
          /\ \/ notices[s] = 0 /\ notices' = [notices EXCEPT ![s] = 1]
             \/ notices' = notices
          /\ UNCHANGED <<status, claimed, answered, issues, coins, rows, funded, failures, splits, cut>>
          /\ UNCHANGED <<holdOnly, event, settings, changes, faults, captured>>
    BY NoticeFacts
  <1>3. post' = [post EXCEPT ![p] = r]
    BY DEF EnqueueNotice, Goto
  <1>4. PostOK(r, Paid, claimed) /\ r.pc # "coins"
    BY <1>1 DEF PostOK, PostState, PC, Effectful
  <1> HIDE DEF r
  <1>5. notices \in [Sales -> {0, 1}]
    BY DEF InboxInv, RowsTyped
  <1>6. notices' \in [Sales -> {0, 1}] /\ \A t \in Sales : t # s => notices'[t] = notices[t]
    BY <1>2, <1>5
  <1>7. RowsTyped'
    BY <1>2, <1>6 DEF InboxInv, RowsTyped
  <1>8. Paid' = Paid
    BY <1>2 DEF Paid
  <1>9. PostsOK' /\ OnePayer'
    BY <1>2, <1>3, <1>4, <1>8, PostMoves, PayersStay DEF InboxInv
  <1>10. Settled' /\ Shared'
    BY <1>2 DEF InboxInv, Settled, Shared
  <1>11. OnlyCaptured'
    BY <1>2, <1>6 DEF InboxInv, OnlyCaptured
  <1> QED BY <1>7, <1>9, <1>10, <1>11 DEF InboxInv

LEMMA SettingsStep ==
  ASSUME InboxInv, NEW p \in Posts, ReadSettings(p)
  PROVE  InboxInv'
PROOF
  <1> DEFINE s == post[p].sale
             pc == IF ~settings.enabled \/ Contribution(Amount[s], settings) = 0 THEN "notify" ELSE "fund"
             r == [post[p] EXCEPT !.split = settings, !.pc = pc, !.bucket = 1]
  <1>1. PostOK(post[p], Paid, claimed) /\ post[p] \in PostState /\ post[p].pc = "settings"
    BY DEF InboxInv, PostsOK, PostOK, ReadSettings
  <1>2. post' = [post EXCEPT ![p] = r]
    BY DEF ReadSettings
  <1>3. pc \in {"notify", "fund"} /\ settings \in Settings
    BY DEF InboxInv, RowsTyped
  <1> HIDE DEF pc
  <1>4. r.pc = pc /\ r.split = settings /\ r.sale = s /\ r.signal = post[p].signal /\ r \in PostState
    <2>1. r.pc = pc /\ r.split = settings /\ r.sale = s /\ r.signal = post[p].signal
      BY <1>1 DEF PostState
    <2>2. pc \in PC /\ settings \in Settings \cup {NoSettings} /\ 1 \in 1..3
      BY <1>3 DEF PC, Effectful
    <2>3. r \in PostState
      BY <1>1, <2>2 DEF PostState
    <2> QED BY <2>1, <2>3
  <1> HIDE DEF r
  <1>5. PostOK(r, Paid, claimed) /\ r.pc # "coins"
    BY <1>1, <1>3, <1>4 DEF PostOK, Effectful
  <1>6. /\ Settled' /\ Shared' /\ OnlyCaptured' /\ Paid' = Paid /\ UNCHANGED <<issues, coins>>
        /\ UNCHANGED <<rows, funded, notices, failures, splits, cut>>
    BY RowsStay DEF ReadSettings, merchantVars, effects, effectRows
  <1>7. PostsOK' /\ OnePayer'
    BY <1>2, <1>5, <1>6, PostMoves, PayersStay DEF InboxInv, ReadSettings
  <1>8. RowsTyped'
    BY <1>6 DEF InboxInv, ReadSettings, RowsTyped, merchantVars
  <1> QED BY <1>6, <1>7, <1>8 DEF InboxInv

\* One statement of fundTreasury: it fills an empty bucket with its share, and
\* leaves a filled one alone.
LEMMA FundFacts ==
  ASSUME InboxInv, NEW p \in Posts, FundTreasury(p)
  PROVE  \E s \in Sales, b \in Buckets, x \in Settings :
           /\ captured[s] = 1
           /\ computeAllocationSplit(Amount[s], x) \in [Buckets -> Nat]
           /\ \/ /\ rows[s][b] = 0
                 /\ rows' = [rows EXCEPT ![s][b] = 1]
                 /\ funded' = [funded EXCEPT ![s][b] = computeAllocationSplit(Amount[s], x)[b]]
                 /\ splits' = [splits EXCEPT ![s] = @ \cup {x}]
              \/ UNCHANGED <<rows, funded, splits>>
PROOF
  <1>1. PostOK(post[p], Paid, claimed) /\ post[p] \in PostState /\ post[p].pc = "fund"
    BY DEF InboxInv, PostsOK, PostOK, FundTreasury
  <1>2. PICK s : s = post[p].sale
    OBVIOUS
  <1>3. PICK x : x = post[p].split
    OBVIOUS
  <1>4. PICK b : b = BucketOrder[post[p].bucket]
    OBVIOUS
  <1>5. s \in Sales /\ captured[s] = 1 /\ x \in Settings
    BY <1>1, <1>2, <1>3 DEF PostOK, Effectful, Paid
  <1>6. b \in Buckets
    <2>1. post[p].bucket \in 1..3
      BY <1>1 DEF PostState
    <2>2. \A i \in 1..3 : BucketOrder[i] \in Buckets
      BY DEF BucketOrder, Buckets
    <2> QED BY <1>4, <2>1, <2>2
  <1>7. computeAllocationSplit(Amount[s], x) \in [Buckets -> Nat]
    BY <1>5, SplitIsWhole, InboxAssumption
  <1>8. PICK paise : paise = computeAllocationSplit(Amount[s], x)[b]
    OBVIOUS
  <1>9. /\ rows \in [Sales -> [Buckets -> {0, 1}]] /\ funded \in [Sales -> [Buckets -> Nat]]
        /\ rows[s][b] = 0 => funded[s][b] = 0
    BY <1>5, <1>6 DEF InboxInv, RowsTyped, Shared
  <1>10. IF paise > 0 /\ ~(rows[s][b] > 0)
         THEN /\ rows' = [rows EXCEPT ![s][b] = @ + 1]
              /\ funded' = [funded EXCEPT ![s][b] = @ + paise]
              /\ splits' = [splits EXCEPT ![s] = @ \cup {x}]
         ELSE UNCHANGED <<rows, funded, splits>>
    BY <1>2, <1>3, <1>4, <1>8 DEF FundTreasury, RowConflicts
  <1>11. CASE paise > 0 /\ ~(rows[s][b] > 0)
    <2>1. rows[s][b] \in {0, 1} /\ paise \in Nat
      BY <1>5, <1>6, <1>7, <1>8, <1>9
    <2>2. rows[s][b] = 0 /\ funded[s][b] = 0
      BY <1>9, <1>11, <2>1
    <2>3. rows' = [rows EXCEPT ![s][b] = rows[s][b] + 1]
      BY <1>10, <1>11
    <2>4. funded' = [funded EXCEPT ![s][b] = funded[s][b] + paise]
      BY <1>10, <1>11
    <2>5. rows' = [rows EXCEPT ![s][b] = 1] /\ funded' = [funded EXCEPT ![s][b] = paise]
      <3>1. rows[s][b] + 1 = 1 /\ funded[s][b] + paise = paise
        BY <2>1, <2>2
      <3> QED BY <2>3, <2>4, <3>1
    <2>6. splits' = [splits EXCEPT ![s] = @ \cup {x}]
      BY <1>10, <1>11
    <2> QED BY <1>5, <1>6, <1>7, <1>8, <2>2, <2>5, <2>6
  <1>12. CASE ~(paise > 0 /\ ~(rows[s][b] > 0))
    <2>1. UNCHANGED <<rows, funded, splits>>
      BY <1>10, <1>12
    <2> QED BY <1>5, <1>6, <1>7, <2>1
  <1> QED BY <1>11, <1>12

\* Filling one bucket keeps every amount a share of one reading.
LEMMA FillsShare ==
  ASSUME InboxInv, NEW s \in Sales, NEW b \in Buckets, NEW x \in Settings, captured[s] = 1,
         computeAllocationSplit(Amount[s], x) \in [Buckets -> Nat],
         rows' = [rows EXCEPT ![s][b] = 1],
         funded' = [funded EXCEPT ![s][b] = computeAllocationSplit(Amount[s], x)[b]],
         splits' = [splits EXCEPT ![s] = @ \cup {x}],
         UNCHANGED <<coins, notices, captured>>
  PROVE  /\ rows' \in [Sales -> [Buckets -> {0, 1}]] /\ funded' \in [Sales -> [Buckets -> Nat]]
         /\ splits' \in [Sales -> SUBSET Settings]
         /\ Shared' /\ OnlyCaptured'
PROOF
  <1> DEFINE share == computeAllocationSplit(Amount[s], x)[b]
  <1>1. /\ rows \in [Sales -> [Buckets -> {0, 1}]] /\ funded \in [Sales -> [Buckets -> Nat]]
        /\ splits \in [Sales -> SUBSET Settings]
    BY DEF InboxInv, RowsTyped
  <1>2. share \in Nat
    OBVIOUS
  <1>3. rows' \in [Sales -> [Buckets -> {0, 1}]] /\ funded' \in [Sales -> [Buckets -> Nat]]
    BY <1>1, <1>2
  <1>4. splits' \in [Sales -> SUBSET Settings] /\ x \in splits'[s] /\ \A t \in Sales : splits[t] \subseteq splits'[t]
    BY <1>1
  <1>5. rows'[s][b] = 1 /\ funded'[s][b] = share
    BY <1>1
  <1>6. \A t \in Sales, c \in Buckets : ~(t = s /\ c = b) => rows'[t][c] = rows[t][c] /\ funded'[t][c] = funded[t][c]
    BY <1>1
  <1>7. ASSUME NEW t \in Sales, NEW c \in Buckets
        PROVE  /\ rows'[t][c] = 0 => funded'[t][c] = 0
               /\ rows'[t][c] = 1 => \E y \in splits'[t] : funded'[t][c] = computeAllocationSplit(Amount[t], y)[c]
    <2>1. CASE t = s /\ c = b
      BY <1>4, <1>5, <2>1
    <2>2. CASE ~(t = s /\ c = b)
      BY <1>4, <1>6, <2>2 DEF InboxInv, Shared
    <2> QED BY <2>1, <2>2
  <1>8. Shared'
    BY <1>7 DEF Shared
  <1>9. OnlyCaptured'
    <2>1. ASSUME NEW t \in Sales, coins'[t] = 1 \/ notices'[t] = 1 \/ (\E c \in Buckets : rows'[t][c] = 1)
          PROVE  captured'[t] = 1
      <3>1. CASE t = s
        BY <3>1
      <3>2. CASE t # s
        BY <1>6, <2>1, <3>2 DEF InboxInv, OnlyCaptured
      <3> QED BY <3>1, <3>2
    <2> QED BY <2>1 DEF OnlyCaptured
  <1> QED BY <1>3, <1>4, <1>8, <1>9

LEMMA FundStep ==
  ASSUME InboxInv, NEW p \in Posts, FundTreasury(p)
  PROVE  InboxInv'
PROOF
  <1> DEFINE pc == IF post[p].bucket = 3 THEN "notify" ELSE "fund"
             bucket == IF post[p].bucket = 3 THEN 1 ELSE post[p].bucket + 1
             split == IF post[p].bucket = 3 THEN NoSettings ELSE post[p].split
             r == [post[p] EXCEPT !.pc = pc, !.bucket = bucket, !.split = split]
  <1>1. PostOK(post[p], Paid, claimed) /\ post[p] \in PostState /\ post[p].pc = "fund"
    BY DEF InboxInv, PostsOK, PostOK, FundTreasury
  <1>2. post' = [post EXCEPT ![p] = r]
    BY DEF FundTreasury
  <1>3. /\ pc \in {"notify", "fund"} /\ bucket \in 1..3 /\ split \in Settings \cup {NoSettings}
        /\ pc = "fund" => split \in Settings
    BY <1>1 DEF PostState, PostOK
  <1> HIDE DEF pc, bucket, split
  <1>4. PostOK(r, Paid, claimed) /\ r.pc # "coins"
    <2>1. r.pc = pc /\ r.split = split /\ r.sale = post[p].sale /\ r.signal = post[p].signal
      BY <1>1 DEF PostState
    <2>2. r \in PostState
      BY <1>1, <1>3 DEF PostState, PC, Effectful
    <2> HIDE DEF r
    <2> QED BY <1>1, <1>3, <2>1, <2>2 DEF PostOK, Effectful
  <1> HIDE DEF r
  <1>5. /\ UNCHANGED <<status, claimed, answered, issues, coins, notices, failures, cut>>
        /\ UNCHANGED <<holdOnly, event, settings, changes, faults, captured>>
    BY DEF FundTreasury, merchantVars
  <1>6. Paid' = Paid
    BY <1>5 DEF Paid
  <1>7. PostsOK' /\ OnePayer'
    BY <1>2, <1>4, <1>5, <1>6, PostMoves, PayersStay DEF InboxInv
  <1>8. Settled'
    BY <1>5 DEF InboxInv, Settled
  <1>9. /\ rows' \in [Sales -> [Buckets -> {0, 1}]] /\ funded' \in [Sales -> [Buckets -> Nat]]
        /\ splits' \in [Sales -> SUBSET Settings]
        /\ Shared' /\ OnlyCaptured'
    <2>1. CASE UNCHANGED <<rows, funded, splits>>
      BY <1>5, <2>1 DEF InboxInv, RowsTyped, Shared, OnlyCaptured
    <2>2. CASE ~UNCHANGED <<rows, funded, splits>>
      BY <1>5, <2>2, FundFacts, FillsShare
    <2> QED BY <2>1, <2>2
  <1>10. RowsTyped'
    BY <1>5, <1>9 DEF InboxInv, RowsTyped
  <1> QED BY <1>7, <1>8, <1>9, <1>10 DEF InboxInv

\* The ends of a request: an effect dropped, an answer, a lost one, a crash.
LEMMA EndSteps ==
  ASSUME InboxInv, NEW p \in Posts, EffectFails(p) \/ Respond(p) \/ AnswerLost(p) \/ Crash(p)
  PROVE  InboxInv'
PROOF
  <1> USE DEF InboxInv
  <1>1. PostOK(post[p], Paid, claimed) /\ post[p] \in PostState
    BY DEF PostsOK, PostOK
  <1>2. /\ UNCHANGED <<status, holdOnly, captured, claimed, event, settings, changes>>
        /\ UNCHANGED effectRows
    BY DEF EffectFails, Respond, AnswerLost, Crash, merchantVars, effects
  <1>3. /\ Settled' /\ Shared' /\ OnlyCaptured' /\ Paid' = Paid /\ UNCHANGED <<issues, coins>>
        /\ UNCHANGED <<rows, funded, notices, failures, splits>>
    BY <1>2, RowsStay DEF effectRows
  <1>4. RowsTyped'
    <2>1. faults' \in 0..MaxFaults
      BY InboxAssumption DEF EffectFails, Respond, AnswerLost, Crash, Faulty, RowsTyped
    <2>2. answered' \subseteq claimed
      <3>1. CASE Respond(p)
        <4>1. post[p].signal \in claimed \cup {Browser}
          BY <1>1, <3>1 DEF PostOK, Respond
        <4> QED BY <3>1, <4>1, InboxAssumption DEF Respond, RowsTyped, Browser
      <3>2. CASE ~Respond(p)
        BY <3>2 DEF EffectFails, AnswerLost, Crash, RowsTyped
      <3> QED BY <3>1, <3>2
    <2>3. cut' \subseteq Sales
      <3>1. CASE CutIfBetweenRows(p)
        <4>1. post[p].pc = "coins" => post[p].sale \in Sales
          BY <1>1 DEF PostOK
        <4> QED BY <3>1, <4>1 DEF CutIfBetweenRows, RowsTyped
      <3>2. CASE ~CutIfBetweenRows(p)
        BY <3>2 DEF EffectFails, Respond, AnswerLost, Crash, effects, RowsTyped
      <3> QED BY <3>1, <3>2
    <2> QED BY <1>2, <1>3, <2>1, <2>2, <2>3 DEF RowsTyped
  <1>5. ASSUME NEW r, post' = [post EXCEPT ![p] = r], PostOK(r, Paid, claimed), r.pc # "coins"
        PROVE  PostsOK' /\ OnePayer'
    BY <1>2, <1>3, <1>5, PostMoves, PayersStay
  <1>6. PostsOK' /\ OnePayer'
    <2>1. CASE Respond(p) \/ AnswerLost(p) \/ Crash(p)
      BY <1>5, <2>1, IdleIsOK DEF Respond, AnswerLost, Crash
    <2>2. CASE post[p].pc \in Effectful /\ Goto(p, "settings")
      <3>1. PostOK([post[p] EXCEPT !.pc = "settings"], Paid, claimed) /\ [post[p] EXCEPT !.pc = "settings"].pc # "coins"
        BY <1>1, <2>2 DEF PostOK, PostState, PC, Effectful
      <3> QED BY <1>5, <2>2, <3>1 DEF Goto
    <2>3. CASE post[p].pc \in Effectful /\ Goto(p, "respond")
      <3>1. PostOK([post[p] EXCEPT !.pc = "respond"], Paid, claimed) /\ [post[p] EXCEPT !.pc = "respond"].pc # "coins"
        BY <1>1, <2>3 DEF PostOK, PostState, PC, Effectful
      <3> QED BY <1>5, <2>3, <3>1 DEF Goto
    <2>4. CASE /\ post[p].pc \in Effectful
               /\ post' = [post EXCEPT ![p].pc = "notify", ![p].split = NoSettings, ![p].bucket = 1]
      <3> DEFINE r == [post[p] EXCEPT !.pc = "notify", !.split = NoSettings, !.bucket = 1]
      <3>1. r.pc = "notify" /\ r.sale = post[p].sale /\ r.signal = post[p].signal
        BY <1>1 DEF PostState
      <3>2. "notify" \in PC /\ NoSettings \in Settings \cup {NoSettings} /\ 1 \in 1..3
        BY DEF PC, Effectful
      <3>3. r \in PostState
        BY <1>1, <3>2 DEF PostState
      <3>4. post' = [post EXCEPT ![p] = r]
        BY <2>4
      <3> HIDE DEF r
      <3>5. PostOK(r, Paid, claimed) /\ r.pc # "coins"
        BY <1>1, <2>4, <3>1, <3>3 DEF PostOK, Effectful
      <3> QED BY <1>5, <3>4, <3>5
    <2> QED BY <2>1, <2>2, <2>3, <2>4 DEF EffectFails, Effectful
  <1> QED BY <1>3, <1>4, <1>6

LEMMA MerchantSteps ==
  ASSUME InboxInv, \/ \E s \in Settings : SetTreasurySettings(s)
                   \/ \E s \in Sales : Refund(s)
  PROVE  InboxInv'
PROOF
  <1> USE DEF InboxInv
  <1>1. ASSUME NEW s \in Settings, SetTreasurySettings(s) PROVE InboxInv'
    <2>1. /\ Settled' /\ Shared' /\ OnlyCaptured' /\ Paid' = Paid /\ UNCHANGED <<issues, coins>>
          /\ UNCHANGED <<rows, funded, notices, failures, splits, cut>>
      BY <1>1, RowsStay DEF SetTreasurySettings, effects, effectRows
    <2>2. PostsOK' /\ OnePayer'
      BY <1>1, <2>1, PostsStay, PayersStay DEF SetTreasurySettings
    <2>3. RowsTyped'
      BY <1>1, <2>1, InboxAssumption DEF SetTreasurySettings, RowsTyped
    <2> QED BY <2>1, <2>2, <2>3
  <1>2. ASSUME NEW s \in Sales, Refund(s) PROVE InboxInv'
    <2>1. /\ status[s] = "captured" /\ status' = [status EXCEPT ![s] = "failed"]
          /\ UNCHANGED <<issues, coins, rows, funded, notices, failures, splits, cut>>
          /\ UNCHANGED <<claimed, answered, post, holdOnly, event, settings, changes, faults, captured>>
      BY <1>2 DEF Refund, effects, effectRows, merchantVars
    <2>2. Paid' = Paid
      BY <2>1 DEF Paid
    <2>3. PostsOK' /\ OnePayer'
      BY <2>1, <2>2, PostsStay, PayersStay
    <2>4. RowsTyped'
      BY <2>1 DEF RowsTyped
    <2>5. Settled'
      BY <2>1 DEF Settled, RowsTyped
    <2>6. Shared' /\ OnlyCaptured'
      BY <2>1 DEF Shared, OnlyCaptured
    <2> QED BY <2>3, <2>4, <2>5, <2>6
  <1> QED BY <1>1, <1>2

LEMMA NextInv == InboxInv /\ [Next]_vars => InboxInv'
PROOF
  <1> SUFFICES ASSUME InboxInv, [Next]_vars PROVE InboxInv'
    OBVIOUS
  <1>1. ASSUME NEW p \in Posts, PostStep(p) PROVE InboxInv'
    BY <1>1, SignalSteps, ReadStep, ConfirmStep, ReserveStep, CoinsStep, NoticeStep, SettingsStep, FundStep,
       EndSteps DEF PostStep
  <1>2. ASSUME NEW p \in Posts, EffectFails(p) \/ AnswerLost(p) \/ Crash(p) PROVE InboxInv'
    BY <1>2, EndSteps
  <1>3. ASSUME NEW p \in Posts, (\E e \in Events : Deliver(p, e)) \/ (\E s \in Sales : Verify(p, s))
        PROVE  InboxInv'
    BY <1>3, SignalSteps
  <1>4. CASE UNCHANGED vars
    <2>1. /\ UNCHANGED <<status, holdOnly, event, claimed, answered, post, settings, changes, faults, captured>>
          /\ UNCHANGED effectRows /\ UNCHANGED cut
      BY <1>4 DEF vars, effects
    <2>2. /\ Settled' /\ Shared' /\ OnlyCaptured' /\ Paid' = Paid /\ UNCHANGED <<issues, coins>>
          /\ UNCHANGED <<rows, funded, notices, failures, splits>>
      BY <2>1, RowsStay DEF effectRows
    <2>3. PostsOK' /\ OnePayer'
      BY <2>1, <2>2, PostsStay, PayersStay DEF InboxInv
    <2>4. RowsTyped'
      BY <2>1, <2>2 DEF InboxInv, RowsTyped
    <2> QED BY <2>2, <2>3, <2>4 DEF InboxInv
  <1> QED BY <1>1, <1>2, <1>3, <1>4, MerchantSteps DEF Next

THEOREM InboxInvariant == Spec => []InboxInv
  BY InitInv, NextInv, PTL DEF Spec

\* Every variable of the inbox keeps its type: an event is answered only when
\* it has been claimed, and no bucket is ever in debt.
THEOREM InboxTyped == Spec => []InboxTypeOK
PROOF
  <1>1. ASSUME InboxInv PROVE InboxTypeOK
    <2>1. RowsTyped
      BY <1>1 DEF InboxInv
    <2>2. coins \in [Sales -> Nat] /\ notices \in [Sales -> Nat] /\ captured \in [Sales -> Nat]
      <3>1. \A f : f \in [Sales -> {0, 1}] => f \in [Sales -> Nat]
        OBVIOUS
      <3> QED BY <2>1, <3>1 DEF RowsTyped
    <2>3. rows \in [Sales -> [Buckets -> Nat]]
      <3>1. \A s \in Sales : rows[s] \in [Buckets -> {0, 1}] /\ rows[s] \in [Buckets -> Nat]
        BY <2>1 DEF RowsTyped
      <3>2. rows = [s \in Sales |-> rows[s]]
        BY <2>1 DEF RowsTyped
      <3> QED BY <3>1, <3>2
    <2> QED BY <2>1, <2>2, <2>3 DEF RowsTyped, InboxTypeOK
  <1> QED BY <1>1, InboxInvariant, PTL

\* However many signals, retries, crashes and changes of the settings there are:
\* rows that come from one reading of the settings never add up to more than
\* that reading's contribution.
THEOREM FundedWithinContribution == Spec => []NeverOverFunded
PROOF
  <1>1. ASSUME InboxInv, NEW s \in Sales, NEW x \in splits[s], splits[s] = {x}
        PROVE  Total(funded[s]) <= Contribution(Amount[s], x)
    <2> DEFINE split == computeAllocationSplit(Amount[s], x)
    <2>1. x \in Settings /\ funded[s] \in [Buckets -> Nat] /\ rows[s] \in [Buckets -> {0, 1}]
      BY <1>1 DEF InboxInv, RowsTyped
    <2>2. split \in [Buckets -> Nat] /\ Total(split) = Contribution(Amount[s], x)
      BY <2>1, SplitIsWhole, InboxAssumption
    <2>3. ASSUME NEW b \in Buckets PROVE funded[s][b] = 0 \/ funded[s][b] = split[b]
      <3>1. rows[s][b] = 0 \/ rows[s][b] = 1
        BY <2>1
      <3> QED BY <1>1, <3>1 DEF InboxInv, Shared
    <2> HIDE DEF split
    <2>4. \A b \in Buckets : funded[s][b] \in Nat /\ split[b] \in Nat /\ funded[s][b] <= split[b]
      BY <2>1, <2>2, <2>3
    <2>5. Total(funded[s]) <= Total(split)
      BY <2>4 DEF Total, Buckets
    <2> QED BY <2>2, <2>5
  <1>2. InboxInv => NeverOverFunded
    BY <1>1 DEF NeverOverFunded
  <1> QED BY <1>2, InboxInvariant, PTL

-----------------------------------------------------------------------------
(* The inbox implements OnceEffects *)

EffectKinds == {"coins", "notice"} \cup Buckets
DoneOf == [s \in Sales |-> RowsOf(s)]

LEMMA RowsOfIs ==
  ASSUME NEW s \in Sales
  PROVE  /\ RowsOf(s) = [k \in EffectKinds |-> RowsOf(s)[k]]
         /\ RowsOf(s)["coins"] = coins[s] /\ RowsOf(s)["notice"] = notices[s]
         /\ \A b \in Buckets : RowsOf(s)[b] = rows[s][b]
  BY DEF RowsOf, EffectKinds, Buckets

\* A step that inserts the first row of one effect, and a step that inserts none.
LEMMA FirstRow ==
  ASSUME NEW s \in Sales, captured[s] = 1, NEW k \in EffectKinds, RowsOf(s)[k] = 0,
         RowsOf(s)' = [RowsOf(s) EXCEPT ![k] = 1], captured' = captured,
         \A t \in Sales : t # s => RowsOf(t)' = RowsOf(t)
  PROVE  Once!Next
PROOF
  <1>1. DoneOf' = [DoneOf EXCEPT ![s][k] = 1]
    <2>1. ASSUME NEW t \in Sales PROVE DoneOf'[t] = [DoneOf EXCEPT ![s][k] = 1][t]
      <3>1. CASE t = s
        BY <3>1 DEF DoneOf
      <3>2. CASE t # s
        BY <3>2 DEF DoneOf
      <3> QED BY <3>1, <3>2
    <2>2. DoneOf' = [t \in Sales |-> DoneOf'[t]]
      BY DEF DoneOf
    <2>3. [DoneOf EXCEPT ![s][k] = 1] = [t \in Sales |-> [DoneOf EXCEPT ![s][k] = 1][t]]
      BY DEF DoneOf
    <2> QED BY <2>1, <2>2, <2>3
  <1>2. DoneOf[s][k] = 0
    BY DEF DoneOf
  <1>3. Once!Effect(s, k)
    BY <1>1, <1>2 DEF Once!Effect, DoneOf
  <1> QED BY <1>3 DEF Once!Next, EffectKinds

LEMMA NoMoreRows ==
  ASSUME UNCHANGED <<coins, notices, rows>>
  PROVE  DoneOf' = DoneOf
  BY DEF DoneOf, RowsOf

\* The three inserts, each the first of its row.
LEMMA CoinsRefine ==
  ASSUME InboxInv, NEW p \in Posts, IssueRewardCoins(p)
  PROVE  Once!Next
PROOF
  <1>1. PICK s \in Sales :
          /\ captured[s] = 1 /\ coins[s] = 0 /\ coins' = [coins EXCEPT ![s] = 1]
          /\ UNCHANGED <<notices, rows, captured>>
    BY CoinsFacts
  <1>2. coins \in [Sales -> {0, 1}]
    BY DEF InboxInv, RowsTyped
  <1>3. coins'[s] = 1 /\ \A t \in Sales : t # s => coins'[t] = coins[t]
    BY <1>1, <1>2
  <1>4. \A t \in Sales : t # s => RowsOf(t)' = RowsOf(t)
    BY <1>1, <1>3 DEF RowsOf
  <1>5. RowsOf(s)' = [RowsOf(s) EXCEPT !["coins"] = 1]
    BY <1>1, <1>3 DEF RowsOf, Buckets
  <1>6. "coins" \in EffectKinds /\ RowsOf(s)["coins"] = 0
    BY <1>1, RowsOfIs DEF EffectKinds
  <1> QED BY <1>1, <1>4, <1>5, <1>6, FirstRow

LEMMA NoticeRefines ==
  ASSUME InboxInv, NEW p \in Posts, EnqueueNotice(p)
  PROVE  Once!Next \/ UNCHANGED <<captured, DoneOf>>
PROOF
  <1>1. PICK s \in Sales :
          /\ captured[s] = 1
          /\ (notices[s] = 0 /\ notices' = [notices EXCEPT ![s] = 1]) \/ notices' = notices
          /\ UNCHANGED <<coins, rows, captured>>
    BY NoticeFacts
  <1>2. CASE notices' = notices
    BY <1>1, <1>2, NoMoreRows
  <1>3. CASE notices[s] = 0 /\ notices' = [notices EXCEPT ![s] = 1]
    <2>1. notices \in [Sales -> {0, 1}]
      BY DEF InboxInv, RowsTyped
    <2>2. notices'[s] = 1 /\ \A t \in Sales : t # s => notices'[t] = notices[t]
      BY <1>3, <2>1
    <2>3. \A t \in Sales : t # s => RowsOf(t)' = RowsOf(t)
      BY <1>1, <2>2 DEF RowsOf
    <2>4. RowsOf(s)' = [RowsOf(s) EXCEPT !["notice"] = 1]
      BY <1>1, <2>2 DEF RowsOf, Buckets
    <2>5. "notice" \in EffectKinds /\ RowsOf(s)["notice"] = 0
      BY <1>3, RowsOfIs DEF EffectKinds
    <2> QED BY <1>1, <2>3, <2>4, <2>5, FirstRow
  <1> QED BY <1>1, <1>2, <1>3

LEMMA FundRefines ==
  ASSUME InboxInv, NEW p \in Posts, FundTreasury(p)
  PROVE  Once!Next \/ UNCHANGED <<captured, DoneOf>>
PROOF
  <1>1. UNCHANGED <<coins, notices, captured>>
    BY DEF FundTreasury
  <1>2. CASE rows' = rows
    BY <1>1, <1>2, NoMoreRows
  <1>3. CASE rows' # rows
    <2>1. PICK s \in Sales, b \in Buckets :
            captured[s] = 1 /\ rows[s][b] = 0 /\ rows' = [rows EXCEPT ![s][b] = 1]
      BY <1>3, FundFacts
    <2>2. rows \in [Sales -> [Buckets -> {0, 1}]]
      BY DEF InboxInv, RowsTyped
    <2>3. /\ rows'[s][b] = 1 /\ \A c \in Buckets : c # b => rows'[s][c] = rows[s][c]
          /\ \A t \in Sales : t # s => rows'[t] = rows[t]
      BY <2>1, <2>2
    <2>4. \A t \in Sales : t # s => RowsOf(t)' = RowsOf(t)
      BY <1>1, <2>3 DEF RowsOf
    <2>5. b \in EffectKinds /\ b # "coins" /\ b # "notice"
      BY DEF EffectKinds, Buckets
    <2>6. RowsOf(s)' = [RowsOf(s) EXCEPT ![b] = 1]
      <3>1. \A k \in EffectKinds : k # b => RowsOf(s)'[k] = RowsOf(s)[k]
        BY <1>1, <2>3 DEF RowsOf, EffectKinds
      <3>2. RowsOf(s)'[b] = 1
        BY <2>3, <2>5 DEF RowsOf, EffectKinds
      <3>3. RowsOf(s)' = [k \in EffectKinds |-> RowsOf(s)'[k]] /\ RowsOf(s) = [k \in EffectKinds |-> RowsOf(s)[k]]
        BY DEF RowsOf, EffectKinds
      <3> QED BY <2>5, <3>1, <3>2, <3>3
    <2>7. RowsOf(s)[b] = 0
      BY <2>1, RowsOfIs
    <2> QED BY <1>1, <2>1, <2>4, <2>5, <2>6, <2>7, FirstRow
  <1> QED BY <1>2, <1>3

LEMMA ConfirmRefines ==
  ASSUME InboxInv, NEW p \in Posts, ConfirmCapture(p)
  PROVE  Once!Next \/ UNCHANGED <<captured, DoneOf>>
PROOF
  <1>1. PICK s : s = post[p].sale
    OBVIOUS
  <1>2. s \in Sales
    BY <1>1 DEF InboxInv, PostsOK, PostOK, ConfirmCapture
  <1>3. DoneOf' = DoneOf
    BY NoMoreRows DEF ConfirmCapture, effects, effectRows
  <1>4. CASE captured' = captured
    BY <1>3, <1>4
  <1>5. CASE captured' # captured
    <2>1. status[s] = "executed" /\ captured' = [captured EXCEPT ![s] = captured[s] + 1]
      BY <1>1, <1>5 DEF ConfirmCapture
    <2>2. captured[s] = 0
      BY <1>2, <2>1 DEF InboxInv, Settled
    <2>3. captured' = [captured EXCEPT ![s] = 1]
      BY <2>1, <2>2
    <2>4. Once!Settle(s)
      BY <1>3, <2>2, <2>3 DEF Once!Settle, DoneOf
    <2> QED BY <1>2, <2>4 DEF Once!Next
  <1> QED BY <1>4, <1>5

LEMMA StepRefines ==
  ASSUME InboxInv, [Next]_vars
  PROVE  Once!Next \/ UNCHANGED <<captured, DoneOf>>
PROOF
  <1>1. ASSUME NEW p \in Posts,
               \/ ClaimEvent(p) \/ RecordPaymentFailure(p) \/ ReadStatus(p) \/ ReserveIssue(p) \/ ReadSettings(p)
               \/ Respond(p) \/ EffectFails(p) \/ AnswerLost(p) \/ Crash(p)
               \/ \E e \in Events : Deliver(p, e)
               \/ \E s \in Sales : Verify(p, s)
        PROVE  UNCHANGED <<captured, DoneOf>>
    <2>1. UNCHANGED <<coins, notices, rows, captured>>
      BY <1>1 DEF ClaimEvent, RecordPaymentFailure, ReadStatus, ReserveIssue, ReadSettings, Respond, EffectFails,
                  AnswerLost, Crash, Deliver, Verify, effects, effectRows
    <2> QED BY <2>1, NoMoreRows
  <1>2. ASSUME (\E s \in Settings : SetTreasurySettings(s)) \/ (\E s \in Sales : Refund(s)) \/ UNCHANGED vars
        PROVE  UNCHANGED <<captured, DoneOf>>
    BY <1>2, NoMoreRows DEF SetTreasurySettings, Refund, vars, effects, effectRows
  <1> QED BY <1>1, <1>2, ConfirmRefines, CoinsRefine, NoticeRefines, FundRefines DEF Next, PostStep

\* Two signals, their retries and any crash amount to this: a sale is captured
\* once, and the row of each effect is inserted at most once, after the capture
\* and never for a hold.
THEOREM InboxRefinesOnce == Spec => EffectsHappenOnce
PROOF
  <1>1. ASSUME Init PROVE Once!Init
    <2>1. captured = [s \in Sales |-> 0]
      BY <1>1 DEF Init, None
    <2>2. \A s \in Sales : RowsOf(s) = [k \in EffectKinds |-> 0]
      BY <1>1 DEF Init, None, NoRows, RowsOf, EffectKinds
    <2> QED BY <2>1, <2>2 DEF Once!Init, EffectKinds
  <1>2. InboxInv /\ [Next]_vars => [Once!Next]_<<captured, [s \in Sales |-> RowsOf(s)]>>
    BY StepRefines DEF DoneOf
  <1> QED BY <1>1, <1>2, InboxInvariant, PTL DEF Spec, EffectsHappenOnce, Once!Spec
=============================================================================
