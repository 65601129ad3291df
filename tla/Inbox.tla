-------------------------------- MODULE Inbox --------------------------------
(***************************************************************************)
(* How the program learns that a buyer has paid: the browser's call of     *)
(* /api/checkout/verify and Razorpay's webhook, which claims each event id *)
(* before it works on it.  Both confirm the capture and then, one after    *)
(* the other and each in its own try block, issue reward coins, fund the   *)
(* treasury and queue the notice to the merchant's server.                 *)
(***************************************************************************)
EXTENDS Treasury, FiniteSets

CONSTANTS
  Sales,        \* executed orders
  Amount,       \* [Sales -> Nat], in paise
  Events,       \* ids of the events Razorpay sends
  EventMixes,   \* what they may be about: functions [Events -> [kind, sale]]
  Posts,        \* HTTP requests under way at once
  InitSettings, \* treasury settings, one of
  Settings,     \* those the merchant may choose from
  MaxChanges,   \* bound: how often the merchant does
  MaxFaults,    \* bound: crashes, failed statements and lost answers
  Ops

ASSUME InboxAssumption ==
  /\ Amount \in [Sales -> Nat] /\ "browser" \notin Events
  /\ EventMixes \subseteq [Events -> [kind : {"payment.captured", "order.paid", "payment.failed"}, sale : Sales]]
  /\ InitSettings \in Settings /\ \A s \in Settings : ValidSettings(s)
  /\ MaxChanges \in Nat /\ MaxFaults \in Nat

VARIABLES
  status,     \* money_actions.status
  holdOnly,   \* sales that only authorise the payment
  event,      \* kind and sale of each event
  claimed,    \* webhook_events: the ids claimed
  answered,   \* events whose 200 has reached Razorpay
  post,       \* each request under way
  issues,     \* money_actions: sales with a row under the key reward_issue:<id>
  coins,      \* reward_coin_ledger: how many rows each sale has
  rows,       \* treasury_ledger: how many rows per sale and bucket,
  funded,     \* and their paise
  notices,    \* webhook_deliveries: how many "order.paid" rows each sale has
  failures,   \* sales with a row in payment_failures
  settings,   \* treasury_settings
  changes, faults,
  captured,   \* history: how often each sale's row became captured
  splits,     \* history: the settings that funded each sale
  cut         \* history: sales whose issuance ended between its two rows

effectRows == <<issues, coins, rows, funded, notices, failures, splits>>
effects == <<effectRows, cut>>
vars == <<status, holdOnly, event, claimed, answered, post, effects, settings, changes, faults, captured>>
merchantVars == <<holdOnly, event, settings, changes>>

Browser == "browser"
NoSettings == [enabled |-> FALSE]
BucketOrder == <<"buyer_credits", "merchant_ai_budget", "reserve">>
Idle == [pc |-> "idle", signal |-> Browser, sale |-> "none", split |-> NoSettings, bucket |-> 1]
NoRows == [b \in Buckets |-> 0]
None == [s \in Sales |-> 0]

Init ==
  /\ status = [s \in Sales |-> "executed"]
  /\ holdOnly \in SUBSET Sales /\ event \in EventMixes
  /\ claimed = {} /\ answered = {}
  /\ post = [p \in Posts |-> Idle]
  /\ issues = {} /\ coins = None /\ notices = None /\ failures = {}
  /\ rows = [s \in Sales |-> NoRows] /\ funded = [s \in Sales |-> NoRows]
  /\ settings = InitSettings
  /\ changes = 0 /\ faults = 0
  /\ captured = None /\ cut = {}
  /\ splits = [s \in Sales |-> {}]

Goto(p, pc) == post' = [post EXCEPT ![p].pc = pc]

\* One more statement fails, one more answer gets lost.
Faulty == faults < MaxFaults /\ faults' = faults + 1

-----------------------------------------------------------------------------
(* The two signals *)

\* Razorpay sends an event until it has been answered.
Deliver(p, e) ==
  /\ post[p].pc = "idle"
  /\ e \notin answered
  /\ post' = [post EXCEPT ![p] = [Idle EXCEPT !.pc = "claim", !.signal = e, !.sale = event[e].sale]]
  /\ UNCHANGED <<status, claimed, answered, effects, merchantVars, faults, captured>>

\* The browser calls when Checkout reports success; the signature proves it.
Verify(p, s) ==
  /\ post[p].pc = "idle"
  /\ "browser" \in Ops
  /\ post' = [post EXCEPT ![p] = [Idle EXCEPT !.pc = "read", !.sale = s]]
  /\ UNCHANGED <<status, claimed, answered, effects, merchantVars, faults, captured>>

Handler(kind) == IF kind = "payment.failed" THEN "refused" ELSE "read"

\* The unique index lets one request have the event; the others acknowledge it.
ClaimEvent(p) ==
  LET e == post[p].signal IN
  /\ post[p].pc = "claim"
  /\ claimed' = claimed \cup {e}
  /\ Goto(p, IF e \in claimed THEN "respond" ELSE Handler(event[e].kind))
  /\ UNCHANGED <<status, answered, effects, merchantVars, faults, captured>>

\* recordPaymentFailure names the columns of a partial index without its
\* predicate: the database has no arbiter for the conflict and refuses the
\* statement, so the handler throws and answers 500.
RecordPaymentFailure(p) ==
  /\ post[p].pc = "refused"
  /\ post' = [post EXCEPT ![p] = Idle]
  /\ UNCHANGED <<status, claimed, answered, effects, merchantVars, faults, captured>>

-----------------------------------------------------------------------------
(* confirmCapture *)

AfterAllow(s) == IF s \in holdOnly THEN "respond" ELSE "rewards"

ReadStatus(p) ==
  LET s == post[p].sale IN
  /\ post[p].pc = "read"
  /\ Goto(p, CASE status[s] \in {"captured", "held"} -> AfterAllow(s)
               [] status[s] = "executed"             -> "update"
               [] OTHER                              -> "respond")
  /\ UNCHANGED <<status, claimed, answered, effects, merchantVars, faults, captured>>

\* Losing the race for the row counts as success.
ConfirmCapture(p) ==
  LET s == post[p].sale IN
  /\ post[p].pc = "update"
  /\ IF status[s] = "executed"
     THEN /\ status' = [status EXCEPT ![s] = IF s \in holdOnly THEN "held" ELSE "captured"]
          /\ captured' = IF s \in holdOnly THEN captured ELSE [captured EXCEPT ![s] = @ + 1]
     ELSE UNCHANGED <<status, captured>>
  /\ Goto(p, AfterAllow(s))
  /\ UNCHANGED <<claimed, answered, effects, merchantVars, faults>>

-----------------------------------------------------------------------------
(* The effects of a capture, each in a try block of its own *)

\* Faulty variants: the issuance passes no key; who finds the notice queued takes
\* the coins to be issued.
IssueNeverTaken(s) == FALSE
TakenOnceNotified(s) == s \in issues \/ notices[s] > 0

\* The unique index on the key reward_issue:<id>: whoever finds the row replays it.
IssueTaken(s) == s \in issues

\* The gate inserts the issuance's row, unless another signal has.
ReserveIssue(p) ==
  LET s == post[p].sale IN
  /\ post[p].pc = "rewards"
  /\ issues' = issues \cup {s}
  /\ Goto(p, IF IssueTaken(s) THEN "settings" ELSE "coins")
  /\ UNCHANGED <<status, claimed, answered, coins, rows, funded, notices, failures, splits, cut,
                 merchantVars, faults, captured>>

\* Then, in a statement of its own that nothing guards, the coins.
IssueRewardCoins(p) ==
  LET s == post[p].sale IN
  /\ post[p].pc = "coins"
  /\ coins' = [coins EXCEPT ![s] = @ + 1]
  /\ Goto(p, "settings")
  /\ UNCHANGED <<status, claimed, answered, issues, rows, funded, notices, failures, splits, cut,
                 merchantVars, faults, captured>>

ReadSettings(p) ==
  /\ post[p].pc = "settings"
  /\ post' = [post EXCEPT ![p].split = settings,
       ![p].pc = IF ~settings.enabled \/ Contribution(Amount[post[p].sale], settings) = 0
                 THEN "notify" ELSE "fund",
       ![p].bucket = 1]
  /\ UNCHANGED <<status, claimed, answered, effects, merchantVars, faults, captured>>

\* Faulty variant: the rows are inserted without their unique index.
RowNeverConflicts(s, b) == FALSE

\* The unique index on bucket and sale, which onConflictDoNothing heeds.
RowConflicts(s, b) == rows[s][b] > 0

\* One bucket's insert; an empty share gets no row.
FundTreasury(p) ==
  LET s == post[p].sale
      b == BucketOrder[post[p].bucket]
      paise == computeAllocationSplit(Amount[s], post[p].split)[b]
  IN
  /\ post[p].pc = "fund"
  /\ IF paise > 0 /\ ~RowConflicts(s, b)
     THEN /\ rows' = [rows EXCEPT ![s][b] = @ + 1]
          /\ funded' = [funded EXCEPT ![s][b] = @ + paise]
          /\ splits' = [splits EXCEPT ![s] = @ \cup {post[p].split}]
     ELSE UNCHANGED <<rows, funded, splits>>
  /\ post' = [post EXCEPT ![p].pc = IF post[p].bucket = 3 THEN "notify" ELSE "fund",
                          ![p].bucket = IF @ = 3 THEN 1 ELSE @ + 1,
                          ![p].split = IF post[p].bucket = 3 THEN NoSettings ELSE @]
  /\ UNCHANGED <<status, claimed, answered, issues, coins, notices, failures, cut, merchantVars, faults, captured>>

\* The unique index on server, event type and sale, heeded likewise.
NoticeConflicts(s) == notices[s] > 0

EnqueueNotice(p) ==
  LET s == post[p].sale IN
  /\ post[p].pc = "notify"
  /\ notices' = IF NoticeConflicts(s) THEN notices ELSE [notices EXCEPT ![s] = @ + 1]
  /\ Goto(p, "respond")
  /\ UNCHANGED <<status, claimed, answered, issues, coins, rows, funded, failures, splits, cut,
                 merchantVars, faults, captured>>

\* The row of an issuance stays, so no other signal makes up for its coins.
CutIfBetweenRows(p) == cut' = IF post[p].pc = "coins" THEN cut \cup {post[p].sale} ELSE cut

\* A statement of an effect throws, or the gate denies or escalates the coins:
\* the rest of that effect is dropped, the failure is logged and swallowed.
EffectFails(p) ==
  /\ "throw" \in Ops /\ Faulty
  /\ \/ post[p].pc \in {"rewards", "coins"} /\ Goto(p, "settings")
     \/ post[p].pc \in {"settings", "fund"} /\ post' = [post EXCEPT ![p].pc = "notify", ![p].split = NoSettings,
                                                                  ![p].bucket = 1]
     \/ post[p].pc = "notify"               /\ Goto(p, "respond")
  /\ CutIfBetweenRows(p)
  /\ UNCHANGED <<status, claimed, answered, effectRows, merchantVars, captured>>

-----------------------------------------------------------------------------
(* Answers and faults *)

Respond(p) ==
  /\ post[p].pc = "respond"
  /\ answered' = answered \cup ({post[p].signal} \cap Events)
  /\ post' = [post EXCEPT ![p] = Idle]
  /\ UNCHANGED <<status, claimed, effects, merchantVars, faults, captured>>

AnswerLost(p) ==
  /\ "lost_answer" \in Ops /\ Faulty
  /\ post[p].pc = "respond"
  /\ post' = [post EXCEPT ![p] = Idle]
  /\ UNCHANGED <<status, claimed, answered, effects, merchantVars, captured>>

\* The process dies, or a statement outside the try blocks throws.
Crash(p) ==
  /\ "crash" \in Ops /\ Faulty
  /\ post[p].pc # "idle"
  /\ post' = [post EXCEPT ![p] = Idle]
  /\ CutIfBetweenRows(p)
  /\ UNCHANGED <<status, claimed, answered, effectRows, merchantVars, captured>>

-----------------------------------------------------------------------------
(* The merchant *)

SetTreasurySettings(s) ==
  /\ changes < MaxChanges /\ s # settings
  /\ settings' = s
  /\ changes' = changes + 1
  /\ UNCHANGED <<status, holdOnly, event, claimed, answered, post, effects, faults, captured>>

\* Settlement's issueRefund returns all of a captured sale.
Refund(s) ==
  /\ "refund" \in Ops
  /\ status[s] = "captured"
  /\ status' = [status EXCEPT ![s] = "failed"]
  /\ UNCHANGED <<claimed, answered, post, effects, merchantVars, faults, captured>>

-----------------------------------------------------------------------------
PostStep(p) ==
  \/ ClaimEvent(p) \/ RecordPaymentFailure(p)
  \/ ReadStatus(p) \/ ConfirmCapture(p)
  \/ ReserveIssue(p) \/ IssueRewardCoins(p) \/ ReadSettings(p) \/ FundTreasury(p) \/ EnqueueNotice(p)
  \/ Respond(p)

Next ==
  \/ \E p \in Posts : \/ PostStep(p) \/ EffectFails(p) \/ AnswerLost(p) \/ Crash(p)
                      \/ \E e \in Events : Deliver(p, e)
                      \/ \E s \in Sales : Verify(p, s)
  \/ \E s \in Settings : SetTreasurySettings(s)
  \/ \E s \in Sales : Refund(s)

\* Requests run; Razorpay redelivers what has not been answered.
Fairness ==
  /\ \A p \in Posts : WF_vars(PostStep(p))
  /\ \A e \in Events : SF_vars(\E p \in Posts : Deliver(p, e))

Spec == Init /\ [][Next]_vars /\ Fairness

-----------------------------------------------------------------------------
InboxTypeOK ==
  /\ status \in [Sales -> {"executed", "captured", "held", "failed"}]
  /\ claimed \subseteq Events /\ answered \subseteq claimed
  /\ issues \cup failures \cup cut \subseteq Sales
  /\ coins \in [Sales -> Nat] /\ notices \in [Sales -> Nat] /\ captured \in [Sales -> Nat]
  /\ rows \in [Sales -> [Buckets -> Nat]] /\ funded \in [Sales -> [Buckets -> Nat]]
  /\ settings \in Settings /\ changes \in 0..MaxChanges /\ faults \in 0..MaxFaults

\* A sale whose treasury rows all come from one reading of the settings was
\* never given more than its contribution, however many signals, retries and
\* crashes funded it.
NeverOverFunded ==
  \A s \in Sales : \A x \in splits[s] :
    splits[s] = {x} => Total(funded[s]) <= Contribution(Amount[s], x)

\* A payment that Razorpay reported as refused, and was told is dealt with, is
\* in the recovery queue.
RefusedPaymentIsQueued ==
  \A e \in answered : event[e].kind = "payment.failed" => event[e].sale \in failures

\* A sale that was paid for is reported under both names; they back each other up.
PaidTwice(s) ==
  \A k \in {"payment.captured", "order.paid"} : \E e \in Events : event[e] = [kind |-> k, sale |-> s]

\* A captured sale that was reported twice gets all its effects, whatever one crash,
\* failed statement or lost answer hits, unless it is refunded first: its notice,
\* its share for each bucket, and its coins.  The coins alone have one statement
\* that the second signal does not make up for, the one right after the
\* issuance's row: whoever finds that row replays it and issues nothing.
Complete(s) ==
  /\ notices[s] = 1
  /\ settings.enabled => Total(funded[s]) = Contribution(Amount[s], settings)
  /\ coins[s] = 1 \/ s \in cut

CaptureIsCompleted ==
  \A s \in Sales :
    status[s] = "captured" /\ changes = 0 /\ PaidTwice(s)
      ~> Complete(s) \/ status[s] = "failed" \/ changes > 0

\* The program captures a sale once and inserts each effect's row at most once,
\* only after the capture and never for a hold: between the two signals stand the
\* WHERE of the capture, the issuance's key and two unique indexes.
RowsOf(s) ==
  [k \in {"coins", "notice"} \cup Buckets |->
     CASE k = "coins" -> coins[s] [] k = "notice" -> notices[s] [] OTHER -> rows[s][k]]

Once == INSTANCE OnceEffects WITH
  Kinds <- {"coins", "notice"} \cup Buckets, settled <- captured, done <- [s \in Sales |-> RowsOf(s)]

EffectsHappenOnce == Once!Spec
=============================================================================
