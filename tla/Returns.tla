------------------------------- MODULE Returns -------------------------------
(***************************************************************************)
(* The returns desk (src/lib/returns-desk.ts, returns-desk-decision.ts): a *)
(* buyer asks for a return of one purchase, a model talks to them and may  *)
(* decline, the merchant approves or rejects, the sweep expires what was   *)
(* not decided. Approving reads the request, refunds, and then writes the  *)
(* decision by id; only the sweep claims a row conditionally. The refund   *)
(* itself is issueRefund, modelled in full in Settlement: here only what   *)
(* it does to the payment and to the purchase's status.                    *)
(***************************************************************************)
EXTENDS Naturals, FiniteSets

CONSTANTS
  Returnable,     \* return_requests rows, all for one purchase
  Buyers,         \* openReturnRequest calls under way at one time
  Deciders,       \* dashboard requests and desk turns under way at one time
  ReturnSweeps,   \* sweeps under way at one time
  Paid,           \* what the purchase cost
  MaxReturnFaults \* bound: how often a process dies or a reply is lost

ASSUME ReturnsAssumption ==
  Paid \in Nat \ {0} /\ MaxReturnFaults \in Nat /\ "none" \notin Returnable

NoRequest == [status |-> "none", approved |-> 0]
Pending == [NoRequest EXCEPT !.status = "awaiting_merchant"]
DecidedAs(status, amount) == [status |-> status, approved |-> amount]
NoTask == [pc |-> "idle", q |-> "none", amount |-> 0]
NoOpening == [pc |-> "idle", seen |-> {}]

VARIABLES
  purchase,      \* money_actions.status: "captured" or "failed"; "held" refunds alike
  givenBack,     \* what Razorpay has refunded
  request,       \* the table
  opener,        \* [Buyers -> [pc, seen]]; seen: history, refunded when it checked
  decider,       \* [Deciders -> [pc, q, amount]]
  sweep,         \* [ReturnSweeps -> the request each is about to expire]
  returnFaults,
  refundedFor,   \* history: what was refunded for each request
  disturbed      \* history: requests two deciders had in hand at once, or swept while
                 \* in hand, or whose approval died, or opened on outdated checks

returnsVars == <<purchase, givenBack, request, opener, decider, sweep, returnFaults,
                 refundedFor, disturbed>>

ReturnsInit ==
  /\ purchase = "captured" /\ givenBack = 0
  /\ request = [q \in Returnable |-> NoRequest]
  /\ opener = [b \in Buyers |-> NoOpening]
  /\ decider = [d \in Deciders |-> NoTask]
  /\ sweep = [w \in ReturnSweeps |-> "none"]
  /\ returnFaults = 0
  /\ refundedFor = [q \in Returnable |-> 0]
  /\ disturbed = {}

With(status) == {q \in Returnable : request[q].status = status}
Awaiting == With("awaiting_merchant")
InHands == {decider[d].q : d \in Deciders}
Disturb(q) == disturbed' = disturbed \cup {q}
Take(q) == IF q \in InHands THEN Disturb(q) ELSE UNCHANGED disturbed
FaultyReturn == returnFaults < MaxReturnFaults /\ returnFaults' = returnFaults + 1

-----------------------------------------------------------------------------
(* checkReturnEligibility and openReturnRequest *)

\* Faulty variant: earlier refunds through the desk are not looked at.
ReturnEligibleRefunded == purchase = "captured" /\ Awaiting = {}

\* A full refund shows in the purchase, a partial one only in the request it was
\* made for. One step for three reads: what comes between them may as well come
\* between the last of them and the insert.
ReturnEligible == purchase = "captured" /\ With("refunded") = {} /\ Awaiting = {}

CheckEligibility(b) ==
  /\ opener[b].pc = "idle" /\ ReturnEligible
  /\ opener' = [opener EXCEPT ![b] = [pc |-> "insert", seen |-> With("refunded")]]
  /\ UNCHANGED <<purchase, givenBack, request, decider, sweep, returnFaults, refundedFor, disturbed>>

InsertRequest(b, q) ==
  /\ opener[b].pc = "insert" /\ request[q] = NoRequest /\ Awaiting = {}
  /\ request' = [request EXCEPT ![q] = Pending]
  /\ opener' = [opener EXCEPT ![b] = NoOpening]
  /\ IF With("refunded") # opener[b].seen THEN Disturb(q) ELSE UNCHANGED disturbed
  /\ UNCHANGED <<purchase, givenBack, decider, sweep, returnFaults, refundedFor>>

\* The partial unique index refuses a second open request: the insert throws.
InsertRefused(b) ==
  /\ opener[b].pc = "insert" /\ Awaiting # {}
  /\ opener' = [opener EXCEPT ![b] = NoOpening]
  /\ UNCHANGED <<purchase, givenBack, request, decider, sweep, returnFaults, refundedFor, disturbed>>

-----------------------------------------------------------------------------
(* handleReturnDeskTurn, approveReturnRequest, rejectReturnRequest, issueRefund *)

Decidable == Awaiting

\* The merchant may give back less than the whole.
ReadToDecide(d, q, pc, amount) ==
  /\ decider[d].pc = "idle" /\ q \in Decidable
  /\ decider' = [decider EXCEPT ![d] = [pc |-> pc, q |-> q, amount |-> amount]]
  /\ Take(q)
  /\ UNCHANGED <<purchase, givenBack, request, opener, sweep, returnFaults, refundedFor>>

ReadToApprove(d, q, amount) == ReadToDecide(d, q, "check", amount)

\* A rejection and a turn of the desk read the same thing and wait: the one for
\* nothing, the other for the model.
ReadToAnswer(d, q) == ReadToDecide(d, q, "answer", 0)

\* The model asks on, drafts a recommendation or fails: no decision is written.
KeepOpen(d) ==
  /\ decider[d].pc = "answer"
  /\ decider' = [decider EXCEPT ![d] = NoTask]
  /\ UNCHANGED <<purchase, givenBack, request, opener, sweep, returnFaults, refundedFor, disturbed>>

\* issueRefund from the page of the payment; what may come between its own steps
\* is Settlement's.
RefundDirectly(amount) ==
  /\ purchase = "captured" /\ givenBack + amount <= Paid
  /\ givenBack' = givenBack + amount
  /\ purchase' = IF amount = Paid THEN "failed" ELSE purchase
  /\ UNCHANGED <<request, opener, decider, sweep, returnFaults, refundedFor, disturbed>>

\* A purchase that is already failed is not refunded again.
CheckPurchase(d) ==
  /\ decider[d].pc = "check"
  /\ decider' = [decider EXCEPT ![d] = IF purchase = "captured" THEN [@ EXCEPT !.pc = "refund"] ELSE NoTask]
  /\ UNCHANGED <<purchase, givenBack, request, opener, sweep, returnFaults, refundedFor, disturbed>>

\* Razorpay gives back no more than was paid.
GiveBack(d) ==
  /\ decider[d].pc = "refund"
  /\ givenBack + decider[d].amount <= Paid
  /\ givenBack' = givenBack + decider[d].amount
  /\ refundedFor' = [q \in Returnable |->
       refundedFor[q] + IF q = decider[d].q THEN decider[d].amount ELSE 0]

RefundAllowed(d) ==
  /\ GiveBack(d)
  /\ decider' = [decider EXCEPT ![d].pc = IF decider[d].amount = Paid THEN "fail" ELSE "write"]
  /\ UNCHANGED <<purchase, request, opener, sweep, returnFaults, disturbed>>

\* Faulty variant: the answer of the refund is not looked at.
AfterRefusedUnread(task) == [task EXCEPT !.pc = "write"]

\* Anything but "allow" ends the call and leaves the request as it is.
AfterRefused(task) == NoTask

RefundRefused(d) ==
  /\ decider[d].pc = "refund"
  /\ decider' = [decider EXCEPT ![d] = AfterRefused(@)]
  /\ UNCHANGED <<purchase, givenBack, request, opener, sweep, returnFaults, refundedFor, disturbed>>

\* The refund was made and its answer lost: reported as a refusal.
RefundReplyLost(d) ==
  /\ FaultyReturn /\ GiveBack(d)
  /\ decider' = [decider EXCEPT ![d] = AfterRefused(@)]
  /\ Disturb(decider[d].q)
  /\ UNCHANGED <<purchase, request, opener, sweep>>

\* A full refund ends the purchase; a partial one leaves it captured.
FailPurchase(d) ==
  /\ decider[d].pc = "fail"
  /\ purchase' = "failed"
  /\ decider' = [decider EXCEPT ![d].pc = "write"]
  /\ UNCHANGED <<givenBack, request, opener, sweep, returnFaults, refundedFor, disturbed>>

\* By id alone: whatever the request has become since it was read.
Write(d, decision) ==
  /\ request' = [request EXCEPT ![decider[d].q] = decision]
  /\ decider' = [decider EXCEPT ![d] = NoTask]
  /\ UNCHANGED <<purchase, givenBack, opener, sweep, returnFaults, refundedFor, disturbed>>

Approve(d) == decider[d].pc = "write" /\ Write(d, DecidedAs("refunded", decider[d].amount))
Reject(d) == decider[d].pc = "answer" /\ Write(d, DecidedAs("rejected", 0))
Decline(d) == decider[d].pc = "answer" /\ Write(d, DecidedAs("declined_by_desk", 0))

\* The process dies between the refund and the record of it.
DeciderDies(d) ==
  /\ FaultyReturn
  /\ decider[d].pc \in {"fail", "write"}
  /\ Disturb(decider[d].q)
  /\ decider' = [decider EXCEPT ![d] = NoTask]
  /\ UNCHANGED <<purchase, givenBack, request, opener, sweep, refundedFor>>

-----------------------------------------------------------------------------
(* sweepExpiredReturnRequests *)

\* The sweep lists what is awaiting and reads each again: the second reading is
\* the one that counts. A request is overdue after three days, so at any time.
ReadOverdue(w, q) ==
  /\ sweep[w] = "none" /\ q \in Awaiting
  /\ sweep' = [sweep EXCEPT ![w] = q]
  /\ UNCHANGED <<purchase, givenBack, request, opener, decider, returnFaults, refundedFor, disturbed>>

\* Faulty variant: the update does not ask for the status again.
ExpiredAlways(q) == DecidedAs("expired", 0)
ExpiredIfAwaiting(q) == IF q \in Awaiting THEN DecidedAs("expired", 0) ELSE request[q]

ClaimExpired(w) ==
  LET q == sweep[w] IN
  /\ q # "none"
  /\ request' = [request EXCEPT ![q] = ExpiredIfAwaiting(q)]
  /\ sweep' = [sweep EXCEPT ![w] = "none"]
  /\ IF q \in Awaiting THEN Take(q) ELSE UNCHANGED disturbed
  /\ UNCHANGED <<purchase, givenBack, opener, decider, returnFaults, refundedFor>>

SweepStep(w) == ClaimExpired(w) \/ \E q \in Returnable : ReadOverdue(w, q)

-----------------------------------------------------------------------------
OpenerStep(b) ==
  \/ CheckEligibility(b) \/ InsertRefused(b)
  \/ \E q \in Returnable : InsertRequest(b, q)

DeciderStep(d) ==
  \/ \E q \in Returnable : ReadToAnswer(d, q)
  \/ \E q \in Returnable, a \in 1..Paid : ReadToApprove(d, q, a)
  \/ CheckPurchase(d) \/ RefundAllowed(d) \/ RefundRefused(d) \/ RefundReplyLost(d)
  \/ KeepOpen(d) \/ FailPurchase(d) \/ DeciderDies(d)
  \/ Approve(d) \/ Reject(d) \/ Decline(d)

ReturnsNext ==
  \/ \E b \in Buyers : OpenerStep(b)
  \/ \E d \in Deciders : DeciderStep(d)
  \/ \E a \in 1..Paid : RefundDirectly(a)
  \/ \E w \in ReturnSweeps : SweepStep(w)

\* Time passes and the scheduler keeps calling.
ReturnsFairness ==
  WF_returnsVars(\E w \in ReturnSweeps : SweepStep(w))

ReturnsSpec == ReturnsInit /\ [][ReturnsNext]_returnsVars /\ ReturnsFairness

-----------------------------------------------------------------------------
\* A buyer is told of a refund only when that much was given back for the
\* request, however decisions, turns and sweeps overlap.
ApprovedMeansRefunded ==
  \A q \in With("refunded") : refundedFor[q] >= request[q].approved /\ request[q].approved > 0

\* What was rejected, declined or left to expire was not refunded ("silence is
\* not consent"), unless two of them acted on one reading of the request, or the
\* approval died between the refund and its record.
DeniedMeansKept ==
  \A q \in (With("rejected") \cup With("declined_by_desk") \cup With("expired")) \ disturbed :
    refundedFor[q] = 0

\* One purchase is refunded for one request, and once, with the same exceptions
\* and unless the second was opened on checks made before the first was refunded.
RefundedForOneRequest ==
  disturbed = {} =>
    /\ Cardinality({q \in Returnable : refundedFor[q] > 0}) <= 1
    /\ \A q \in With("refunded") : refundedFor[q] = request[q].approved

\* A decision stands: only somebody who read the request before it was decided
\* can change it. In particular the sweep never expires what was just decided.
DecisionsStand ==
  [][\A q \in Returnable \ disturbed' :
       q \notin Awaiting \cup With("none") => request'[q] = request[q]]_returnsVars
=============================================================================
