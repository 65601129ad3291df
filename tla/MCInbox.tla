------------------------------ MODULE MCInbox ------------------------------
(* Small instances of Inbox for TLC. *)
EXTENDS Inbox, TLC

CONSTANTS s1, e1, e2, p1, p2

\* A capture of 6 paise of which 4 enter the pool, split 1, 1 and 2, or 4 and 0.
SixPaise == (s1 :> 6)
Split(buyer, merchant, reserve) ==
  [enabled |-> TRUE, allocationBasisPoints |-> 8000, buyerShareBps |-> buyer,
   merchantShareBps |-> merchant, reserveShareBps |-> reserve]
EvenSplit == Split(4900, 4900, 200)
AlwaysEven == {EvenSplit}
EvenOrBuyer == {EvenSplit, Split(10000, 0, 0)}

\* Razorpay reports a payment under two events, or an earlier one as refused.
About(kind) == [kind |-> kind, sale |-> s1]
PaidOrRefused == {(e1 :> About("payment.captured")) @@ (e2 :> About(k)) : k \in {"order.paid", "payment.failed"}}
OnlyRefused == {e1 :> About("payment.failed")}
=============================================================================
