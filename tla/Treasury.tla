------------------------------ MODULE Treasury ------------------------------
(***************************************************************************)
(* How a captured payment funds the AI treasury (src/lib/treasury.ts):     *)
(* the share of the capture that enters the pool and its split into three  *)
(* buckets, all in whole paise.                                            *)
(***************************************************************************)
EXTENDS Integers

TOTAL_BASIS_POINTS == 10000

Buckets == {"buyer_credits", "merchant_ai_budget", "reserve"}

\* The validated settings: validateShareConfig makes the shares add up to 10000.
ValidSettings(s) ==
  /\ s.allocationBasisPoints \in 0..TOTAL_BASIS_POINTS
  /\ s.buyerShareBps \in Nat /\ s.merchantShareBps \in Nat /\ s.reserveShareBps \in Nat
  /\ s.buyerShareBps + s.merchantShareBps + s.reserveShareBps = TOTAL_BASIS_POINTS

ShareOf(paise, bps) == (paise * bps) \div TOTAL_BASIS_POINTS

Contribution(paise, s) == IF paise <= 0 THEN 0 ELSE ShareOf(paise, s.allocationBasisPoints)

\* The reserve takes what the two floors leave.
computeAllocationSplit(paise, s) ==
  LET c == Contribution(paise, s)
      buyer == ShareOf(c, s.buyerShareBps)
      merchant == ShareOf(c, s.merchantShareBps)
  IN  [b \in Buckets |-> CASE b = "buyer_credits"      -> buyer
                           [] b = "merchant_ai_budget" -> merchant
                           [] OTHER                    -> c - buyer - merchant]

Total(split) == split["buyer_credits"] + split["merchant_ai_budget"] + split["reserve"]
=============================================================================
