------------------------------- MODULE MCGate -------------------------------
(* Small instances of Gate for TLC. *)
EXTENDS Gate, TLC

CONSTANTS a1, a2, a3, h1, h2, shirt, mug, k1, d1

Ask(amount, lines, key, kind, deal, dryRun) ==
  [amount |-> amount, lines |-> lines, key |-> key, kind |-> kind, deal |-> deal,
   dryRun |-> dryRun]
Of(v, n) == [of |-> v, qty |-> n]

\* A bundle with a key, and the same two items the other way round without.
BundleRequests ==
  {Ask(2, <<Of(shirt, 1), Of(mug, 1)>>, NoKey, "order", NoDeal, FALSE),
   Ask(2, <<Of(mug, 1), Of(shirt, 1)>>, k1, "order", NoDeal, FALSE)}

\* One variant.
ShirtRequests ==
  {Ask(2, <<Of(shirt, 1)>>, NoKey, "order", NoDeal, FALSE)}

\* An order with a negotiated price, and a two-unit order.
EscalationRequests ==
  {Ask(2, <<Of(shirt, 1)>>, NoKey, "order", d1, FALSE),
   Ask(1, <<Of(shirt, 2)>>, k1, "order", NoDeal, FALSE)}
ThrowRequests ==
  {Ask(1, <<Of(shirt, 1)>>, k1, "order", d1, FALSE),
   Ask(2, <<Of(shirt, 2)>>, NoKey, "order", NoDeal, FALSE)}

\* Every way a request is settled.
KindRequests ==
  {Ask(1, <<>>, NoKey, "redeem", NoDeal, FALSE),
   Ask(2, <<>>, k1, "issue", NoDeal, FALSE),
   Ask(1, <<>>, NoKey, "link", NoDeal, FALSE),
   Ask(1, <<Of(shirt, 1)>>, NoKey, "hold", NoDeal, FALSE),
   Ask(2, <<Of(shirt, 1)>>, NoKey, "order", NoDeal, TRUE)}
MixedRequests == EscalationRequests \cup KindRequests \cup BundleRequests
RedeemRequests == {Ask(2, <<>>, NoKey, "redeem", NoDeal, FALSE)}

Stock21 == shirt :> 2 @@ mug :> 1
Stock2  == shirt :> 2
Stock3  == shirt :> 3

CapOf(limit, txMax) == [limit |-> limit, txMax |-> txMax]
Cap2  == CapOf(2, 2)
Cap3  == CapOf(3, 2)
Cap5  == CapOf(5, 2)
Only2 == {Cap2}
Only3 == {Cap3}
Only5 == {Cap5}
=============================================================================
