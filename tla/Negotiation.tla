----------------------------- MODULE Negotiation -----------------------------
(***************************************************************************)
(* Bargaining over one variant by one buyer (src/lib/negotiation.ts) and   *)
(* the purchase at an agreed price. A call reads the negotiation, asks a   *)
(* model for the wording, and writes its answer by id alone: nothing       *)
(* claims the row, and two calls of one buyer may overlap.                 *)
(***************************************************************************)
EXTENDS Integers, Sequences, FiniteSets

CONSTANTS
  Negotiations,  \* rows that may be inserted
  Calls,         \* calls of the buyer under way at one time
  Buys,          \* purchases under way at one time
  Offers,        \* what the buyer may offer per unit
  CatalogPrices, \* what the merchant may set as the price,
  Floors,        \* and as the floor
  MAX_BUYER_COUNTERS, MIN_CONCESSION_STEP_PAISE,
  MaxEdits,      \* bound: price and floor changes by the merchant
  MaxCounters,   \* bound: offers made for one negotiation
  MaxSales       \* bound: sales of one negotiation, and causes counted for them

ASSUME NegotiationAssumption ==
  /\ Offers \cup CatalogPrices \cup Floors \subseteq Nat \ {0}
  /\ MAX_BUYER_COUNTERS \in Nat \ {0} /\ MIN_CONCESSION_STEP_PAISE \in Nat \ {0}
  /\ MaxEdits \in Nat /\ MaxCounters \in Nat /\ MaxSales \in Nat \ {0}
  /\ "none" \notin Negotiations
  /\ IsFiniteSet(Calls) /\ IsFiniteSet(Buys)

NoPrice == 0
NoNegotiation == [status |-> "none", catalogue |-> NoPrice, floor |-> NoPrice,
                  turns |-> 0, counter |-> NoPrice, agreed |-> NoPrice]
CallIdle == [pc |-> "idle", n |-> "none", offer |-> NoPrice, seen |-> NoNegotiation]
BuyIdle == [pc |-> "idle", n |-> "none", price |-> NoPrice]

VARIABLES
  variant,     \* [price, floor]; the floor may be null
  edits,
  nego,        \* the table
  overdue,     \* negotiations past their expiresAt
  buyerCall, buy,
  countered,   \* history: answers below agreement, per negotiation
  sales,       \* history: unit prices charged, per negotiation
  causes       \* history: how often, per negotiation, somebody took it up that another
               \* had in hand, or a charged purchase died unrecorded; up to MaxSales

negotiationVars == <<variant, edits, nego, overdue, buyerCall, buy, countered, sales, causes>>

NegotiationInit ==
  /\ variant \in [price : CatalogPrices, floor : Floors \cup {NoPrice}] /\ variant.floor <= variant.price
  /\ edits = 0
  /\ nego = [n \in Negotiations |-> NoNegotiation]
  /\ overdue = {}
  /\ buyerCall = [c \in Calls |-> CallIdle]
  /\ buy = [b \in Buys |-> BuyIdle]
  /\ countered = [n \in Negotiations |-> 0]
  /\ sales = [n \in Negotiations |-> <<>>]
  /\ causes = [n \in Negotiations |-> 0]

InHand == {buyerCall[c].n : c \in Calls} \cup {buy[b].n : b \in Buys}
Cause(n) == causes' = [causes EXCEPT ![n] = IF @ < MaxSales THEN @ + 1 ELSE @]
Contest(n) == IF n \in InHand THEN Cause(n) ELSE UNCHANGED causes

-----------------------------------------------------------------------------
(* The merchant *)

\* setVariantNegotiationFloor refuses a floor above the price; null clears it.
SetFloor(f) ==
  /\ edits < MaxEdits /\ f \in Floors \cup {NoPrice} /\ f <= variant.price
  /\ variant' = [variant EXCEPT !.floor = f]
  /\ edits' = edits + 1
  /\ UNCHANGED <<nego, overdue, buyerCall, buy, countered, sales, causes>>

\* updateProduct, updateVariant and the catalogue import leave the floor alone.
SetPrice(p) ==
  /\ edits < MaxEdits /\ p \in CatalogPrices
  /\ variant' = [variant EXCEPT !.price = p]
  /\ edits' = edits + 1
  /\ UNCHANGED <<nego, overdue, buyerCall, buy, countered, sales, causes>>

-----------------------------------------------------------------------------
(* openNegotiation *)

\* Frozen when the variant is read.
Terms == [NoNegotiation EXCEPT !.status = "open", !.catalogue = variant.price, !.floor = variant.floor]

ReadVariant(c) ==
  /\ buyerCall[c].pc = "idle" /\ variant.floor # NoPrice
  /\ buyerCall' = [buyerCall EXCEPT ![c] = [CallIdle EXCEPT !.pc = "check", !.seen = Terms]]
  /\ UNCHANGED <<variant, edits, nego, overdue, buy, countered, sales, causes>>

\* getOpenNegotiationForIdentity: an overdue negotiation still counts as open.
HasOpen == \E n \in Negotiations : nego[n].status = "open"

CheckOpen(c) ==
  /\ buyerCall[c].pc = "check"
  /\ buyerCall' = [buyerCall EXCEPT ![c] = IF HasOpen THEN CallIdle ELSE [@ EXCEPT !.pc = "insert"]]
  /\ UNCHANGED <<variant, edits, nego, overdue, buy, countered, sales, causes>>

InsertNegotiation(c, n) ==
  /\ buyerCall[c].pc = "insert" /\ nego[n] = NoNegotiation
  /\ nego' = [nego EXCEPT ![n] = buyerCall[c].seen]
  /\ buyerCall' = [buyerCall EXCEPT ![c] = CallIdle]
  /\ UNCHANGED <<variant, edits, overdue, buy, countered, sales, causes>>

\* Twenty minutes have passed.
Expires(n) ==
  /\ nego[n] # NoNegotiation /\ n \notin overdue
  /\ overdue' = overdue \cup {n}
  /\ UNCHANGED <<variant, edits, nego, buyerCall, buy, countered, sales, causes>>

-----------------------------------------------------------------------------
(* submitBuyerCounter *)

Counterable(n) == nego[n].status = "open"

ReadNegotiation(c, n, offer) ==
  /\ buyerCall[c].pc = "idle" /\ Counterable(n)
  /\ countered[n] < MaxCounters
  /\ buyerCall' = [buyerCall EXCEPT ![c] = [pc |-> IF n \in overdue THEN "expire" ELSE "answer",
                                            n |-> n, offer |-> offer, seen |-> nego[n]]]
  /\ Contest(n)
  /\ UNCHANGED <<variant, edits, nego, overdue, buy, countered, sales>>

Maximum(a, b) == IF a >= b THEN a ELSE b
CeilDiv(a, b) == (a + b - 1) \div b

\* Faulty variant: the step is not held back at the floor.
computeConcessionCeilingUnclamped(standing, floor, turn) ==
  LET gap == standing - floor
      left == Maximum(MAX_BUYER_COUNTERS + 1 - turn, 1)
  IN IF standing <= floor THEN floor
     ELSE standing - Maximum(MIN_CONCESSION_STEP_PAISE, CeilDiv(gap, left))

\* The gap that is left, spread evenly over the turns that are left, and never
\* less than the smallest step nor below the floor.
computeConcessionCeiling(standing, floor, turn) ==
  LET gap == standing - floor
      left == Maximum(MAX_BUYER_COUNTERS + 1 - turn, 1)
      step == Maximum(MIN_CONCESSION_STEP_PAISE, CeilDiv(gap, left))
  IN IF standing <= floor THEN floor ELSE Maximum(standing - step, floor)

OutOfTurns(turn) == turn >= MAX_BUYER_COUNTERS

Expire(c) ==
  /\ buyerCall[c].pc = "expire"
  /\ nego' = [nego EXCEPT ![buyerCall[c].n].status = "expired"]
  /\ buyerCall' = [buyerCall EXCEPT ![c] = CallIdle]
  /\ UNCHANGED <<variant, edits, overdue, buy, countered, sales, causes>>

\* An offer at or above the floor is agreed to at once.
Agree(c) ==
  LET call == buyerCall[c] IN
  /\ call.pc = "answer" /\ call.offer >= call.seen.floor
  /\ nego' = [nego EXCEPT ![call.n].status = "agreed", ![call.n].turns = call.seen.turns + 1,
                          ![call.n].agreed = call.offer]
  /\ buyerCall' = [buyerCall EXCEPT ![c] = CallIdle]
  /\ UNCHANGED <<variant, edits, overdue, buy, countered, sales, causes>>

RefuseOutOfTurns(c) ==
  LET call == buyerCall[c] IN
  /\ call.pc = "answer" /\ call.offer < call.seen.floor /\ OutOfTurns(call.seen.turns + 1)
  /\ nego' = [nego EXCEPT ![call.n].status = "refused_turns_exhausted",
                          ![call.n].turns = call.seen.turns + 1]
  /\ buyerCall' = [buyerCall EXCEPT ![c] = CallIdle]
  /\ countered' = [countered EXCEPT ![call.n] = @ + 1]
  /\ UNCHANGED <<variant, edits, overdue, buy, sales, causes>>

\* After the model has answered or failed: the status is not written, nor looked at.
Counter(c) ==
  LET call == buyerCall[c]
      turn == call.seen.turns + 1
      standing == IF call.seen.counter # NoPrice THEN call.seen.counter ELSE call.seen.catalogue
  IN
  /\ call.pc = "answer" /\ call.offer < call.seen.floor /\ ~OutOfTurns(turn)
  /\ nego' = [nego EXCEPT ![call.n].turns = turn,
       ![call.n].counter = computeConcessionCeiling(standing, call.seen.floor, turn)]
  /\ buyerCall' = [buyerCall EXCEPT ![c] = CallIdle]
  /\ countered' = [countered EXCEPT ![call.n] = @ + 1]
  /\ UNCHANGED <<variant, edits, overdue, buy, sales, causes>>

-----------------------------------------------------------------------------
(* The purchase: resolveNegotiation, the gate, markNegotiationRedeemed *)

Resolve(b, n) ==
  /\ buy[b].pc = "idle" /\ nego[n].status = "agreed" /\ n \notin overdue
  /\ Len(sales[n]) < MaxSales
  /\ buy' = [buy EXCEPT ![b] = [pc |-> "charge", n |-> n, price |-> nego[n].agreed]]
  /\ Contest(n)
  /\ UNCHANGED <<variant, edits, nego, overdue, buyerCall, countered, sales>>

\* attemptMoneyAction, or the merchant's approval of its escalation, allows it.
Charge(b) ==
  /\ buy[b].pc = "charge"
  /\ sales' = [sales EXCEPT ![buy[b].n] = Append(@, buy[b].price)]
  /\ buy' = [buy EXCEPT ![b].pc = "mark"]
  /\ UNCHANGED <<variant, edits, nego, overdue, buyerCall, countered, causes>>

\* Denied: the negotiation stays agreed and may be tried again.
Denied(b) ==
  /\ buy[b].pc = "charge"
  /\ buy' = [buy EXCEPT ![b] = BuyIdle]
  /\ UNCHANGED <<variant, edits, nego, overdue, buyerCall, countered, sales, causes>>

\* Faulty variant: a sale leaves the negotiation agreed.
RedeemedNever(row) == row
Redeemed(row) == IF row.status = "agreed" THEN [row EXCEPT !.status = "redeemed"] ELSE row

MarkRedeemed(b) ==
  /\ buy[b].pc = "mark"
  /\ nego' = [nego EXCEPT ![buy[b].n] = Redeemed(@)]
  /\ buy' = [buy EXCEPT ![b] = BuyIdle]
  /\ UNCHANGED <<variant, edits, overdue, buyerCall, countered, sales, causes>>

\* The process dies between the charge and the mark, or the mark throws and the
\* caller is told it was denied: sold, and still agreed.
Interrupted(b) ==
  /\ buy[b].pc = "mark"
  /\ Cause(buy[b].n)
  /\ buy' = [buy EXCEPT ![b] = BuyIdle]
  /\ UNCHANGED <<variant, edits, nego, overdue, buyerCall, countered, sales>>

-----------------------------------------------------------------------------
NegotiationNext ==
  \/ \E f \in Floors \cup {NoPrice} : SetFloor(f)
  \/ \E p \in CatalogPrices : SetPrice(p)
  \/ \E c \in Calls :
       \/ ReadVariant(c) \/ CheckOpen(c) \/ \E n \in Negotiations : InsertNegotiation(c, n)
       \/ \E n \in Negotiations, offer \in Offers : ReadNegotiation(c, n, offer)
       \/ Expire(c) \/ Agree(c) \/ RefuseOutOfTurns(c) \/ Counter(c)
  \/ \E n \in Negotiations : Expires(n)
  \/ \E b \in Buys :
       \/ Charge(b) \/ Denied(b) \/ MarkRedeemed(b) \/ Interrupted(b)
       \/ \E n \in Negotiations : Resolve(b, n)

NegotiationSpec == NegotiationInit /\ [][NegotiationNext]_negotiationVars

-----------------------------------------------------------------------------
\* However calls overlap and whatever the merchant edits meanwhile, no price is
\* proposed, agreed or charged below the floor frozen at the opening.
NeverBelowFloor ==
  \A n \in Negotiations :
    /\ nego[n].counter # NoPrice => nego[n].counter >= nego[n].floor
    /\ nego[n].agreed # NoPrice => nego[n].agreed >= nego[n].floor
    /\ \A i \in DOMAIN sales[n] : sales[n][i] >= nego[n].floor

\* An agreed price is charged once ("redeemed at most once", gate.ts 1342) and as
\* agreed; every further sale takes one more overlap of two calls or purchases,
\* or one more death between a charge and its mark, each good for one sale only.
EverySaleHasACause ==
  \A n \in Negotiations :
    /\ causes[n] < MaxSales => Len(sales[n]) <= 1 + causes[n]
    /\ causes[n] = 0 => \A i \in DOMAIN sales[n] : sales[n][i] = nego[n].agreed
=============================================================================
