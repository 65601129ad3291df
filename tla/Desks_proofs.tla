---------------------------- MODULE Desks_proofs ----------------------------
(* What holds of Negotiation and Returns for every number of calls. *)
EXTENDS Negotiation, Returns, FiniteSetTheorems, TLAPS

Status == {"none", "open", "agreed", "redeemed", "expired", "refused_turns_exhausted"}
NegoRow == [status: Status, catalogue: Int, floor: Int, turns: Int, counter: Int, agreed: Int]
Call == [pc: {"idle", "check", "insert", "expire", "answer"}, n: Negotiations \cup {"none"},
         offer: Int, seen: NegoRow]
Purchase == [pc: {"idle", "charge", "mark"}, n: Negotiations \cup {"none"}, price: Int]

BargainTyped ==
  /\ variant \in [price: Int, floor: Int]
  /\ nego \in [Negotiations -> NegoRow] /\ sales \in [Negotiations -> Seq(Int)]
  /\ buyerCall \in [Calls -> Call] /\ buy \in [Buys -> Purchase]

\* A row, and what was sold at it, never below its own floor.
RowFine(row, sold) ==
  /\ row.counter # NoPrice => row.counter >= row.floor
  /\ row.agreed # NoPrice => row.agreed >= row.floor
  /\ row.status \in {"agreed", "redeemed"} => row.agreed >= row.floor
  /\ \A i \in DOMAIN sold : sold[i] >= row.floor
  /\ row.status = "none" => sold = <<>>

\* What a call has read of a negotiation is dated, but the floor cannot be: it is
\* never written again.
CallFine(call) ==
  /\ call.pc \in {"expire", "answer"} =>
       /\ call.n \in Negotiations /\ nego[call.n].status # "none"
       /\ call.seen.floor = nego[call.n].floor
  /\ call.pc \in {"check", "insert"} =>
       call.seen.status = "open" /\ call.seen.counter = NoPrice /\ call.seen.agreed = NoPrice
  /\ call.pc \in {"idle", "check", "insert"} => call.n = "none"

BuyFine(purch) ==
  /\ purch.pc # "idle" => /\ purch.n \in Negotiations /\ nego[purch.n].status # "none"
                          /\ purch.price >= nego[purch.n].floor
  /\ purch.pc = "idle" => purch.n = "none"

FloorInv ==
  /\ BargainTyped
  /\ \A n \in Negotiations : RowFine(nego[n], sales[n])
  /\ \A c \in Calls : CallFine(buyerCall[c])
  /\ \A b \in Buys : BuyFine(buy[b])

FloorsFrozen ==
  \A n \in Negotiations : nego[n].status # "none" =>
    nego'[n].status # "none" /\ nego'[n].floor = nego[n].floor

-----------------------------------------------------------------------------
LEMMA ConcessionStopsAtFloor ==
  ASSUME NEW standing \in Int, NEW floor \in Int, NEW turn \in Int
  PROVE  /\ computeConcessionCeiling(standing, floor, turn) \in Int
         /\ computeConcessionCeiling(standing, floor, turn) >= floor
PROOF
  <1> DEFINE left == Maximum(MAX_BUYER_COUNTERS + 1 - turn, 1)
             gap == standing - floor
             even == CeilDiv(gap, left)
             step == Maximum(MIN_CONCESSION_STEP_PAISE, even)
  <1>1. left \in Int /\ left >= 1
    BY NegotiationAssumption DEF Maximum
  <1> HIDE DEF left
  <1>2. even \in Int
    BY <1>1 DEF CeilDiv
  <1> HIDE DEF even
  <1>3. step \in Int
    BY <1>2, NegotiationAssumption DEF Maximum
  <1> HIDE DEF step
  <1>4. computeConcessionCeiling(standing, floor, turn) =
          IF standing <= floor THEN floor ELSE Maximum(standing - step, floor)
    BY DEF computeConcessionCeiling, step, even, gap, left
  <1> QED BY <1>3, <1>4 DEF Maximum

LEMMA FloorMoves ==
  ASSUME FloorInv, BargainTyped', FloorsFrozen,
         \A n \in Negotiations : RowFine(nego'[n], sales'[n]),
         \A c \in Calls : buyerCall'[c] = buyerCall[c] \/ CallFine(buyerCall[c])',
         \A b \in Buys : buy'[b] = buy[b] \/ BuyFine(buy[b])'
  PROVE  FloorInv'
PROOF
  <1>1. ASSUME NEW c \in Calls, buyerCall'[c] = buyerCall[c] PROVE CallFine(buyerCall[c])'
    BY <1>1 DEF FloorInv, CallFine, FloorsFrozen
  <1>2. ASSUME NEW b \in Buys, buy'[b] = buy[b] PROVE BuyFine(buy[b])'
    BY <1>2 DEF FloorInv, BuyFine, FloorsFrozen
  <1> QED BY <1>1, <1>2 DEF FloorInv

LEMMA IdleFine ==
  CallIdle \in Call /\ CallFine(CallIdle) /\ BuyIdle \in Purchase /\ BuyFine(BuyIdle)
PROOF
  <1>1. NoNegotiation \in NegoRow
    BY DEF NoNegotiation, NoPrice, NegoRow, Status
  <1> QED BY <1>1 DEF CallIdle, Call, CallFine, BuyIdle, Purchase, BuyFine, NoPrice

LEMMA InitFloor == NegotiationInit => FloorInv
PROOF
  <1> SUFFICES ASSUME NegotiationInit PROVE FloorInv
    OBVIOUS
  <1>1. /\ nego = [n \in Negotiations |-> NoNegotiation] /\ sales = [n \in Negotiations |-> <<>>]
        /\ buyerCall = [c \in Calls |-> CallIdle] /\ buy = [b \in Buys |-> BuyIdle]
        /\ variant \in [price: CatalogPrices, floor: Floors \cup {NoPrice}]
    BY DEF NegotiationInit
  <1>2. NoNegotiation \in NegoRow
    BY DEF NoNegotiation, NoPrice, NegoRow, Status
  <1>3. variant \in [price: Int, floor: Int]
    BY <1>1, NegotiationAssumption DEF NoPrice
  <1>4. <<>> \in Seq(Int)
    OBVIOUS
  <1>5. BargainTyped
    BY <1>1, <1>2, <1>3, <1>4, IdleFine DEF BargainTyped
  <1>6. RowFine(NoNegotiation, <<>>)
    BY DEF RowFine, NoNegotiation, NoPrice
  <1> QED BY <1>1, <1>5, <1>6, IdleFine DEF FloorInv

\* A call that ends, or starts without a negotiation in hand.
LEMMA CallFree ==
  ASSUME NEW call, call.pc = "idle", call.n = "none"
  PROVE  CallFine(call) /\ CallFine(call)'
  BY DEF CallFine

LEMMA CallIdleIs == CallIdle.pc = "idle" /\ CallIdle.n = "none" /\ BuyIdle.pc = "idle" /\ BuyIdle.n = "none"
  BY DEF CallIdle, BuyIdle

\* One row is rewritten; all calls but one stay as they are.
LEMMA RowMoves ==
  ASSUME FloorInv, NEW n \in Negotiations, NEW row \in NegoRow, nego' = [nego EXCEPT ![n] = row],
         nego[n].status # "none" => row.status # "none" /\ row.floor = nego[n].floor,
         RowFine(row, sales[n]), UNCHANGED <<variant, sales>>,
         \/ /\ UNCHANGED buy
            /\ \E c \in Calls : buyerCall' = [buyerCall EXCEPT ![c] = CallIdle]
         \/ /\ UNCHANGED buyerCall
            /\ \E b \in Buys : buy' = [buy EXCEPT ![b] = BuyIdle]
  PROVE  FloorInv'
PROOF
  <1>1. nego' \in [Negotiations -> NegoRow] /\ nego'[n] = row
        /\ \A m \in Negotiations : m # n => nego'[m] = nego[m]
    BY DEF FloorInv, BargainTyped
  <1>2. /\ buyerCall' \in [Calls -> Call] /\ buy' \in [Buys -> Purchase]
        /\ \A c \in Calls : buyerCall'[c] = buyerCall[c] \/ buyerCall'[c] = CallIdle
        /\ \A b \in Buys : buy'[b] = buy[b] \/ buy'[b] = BuyIdle
    BY IdleFine DEF FloorInv, BargainTyped
  <1>3. BargainTyped'
    BY <1>1, <1>2 DEF FloorInv, BargainTyped
  <1>4. FloorsFrozen
    BY <1>1 DEF FloorsFrozen
  <1>5. \A m \in Negotiations : RowFine(nego'[m], sales'[m])
    BY <1>1 DEF FloorInv
  <1>6. \A c \in Calls : buyerCall'[c] = buyerCall[c] \/ CallFine(buyerCall[c])'
    BY <1>2, CallIdleIs DEF CallFine
  <1>7. \A b \in Buys : buy'[b] = buy[b] \/ BuyFine(buy[b])'
    BY <1>2, CallIdleIs DEF BuyFine
  <1> QED BY <1>3, <1>4, <1>5, <1>6, <1>7, FloorMoves

\* A call moves on and the rows stay as they are.
LEMMA CallMoves ==
  ASSUME FloorInv, NEW c \in Calls, NEW call \in Call, CallFine(call),
         buyerCall' = [buyerCall EXCEPT ![c] = call], UNCHANGED <<variant, nego, sales, buy>>
  PROVE  FloorInv'
PROOF
  <1>1. BargainTyped' /\ FloorsFrozen
    BY DEF FloorInv, BargainTyped, FloorsFrozen
  <1>2. CallFine(call)'
    BY DEF CallFine
  <1>3. \A d \in Calls : buyerCall'[d] = buyerCall[d] \/ buyerCall'[d] = call
    BY DEF FloorInv, BargainTyped
  <1>4. \A d \in Calls : buyerCall'[d] = buyerCall[d] \/ CallFine(buyerCall[d])'
    BY <1>2, <1>3 DEF CallFine
  <1>5. \A n \in Negotiations : RowFine(nego'[n], sales'[n])
    BY DEF FloorInv
  <1> QED BY <1>1, <1>4, <1>5, FloorMoves

LEMMA SellerFloor ==
  ASSUME FloorInv,
         \/ \E f \in Floors \cup {NoPrice} : SetFloor(f)
         \/ \E p \in CatalogPrices : SetPrice(p)
         \/ \E n \in Negotiations : Expires(n)
  PROVE  FloorInv'
PROOF
  <1>1. UNCHANGED <<nego, sales, buyerCall, buy>>
    BY DEF SetFloor, SetPrice, Expires
  <1>2. variant' \in [price: Int, floor: Int]
    BY NegotiationAssumption DEF SetFloor, SetPrice, Expires, FloorInv, BargainTyped, NoPrice
  <1>3. BargainTyped' /\ FloorsFrozen
    BY <1>1, <1>2 DEF FloorInv, BargainTyped, FloorsFrozen
  <1>4. \A n \in Negotiations : RowFine(nego'[n], sales'[n])
    BY <1>1 DEF FloorInv
  <1> QED BY <1>1, <1>3, <1>4, FloorMoves

LEMMA OpenFloor ==
  ASSUME FloorInv, NEW c \in Calls,
         ReadVariant(c) \/ CheckOpen(c) \/ \E n \in Negotiations : InsertNegotiation(c, n)
  PROVE  FloorInv'
PROOF
  <1>1. /\ buyerCall[c] \in Call /\ CallFine(buyerCall[c]) /\ variant \in [price: Int, floor: Int]
    BY DEF FloorInv, BargainTyped
  <1>2. CASE ReadVariant(c)
    <2> DEFINE call == [CallIdle EXCEPT !.pc = "check", !.seen = Terms]
    <2>1. Terms \in NegoRow /\ Terms.status = "open" /\ Terms.counter = NoPrice /\ Terms.agreed = NoPrice
      <3>1. variant.price \in Int /\ variant.floor \in Int
        BY <1>1
      <3>2. NoNegotiation \in NegoRow /\ NoNegotiation.counter = NoPrice /\ NoNegotiation.agreed = NoPrice
        BY DEF NoNegotiation, NegoRow, Status, NoPrice
      <3> QED BY <3>1, <3>2 DEF Terms, NegoRow, Status
    <2>2. call \in Call /\ call.pc = "check" /\ call.n = "none" /\ call.seen = Terms
      BY <2>1, IdleFine, CallIdleIs DEF Call
    <2>3. buyerCall' = [buyerCall EXCEPT ![c] = call] /\ UNCHANGED <<variant, nego, sales, buy>>
      BY <1>2 DEF ReadVariant
    <2> HIDE DEF call
    <2>4. CallFine(call)
      BY <2>1, <2>2 DEF CallFine
    <2> QED BY <2>2, <2>3, <2>4, CallMoves
  <1>3. CASE CheckOpen(c) /\ HasOpen
    <2>1. buyerCall' = [buyerCall EXCEPT ![c] = CallIdle] /\ UNCHANGED <<variant, nego, sales, buy>>
      BY <1>3 DEF CheckOpen
    <2> QED BY <2>1, IdleFine, CallMoves
  <1>4. CASE CheckOpen(c) /\ ~HasOpen
    <2> DEFINE call == [buyerCall[c] EXCEPT !.pc = "insert"]
    <2>1. call \in Call /\ call.pc = "insert" /\ call.n = buyerCall[c].n /\ call.seen = buyerCall[c].seen
      BY <1>1 DEF Call
    <2>2. buyerCall' = [buyerCall EXCEPT ![c] = call] /\ UNCHANGED <<variant, nego, sales, buy>>
          /\ buyerCall[c].pc = "check"
      BY <1>4 DEF CheckOpen
    <2> HIDE DEF call
    <2>3. CallFine(call)
      BY <1>1, <2>1, <2>2 DEF CallFine
    <2> QED BY <2>1, <2>2, <2>3, CallMoves
  <1>5. ASSUME NEW n \in Negotiations, InsertNegotiation(c, n) PROVE FloorInv'
    <2> DEFINE row == buyerCall[c].seen
    <2>1. /\ nego' = [nego EXCEPT ![n] = row] /\ UNCHANGED <<variant, sales, buy>>
          /\ buyerCall' = [buyerCall EXCEPT ![c] = CallIdle]
          /\ nego[n] = NoNegotiation /\ buyerCall[c].pc = "insert"
      BY <1>5 DEF InsertNegotiation
    <2>2. row \in NegoRow /\ row.status = "open" /\ row.counter = NoPrice /\ row.agreed = NoPrice
      BY <1>1, <2>1 DEF Call, CallFine
    <2>3. nego[n].status = "none" /\ sales[n] = <<>>
      BY <2>1 DEF NoNegotiation, FloorInv, RowFine
    <2>4. RowFine(row, sales[n])
      BY <2>2, <2>3 DEF RowFine
    <2> HIDE DEF row
    <2> QED BY <2>1, <2>2, <2>3, <2>4, RowMoves
  <1> QED BY <1>2, <1>3, <1>4, <1>5

LEMMA ReadFloor ==
  ASSUME FloorInv, NEW c \in Calls, NEW n \in Negotiations, NEW offer \in Offers,
         ReadNegotiation(c, n, offer)
  PROVE  FloorInv'
PROOF
  <1> DEFINE pc == IF n \in overdue THEN "expire" ELSE "answer"
             call == [pc |-> pc, n |-> n, offer |-> offer, seen |-> nego[n]]
  <1>1. pc \in {"expire", "answer"} /\ nego[n] \in NegoRow /\ offer \in Int
    BY NegotiationAssumption DEF FloorInv, BargainTyped
  <1>2. buyerCall' = [buyerCall EXCEPT ![c] = call] /\ UNCHANGED <<variant, nego, sales, buy>>
        /\ nego[n].status = "open"
    BY DEF ReadNegotiation, Counterable
  <1> HIDE DEF pc
  <1>3. call \in Call /\ call.pc = pc /\ call.n = n /\ call.seen = nego[n]
    BY <1>1 DEF Call
  <1> HIDE DEF call
  <1>4. CallFine(call)
    BY <1>1, <1>2, <1>3 DEF CallFine
  <1> QED BY <1>2, <1>3, <1>4, CallMoves

LEMMA AnswerFloor ==
  ASSUME FloorInv, NEW c \in Calls, Expire(c) \/ Agree(c) \/ RefuseOutOfTurns(c) \/ Counter(c)
  PROVE  FloorInv'
PROOF
  <1>1. /\ buyerCall' = [buyerCall EXCEPT ![c] = CallIdle] /\ UNCHANGED <<variant, sales, buy>>
        /\ buyerCall[c].pc \in {"expire", "answer"}
    BY DEF Expire, Agree, RefuseOutOfTurns, Counter
  <1>2. PICK call \in Call : call = buyerCall[c]
    BY DEF FloorInv, BargainTyped
  <1>3. PICK n \in Negotiations : n = call.n
    BY <1>1, <1>2 DEF FloorInv, CallFine
  <1>4. /\ nego[n] \in NegoRow /\ call.seen \in NegoRow /\ call.offer \in Int
        /\ call.seen.floor = nego[n].floor /\ nego[n].status # "none" /\ RowFine(nego[n], sales[n])
    BY <1>1, <1>2, <1>3 DEF FloorInv, CallFine, BargainTyped, Call
  <1>5. /\ nego[n].counter \in Int /\ nego[n].floor \in Int /\ call.seen.floor \in Int
        /\ call.seen.turns \in Int /\ call.seen.counter \in Int /\ call.seen.catalogue \in Int
    BY <1>4 DEF NegoRow
  <1>6. ASSUME NEW row \in NegoRow, nego' = [nego EXCEPT ![n] = row], row.status # "none",
               row.floor = nego[n].floor, RowFine(row, sales[n])
        PROVE  FloorInv'
    BY <1>1, <1>6, RowMoves
  <1>7. CASE Expire(c)
    <2> DEFINE row == [nego[n] EXCEPT !.status = "expired"]
    <2>1. row \in NegoRow /\ row.status = "expired" /\ row.floor = nego[n].floor
          /\ row.counter = nego[n].counter /\ row.agreed = nego[n].agreed
      BY <1>4 DEF NegoRow, Status
    <2>2. nego' = [nego EXCEPT ![n] = row]
      BY <1>2, <1>3, <1>7 DEF Expire
    <2> HIDE DEF row
    <2>3. RowFine(row, sales[n])
      BY <1>4, <2>1 DEF RowFine
    <2> QED BY <1>6, <2>1, <2>2, <2>3
  <1>8. CASE Agree(c)
    <2> DEFINE turn == call.seen.turns + 1
               row == [nego[n] EXCEPT !.status = "agreed", !.turns = turn, !.agreed = call.offer]
    <2>1. turn \in Int
      BY <1>5
    <2>2. nego' = [nego EXCEPT ![n] = row] /\ call.offer >= nego[n].floor
      BY <1>2, <1>3, <1>4, <1>8 DEF Agree
    <2> HIDE DEF turn
    <2>3. row \in NegoRow /\ row.status = "agreed" /\ row.floor = nego[n].floor
          /\ row.counter = nego[n].counter /\ row.agreed = call.offer
      BY <1>4, <2>1 DEF NegoRow, Status
    <2> HIDE DEF row
    <2>4. RowFine(row, sales[n])
      BY <1>4, <2>3, <2>2 DEF RowFine
    <2> QED BY <1>6, <2>3, <2>2, <2>4
  <1>9. CASE RefuseOutOfTurns(c)
    <2> DEFINE turn == call.seen.turns + 1
               row == [nego[n] EXCEPT !.status = "refused_turns_exhausted", !.turns = turn]
    <2>1. turn \in Int
      BY <1>5
    <2>2. nego' = [nego EXCEPT ![n] = row]
      BY <1>2, <1>3, <1>9 DEF RefuseOutOfTurns
    <2> HIDE DEF turn
    <2>3. row \in NegoRow /\ row.status = "refused_turns_exhausted" /\ row.floor = nego[n].floor
          /\ row.counter = nego[n].counter /\ row.agreed = nego[n].agreed
      BY <1>4, <2>1 DEF NegoRow, Status
    <2> HIDE DEF row
    <2>4. RowFine(row, sales[n])
      BY <1>4, <2>3 DEF RowFine
    <2> QED BY <1>6, <2>3, <2>2, <2>4
  <1>10. CASE Counter(c)
    <2> DEFINE turn == call.seen.turns + 1
               standing == IF call.seen.counter # NoPrice THEN call.seen.counter ELSE call.seen.catalogue
               price == computeConcessionCeiling(standing, call.seen.floor, turn)
               row == [nego[n] EXCEPT !.turns = turn, !.counter = price]
    <2>1. turn \in Int /\ standing \in Int
      BY <1>5
    <2>2. nego' = [nego EXCEPT ![n] = row]
      BY <1>2, <1>3, <1>10 DEF Counter
    <2> HIDE DEF turn, standing
    <2>3. price \in Int /\ price >= nego[n].floor
      BY <1>4, <1>5, <2>1, ConcessionStopsAtFloor
    <2> HIDE DEF price
    <2>4. row \in NegoRow /\ row.status = nego[n].status /\ row.floor = nego[n].floor
          /\ row.counter = price /\ row.agreed = nego[n].agreed
      BY <1>4, <2>1, <2>3 DEF NegoRow
    <2> HIDE DEF row
    <2>5. RowFine(row, sales[n])
      BY <1>4, <2>3, <2>4 DEF RowFine
    <2> QED BY <1>4, <1>6, <2>2, <2>4, <2>5
  <1> QED BY <1>7, <1>8, <1>9, <1>10

LEMMA BuyFloor ==
  ASSUME FloorInv, NEW b \in Buys,
         \/ Charge(b) \/ Denied(b) \/ MarkRedeemed(b) \/ Interrupted(b)
         \/ \E n \in Negotiations : Resolve(b, n)
  PROVE  FloorInv'
PROOF
  <1>1. buy[b] \in Purchase /\ BuyFine(buy[b])
    BY DEF FloorInv, BargainTyped
  <1>2. ASSUME NEW n \in Negotiations, Resolve(b, n) PROVE FloorInv'
    <2> DEFINE purch == [pc |-> "charge", n |-> n, price |-> nego[n].agreed]
    <2>1. nego[n] \in NegoRow /\ RowFine(nego[n], sales[n]) /\ nego[n].status = "agreed"
      BY <1>2 DEF FloorInv, BargainTyped, Resolve
    <2>2. buy' = [buy EXCEPT ![b] = purch] /\ UNCHANGED <<variant, nego, sales, buyerCall>>
      BY <1>2 DEF Resolve
    <2>3. purch \in Purchase /\ purch.pc = "charge" /\ purch.n = n /\ purch.price = nego[n].agreed
      BY <2>1 DEF Purchase, NegoRow
    <2> HIDE DEF purch
    <2>4. purch.price >= nego[n].floor
      BY <2>1, <2>3 DEF RowFine
    <2>5. BargainTyped' /\ FloorsFrozen
      BY <2>2, <2>3 DEF FloorInv, BargainTyped, FloorsFrozen
    <2>6. \A e \in Buys : buy'[e] = buy[e] \/ buy'[e] = purch
      BY <2>2 DEF FloorInv, BargainTyped
    <2>7. \A e \in Buys : buy'[e] = buy[e] \/ BuyFine(buy[e])'
      BY <2>1, <2>2, <2>3, <2>4, <2>6 DEF BuyFine
    <2>8. \A m \in Negotiations : RowFine(nego'[m], sales'[m])
      BY <2>2 DEF FloorInv
    <2> QED BY <2>2, <2>5, <2>7, <2>8, FloorMoves
  <1>3. CASE Charge(b)
    <2> DEFINE purch == [buy[b] EXCEPT !.pc = "mark"]
    <2>1. /\ buy[b].pc = "charge" /\ buy' = [buy EXCEPT ![b] = purch]
          /\ UNCHANGED <<variant, nego, buyerCall>>
          /\ sales' = [sales EXCEPT ![buy[b].n] = Append(sales[buy[b].n], buy[b].price)]
      BY <1>3 DEF Charge
    <2>2. purch \in Purchase /\ purch.pc = "mark" /\ purch.n = buy[b].n /\ purch.price = buy[b].price
      BY <1>1 DEF Purchase
    <2> HIDE DEF purch
    <2>3. PICK n \in Negotiations : n = buy[b].n
      BY <1>1, <2>1 DEF BuyFine
    <2>4. PICK price \in Int : price = buy[b].price
      BY <1>1 DEF Purchase
    <2>5. /\ sales[n] \in Seq(Int) /\ sales' = [sales EXCEPT ![n] = Append(sales[n], price)]
          /\ price >= nego[n].floor /\ nego[n].status # "none"
      BY <1>1, <2>1, <2>3, <2>4 DEF FloorInv, BargainTyped, BuyFine
    <2>6. /\ Append(sales[n], price) \in Seq(Int)
          /\ \A i \in DOMAIN Append(sales[n], price) :
               Append(sales[n], price)[i] = price \/ (i \in DOMAIN sales[n] /\ Append(sales[n], price)[i] = sales[n][i])
      BY <2>5
    <2>7. RowFine(nego[n], Append(sales[n], price))
      BY <2>5, <2>6 DEF FloorInv, RowFine
    <2>8. /\ sales' \in [Negotiations -> Seq(Int)] /\ sales'[n] = Append(sales[n], price)
          /\ \A m \in Negotiations : m # n => sales'[m] = sales[m]
      BY <2>5, <2>6 DEF FloorInv, BargainTyped
    <2>9. BargainTyped' /\ FloorsFrozen
      BY <2>1, <2>2, <2>8 DEF FloorInv, BargainTyped, FloorsFrozen
    <2>10. \A e \in Buys : buy'[e] = buy[e] \/ buy'[e] = purch
      BY <2>1 DEF FloorInv, BargainTyped
    <2>11. purch.n = n /\ purch.price >= nego[n].floor
      BY <2>2, <2>3, <2>4, <2>5
    <2>12. \A e \in Buys : buy'[e] = buy[e] \/ BuyFine(buy[e])'
      BY <2>1, <2>2, <2>5, <2>10, <2>11 DEF BuyFine
    <2>13. \A m \in Negotiations : RowFine(nego'[m], sales'[m])
      BY <2>1, <2>7, <2>8 DEF FloorInv
    <2> QED BY <2>1, <2>9, <2>12, <2>13, FloorMoves
  <1>4. CASE Denied(b) \/ Interrupted(b)
    <2>1. buy' = [buy EXCEPT ![b] = BuyIdle] /\ UNCHANGED <<variant, nego, sales, buyerCall>>
      BY <1>4 DEF Denied, Interrupted
    <2>2. BargainTyped' /\ FloorsFrozen
      BY <2>1, IdleFine DEF FloorInv, BargainTyped, FloorsFrozen
    <2>3. \A e \in Buys : buy'[e] = buy[e] \/ buy'[e] = BuyIdle
      BY <2>1 DEF FloorInv, BargainTyped
    <2>4. \A e \in Buys : buy'[e] = buy[e] \/ BuyFine(buy[e])'
      BY <2>3, CallIdleIs DEF BuyFine
    <2>5. \A m \in Negotiations : RowFine(nego'[m], sales'[m])
      BY <2>1 DEF FloorInv
    <2> QED BY <2>1, <2>2, <2>4, <2>5, FloorMoves
  <1>5. CASE MarkRedeemed(b)
    <2>1. PICK n \in Negotiations : n = buy[b].n
      BY <1>1, <1>5 DEF BuyFine, MarkRedeemed
    <2>2. nego[n] \in NegoRow /\ RowFine(nego[n], sales[n])
      BY DEF FloorInv, BargainTyped
    <2> DEFINE row == Redeemed(nego[n])
    <2>3. nego' = [nego EXCEPT ![n] = row] /\ buy' = [buy EXCEPT ![b] = BuyIdle]
          /\ UNCHANGED <<variant, sales, buyerCall>>
      BY <1>5, <2>1 DEF MarkRedeemed
    <2>4. /\ row \in NegoRow /\ row.floor = nego[n].floor /\ row.counter = nego[n].counter
          /\ row.agreed = nego[n].agreed
          /\ row.status = IF nego[n].status = "agreed" THEN "redeemed" ELSE nego[n].status
      BY <2>2 DEF Redeemed, NegoRow, Status
    <2> HIDE DEF row
    <2>5. RowFine(row, sales[n])
      BY <2>2, <2>4 DEF RowFine
    <2> QED BY <2>3, <2>4, <2>5, RowMoves
  <1> QED BY <1>2, <1>3, <1>4, <1>5

LEMMA NextFloor == FloorInv /\ [NegotiationNext]_negotiationVars => FloorInv'
PROOF
  <1> SUFFICES ASSUME FloorInv, [NegotiationNext]_negotiationVars PROVE FloorInv'
    OBVIOUS
  <1>1. CASE UNCHANGED negotiationVars
    <2>1. UNCHANGED <<variant, nego, sales, buyerCall, buy>>
      BY <1>1 DEF negotiationVars
    <2>2. BargainTyped' /\ FloorsFrozen
      BY <2>1 DEF FloorInv, BargainTyped, FloorsFrozen
    <2>3. \A m \in Negotiations : RowFine(nego'[m], sales'[m])
      BY <2>1 DEF FloorInv
    <2> QED BY <2>1, <2>2, <2>3, FloorMoves
  <1>2. CASE NegotiationNext
    BY <1>2, SellerFloor, OpenFloor, ReadFloor, AnswerFloor, BuyFloor DEF NegotiationNext
  <1> QED BY <1>1, <1>2

\* For every number of calls and purchases, and whatever the merchant edits meanwhile:
\* no counter, agreement or sale is below the floor frozen when the negotiation opened.
THEOREM FloorHolds == NegotiationSpec => []NeverBelowFloor
PROOF
  <1>1. FloorInv => NeverBelowFloor
    BY DEF FloorInv, RowFine, NeverBelowFloor
  <1> QED BY <1>1, InitFloor, NextFloor, PTL DEF NegotiationSpec

-----------------------------------------------------------------------------
(* One sale, at the price agreed, where nothing has caused another. *)

\* At most one call or purchase has the negotiation in hand.
Lone(n) ==
  /\ \A c, d \in Calls : buyerCall[c].n = n /\ buyerCall[d].n = n => c = d
  /\ \A b, e \in Buys : buy[b].n = n /\ buy[e].n = n => b = e
  /\ \A c \in Calls, b \in Buys : ~(buyerCall[c].n = n /\ buy[b].n = n)

\* A call has it in hand only while it is open, a purchase only while it is agreed; it
\* has been sold, at the agreed price, once that purchase was charged.
Story(n) ==
  /\ \A c \in Calls : buyerCall[c].n = n => nego[n].status = "open"
  /\ \A b \in Buys : buy[b].n = n =>
       /\ nego[n].status = "agreed" /\ buy[b].price = nego[n].agreed
       /\ sales[n] = IF buy[b].pc = "mark" THEN <<nego[n].agreed>> ELSE <<>>
  /\ nego[n].status = "redeemed" => sales[n] = <<nego[n].agreed>>
  /\ nego[n].status # "redeemed" /\ (\A b \in Buys : buy[b].n # n) => sales[n] = <<>>

SoldInv ==
  /\ FloorInv /\ causes \in [Negotiations -> Nat]
  /\ \A n \in Negotiations : causes[n] = 0 => Lone(n) /\ Story(n)

\* The count of causes never falls.
LEMMA CausesGrow ==
  ASSUME causes \in [Negotiations -> Nat], [NegotiationNext]_negotiationVars
  PROVE  /\ causes' \in [Negotiations -> Nat]
         /\ \A n \in Negotiations : causes'[n] >= causes[n]
PROOF
  <1>1. UNCHANGED causes \/ \E n : Cause(n)
    BY DEF NegotiationNext, SetFloor, SetPrice, ReadVariant, CheckOpen, InsertNegotiation, Contest,
           ReadNegotiation, Expire, Agree, RefuseOutOfTurns, Counter, Expires, Charge, Denied,
           MarkRedeemed, Interrupted, Resolve, negotiationVars
  <1> QED BY <1>1, NegotiationAssumption DEF Cause

LEMMA InitSold == NegotiationInit => SoldInv
PROOF
  <1> SUFFICES ASSUME NegotiationInit PROVE SoldInv
    OBVIOUS
  <1>1. /\ nego = [n \in Negotiations |-> NoNegotiation] /\ sales = [n \in Negotiations |-> <<>>]
        /\ buyerCall = [c \in Calls |-> CallIdle] /\ buy = [b \in Buys |-> BuyIdle]
        /\ causes = [n \in Negotiations |-> 0]
    BY DEF NegotiationInit
  <1>2. NoNegotiation.status = "none"
    BY DEF NoNegotiation
  <1>3. ASSUME NEW n \in Negotiations PROVE Lone(n) /\ Story(n)
    <2>1. n # "none"
      BY NegotiationAssumption
    <2> QED BY <1>1, <1>2, <2>1, CallIdleIs DEF Lone, Story
  <1> QED BY <1>1, <1>3, InitFloor DEF SoldInv

\* A step that is about some other negotiation.
LEMMA Elsewhere ==
  ASSUME NEW n \in Negotiations, Lone(n), Story(n), nego'[n] = nego[n], sales'[n] = sales[n],
         \A c \in Calls : buyerCall'[c].n = n => buyerCall[c].n = n,
         \A b \in Buys : buy'[b].n = n \/ buy[b].n = n => buy'[b] = buy[b]
  PROVE  Lone(n)' /\ Story(n)'
  BY DEF Lone, Story

LEMMA CallElsewhere ==
  ASSUME FloorInv, NEW n \in Negotiations, Lone(n), Story(n), NEW c \in Calls, NEW call,
         buyerCall' = [buyerCall EXCEPT ![c] = call], call.n # n,
         nego'[n] = nego[n], UNCHANGED <<sales, buy>>
  PROVE  Lone(n)' /\ Story(n)'
PROOF
  <1>1. \A d \in Calls : buyerCall'[d] = buyerCall[d] \/ buyerCall'[d] = call
    BY DEF FloorInv, BargainTyped
  <1> QED BY <1>1, Elsewhere

LEMMA BuyElsewhere ==
  ASSUME FloorInv, NEW n \in Negotiations, Lone(n), Story(n), NEW b \in Buys, NEW purch,
         buy' = [buy EXCEPT ![b] = purch], purch.n # n, buy[b].n # n,
         nego'[n] = nego[n], sales'[n] = sales[n], UNCHANGED buyerCall
  PROVE  Lone(n)' /\ Story(n)'
PROOF
  <1>1. \A e \in Buys : buy'[e] = buy[e] \/ (e = b /\ buy'[e] = purch)
    BY DEF FloorInv, BargainTyped
  <1> QED BY <1>1, Elsewhere

LEMMA OpenSold ==
  ASSUME SoldInv, NEW c \in Calls, NEW n \in Negotiations, Lone(n), Story(n),
         ReadVariant(c) \/ CheckOpen(c) \/ \E m \in Negotiations : InsertNegotiation(c, m)
  PROVE  Lone(n)' /\ Story(n)'
PROOF
  <1>1. n # "none" /\ UNCHANGED <<sales, buy>>
    BY NegotiationAssumption DEF ReadVariant, CheckOpen, InsertNegotiation
  <1>2. PICK call : buyerCall' = [buyerCall EXCEPT ![c] = call] /\ call.n = "none"
    <2>1. CASE ReadVariant(c)
      <3>1. [CallIdle EXCEPT !.pc = "check", !.seen = Terms].n = "none"
        BY DEF CallIdle
      <3> QED BY <2>1, <3>1 DEF ReadVariant
    <2>2. CASE CheckOpen(c)
      <3>1. buyerCall[c] \in Call /\ buyerCall[c].n = "none"
        BY <2>2 DEF CheckOpen, SoldInv, FloorInv, CallFine, BargainTyped
      <3>2. [buyerCall[c] EXCEPT !.pc = "insert"].n = "none"
        BY <3>1 DEF Call
      <3>3. CASE HasOpen
        BY <2>2, <3>3, CallIdleIs DEF CheckOpen
      <3>4. CASE ~HasOpen
        BY <2>2, <3>2, <3>4 DEF CheckOpen
      <3> QED BY <3>3, <3>4
    <2>3. CASE \E m \in Negotiations : InsertNegotiation(c, m)
      BY <2>3, CallIdleIs DEF InsertNegotiation
    <2> QED BY <2>1, <2>2, <2>3
  <1>3. CASE nego'[n] = nego[n]
    BY <1>1, <1>2, <1>3, CallElsewhere DEF SoldInv
  <1>4. CASE nego'[n] # nego[n]
    <2>1. /\ nego[n] = NoNegotiation /\ nego' = [nego EXCEPT ![n] = buyerCall[c].seen]
          /\ buyerCall[c].pc = "insert"
      BY <1>4 DEF ReadVariant, CheckOpen, InsertNegotiation, SoldInv, FloorInv, BargainTyped
    <2>2. nego[n].status = "none"
      BY <2>1 DEF NoNegotiation
    <2>3. nego'[n].status = "open"
      BY <2>1 DEF SoldInv, FloorInv, CallFine, BargainTyped
    <2>4. /\ \A d \in Calls : buyerCall[d].n # n
          /\ \A b \in Buys : buy[b].n # n
          /\ sales[n] = <<>>
      BY <2>2 DEF Story
    <2>5. \A d \in Calls : buyerCall'[d].n # n
      BY <1>1, <1>2, <2>4 DEF SoldInv, FloorInv, BargainTyped
    <2> QED BY <1>1, <2>3, <2>4, <2>5 DEF Lone, Story
  <1> QED BY <1>3, <1>4

\* Whoever takes up a negotiation without causing a sale finds nobody with it.
LEMMA TakenAlone ==
  ASSUME NEW n \in Negotiations, causes \in [Negotiations -> Nat], Contest(n), causes'[n] = 0
  PROVE  (\A c \in Calls : buyerCall[c].n # n) /\ (\A b \in Buys : buy[b].n # n)
  BY NegotiationAssumption DEF Contest, Cause, InHand

LEMMA ReadSold ==
  ASSUME SoldInv, NEW c \in Calls, NEW m \in Negotiations, NEW offer \in Offers,
         ReadNegotiation(c, m, offer), NEW n \in Negotiations, causes'[n] = 0, Lone(n), Story(n)
  PROVE  Lone(n)' /\ Story(n)'
PROOF
  <1> DEFINE pc == IF m \in overdue THEN "expire" ELSE "answer"
             call == [pc |-> pc, n |-> m, offer |-> offer, seen |-> nego[m]]
  <1>1. buyerCall' = [buyerCall EXCEPT ![c] = call] /\ UNCHANGED <<nego, sales, buy>>
        /\ nego[m].status = "open" /\ Contest(m)
    BY DEF ReadNegotiation, Counterable
  <1>2. call.n = m
    OBVIOUS
  <1> HIDE DEF call
  <1>3. CASE m # n
    BY <1>1, <1>2, <1>3, CallElsewhere DEF SoldInv
  <1>4. CASE m = n
    <2>1. (\A d \in Calls : buyerCall[d].n # n) /\ (\A b \in Buys : buy[b].n # n)
      BY <1>1, <1>4, TakenAlone DEF SoldInv
    <2>2. \A d \in Calls : buyerCall'[d].n = n => d = c
      BY <1>1, <2>1 DEF SoldInv, FloorInv, BargainTyped
    <2>3. Lone(n)'
      BY <1>1, <2>1, <2>2 DEF Lone
    <2>4. Story(n)'
      BY <1>1, <1>4, <2>1 DEF Story
    <2> QED BY <2>3, <2>4
  <1> QED BY <1>3, <1>4

LEMMA AnswerSold ==
  ASSUME SoldInv, NEW c \in Calls, Expire(c) \/ Agree(c) \/ RefuseOutOfTurns(c) \/ Counter(c),
         NEW n \in Negotiations, Lone(n), Story(n)
  PROVE  Lone(n)' /\ Story(n)'
PROOF
  <1>1. /\ buyerCall' = [buyerCall EXCEPT ![c] = CallIdle] /\ UNCHANGED <<sales, buy>>
        /\ buyerCall[c].pc \in {"expire", "answer"} /\ n # "none"
    BY NegotiationAssumption DEF Expire, Agree, RefuseOutOfTurns, Counter
  <1>2. PICK m \in Negotiations : m = buyerCall[c].n
    BY <1>1 DEF SoldInv, FloorInv, CallFine
  <1>3. nego[n] \in NegoRow /\ nego \in [Negotiations -> NegoRow]
    BY DEF SoldInv, FloorInv, BargainTyped
  <1>4. CASE m # n
    <2>1. nego'[n] = nego[n]
      BY <1>2, <1>3, <1>4 DEF Expire, Agree, RefuseOutOfTurns, Counter
    <2> QED BY <1>1, <2>1, CallIdleIs, CallElsewhere DEF SoldInv
  <1>5. CASE m = n
    <2>1. nego[n].status = "open" /\ (\A b \in Buys : buy[b].n # n) /\ sales[n] = <<>>
      BY <1>2, <1>5 DEF Lone, Story
    <2>2. nego'[n].status # "redeemed"
      <3>1. CASE Expire(c)
        BY <1>2, <1>3, <1>5, <3>1 DEF Expire, NegoRow
      <3>2. CASE Agree(c)
        BY <1>2, <1>3, <1>5, <3>2 DEF Agree, NegoRow
      <3>3. CASE RefuseOutOfTurns(c)
        BY <1>2, <1>3, <1>5, <3>3 DEF RefuseOutOfTurns, NegoRow
      <3>4. CASE Counter(c)
        BY <1>2, <1>3, <1>5, <2>1, <3>4 DEF Counter, NegoRow
      <3> QED BY <3>1, <3>2, <3>3, <3>4
    <2>3. \A d \in Calls : buyerCall'[d].n # n
      <3>1. buyerCall \in [Calls -> Call] /\ \A d \in Calls : d # c => buyerCall[d].n # n
        BY <1>2, <1>5 DEF Lone, SoldInv, FloorInv, BargainTyped
      <3> QED BY <1>1, <3>1, CallIdleIs
    <2> QED BY <1>1, <2>1, <2>2, <2>3 DEF Lone, Story
  <1> QED BY <1>4, <1>5

LEMMA BuySold ==
  ASSUME SoldInv, NEW b \in Buys,
         \/ Charge(b) \/ Denied(b) \/ MarkRedeemed(b) \/ Interrupted(b)
         \/ \E m \in Negotiations : Resolve(b, m),
         NEW n \in Negotiations, causes'[n] = 0, Lone(n), Story(n)
  PROVE  Lone(n)' /\ Story(n)'
PROOF
  <1>1. /\ buy[b] \in Purchase /\ BuyFine(buy[b]) /\ n # "none" /\ UNCHANGED buyerCall
        /\ nego \in [Negotiations -> NegoRow] /\ sales \in [Negotiations -> Seq(Int)]
        /\ buy \in [Buys -> Purchase]
    BY NegotiationAssumption DEF SoldInv, FloorInv, BargainTyped, Charge, Denied, MarkRedeemed, Interrupted, Resolve
  <1>2. ASSUME NEW m \in Negotiations, Resolve(b, m) PROVE Lone(n)' /\ Story(n)'
    <2> DEFINE purch == [pc |-> "charge", n |-> m, price |-> nego[m].agreed]
    <2>1. buy' = [buy EXCEPT ![b] = purch] /\ UNCHANGED <<nego, sales>> /\ Contest(m)
          /\ nego[m].status = "agreed" /\ buy[b].n = "none"
      BY <1>1, <1>2 DEF Resolve, BuyFine
    <2>2. purch.n = m /\ purch.price = nego[m].agreed /\ purch.pc = "charge"
      OBVIOUS
    <2> HIDE DEF purch
    <2>3. CASE m # n
      BY <1>1, <2>1, <2>2, <2>3, BuyElsewhere DEF SoldInv
    <2>4. CASE m = n
      <3>1. (\A d \in Calls : buyerCall[d].n # n) /\ (\A e \in Buys : buy[e].n # n)
        BY <2>1, <2>4, TakenAlone DEF SoldInv
      <3>2. \A e \in Buys : buy'[e].n = n => e = b /\ buy'[e] = purch
        BY <1>1, <2>1, <3>1
      <3>3. sales[n] = <<>>
        BY <2>1, <2>4, <3>1 DEF Story
      <3>4. buy'[b] = purch
        BY <1>1, <2>1
      <3>5. Lone(n)'
        BY <1>1, <3>1, <3>2 DEF Lone
      <3>6. Story(n)'
        BY <1>1, <2>1, <2>2, <2>4, <3>1, <3>2, <3>3 DEF Story
      <3> QED BY <3>5, <3>6
    <2> QED BY <2>3, <2>4
  <1>3. CASE Charge(b)
    <2> DEFINE purch == [buy[b] EXCEPT !.pc = "mark"]
    <2>1. /\ buy[b].pc = "charge" /\ buy' = [buy EXCEPT ![b] = purch] /\ UNCHANGED nego
          /\ sales' = [sales EXCEPT ![buy[b].n] = Append(sales[buy[b].n], buy[b].price)]
      BY <1>3 DEF Charge
    <2>2. purch.pc = "mark" /\ purch.n = buy[b].n /\ purch.price = buy[b].price
      BY <1>1 DEF Purchase
    <2> HIDE DEF purch
    <2>3. CASE buy[b].n # n
      BY <1>1, <2>1, <2>2, <2>3, BuyElsewhere DEF SoldInv
    <2>4. CASE buy[b].n = n
      <3>1. /\ nego[n].status = "agreed" /\ buy[b].price = nego[n].agreed /\ sales[n] = <<>>
            /\ \A d \in Calls : buyerCall[d].n # n
            /\ \A e \in Buys : buy[e].n = n => e = b
        BY <2>1, <2>4 DEF Lone, Story
      <3>2. sales'[n] = <<nego[n].agreed>>
        BY <1>1, <2>1, <2>4, <3>1
      <3>3. /\ buy'[b] = purch /\ \A e \in Buys : buy'[e].n = n => e = b
        BY <1>1, <2>1, <3>1
      <3>4. Lone(n)'
        BY <1>1, <3>1, <3>3 DEF Lone
      <3>5. Story(n)'
        BY <1>1, <2>1, <2>2, <2>4, <3>1, <3>2, <3>3 DEF Story
      <3> QED BY <3>4, <3>5
    <2> QED BY <2>3, <2>4
  <1>4. CASE Denied(b)
    <2>1. buy' = [buy EXCEPT ![b] = BuyIdle] /\ UNCHANGED <<nego, sales>> /\ buy[b].pc = "charge"
      BY <1>4 DEF Denied
    <2>2. CASE buy[b].n # n
      BY <1>1, <2>1, <2>2, CallIdleIs, BuyElsewhere DEF SoldInv
    <2>3. CASE buy[b].n = n
      <3>1. /\ nego[n].status = "agreed" /\ sales[n] = <<>>
            /\ \A d \in Calls : buyerCall[d].n # n
            /\ \A e \in Buys : buy[e].n = n => e = b
        BY <2>1, <2>3 DEF Lone, Story
      <3>2. \A e \in Buys : buy'[e].n # n
        BY <1>1, <2>1, <3>1, CallIdleIs
      <3> QED BY <1>1, <2>1, <3>1, <3>2 DEF Lone, Story
    <2> QED BY <2>2, <2>3
  <1>5. CASE MarkRedeemed(b)
    <2>1. /\ buy[b].pc = "mark" /\ buy' = [buy EXCEPT ![b] = BuyIdle] /\ UNCHANGED sales
          /\ nego' = [nego EXCEPT ![buy[b].n] = Redeemed(nego[buy[b].n])]
      BY <1>5 DEF MarkRedeemed
    <2>2. CASE buy[b].n # n
      BY <1>1, <2>1, <2>2, CallIdleIs, BuyElsewhere DEF SoldInv
    <2>3. CASE buy[b].n = n
      <3>1. /\ nego[n].status = "agreed" /\ sales[n] = <<nego[n].agreed>>
            /\ \A d \in Calls : buyerCall[d].n # n
            /\ \A e \in Buys : buy[e].n = n => e = b
        BY <2>1, <2>3 DEF Lone, Story
      <3>2. nego'[n].status = "redeemed" /\ nego'[n].agreed = nego[n].agreed
        BY <1>1, <2>1, <2>3, <3>1 DEF Redeemed, NegoRow
      <3>3. \A e \in Buys : buy'[e].n # n
        BY <1>1, <2>1, <3>1, CallIdleIs
      <3> QED BY <1>1, <2>1, <3>1, <3>2, <3>3 DEF Lone, Story
    <2> QED BY <2>2, <2>3
  <1>6. CASE Interrupted(b)
    <2>1. /\ buy[b].pc = "mark" /\ buy' = [buy EXCEPT ![b] = BuyIdle] /\ UNCHANGED <<nego, sales>>
          /\ Cause(buy[b].n)
      BY <1>6 DEF Interrupted
    <2>2. buy[b].n # n
      BY <1>1, <2>1, NegotiationAssumption DEF Cause, SoldInv
    <2> QED BY <1>1, <2>1, <2>2, CallIdleIs, BuyElsewhere DEF SoldInv
  <1> QED BY <1>2, <1>3, <1>4, <1>5, <1>6

LEMMA NextSold == SoldInv /\ [NegotiationNext]_negotiationVars => SoldInv'
PROOF
  <1> SUFFICES ASSUME SoldInv, [NegotiationNext]_negotiationVars PROVE SoldInv'
    OBVIOUS
  <1>1. FloorInv'
    BY NextFloor DEF SoldInv
  <1>2. causes \in [Negotiations -> Nat] /\ causes' \in [Negotiations -> Nat]
        /\ \A n \in Negotiations : causes'[n] >= causes[n]
    BY CausesGrow DEF SoldInv
  <1>3. ASSUME NEW n \in Negotiations, causes'[n] = 0 PROVE Lone(n)' /\ Story(n)'
    <2>1. causes[n] = 0 /\ Lone(n) /\ Story(n)
      BY <1>2, <1>3 DEF SoldInv
    <2>2. CASE \/ \E f \in Floors \cup {NoPrice} : SetFloor(f)
               \/ \E p \in CatalogPrices : SetPrice(p)
               \/ \E m \in Negotiations : Expires(m)
               \/ UNCHANGED negotiationVars
      <3>1. UNCHANGED <<nego, sales, buyerCall, buy>>
        BY <2>2 DEF SetFloor, SetPrice, Expires, negotiationVars
      <3> QED BY <2>1, <3>1, Elsewhere
    <2>3. CASE \E c \in Calls : \/ ReadVariant(c) \/ CheckOpen(c)
                                \/ \E m \in Negotiations : InsertNegotiation(c, m)
      BY <2>1, <2>3, OpenSold
    <2>4. CASE \E c \in Calls, m \in Negotiations, offer \in Offers : ReadNegotiation(c, m, offer)
      BY <1>3, <2>1, <2>4, ReadSold
    <2>5. CASE \E c \in Calls : Expire(c) \/ Agree(c) \/ RefuseOutOfTurns(c) \/ Counter(c)
      BY <2>1, <2>5, AnswerSold
    <2>6. CASE \E b \in Buys : \/ Charge(b) \/ Denied(b) \/ MarkRedeemed(b) \/ Interrupted(b)
                               \/ \E m \in Negotiations : Resolve(b, m)
      BY <1>3, <2>1, <2>6, BuySold
    <2> QED BY <2>2, <2>3, <2>4, <2>5, <2>6 DEF NegotiationNext
  <1> QED BY <1>1, <1>2, <1>3 DEF SoldInv

-----------------------------------------------------------------------------
(* Every further sale has a cause of its own. *)

Answering(n) == {c \in Calls : buyerCall[c].pc = "answer" /\ buyerCall[c].n = n}
Charging(n) == {b \in Buys : buy[b].pc = "charge" /\ buy[b].n = n}

\* An agreement nobody is buying at.
Offered(n) == IF nego[n].status = "agreed" /\ \A b \in Buys : buy[b].n # n THEN 1 ELSE 0

\* The sales made, and those still to come of what is under way or agreed.
Weight(n) == Len(sales[n]) + Cardinality(Answering(n)) + Cardinality(Charging(n)) + Offered(n)

Unsold(n) == nego[n].status \in {"none", "open"}

CountFine(n) ==
  /\ causes[n] < MaxSales => Weight(n) <= 1 + causes[n]
  /\ Unsold(n) => sales[n] = <<>> /\ \A b \in Buys : buy[b].n # n

CountInv ==
  /\ FloorInv /\ causes \in [Negotiations -> Nat]
  /\ \A n \in Negotiations : CountFine(n)

\* Every part of the weight is a natural number.
LEMMA WeightNat ==
  ASSUME BargainTyped, NEW n \in Negotiations
  PROVE  /\ Len(sales[n]) \in Nat /\ Cardinality(Answering(n)) \in Nat
         /\ Cardinality(Charging(n)) \in Nat /\ Offered(n) \in {0, 1} /\ Weight(n) \in Nat
PROOF
  <1>1. IsFiniteSet(Answering(n)) /\ IsFiniteSet(Charging(n))
    BY FS_Subset, NegotiationAssumption DEF Answering, Charging
  <1>2. Cardinality(Answering(n)) \in Nat /\ Cardinality(Charging(n)) \in Nat
    BY <1>1, FS_CardinalityType
  <1>3. Len(sales[n]) \in Nat
    BY DEF BargainTyped
  <1>4. Offered(n) \in {0, 1}
    BY DEF Offered
  <1> QED BY <1>2, <1>3, <1>4 DEF Weight

LEMMA WeightNatNext ==
  ASSUME BargainTyped', NEW n \in Negotiations
  PROVE  /\ Len(sales'[n]) \in Nat /\ Cardinality(Answering(n)') \in Nat
         /\ Cardinality(Charging(n)') \in Nat /\ Offered(n)' \in {0, 1} /\ Weight(n)' \in Nat
PROOF
  <1>1. IsFiniteSet(Answering(n)') /\ IsFiniteSet(Charging(n)')
    BY FS_Subset, NegotiationAssumption DEF Answering, Charging
  <1>2. Cardinality(Answering(n)') \in Nat /\ Cardinality(Charging(n)') \in Nat
    BY <1>1, FS_CardinalityType
  <1>3. Len(sales'[n]) \in Nat
    BY DEF BargainTyped
  <1>4. Offered(n)' \in {0, 1}
    BY DEF Offered
  <1> QED BY <1>2, <1>3, <1>4 DEF Weight

\* The parts of the weight, before and after a step.
LEMMA Parts ==
  ASSUME BargainTyped, NEW n \in Negotiations
  PROVE  \E s \in Nat, a \in Nat, c \in Nat, o \in Nat :
           /\ s = Len(sales[n]) /\ a = Cardinality(Answering(n))
           /\ c = Cardinality(Charging(n)) /\ o = Offered(n) /\ o <= 1
           /\ Weight(n) = s + a + c + o
  BY WeightNat DEF Weight

LEMMA PartsNext ==
  ASSUME BargainTyped', NEW n \in Negotiations
  PROVE  \E s \in Nat, a \in Nat, c \in Nat, o \in Nat :
           /\ s = Len(sales'[n]) /\ a = Cardinality(Answering(n)')
           /\ c = Cardinality(Charging(n)') /\ o = Offered(n)' /\ o <= 1
           /\ Weight(n)' = s + a + c + o
  BY WeightNatNext DEF Weight

\* The weight does not grow.
LEMMA CountLess ==
  ASSUME CountInv, BargainTyped', NEW n \in Negotiations, causes'[n] = causes[n],
         Weight(n)' <= Weight(n),
         Unsold(n)' => Unsold(n) /\ sales'[n] = sales[n] /\ \A b \in Buys : buy'[b].n = n => buy[b].n = n
  PROVE  CountFine(n)'
PROOF
  <1>1. Weight(n) \in Nat /\ CountFine(n) /\ causes[n] \in Nat
    BY WeightNat DEF CountInv, FloorInv
  <1>2. Weight(n)' \in Nat
    BY WeightNatNext
  <1>3. causes'[n] < MaxSales => Weight(n)' <= 1 + causes'[n]
    BY <1>1, <1>2, NegotiationAssumption DEF CountFine
  <1> QED BY <1>1, <1>3 DEF CountFine

\* It grows by one, and so do the causes.
LEMMA CountMore ==
  ASSUME CountInv, BargainTyped', NEW n \in Negotiations, Cause(n), Weight(n)' <= Weight(n) + 1,
         Unsold(n)' => Unsold(n) /\ sales'[n] = sales[n] /\ \A b \in Buys : buy'[b].n = n => buy[b].n = n
  PROVE  CountFine(n)'
PROOF
  <1>1. Weight(n) \in Nat /\ CountFine(n) /\ causes[n] \in Nat
    BY WeightNat DEF CountInv, FloorInv
  <1>2. Weight(n)' \in Nat
    BY WeightNatNext
  <1>3. causes'[n] = IF causes[n] < MaxSales THEN causes[n] + 1 ELSE causes[n]
    BY DEF Cause, CountInv
  <1>4. causes'[n] < MaxSales => Weight(n)' <= 1 + causes'[n]
    BY <1>1, <1>2, <1>3, NegotiationAssumption DEF CountFine
  <1> QED BY <1>1, <1>4 DEF CountFine

\* One call moves.
LEMMA AnsweringMoves ==
  ASSUME BargainTyped, NEW n \in Negotiations, NEW c \in Calls, NEW call,
         buyerCall' = [buyerCall EXCEPT ![c] = call]
  PROVE  LET was == buyerCall[c].pc = "answer" /\ buyerCall[c].n = n
             now == call.pc = "answer" /\ call.n = n
         IN /\ (was <=> now) => Cardinality(Answering(n)') = Cardinality(Answering(n))
            /\ was /\ ~now => Cardinality(Answering(n)') = Cardinality(Answering(n)) - 1
            /\ ~was /\ now => Cardinality(Answering(n)') = Cardinality(Answering(n)) + 1
PROOF
  <1> DEFINE before == Answering(n)
             without == before \ {c}
  <1>1. IsFiniteSet(before)
    BY FS_Subset, NegotiationAssumption DEF Answering
  <1>2. IsFiniteSet(without) /\ Cardinality(without) = Cardinality(before) - (IF c \in before THEN 1 ELSE 0)
    BY <1>1, FS_RemoveElement, FS_CardinalityType
  <1>3. Cardinality(without \cup {c}) = Cardinality(without) + 1
    BY <1>2, FS_AddElement
  <1>4. c \in before <=> buyerCall[c].pc = "answer" /\ buyerCall[c].n = n
    BY DEF Answering
  <1>5. Answering(n)' = IF call.pc = "answer" /\ call.n = n THEN without \cup {c} ELSE without
    <2>1. buyerCall'[c] = call /\ \A d \in Calls : d # c => buyerCall'[d] = buyerCall[d]
      BY DEF BargainTyped
    <2> QED BY <2>1 DEF Answering
  <1>6. Cardinality(before) \in Nat
    BY <1>1, FS_CardinalityType
  <1> HIDE DEF before, without
  <1>7. Cardinality(before) = Cardinality(Answering(n))
    BY DEF before
  <1> QED BY <1>2, <1>3, <1>4, <1>5, <1>6, <1>7

\* One purchase moves.
LEMMA ChargingMoves ==
  ASSUME BargainTyped, NEW n \in Negotiations, NEW b \in Buys, NEW purch,
         buy' = [buy EXCEPT ![b] = purch]
  PROVE  LET was == buy[b].pc = "charge" /\ buy[b].n = n
             now == purch.pc = "charge" /\ purch.n = n
         IN /\ (was <=> now) => Cardinality(Charging(n)') = Cardinality(Charging(n))
            /\ was /\ ~now => Cardinality(Charging(n)') = Cardinality(Charging(n)) - 1
            /\ ~was /\ now => Cardinality(Charging(n)') = Cardinality(Charging(n)) + 1
PROOF
  <1> DEFINE before == Charging(n)
             without == before \ {b}
  <1>1. IsFiniteSet(before)
    BY FS_Subset, NegotiationAssumption DEF Charging
  <1>2. IsFiniteSet(without) /\ Cardinality(without) = Cardinality(before) - (IF b \in before THEN 1 ELSE 0)
    BY <1>1, FS_RemoveElement, FS_CardinalityType
  <1>3. Cardinality(without \cup {b}) = Cardinality(without) + 1
    BY <1>2, FS_AddElement
  <1>4. b \in before <=> buy[b].pc = "charge" /\ buy[b].n = n
    BY DEF Charging
  <1>5. Charging(n)' = IF purch.pc = "charge" /\ purch.n = n THEN without \cup {b} ELSE without
    <2>1. buy'[b] = purch /\ \A e \in Buys : e # b => buy'[e] = buy[e]
      BY DEF BargainTyped
    <2> QED BY <2>1 DEF Charging
  <1>6. Cardinality(before) \in Nat
    BY <1>1, FS_CardinalityType
  <1> HIDE DEF before, without
  <1>7. Cardinality(before) = Cardinality(Charging(n))
    BY DEF before
  <1> QED BY <1>2, <1>3, <1>4, <1>5, <1>6, <1>7

LEMMA InitCount == NegotiationInit => CountInv
PROOF
  <1> SUFFICES ASSUME NegotiationInit PROVE CountInv
    OBVIOUS
  <1>1. /\ nego = [n \in Negotiations |-> NoNegotiation] /\ sales = [n \in Negotiations |-> <<>>]
        /\ buyerCall = [c \in Calls |-> CallIdle] /\ buy = [b \in Buys |-> BuyIdle]
        /\ causes = [n \in Negotiations |-> 0]
    BY DEF NegotiationInit
  <1>2. ASSUME NEW n \in Negotiations PROVE CountFine(n)
    <2>1. n # "none" /\ nego[n].status = "none" /\ sales[n] = <<>> /\ causes[n] = 0
      BY <1>1, <1>2, NegotiationAssumption DEF NoNegotiation
    <2>2. \A b \in Buys : buy[b].n # n /\ buy[b].pc = "idle"
      BY <1>1, <2>1, CallIdleIs
    <2>3. Answering(n) = {} /\ Charging(n) = {} /\ Offered(n) = 0
      BY <1>1, <2>1, <2>2, CallIdleIs DEF Answering, Charging, Offered
    <2>4. Weight(n) = 0
      BY <2>1, <2>3, FS_EmptySet DEF Weight
    <2> QED BY <2>1, <2>2, <2>4 DEF CountFine
  <1> QED BY <1>1, <1>2, InitFloor DEF CountInv

\* A call that takes up nothing, or a step of the merchant or the clock.
LEMMA ElseCount ==
  ASSUME CountInv, BargainTyped', NEW n \in Negotiations, UNCHANGED <<sales, buy, causes>>,
         nego'[n].status = nego[n].status \/ (Unsold(n) /\ nego'[n].status = "open"),
         Cardinality(Answering(n)') <= Cardinality(Answering(n))
  PROVE  CountFine(n)'
PROOF
  <1>p. PICK s0 \in Nat, a0 \in Nat, c0 \in Nat, o0 \in Nat :
          /\ s0 = Len(sales[n]) /\ a0 = Cardinality(Answering(n))
          /\ c0 = Cardinality(Charging(n)) /\ o0 = Offered(n) /\ o0 <= 1
          /\ Weight(n) = s0 + a0 + c0 + o0
    BY Parts DEF CountInv, FloorInv
  <1>q. PICK s1 \in Nat, a1 \in Nat, c1 \in Nat, o1 \in Nat :
          /\ s1 = Len(sales'[n]) /\ a1 = Cardinality(Answering(n)')
          /\ c1 = Cardinality(Charging(n)') /\ o1 = Offered(n)' /\ o1 <= 1
          /\ Weight(n)' = s1 + a1 + c1 + o1
    BY PartsNext
  <1>0. /\ s0 = Len(sales[n]) /\ a0 = Cardinality(Answering(n))
        /\ c0 = Cardinality(Charging(n)) /\ o0 = Offered(n)
        /\ s1 = Len(sales'[n]) /\ a1 = Cardinality(Answering(n)')
        /\ c1 = Cardinality(Charging(n)') /\ o1 = Offered(n)'
    BY <1>p, <1>q
  <1>w. Weight(n) = s0 + a0 + c0 + o0 /\ Weight(n)' = s1 + a1 + c1 + o1 /\ o1 <= 1
    BY <1>p, <1>q, Zenon
  <1>1. Charging(n)' = Charging(n) /\ o1 <= o0
    BY <1>0 DEF Charging, Offered, Unsold
  <1>2. Weight(n)' <= Weight(n)
    <2>1. s1 = s0 /\ c1 = c0 /\ a1 <= a0
      BY <1>1, <1>0
    <2> QED BY <1>1, <2>1, <1>w
  <1> QED BY <1>2, CountLess DEF Unsold

LEMMA OpenCount ==
  ASSUME CountInv, BargainTyped', NEW c \in Calls, NEW n \in Negotiations,
         ReadVariant(c) \/ CheckOpen(c) \/ \E m \in Negotiations : InsertNegotiation(c, m)
  PROVE  CountFine(n)'
PROOF
  <1>p. PICK s0 \in Nat, a0 \in Nat, c0 \in Nat, o0 \in Nat :
          /\ s0 = Len(sales[n]) /\ a0 = Cardinality(Answering(n))
          /\ c0 = Cardinality(Charging(n)) /\ o0 = Offered(n) /\ o0 <= 1
          /\ Weight(n) = s0 + a0 + c0 + o0
    BY Parts DEF CountInv, FloorInv
  <1>q. PICK s1 \in Nat, a1 \in Nat, c1 \in Nat, o1 \in Nat :
          /\ s1 = Len(sales'[n]) /\ a1 = Cardinality(Answering(n)')
          /\ c1 = Cardinality(Charging(n)') /\ o1 = Offered(n)' /\ o1 <= 1
          /\ Weight(n)' = s1 + a1 + c1 + o1
    BY PartsNext
  <1>0. /\ s0 = Len(sales[n]) /\ a0 = Cardinality(Answering(n))
        /\ c0 = Cardinality(Charging(n)) /\ o0 = Offered(n)
        /\ s1 = Len(sales'[n]) /\ a1 = Cardinality(Answering(n)')
        /\ c1 = Cardinality(Charging(n)') /\ o1 = Offered(n)'
    BY <1>p, <1>q
  <1>w. Weight(n) = s0 + a0 + c0 + o0 /\ Weight(n)' = s1 + a1 + c1 + o1 /\ o1 <= 1
    BY <1>p, <1>q, Zenon
  <1>1. BargainTyped /\ buyerCall[c] \in Call /\ CallFine(buyerCall[c]) /\ nego \in [Negotiations -> NegoRow]
    BY DEF CountInv, FloorInv, BargainTyped
  <1>2. UNCHANGED <<sales, buy, causes>> /\ buyerCall[c].pc \in {"idle", "check", "insert"}
    BY DEF ReadVariant, CheckOpen, InsertNegotiation
  <1>3. PICK call : buyerCall' = [buyerCall EXCEPT ![c] = call] /\ call.pc # "answer"
    <2>1. CASE ReadVariant(c)
      <3>1. [CallIdle EXCEPT !.pc = "check", !.seen = Terms].pc = "check"
        BY DEF CallIdle
      <3> QED BY <2>1, <3>1 DEF ReadVariant
    <2>2. CASE CheckOpen(c)
      <3>1. [buyerCall[c] EXCEPT !.pc = "insert"].pc = "insert"
        BY <1>1 DEF Call
      <3>2. CASE HasOpen
        BY <2>2, <3>2, CallIdleIs DEF CheckOpen
      <3>3. CASE ~HasOpen
        BY <2>2, <3>1, <3>3 DEF CheckOpen
      <3> QED BY <3>2, <3>3
    <2>3. CASE \E m \in Negotiations : InsertNegotiation(c, m)
      BY <2>3, CallIdleIs DEF InsertNegotiation
    <2> QED BY <2>1, <2>2, <2>3
  <1>4. a1 <= a0
    <2>1. Cardinality(Answering(n)') = Cardinality(Answering(n))
      BY <1>1, <1>2, <1>3, AnsweringMoves
    <2>2. a1 = a0
      BY <1>0, <2>1
    <2> QED BY <2>2
  <1>5. nego'[n].status = nego[n].status \/ (Unsold(n) /\ nego'[n].status = "open")
    <2>1. CASE \E m \in Negotiations : InsertNegotiation(c, m)
      <3>1. PICK m \in Negotiations : /\ nego' = [nego EXCEPT ![m] = buyerCall[c].seen]
                                      /\ nego[m] = NoNegotiation /\ buyerCall[c].pc = "insert"
        BY <2>1 DEF InsertNegotiation
      <3>2. nego[m].status = "none" /\ buyerCall[c].seen.status = "open"
        BY <1>1, <3>1 DEF NoNegotiation, CallFine
      <3> QED BY <1>1, <3>1, <3>2 DEF Unsold
    <2> QED BY <2>1 DEF ReadVariant, CheckOpen
  <1> QED BY <1>2, <1>4, <1>5, <1>0, ElseCount

LEMMA ReadCount ==
  ASSUME CountInv, BargainTyped', NEW c \in Calls, NEW m \in Negotiations, NEW offer \in Offers,
         ReadNegotiation(c, m, offer), NEW n \in Negotiations
  PROVE  CountFine(n)'
PROOF
  <1>p. PICK s0 \in Nat, a0 \in Nat, c0 \in Nat, o0 \in Nat :
          /\ s0 = Len(sales[n]) /\ a0 = Cardinality(Answering(n))
          /\ c0 = Cardinality(Charging(n)) /\ o0 = Offered(n) /\ o0 <= 1
          /\ Weight(n) = s0 + a0 + c0 + o0
    BY Parts DEF CountInv, FloorInv
  <1>q. PICK s1 \in Nat, a1 \in Nat, c1 \in Nat, o1 \in Nat :
          /\ s1 = Len(sales'[n]) /\ a1 = Cardinality(Answering(n)')
          /\ c1 = Cardinality(Charging(n)') /\ o1 = Offered(n)' /\ o1 <= 1
          /\ Weight(n)' = s1 + a1 + c1 + o1
    BY PartsNext
  <1>0. /\ s0 = Len(sales[n]) /\ a0 = Cardinality(Answering(n))
        /\ c0 = Cardinality(Charging(n)) /\ o0 = Offered(n)
        /\ s1 = Len(sales'[n]) /\ a1 = Cardinality(Answering(n)')
        /\ c1 = Cardinality(Charging(n)') /\ o1 = Offered(n)'
    BY <1>p, <1>q
  <1>w. Weight(n) = s0 + a0 + c0 + o0 /\ Weight(n)' = s1 + a1 + c1 + o1 /\ o1 <= 1
    BY <1>p, <1>q, Zenon
  <1>1. BargainTyped /\ UNCHANGED <<nego, sales, buy>> /\ Contest(m) /\ buyerCall[c].pc = "idle"
        /\ nego[m].status = "open"
    BY DEF CountInv, FloorInv, ReadNegotiation, Counterable
  <1> DEFINE taken == [pc |-> IF m \in overdue THEN "expire" ELSE "answer",
                       n |-> m, offer |-> offer, seen |-> nego[m]]
  <1>2. PICK call : buyerCall' = [buyerCall EXCEPT ![c] = call] /\ call.n = m
    <2>1. buyerCall' = [buyerCall EXCEPT ![c] = taken] /\ taken.n = m
      BY DEF ReadNegotiation
    <2> HIDE DEF taken
    <2> QED BY <2>1
  <1>3. PICK a \in Nat : /\ a1 <= a0 + a /\ a <= 1
                       /\ (m # n => a = 0)
    <2>1. buyerCall[c].pc # "answer"
      BY <1>1
    <2>2. CASE call.pc = "answer" /\ m = n
      <3>1. a1 = a0 + 1
        BY <1>1, <1>2, <2>1, <2>2, <1>0, AnsweringMoves
      <3> QED BY <1>1, <2>2, <3>1, <1>0
    <2>3. CASE ~(call.pc = "answer" /\ m = n)
      <3>1. a1 = a0
        BY <1>1, <1>2, <2>1, <2>3, <1>0, AnsweringMoves
      <3> QED BY <1>1, <2>3, <3>1, <1>0
    <2> QED BY <2>2, <2>3
  <1>4. Charging(n)' = Charging(n) /\ o1 = o0 /\ (Unsold(n)' <=> Unsold(n))
    BY <1>0, <1>1 DEF Charging, Offered, Unsold
  <1>8. PICK w0 \in Nat, w1 \in Nat : w0 = Weight(n) /\ w1 = Weight(n)' /\ w1 <= w0 + a
    <2>1. s1 = s0 /\ c1 = c0 /\ o1 = o0
      BY <1>0, <1>1, <1>4
    <2>2. s1 + a1 + c1 + o1 <= s0 + a0 + c0 + o0 + a
      BY <1>3, <2>1
    <2> QED BY <2>2, <1>w
  <1>5. CASE m # n
    <2>1. Weight(n)' <= Weight(n)
      BY <1>3, <1>5, <1>8
    <2>2. causes'[n] = causes[n]
      BY <1>1, <1>5 DEF Contest, Cause, CountInv
    <2> QED BY <1>1, <1>4, <2>1, <2>2, CountLess
  <1>6. CASE m = n /\ n \in InHand
    <2>1. Weight(n)' <= Weight(n) + 1
      BY <1>3, <1>8
    <2> QED BY <1>1, <1>4, <1>6, <2>1, CountMore DEF Contest
  <1>7. CASE m = n /\ n \notin InHand
    <2>1. Answering(n) = {} /\ Charging(n) = {} /\ o0 = 0
      BY <1>0, <1>1, <1>7 DEF InHand, Answering, Charging, Offered
    <2>2. sales[n] = <<>>
      BY <1>1, <1>7 DEF CountInv, CountFine, Unsold
    <2>3. Weight(n)' <= 1
      <3>1. Weight(n) = 0
        <4>1. s0 = 0 /\ a0 = 0 /\ c0 = 0
          BY <2>1, <2>2, <1>0, FS_EmptySet
        <4> QED BY <2>1, <4>1, <1>w
      <3> QED BY <1>3, <1>8, <3>1
    <2>4. causes'[n] = causes[n] /\ causes[n] \in Nat
      BY <1>1, <1>7 DEF Contest, CountInv
    <2>5. Weight(n)' \in Nat
      BY <1>w
    <2>6. Unsold(n)' => sales'[n] = <<>> /\ \A b \in Buys : buy'[b].n # n
      BY <1>1, <1>4 DEF CountInv, CountFine
    <2>7. causes'[n] < MaxSales => Weight(n)' <= 1 + causes'[n]
      BY <2>3, <2>4, <2>5
    <2> QED BY <2>6, <2>7 DEF CountFine
  <1> QED BY <1>5, <1>6, <1>7

LEMMA AnswerCount ==
  ASSUME CountInv, BargainTyped', NEW c \in Calls, NEW n \in Negotiations,
         Expire(c) \/ Agree(c) \/ RefuseOutOfTurns(c) \/ Counter(c)
  PROVE  CountFine(n)'
PROOF
  <1>p. PICK s0 \in Nat, a0 \in Nat, c0 \in Nat, o0 \in Nat :
          /\ s0 = Len(sales[n]) /\ a0 = Cardinality(Answering(n))
          /\ c0 = Cardinality(Charging(n)) /\ o0 = Offered(n) /\ o0 <= 1
          /\ Weight(n) = s0 + a0 + c0 + o0
    BY Parts DEF CountInv, FloorInv
  <1>q. PICK s1 \in Nat, a1 \in Nat, c1 \in Nat, o1 \in Nat :
          /\ s1 = Len(sales'[n]) /\ a1 = Cardinality(Answering(n)')
          /\ c1 = Cardinality(Charging(n)') /\ o1 = Offered(n)' /\ o1 <= 1
          /\ Weight(n)' = s1 + a1 + c1 + o1
    BY PartsNext
  <1>0. /\ s0 = Len(sales[n]) /\ a0 = Cardinality(Answering(n))
        /\ c0 = Cardinality(Charging(n)) /\ o0 = Offered(n)
        /\ s1 = Len(sales'[n]) /\ a1 = Cardinality(Answering(n)')
        /\ c1 = Cardinality(Charging(n)') /\ o1 = Offered(n)'
    BY <1>p, <1>q
  <1>w. Weight(n) = s0 + a0 + c0 + o0 /\ Weight(n)' = s1 + a1 + c1 + o1 /\ o1 <= 1
    BY <1>p, <1>q, Zenon
  <1>1. /\ buyerCall' = [buyerCall EXCEPT ![c] = CallIdle] /\ UNCHANGED <<sales, buy, causes>>
        /\ buyerCall[c].pc \in {"expire", "answer"}
    BY DEF Expire, Agree, RefuseOutOfTurns, Counter
  <1>2. BargainTyped /\ nego \in [Negotiations -> NegoRow]
    BY DEF CountInv, FloorInv, BargainTyped
  <1>3. PICK m \in Negotiations : m = buyerCall[c].n
    BY <1>1 DEF CountInv, FloorInv, CallFine
  <1>4. /\ a1 <= a0
        /\ buyerCall[c].pc = "answer" /\ m = n => a1 <= a0 - 1
    <2>1. CASE buyerCall[c].pc = "answer" /\ m = n
      <3>1. a1 = a0 - 1
        BY <1>1, <1>2, <1>3, <2>1, <1>0, AnsweringMoves, CallIdleIs
      <3> QED BY <3>1
    <2>2. CASE ~(buyerCall[c].pc = "answer" /\ m = n)
      <3>1. a1 = a0
        BY <1>1, <1>2, <1>3, <2>2, <1>0, AnsweringMoves, CallIdleIs
      <3> QED BY <2>2, <3>1
    <2> QED BY <2>1, <2>2
  <1>5. CASE m # n
    <2>1. nego'[n] = nego[n]
      BY <1>2, <1>3, <1>5 DEF Expire, Agree, RefuseOutOfTurns, Counter
    <2> QED BY <1>1, <1>4, <2>1, <1>0, ElseCount
  <1>6. CASE m = n /\ Agree(c)
    <2>1. nego'[n].status = "agreed" /\ buyerCall[c].pc = "answer"
      BY <1>2, <1>3, <1>6 DEF Agree, NegoRow
    <2>2. Charging(n)' = Charging(n) /\ ~Unsold(n)'
      BY <1>1, <2>1 DEF Charging, Unsold
    <2>3. Weight(n)' <= Weight(n)
      <3>1. c1 = c0 /\ s1 = s0
        BY <1>1, <2>2, <1>0
      <3>2. a1 <= a0 - 1
        BY <1>4, <1>6, <2>1
      <3> QED BY <3>1, <3>2, <1>w
    <2> QED BY <1>1, <2>2, <2>3, CountLess
  <1>7. CASE m = n /\ (Expire(c) \/ RefuseOutOfTurns(c))
    <2>1. nego'[n].status \in {"expired", "refused_turns_exhausted"}
      <3>1. CASE Expire(c)
        BY <1>2, <1>3, <1>7, <3>1 DEF Expire, NegoRow
      <3>2. CASE RefuseOutOfTurns(c)
        BY <1>2, <1>3, <1>7, <3>2 DEF RefuseOutOfTurns, NegoRow
      <3> QED BY <1>7, <3>1, <3>2
    <2>2. Charging(n)' = Charging(n) /\ ~Unsold(n)' /\ o1 = 0
      BY <1>0, <1>1, <2>1 DEF Charging, Unsold, Offered
    <2>3. Weight(n)' <= Weight(n)
      <3>1. c1 = c0 /\ s1 = s0
        BY <1>1, <2>2, <1>0
      <3> QED BY <1>4, <2>2, <3>1, <1>w
    <2> QED BY <1>1, <2>2, <2>3, CountLess
  <1>8. CASE m = n /\ Counter(c)
    <2>1. nego'[n].status = nego[n].status
      BY <1>2, <1>3, <1>8 DEF Counter, NegoRow
    <2> QED BY <1>1, <1>4, <2>1, <1>0, ElseCount
  <1> QED BY <1>5, <1>6, <1>7, <1>8

LEMMA BuyCount ==
  ASSUME CountInv, BargainTyped', NEW b \in Buys, NEW n \in Negotiations,
         \/ Charge(b) \/ Denied(b) \/ MarkRedeemed(b) \/ Interrupted(b)
         \/ \E m \in Negotiations : Resolve(b, m)
  PROVE  CountFine(n)'
PROOF
  <1>p. PICK s0 \in Nat, a0 \in Nat, c0 \in Nat, o0 \in Nat :
          /\ s0 = Len(sales[n]) /\ a0 = Cardinality(Answering(n))
          /\ c0 = Cardinality(Charging(n)) /\ o0 = Offered(n) /\ o0 <= 1
          /\ Weight(n) = s0 + a0 + c0 + o0
    BY Parts DEF CountInv, FloorInv
  <1>q. PICK s1 \in Nat, a1 \in Nat, c1 \in Nat, o1 \in Nat :
          /\ s1 = Len(sales'[n]) /\ a1 = Cardinality(Answering(n)')
          /\ c1 = Cardinality(Charging(n)') /\ o1 = Offered(n)' /\ o1 <= 1
          /\ Weight(n)' = s1 + a1 + c1 + o1
    BY PartsNext
  <1>0. /\ s0 = Len(sales[n]) /\ a0 = Cardinality(Answering(n))
        /\ c0 = Cardinality(Charging(n)) /\ o0 = Offered(n)
        /\ s1 = Len(sales'[n]) /\ a1 = Cardinality(Answering(n)')
        /\ c1 = Cardinality(Charging(n)') /\ o1 = Offered(n)'
    BY <1>p, <1>q
  <1>w. Weight(n) = s0 + a0 + c0 + o0 /\ Weight(n)' = s1 + a1 + c1 + o1 /\ o1 <= 1
    BY <1>p, <1>q, Zenon
  <1>1. /\ BargainTyped /\ buy[b] \in Purchase /\ BuyFine(buy[b]) /\ UNCHANGED buyerCall /\ n # "none"
        /\ buy \in [Buys -> Purchase] /\ nego \in [Negotiations -> NegoRow]
        /\ sales \in [Negotiations -> Seq(Int)] /\ causes \in [Negotiations -> Nat] /\ CountFine(n)
    BY NegotiationAssumption
    DEF CountInv, FloorInv, BargainTyped, Charge, Denied, MarkRedeemed, Interrupted, Resolve
  <1>2. a1 = a0
    <2>1. Answering(n)' = Answering(n)
      BY <1>1 DEF Answering
    <2> QED BY <2>1, <1>0
  <1>3. ASSUME NEW m \in Negotiations, Resolve(b, m) PROVE CountFine(n)'
    <2> DEFINE purch == [pc |-> "charge", n |-> m, price |-> nego[m].agreed]
    <2>1. buy' = [buy EXCEPT ![b] = purch] /\ UNCHANGED <<nego, sales>> /\ Contest(m)
          /\ nego[m].status = "agreed" /\ buy[b].n = "none" /\ buy[b].pc = "idle"
      BY <1>1, <1>3 DEF Resolve, BuyFine
    <2>2. purch.n = m /\ purch.pc = "charge"
      OBVIOUS
    <2> HIDE DEF purch
    <2>3. /\ m # n => c1 = c0
          /\ m = n => c1 = c0 + 1
      <3>1. CASE m # n
        <4>1. c1 = c0
          BY <1>1, <2>1, <2>2, <3>1, <1>0, ChargingMoves
        <4> QED BY <3>1, <4>1
      <3>2. CASE m = n
        <4>1. c1 = c0 + 1
          BY <1>1, <2>1, <2>2, <3>2, <1>0, ChargingMoves
        <4> QED BY <3>2, <4>1
      <3> QED BY <3>1, <3>2
    <2>7. s1 = s0
      BY <2>1, <1>0
    <2>4. buy'[b] = purch /\ \A e \in Buys : e # b => buy'[e] = buy[e]
      BY <1>1, <2>1
    <2>5. CASE m # n
      <3>1. o1 = o0
        BY <1>0, <1>1, <2>1, <2>2, <2>4, <2>5 DEF Offered
      <3>2. Weight(n)' <= Weight(n)
        BY <1>2, <2>3, <2>5, <2>7, <3>1, <1>w
      <3>3. causes'[n] = causes[n]
        BY <1>1, <2>1, <2>5 DEF Contest, Cause
      <3>4. Unsold(n)' => Unsold(n) /\ sales'[n] = sales[n] /\ \A e \in Buys : buy'[e].n = n => buy[e].n = n
        BY <1>1, <2>1, <2>2, <2>4, <2>5 DEF Unsold
      <3> QED BY <3>2, <3>3, <3>4, CountLess
    <2>6. CASE m = n
      <3>1. o1 = 0 /\ ~Unsold(n)'
        BY <1>0, <2>1, <2>2, <2>4, <2>6 DEF Offered, Unsold
      <3>2. CASE n \in InHand
        <4>1. Weight(n)' <= Weight(n) + 1
          BY <1>2, <2>3, <2>6, <2>7, <3>1, <1>w
        <4> QED BY <2>1, <2>6, <3>1, <3>2, <4>1, CountMore DEF Contest
      <3>3. CASE n \notin InHand
        <4>1. o0 = 1
          BY <1>0, <2>1, <2>6, <3>3 DEF Offered, InHand
        <4>2. Weight(n)' <= Weight(n)
          BY <1>2, <2>3, <2>6, <2>7, <3>1, <4>1, <1>w
        <4> QED BY <2>1, <2>6, <3>1, <3>3, <4>2, CountLess DEF Contest
      <3> QED BY <3>2, <3>3
    <2> QED BY <2>5, <2>6
  <1>4. CASE Charge(b)
    <2> DEFINE purch == [buy[b] EXCEPT !.pc = "mark"]
    <2>1. /\ buy[b].pc = "charge" /\ buy' = [buy EXCEPT ![b] = purch] /\ UNCHANGED <<nego, causes>>
          /\ sales' = [sales EXCEPT ![buy[b].n] = Append(sales[buy[b].n], buy[b].price)]
      BY <1>4 DEF Charge
    <2>2. purch.pc = "mark" /\ purch.n = buy[b].n
      BY <1>1 DEF Purchase
    <2> HIDE DEF purch
    <2>3. (buy[b].n = n => c1 = c0 - 1) /\ (buy[b].n # n => c1 = c0)
      <3>1. CASE buy[b].n # n
        <4>1. c1 = c0
          BY <1>1, <2>1, <2>2, <3>1, <1>0, ChargingMoves
        <4> QED BY <3>1, <4>1
      <3>2. CASE buy[b].n = n
        <4>1. c1 = c0 - 1
          BY <1>1, <2>1, <2>2, <3>2, <1>0, ChargingMoves
        <4> QED BY <3>2, <4>1
      <3> QED BY <3>1, <3>2
    <2>4. buy'[b] = purch /\ \A e \in Buys : e # b => buy'[e] = buy[e]
      BY <1>1, <2>1
    <2>5. \A e \in Buys : buy'[e].n = n <=> buy[e].n = n
      BY <2>2, <2>4
    <2>6. o1 = o0
      BY <1>0, <2>1, <2>5 DEF Offered
    <2>7. (buy[b].n = n => s1 = s0 + 1) /\ (buy[b].n # n => s1 = s0 /\ sales'[n] = sales[n])
      <3>1. CASE buy[b].n = n
        <4>1. PICK price \in Int : price = buy[b].price
          BY <1>1 DEF Purchase
        <4>2. sales'[n] = Append(sales[n], price) /\ sales[n] \in Seq(Int)
          BY <1>1, <2>1, <3>1, <4>1
        <4>3. Len(sales'[n]) = Len(sales[n]) + 1
          BY <4>2
        <4> QED BY <3>1, <4>3, <1>0
      <3>2. CASE buy[b].n # n
        <4>1. sales'[n] = sales[n]
          BY <1>1, <2>1, <3>2
        <4> QED BY <3>2, <4>1, <1>0
      <3> QED BY <3>1, <3>2
    <2>8. Weight(n)' <= Weight(n)
      <3>1. s1 + c1 = s0 + c0
        BY <2>3, <2>7
      <3> QED BY <1>2, <2>6, <3>1, <1>w
    <2>9. Unsold(n)' => Unsold(n) /\ buy[b].n # n
      BY <1>1, <2>1 DEF Unsold, CountFine
    <2> QED BY <2>1, <2>5, <2>7, <2>8, <2>9, CountLess
  <1>5. ASSUME buy' = [buy EXCEPT ![b] = BuyIdle], UNCHANGED sales,
               \/ nego'[n].status = nego[n].status
               \/ buy[b].n = n /\ nego[n].status = "agreed" /\ nego'[n].status = "redeemed",
               NEW c \in {0, 1}, c = 1 => buy[b].pc = "charge" /\ buy[b].n = n,
               NEW o \in {0, 1}, o = 0 => buy[b].n # n \/ nego'[n].status # "agreed"
        PROVE  /\ Weight(n)' <= Weight(n) + (o - c)
               /\ Unsold(n)' => Unsold(n) /\ sales'[n] = sales[n] /\ \A e \in Buys : buy'[e].n = n => buy[e].n = n
    <2>1. c1 <= c0 - c
      <3>1. CASE buy[b].pc = "charge" /\ buy[b].n = n
        <4>1. c1 = c0 - 1
          BY <1>1, <1>5, <3>1, <1>0, ChargingMoves, CallIdleIs
        <4> QED BY <1>5, <4>1
      <3>2. CASE ~(buy[b].pc = "charge" /\ buy[b].n = n)
        <4>1. c1 = c0
          BY <1>1, <1>5, <3>2, <1>0, ChargingMoves, CallIdleIs
        <4>2. c = 0
          BY <1>5, <3>2
        <4> QED BY <4>1, <4>2
      <3> QED BY <3>1, <3>2
    <2>2. buy'[b] = BuyIdle /\ \A e \in Buys : e # b => buy'[e] = buy[e]
      BY <1>1, <1>5
    <2>3. \A e \in Buys : buy'[e].n = n <=> buy[e].n = n /\ e # b
      BY <1>1, <2>2, CallIdleIs
    <2>4. o1 <= o0 + o
      <3>1. CASE o = 1
        BY <3>1, <1>w
      <3>2. CASE o = 0
        BY <1>0, <1>5, <2>3, <3>2 DEF Offered
      <3> QED BY <1>5, <3>1, <3>2
    <2>5. s1 = s0
      BY <1>5, <1>0
    <2>6. PICK i \in Int, k \in Int : i = o /\ k = c
      OBVIOUS
    <2>7. Weight(n)' <= Weight(n) + (o - c)
      <3>1. c1 <= c0 - k /\ o1 <= o0 + i
        BY <2>1, <2>4, <2>6
      <3>2. Weight(n)' <= Weight(n) + (i - k)
        BY <1>2, <2>5, <3>1, <1>w
      <3> QED BY <2>6, <3>2
    <2>8. Unsold(n)' => Unsold(n)
      BY <1>5 DEF Unsold
    <2> QED BY <1>5, <2>3, <2>7, <2>8
  <1>6. CASE Denied(b)
    <2>1. buy[b].pc = "charge" /\ buy' = [buy EXCEPT ![b] = BuyIdle] /\ UNCHANGED <<sales, nego, causes>>
      BY <1>6 DEF Denied
    <2>2. PICK c \in {0, 1} : c = 1 <=> buy[b].n = n
      OBVIOUS
    <2>3. /\ Weight(n)' <= Weight(n) + (c - c)
          /\ Unsold(n)' => Unsold(n) /\ sales'[n] = sales[n] /\ \A e \in Buys : buy'[e].n = n => buy[e].n = n
      BY <1>5, <2>1, <2>2
    <2>4. Weight(n)' <= Weight(n)
      BY <1>1, <2>3, <1>w
    <2> QED BY <2>1, <2>3, <2>4, CountLess
  <1>7. CASE Interrupted(b)
    <2>1. buy[b].pc = "mark" /\ buy' = [buy EXCEPT ![b] = BuyIdle] /\ UNCHANGED <<sales, nego>>
          /\ Cause(buy[b].n)
      BY <1>7 DEF Interrupted
    <2>2. CASE buy[b].n = n
      <3>1. /\ Weight(n)' <= Weight(n) + (1 - 0)
            /\ Unsold(n)' => Unsold(n) /\ sales'[n] = sales[n] /\ \A e \in Buys : buy'[e].n = n => buy[e].n = n
        BY <1>5, <2>1
      <3>2. Weight(n)' <= Weight(n) + 1
        BY <1>1, <3>1, <1>w
      <3> QED BY <2>1, <2>2, <3>1, <3>2, CountMore
    <2>3. CASE buy[b].n # n
      <3>1. /\ Weight(n)' <= Weight(n) + (0 - 0)
            /\ Unsold(n)' => Unsold(n) /\ sales'[n] = sales[n] /\ \A e \in Buys : buy'[e].n = n => buy[e].n = n
        BY <1>5, <2>1, <2>3
      <3>3. Weight(n)' <= Weight(n)
        BY <1>1, <3>1, <1>w
      <3>2. causes'[n] = causes[n]
        BY <1>1, <2>1, <2>3 DEF Cause
      <3> QED BY <3>1, <3>2, <3>3, CountLess
    <2> QED BY <2>2, <2>3
  <1>8. CASE MarkRedeemed(b)
    <2>1. buy[b].pc = "mark" /\ buy' = [buy EXCEPT ![b] = BuyIdle] /\ UNCHANGED <<sales, causes>>
          /\ nego' = [nego EXCEPT ![buy[b].n] = Redeemed(nego[buy[b].n])]
      BY <1>8 DEF MarkRedeemed
    <2>2. \/ buy[b].n # n /\ nego'[n] = nego[n]
          \/ buy[b].n = n /\ nego[n].status = "agreed" /\ nego'[n].status = "redeemed"
          \/ buy[b].n = n /\ nego[n].status # "agreed" /\ nego'[n].status = nego[n].status
      BY <1>1, <2>1 DEF Redeemed, NegoRow
    <2>3. /\ Weight(n)' <= Weight(n) + (0 - 0)
          /\ Unsold(n)' => Unsold(n) /\ sales'[n] = sales[n] /\ \A e \in Buys : buy'[e].n = n => buy[e].n = n
      <3>1. buy[b].n # n \/ nego'[n].status # "agreed"
        BY <2>2
      <3>2. \/ nego'[n].status = nego[n].status
            \/ buy[b].n = n /\ nego[n].status = "agreed" /\ nego'[n].status = "redeemed"
        BY <2>2
      <3> QED BY <1>5, <2>1, <3>1, <3>2
    <2>4. Weight(n)' <= Weight(n)
      BY <1>1, <2>3, <1>w
    <2> QED BY <2>1, <2>3, <2>4, CountLess
  <1> QED BY <1>3, <1>4, <1>6, <1>7, <1>8

LEMMA NextCount == CountInv /\ [NegotiationNext]_negotiationVars => CountInv'
PROOF
  <1> SUFFICES ASSUME CountInv, [NegotiationNext]_negotiationVars PROVE CountInv'
    OBVIOUS
  <1>1. FloorInv' /\ BargainTyped'
    BY NextFloor DEF CountInv, FloorInv
  <1>2. causes' \in [Negotiations -> Nat]
    BY CausesGrow DEF CountInv
  <1>3. ASSUME NEW n \in Negotiations PROVE CountFine(n)'
    <2>1. CASE \/ \E f \in Floors \cup {NoPrice} : SetFloor(f)
               \/ \E p \in CatalogPrices : SetPrice(p)
               \/ \E m \in Negotiations : Expires(m)
               \/ UNCHANGED negotiationVars
      <3>1. UNCHANGED <<nego, sales, buyerCall, buy, causes>>
        BY <2>1 DEF SetFloor, SetPrice, Expires, negotiationVars
      <3>2. Answering(n)' = Answering(n)
        BY <3>1 DEF Answering
      <3>3. Cardinality(Answering(n)') <= Cardinality(Answering(n))
        BY <3>2, WeightNat DEF CountInv, FloorInv
      <3> QED BY <1>1, <3>1, <3>3, ElseCount
    <2>2. CASE \E c \in Calls : \/ ReadVariant(c) \/ CheckOpen(c)
                                \/ \E m \in Negotiations : InsertNegotiation(c, m)
      BY <1>1, <2>2, OpenCount
    <2>3. CASE \E c \in Calls, m \in Negotiations, offer \in Offers : ReadNegotiation(c, m, offer)
      BY <1>1, <2>3, ReadCount
    <2>4. CASE \E c \in Calls : Expire(c) \/ Agree(c) \/ RefuseOutOfTurns(c) \/ Counter(c)
      BY <1>1, <2>4, AnswerCount
    <2>5. CASE \E b \in Buys : \/ Charge(b) \/ Denied(b) \/ MarkRedeemed(b) \/ Interrupted(b)
                               \/ \E m \in Negotiations : Resolve(b, m)
      BY <1>1, <2>5, BuyCount
    <2> QED BY <2>1, <2>2, <2>3, <2>4, <2>5 DEF NegotiationNext
  <1> QED BY <1>1, <1>2, <1>3 DEF CountInv

\* For every number of calls, purchases and deaths: an agreed price is charged once, and
\* as agreed, unless two of them overlapped or a charged purchase died before its mark;
\* and each overlap and each death brings about one sale more at the most.
THEOREM SalesAreCaused == NegotiationSpec => []EverySaleHasACause
PROOF
  <1>1. SoldInv /\ CountInv => EverySaleHasACause
    <2> SUFFICES ASSUME SoldInv, CountInv, NEW n \in Negotiations
        PROVE  /\ causes[n] < MaxSales => Len(sales[n]) <= 1 + causes[n]
               /\ causes[n] = 0 => \A i \in DOMAIN sales[n] : sales[n][i] = nego[n].agreed
      BY DEF EverySaleHasACause
    <2>1. Len(sales[n]) <= Weight(n) /\ CountFine(n) /\ causes[n] \in Nat /\ Len(sales[n]) \in Nat
          /\ Weight(n) \in Nat
      BY WeightNat DEF Weight, CountInv, FloorInv
    <2>2. causes[n] < MaxSales => Len(sales[n]) <= 1 + causes[n]
      BY <2>1, NegotiationAssumption DEF CountFine
    <2>3. ASSUME causes[n] = 0, NEW i \in DOMAIN sales[n] PROVE sales[n][i] = nego[n].agreed
      <3>1. Story(n)
        BY <2>3 DEF SoldInv
      <3>2. sales[n] = <<nego[n].agreed>>
        BY <2>3, <3>1 DEF Story
      <3> QED BY <2>3, <3>2
    <2> QED BY <2>2, <2>3
  <1> QED BY <1>1, InitSold, NextSold, InitCount, NextCount, PTL DEF NegotiationSpec

-----------------------------------------------------------------------------
(* The returns desk *)

ReturnStatuses ==
  {"none", "awaiting_merchant", "refunded", "rejected", "declined_by_desk", "expired"}

\* The shape of the state, as far as the proofs need it.
DeskShape ==
  /\ request \in [Returnable -> [status : ReturnStatuses, approved : Nat]]
  /\ opener \in [Buyers -> [pc : {"idle", "insert"}, seen : SUBSET Returnable]]
  /\ decider \in [Deciders -> [pc : {"idle", "check", "answer", "refund", "fail", "write"},
                               q : Returnable \cup {"none"}, amount : Nat]]
  /\ sweep \in [ReturnSweeps -> Returnable \cup {"none"}]
  /\ refundedFor \in [Returnable -> Nat]
  /\ disturbed \subseteq Returnable

\* Who has a request in hand knows which, and has it paid before writing so.
TaskOK(d) ==
  /\ decider[d].pc = "idle" => decider[d].q = "none"
  /\ decider[d].pc # "idle" => decider[d].q \in Returnable
  /\ decider[d].pc \in {"check", "refund", "fail", "write"} => decider[d].amount > 0
  /\ decider[d].pc \in {"fail", "write"} => refundedFor[decider[d].q] >= decider[d].amount

\* What the page shows as refunded has been.
RequestOK(q) ==
  request[q].status = "refunded" =>
    refundedFor[q] >= request[q].approved /\ request[q].approved > 0

DeskInv ==
  /\ DeskShape
  /\ \A d \in Deciders : TaskOK(d)
  /\ \A q \in Returnable : RequestOK(q)

LEMMA InitDesk == ReturnsInit => DeskInv
PROOF
  BY ReturnsAssumption
  DEF ReturnsInit, DeskInv, DeskShape, TaskOK, RequestOK, NoRequest, NoTask, NoOpening, ReturnStatuses

\* Nobody's task and no request is touched: the invariant stays.
LEMMA DeskUntouched ==
  ASSUME DeskInv, UNCHANGED <<request, decider, refundedFor>>,
         opener' \in [Buyers -> [pc : {"idle", "insert"}, seen : SUBSET Returnable]],
         sweep' \in [ReturnSweeps -> Returnable \cup {"none"}],
         disturbed' \subseteq Returnable
  PROVE  DeskInv'
PROOF
  BY DEF DeskInv, DeskShape, TaskOK, RequestOK

LEMMA OpenerDesk ==
  ASSUME DeskInv, NEW b \in Buyers, OpenerStep(b)
  PROVE  DeskInv'
PROOF
  <1>1. CASE CheckEligibility(b) \/ InsertRefused(b)
    <2>1. PICK next \in [pc : {"idle", "insert"}, seen : SUBSET Returnable] :
            opener' = [opener EXCEPT ![b] = next]
      BY <1>1 DEF CheckEligibility, InsertRefused, NoOpening, With
    <2>2. UNCHANGED <<request, decider, sweep, refundedFor, disturbed>>
      BY <1>1 DEF CheckEligibility, InsertRefused
    <2>3. opener' \in [Buyers -> [pc : {"idle", "insert"}, seen : SUBSET Returnable]]
      BY <2>1 DEF DeskInv, DeskShape
    <2> QED BY <2>2, <2>3, DeskUntouched DEF DeskInv, DeskShape
  <1>2. CASE \E q \in Returnable : InsertRequest(b, q)
    <2>1. PICK q \in Returnable : InsertRequest(b, q)
      BY <1>2
    <2>2. DeskShape'
      BY <2>1 DEF InsertRequest, DeskInv, DeskShape, Pending, NoRequest, ReturnStatuses, NoOpening, Disturb
    <2>3. ASSUME NEW r \in Returnable PROVE RequestOK(r)'
      <3>1. request'[r].status = "refunded" => request'[r] = request[r]
        BY <2>1 DEF InsertRequest, DeskInv, DeskShape, Pending, NoRequest
      <3> QED BY <2>1, <3>1 DEF InsertRequest, DeskInv, RequestOK
    <2>4. ASSUME NEW d \in Deciders PROVE TaskOK(d)'
      BY <2>1 DEF InsertRequest, DeskInv, TaskOK
    <2> QED BY <2>2, <2>3, <2>4 DEF DeskInv
  <1> QED BY <1>1, <1>2 DEF OpenerStep

\* A decider's own task changes, and no request.
LEMMA TaskDesk ==
  ASSUME DeskInv, NEW d \in Deciders, NEW task,
         decider' = [decider EXCEPT ![d] = task],
         task \in [pc : {"idle", "check", "answer", "refund", "fail", "write"},
                   q : Returnable \cup {"none"}, amount : Nat],
         UNCHANGED <<request, opener, sweep>>,
         refundedFor' \in [Returnable -> Nat],
         \A q \in Returnable : refundedFor'[q] >= refundedFor[q],
         disturbed' \subseteq Returnable,
         task.pc = "idle" => task.q = "none",
         task.pc # "idle" => task.q \in Returnable,
         task.pc \in {"check", "refund", "fail", "write"} => task.amount > 0,
         task.pc \in {"fail", "write"} => refundedFor'[task.q] >= task.amount
  PROVE  DeskInv'
PROOF
  <1>1. DeskShape'
    BY DEF DeskInv, DeskShape
  <1>2. ASSUME NEW e \in Deciders PROVE TaskOK(e)'
    <2>1. CASE e = d
      <3>1. decider'[e] = task
        BY <2>1 DEF DeskInv, DeskShape
      <3> QED BY <3>1 DEF TaskOK
    <2>2. CASE e # d
      <3>1. decider'[e] = decider[e]
        BY <2>2 DEF DeskInv, DeskShape
      <3>2. TaskOK(e) /\ decider[e].amount \in Nat
        BY DEF DeskInv, DeskShape
      <3>3. ASSUME decider[e].pc \in {"fail", "write"}
            PROVE  refundedFor'[decider[e].q] >= decider[e].amount
        <4>1. decider[e].q \in Returnable /\ refundedFor[decider[e].q] >= decider[e].amount
          BY <3>2, <3>3 DEF TaskOK
        <4> QED BY <3>2, <4>1 DEF DeskInv, DeskShape
      <3> QED BY <3>1, <3>2, <3>3 DEF TaskOK
    <2> QED BY <2>1, <2>2
  <1>3. ASSUME NEW q \in Returnable PROVE RequestOK(q)'
    <2>1. RequestOK(q) /\ request[q].approved \in Nat /\ refundedFor[q] \in Nat /\ refundedFor'[q] \in Nat
      BY DEF DeskInv, DeskShape
    <2> QED BY <2>1 DEF RequestOK
  <1> QED BY <1>1, <1>2, <1>3 DEF DeskInv

LEMMA DeciderDesk ==
  ASSUME DeskInv, NEW d \in Deciders, DeciderStep(d)
  PROVE  DeskInv'
PROOF
  <1> DEFINE my == decider[d]
  <1>1. /\ my \in [pc : {"idle", "check", "answer", "refund", "fail", "write"},
                   q : Returnable \cup {"none"}, amount : Nat]
        /\ TaskOK(d) /\ disturbed \subseteq Returnable /\ refundedFor \in [Returnable -> Nat]
    BY DEF DeskInv, DeskShape
  <1>2. CASE \/ \E q \in Returnable : ReadToAnswer(d, q)
             \/ \E q \in Returnable, a \in 1..Paid : ReadToApprove(d, q, a)
    <2>1. PICK q \in Returnable, pc \in {"check", "answer"}, a \in Nat :
            ReadToDecide(d, q, pc, a) /\ (pc = "check" => a > 0)
      BY <1>2, ReturnsAssumption DEF ReadToAnswer, ReadToApprove
    <2> DEFINE task == [pc |-> pc, q |-> q, amount |-> a]
    <2>2. decider' = [decider EXCEPT ![d] = task] /\ UNCHANGED <<request, opener, sweep, refundedFor>>
          /\ disturbed' \subseteq Returnable
      BY <1>1, <2>1 DEF ReadToDecide, Take, Disturb
    <2>3. /\ task \in [pc : {"idle", "check", "answer", "refund", "fail", "write"},
                       q : Returnable \cup {"none"}, amount : Nat]
          /\ task.pc = pc /\ task.q = q /\ task.amount = a
      OBVIOUS
    <2>4. UNCHANGED <<request, opener, sweep>> /\ refundedFor' \in [Returnable -> Nat]
          /\ \A r \in Returnable : refundedFor'[r] >= refundedFor[r]
      BY <1>1, <2>2
    <2> HIDE DEF task
    <2>5. task.pc \in {"check", "answer"} /\ (task.pc = "check" => task.amount > 0) /\ task.q \in Returnable
      BY <2>1, <2>3
    <2> QED BY <2>2, <2>3, <2>4, <2>5, TaskDesk
  <1>3. CASE KeepOpen(d) \/ RefundRefused(d) \/ DeciderDies(d)
    <2>1. decider' = [decider EXCEPT ![d] = NoTask] /\ UNCHANGED <<request, opener, sweep, refundedFor>>
          /\ disturbed' \subseteq Returnable
      BY <1>1, <1>3 DEF KeepOpen, RefundRefused, AfterRefused, DeciderDies, Disturb, TaskOK
    <2>2. /\ NoTask \in [pc : {"idle", "check", "answer", "refund", "fail", "write"},
                         q : Returnable \cup {"none"}, amount : Nat]
          /\ NoTask.pc = "idle" /\ NoTask.q = "none"
      BY DEF NoTask
    <2>3. UNCHANGED <<request, opener, sweep>> /\ refundedFor' \in [Returnable -> Nat]
          /\ \A q \in Returnable : refundedFor'[q] >= refundedFor[q]
      BY <1>1, <2>1
    <2> QED BY <2>1, <2>2, <2>3, TaskDesk
  <1>4. CASE CheckPurchase(d) \/ FailPurchase(d)
    <2>1. PICK pc \in {"idle", "refund", "write"} :
            /\ decider' = [decider EXCEPT ![d] = IF pc = "idle" THEN NoTask ELSE [my EXCEPT !.pc = pc]]
            /\ pc = "write" => my.pc = "fail"
            /\ pc # "write" => my.pc = "check"
      BY <1>1, <1>4 DEF CheckPurchase, FailPurchase
    <2>2. UNCHANGED <<request, opener, sweep, refundedFor, disturbed>>
      BY <1>4 DEF CheckPurchase, FailPurchase
    <2> DEFINE task == IF pc = "idle" THEN NoTask ELSE [my EXCEPT !.pc = pc]
    <2>3. /\ task \in [pc : {"idle", "check", "answer", "refund", "fail", "write"},
                       q : Returnable \cup {"none"}, amount : Nat]
          /\ task.pc = pc
          /\ pc = "idle" => task.q = "none"
          /\ pc # "idle" => task.q = my.q /\ task.amount = my.amount
      BY <1>1 DEF NoTask
    <2>4. UNCHANGED <<request, opener, sweep>> /\ refundedFor' \in [Returnable -> Nat]
          /\ \A q \in Returnable : refundedFor'[q] >= refundedFor[q]
      BY <1>1, <2>2
    <2>5. decider' = [decider EXCEPT ![d] = task] /\ disturbed' \subseteq Returnable
      BY <1>1, <2>1, <2>2
    <2> HIDE DEF task
    <2>6. task.pc # "idle" => task.q \in Returnable /\ task.amount > 0
      BY <1>1, <2>1, <2>3 DEF TaskOK
    <2>7. task.pc \in {"fail", "write"} => refundedFor'[task.q] >= task.amount
      BY <1>1, <2>1, <2>2, <2>3 DEF TaskOK
    <2> QED BY <2>2, <2>3, <2>4, <2>5, <2>6, <2>7, TaskDesk
  <1>5. CASE RefundAllowed(d) \/ RefundReplyLost(d)
    <2>1. my.pc = "refund" /\ my.q \in Returnable /\ my.amount > 0
      BY <1>1, <1>5 DEF RefundAllowed, RefundReplyLost, GiveBack, TaskOK
    <2>2. refundedFor' = [q \in Returnable |-> refundedFor[q] + IF q = my.q THEN my.amount ELSE 0]
      BY <1>5 DEF RefundAllowed, RefundReplyLost, GiveBack
    <2>3. /\ refundedFor' \in [Returnable -> Nat]
          /\ \A q \in Returnable : refundedFor'[q] >= refundedFor[q]
          /\ refundedFor'[my.q] >= my.amount
      BY <1>1, <2>1, <2>2
    <2>4. PICK pc \in {"idle", "fail", "write"} :
            decider' = [decider EXCEPT ![d] = IF pc = "idle" THEN NoTask ELSE [my EXCEPT !.pc = pc]]
      <3>1. CASE RefundAllowed(d)
        BY <1>1, <3>1 DEF RefundAllowed
      <3>2. CASE RefundReplyLost(d)
        BY <1>1, <3>2 DEF RefundReplyLost, AfterRefused
      <3> QED BY <1>5, <3>1, <3>2
    <2>5. UNCHANGED <<request, opener, sweep>> /\ disturbed' \subseteq Returnable
      BY <1>1, <1>5, <2>1 DEF RefundAllowed, RefundReplyLost, Disturb
    <2> DEFINE task == IF pc = "idle" THEN NoTask ELSE [my EXCEPT !.pc = pc]
    <2>6. /\ task \in [pc : {"idle", "check", "answer", "refund", "fail", "write"},
                       q : Returnable \cup {"none"}, amount : Nat]
          /\ task.pc = pc
          /\ pc = "idle" => task.q = "none"
          /\ pc # "idle" => task.q = my.q /\ task.amount = my.amount
      BY <1>1 DEF NoTask
    <2>7. decider' = [decider EXCEPT ![d] = task]
      BY <2>4
    <2> HIDE DEF task
    <2> QED BY <2>1, <2>3, <2>5, <2>6, <2>7, TaskDesk
  <1>6. CASE Approve(d) \/ Reject(d) \/ Decline(d)
    <2>1. my.pc \in {"write", "answer"} /\ my.q \in Returnable
      BY <1>1, <1>6 DEF Approve, Reject, Decline, TaskOK
    <2>2. PICK decision \in [status : {"refunded", "rejected", "declined_by_desk"}, approved : Nat] :
            /\ Write(d, decision)
            /\ decision.status = "refunded" => my.pc = "write" /\ decision.approved = my.amount
      BY <1>1, <1>6 DEF Approve, Reject, Decline, DecidedAs
    <2>3. /\ request' = [request EXCEPT ![my.q] = decision]
          /\ decider' = [decider EXCEPT ![d] = NoTask]
          /\ UNCHANGED <<opener, sweep, refundedFor, disturbed>>
      BY <2>2 DEF Write
    <2>4. DeskShape'
      BY <2>1, <2>3 DEF DeskInv, DeskShape, ReturnStatuses, NoTask
    <2>5. ASSUME NEW e \in Deciders PROVE TaskOK(e)'
      BY <2>3, <2>5 DEF TaskOK, DeskInv, DeskShape, NoTask
    <2>6. ASSUME NEW q \in Returnable PROVE RequestOK(q)'
      <3>1. CASE q = my.q
        <4>1. request'[q] = decision
          BY <2>3, <3>1 DEF DeskInv, DeskShape
        <4> QED BY <1>1, <2>2, <2>3, <3>1, <4>1 DEF RequestOK, TaskOK
      <3>2. CASE q # my.q
        BY <2>3, <3>2 DEF RequestOK, DeskInv, DeskShape
      <3> QED BY <3>1, <3>2
    <2> QED BY <2>4, <2>5, <2>6 DEF DeskInv
  <1> QED BY <1>2, <1>3, <1>4, <1>5, <1>6 DEF DeciderStep

LEMMA SweepDesk ==
  ASSUME DeskInv, NEW w \in ReturnSweeps, SweepStep(w)
  PROVE  DeskInv'
PROOF
  <1>1. CASE \E q \in Returnable : ReadOverdue(w, q)
    <2>1. PICK q \in Returnable : ReadOverdue(w, q)
      BY <1>1
    <2>2. sweep' \in [ReturnSweeps -> Returnable \cup {"none"}]
      BY <2>1 DEF ReadOverdue, DeskInv, DeskShape
    <2> QED BY <2>1, <2>2, DeskUntouched DEF ReadOverdue, DeskInv, DeskShape
  <1>2. CASE ClaimExpired(w)
    <2>1. PICK q \in Returnable : q = sweep[w]
      BY <1>2 DEF ClaimExpired, DeskInv, DeskShape
    <2>2. /\ request' = [request EXCEPT ![q] = ExpiredIfAwaiting(q)]
          /\ UNCHANGED <<opener, decider, refundedFor>>
          /\ sweep' = [sweep EXCEPT ![w] = "none"]
          /\ disturbed' \subseteq Returnable
      BY <1>2, <2>1 DEF ClaimExpired, Take, Disturb, DeskInv, DeskShape
    <2>3. PICK row \in [status : ReturnStatuses, approved : Nat] :
            /\ request' = [request EXCEPT ![q] = row]
            /\ row.status = "refunded" => row = request[q]
      <3>1. /\ ExpiredIfAwaiting(q) \in [status : ReturnStatuses, approved : Nat]
            /\ ExpiredIfAwaiting(q).status = "refunded" => ExpiredIfAwaiting(q) = request[q]
        BY DEF ExpiredIfAwaiting, DecidedAs, ReturnStatuses, DeskInv, DeskShape
      <3> QED BY <2>2, <3>1
    <2>4. DeskShape'
      BY <2>2, <2>3 DEF DeskInv, DeskShape
    <2>5. ASSUME NEW r \in Returnable PROVE RequestOK(r)'
      <3>1. request'[r].status = "refunded" => request'[r] = request[r]
        BY <2>3 DEF DeskInv, DeskShape
      <3> QED BY <2>2, <3>1 DEF DeskInv, RequestOK
    <2>6. ASSUME NEW d \in Deciders PROVE TaskOK(d)'
      BY <2>2 DEF DeskInv, TaskOK
    <2> QED BY <2>4, <2>5, <2>6 DEF DeskInv
  <1> QED BY <1>1, <1>2 DEF SweepStep

LEMMA NextDesk == DeskInv /\ [ReturnsNext]_returnsVars => DeskInv'
PROOF
  <1> SUFFICES ASSUME DeskInv, [ReturnsNext]_returnsVars PROVE DeskInv'
    OBVIOUS
  <1>1. CASE UNCHANGED returnsVars \/ \E a \in 1..Paid : RefundDirectly(a)
    <2>1. UNCHANGED <<request, opener, decider, sweep, refundedFor, disturbed>>
      BY <1>1 DEF returnsVars, RefundDirectly
    <2> QED BY <2>1, DeskUntouched DEF DeskInv, DeskShape
  <1> QED BY <1>1, OpenerDesk, DeciderDesk, SweepDesk DEF ReturnsNext

\* What a buyer is told was refunded has been, however decisions, turns and
\* sweeps overlap, for every number of them.
THEOREM RefundsAreTrue == ReturnsSpec => []ApprovedMeansRefunded
PROOF
  <1>1. DeskInv => ApprovedMeansRefunded
    BY DEF DeskInv, RequestOK, ApprovedMeansRefunded, With
  <1> QED BY <1>1, InitDesk, NextDesk, PTL DEF ReturnsSpec

-----------------------------------------------------------------------------
(* What is known of a request nobody has interfered with: whoever has it in *)
(* hand is alone and finds it undecided, and no more was given back for it  *)
(* than its row says, or is about to say.                                    *)

InHandOf(d, q) == decider[d].q = q

Alone(q) == \A d \in Deciders : InHandOf(d, q) =>
  /\ request[q].status = "awaiting_merchant"
  /\ \A e \in Deciders : InHandOf(e, q) => e = d

Accounted(q) == refundedFor[q] > 0 =>
  \/ request[q].status = "refunded" /\ refundedFor[q] = request[q].approved
  \/ \E d \in Deciders : /\ InHandOf(d, q) /\ decider[d].pc \in {"fail", "write"}
                         /\ refundedFor[q] = decider[d].amount

Quiet(q) == Alone(q) /\ Accounted(q)

QuietInv == DeskInv /\ \A q \in Returnable \ disturbed : Quiet(q)

LEMMA InitQuiet == ReturnsInit => QuietInv
PROOF
  BY InitDesk, ReturnsAssumption
  DEF ReturnsInit, QuietInv, Quiet, Alone, Accounted, InHandOf, NoRequest, NoTask

LEMMA QuietElsewhere ==
  ASSUME NEW q \in Returnable, Quiet(q),
         request'[q] = request[q], refundedFor'[q] = refundedFor[q],
         \A d \in Deciders : decider'[d] = decider[d] \/ (decider[d].q # q /\ decider'[d].q # q)
  PROVE  Quiet(q)'
PROOF
  <1>1. \A d \in Deciders : InHandOf(d, q)' <=> InHandOf(d, q)
    BY DEF InHandOf
  <1>2. Alone(q)'
    BY <1>1 DEF Quiet, Alone
  <1>3. \A d \in Deciders : InHandOf(d, q) => decider'[d] = decider[d]
    BY DEF InHandOf
  <1>4. Accounted(q)'
    BY <1>1, <1>3 DEF Quiet, Accounted
  <1> QED BY <1>2, <1>4 DEF Quiet

\* What holds of the request in a decider's hand.
LEMMA Owned ==
  ASSUME DeskInv, NEW q \in Returnable, Quiet(q), NEW d \in Deciders, decider[d].q = q
  PROVE  /\ request[q].status = "awaiting_merchant"
         /\ \A e \in Deciders : e # d => decider[e].q # q
         /\ decider[d].pc \notin {"fail", "write"} => refundedFor[q] = 0
         /\ decider[d].pc \in {"fail", "write"} => refundedFor[q] = decider[d].amount
PROOF
  <1>1. request[q].status = "awaiting_merchant" /\ \A e \in Deciders : InHandOf(e, q) => e = d
    BY DEF Quiet, Alone, InHandOf
  <1>2. refundedFor[q] \in Nat /\ decider[d].amount \in Nat /\ TaskOK(d)
    BY DEF DeskInv, DeskShape
  <1>3. refundedFor[q] > 0 => decider[d].pc \in {"fail", "write"} /\ refundedFor[q] = decider[d].amount
    BY <1>1 DEF Quiet, Accounted, InHandOf
  <1> QED BY <1>1, <1>2, <1>3 DEF TaskOK, InHandOf

\* The decider of a request goes on with it, still undecided, and alone.
LEMMA QuietInHand ==
  ASSUME DeskInv, NEW q \in Returnable, NEW d \in Deciders, NEW task,
         decider' = [decider EXCEPT ![d] = task],
         \A e \in Deciders : e # d => decider[e].q # q,
         request'[q].status = "awaiting_merchant",
         \/ refundedFor'[q] = 0
         \/ task.q = q /\ task.pc \in {"fail", "write"} /\ refundedFor'[q] = task.amount
  PROVE  Quiet(q)'
PROOF
  <1>1. decider'[d] = task /\ \A e \in Deciders : e # d => decider'[e].q # q
    BY DEF DeskInv, DeskShape
  <1>2. Alone(q)'
    BY <1>1 DEF Alone, InHandOf
  <1>3. Accounted(q)'
    BY <1>1 DEF Accounted, InHandOf
  <1> QED BY <1>2, <1>3 DEF Quiet

LEMMA OpenerQuiet ==
  ASSUME QuietInv, NEW b \in Buyers, OpenerStep(b), NEW q \in Returnable \ disturbed'
  PROVE  Quiet(q)'
PROOF
  <1>1. q \in Returnable \ disturbed /\ DeskInv /\ Quiet(q)
    BY DEF QuietInv, OpenerStep, CheckEligibility, InsertRefused, InsertRequest, Disturb
  <1>2. UNCHANGED <<decider, refundedFor>>
    BY DEF OpenerStep, CheckEligibility, InsertRefused, InsertRequest
  <1>3. CASE request'[q] = request[q]
    BY <1>1, <1>2, <1>3, QuietElsewhere
  <1>4. CASE request'[q] # request[q]
    <2>1. request[q] = NoRequest
      BY <1>1, <1>4
      DEF OpenerStep, CheckEligibility, InsertRefused, InsertRequest, DeskInv, DeskShape
    <2>2. \A d \in Deciders : decider[d].q # q
      BY <1>1, <2>1 DEF Quiet, Alone, InHandOf, NoRequest
    <2>3. ~(refundedFor[q] > 0)
      BY <1>1, <2>1, <2>2 DEF Quiet, Accounted, InHandOf, NoRequest
    <2> QED BY <1>2, <2>2, <2>3 DEF Quiet, Alone, Accounted, InHandOf
  <1> QED BY <1>3, <1>4

LEMMA SweepQuiet ==
  ASSUME QuietInv, NEW w \in ReturnSweeps, SweepStep(w), NEW q \in Returnable \ disturbed'
  PROVE  Quiet(q)'
PROOF
  <1>1. q \in Returnable \ disturbed /\ DeskInv /\ Quiet(q)
    BY DEF QuietInv, SweepStep, ReadOverdue, ClaimExpired, Take, Disturb
  <1>2. UNCHANGED <<decider, refundedFor>>
    BY DEF SweepStep, ReadOverdue, ClaimExpired
  <1>3. CASE request'[q] = request[q]
    BY <1>1, <1>2, <1>3, QuietElsewhere
  <1>4. CASE request'[q] # request[q]
    <2>1. ClaimExpired(w)
      BY <1>4 DEF SweepStep, ReadOverdue
    <2>2. sweep[w] = q
      BY <1>1, <1>4, <2>1 DEF ClaimExpired, DeskInv, DeskShape
    <2>3. request' = [request EXCEPT ![q] = ExpiredIfAwaiting(q)]
      BY <2>1, <2>2 DEF ClaimExpired
    <2>4. q \in Awaiting
      BY <1>1, <1>4, <2>3 DEF ExpiredIfAwaiting, DeskInv, DeskShape
    <2>5. Take(q)
      BY <2>1, <2>2, <2>4 DEF ClaimExpired
    <2>6. \A d \in Deciders : decider[d].q # q
      BY <2>5 DEF Take, Disturb, InHands
    <2>7. ~(refundedFor[q] > 0)
      BY <1>1, <2>4, <2>6 DEF Quiet, Accounted, InHandOf, Awaiting, With
    <2> QED BY <1>2, <2>6, <2>7 DEF Quiet, Alone, Accounted, InHandOf
  <1> QED BY <1>3, <1>4

LEMMA DeciderQuiet ==
  ASSUME QuietInv, NEW d \in Deciders, DeciderStep(d), NEW q \in Returnable \ disturbed'
  PROVE  Quiet(q)'
PROOF
  <1>1. disturbed \subseteq disturbed'
    BY DEF DeciderStep, ReadToAnswer, ReadToApprove, ReadToDecide, CheckPurchase, RefundAllowed, GiveBack,
           RefundRefused, RefundReplyLost, KeepOpen, FailPurchase, DeciderDies, Approve, Reject, Decline,
           Write, Take, Disturb
  <1>2. q \in Returnable /\ q \notin disturbed /\ DeskInv /\ Quiet(q)
    BY <1>1 DEF QuietInv
  <1> DEFINE my == decider[d]
  <1>3. /\ my \in [pc : {"idle", "check", "answer", "refund", "fail", "write"},
                   q : Returnable \cup {"none"}, amount : Nat]
        /\ TaskOK(d) /\ refundedFor \in [Returnable -> Nat]
    BY <1>2 DEF DeskInv, DeskShape
  <1>4. ASSUME NEW r \in Returnable, NEW pc, NEW a, ReadToDecide(d, r, pc, a)
        PROVE  Quiet(q)'
    <2>1. decider[d].q = "none"
      BY <1>2, <1>4 DEF ReadToDecide, DeskInv, TaskOK
    <2>2. /\ decider' = [decider EXCEPT ![d] = [pc |-> pc, q |-> r, amount |-> a]]
          /\ UNCHANGED <<request, refundedFor>>
      BY <1>4 DEF ReadToDecide
    <2>3. CASE q # r
      <3>1. \A e \in Deciders : decider'[e] = decider[e] \/ (decider[e].q # q /\ decider'[e].q # q)
        BY <1>2, <2>1, <2>2, <2>3, ReturnsAssumption DEF DeskInv, DeskShape
      <3> QED BY <1>2, <2>2, <3>1, QuietElsewhere
    <2>4. CASE q = r
      <3>1. \A e \in Deciders : decider[e].q # q
        BY <1>4, <2>4 DEF ReadToDecide, Take, Disturb, InHands
      <3>2. request[q].status = "awaiting_merchant"
        BY <1>4, <2>4 DEF ReadToDecide, Decidable, Awaiting, With
      <3>3. refundedFor[q] = 0
        BY <1>2, <1>3, <3>1, <3>2 DEF Quiet, Accounted, InHandOf
      <3>4. request'[q].status = "awaiting_merchant" /\ refundedFor'[q] = 0
        BY <2>2, <3>2, <3>3
      <3> QED BY <1>2, <2>2, <3>1, <3>4, QuietInHand
    <2> QED BY <2>3, <2>4
  <1>5. CASE my.q # q /\ ~(\E r \in Returnable : ReadToAnswer(d, r))
             /\ ~(\E r \in Returnable, a \in 1..Paid : ReadToApprove(d, r, a))
    <2>1. request'[q] = request[q]
      BY <1>2, <1>5 DEF DeciderStep, CheckPurchase, RefundAllowed, RefundRefused, RefundReplyLost, KeepOpen,
             FailPurchase, DeciderDies, Approve, Reject, Decline, Write, DeskInv, DeskShape
    <2>2. refundedFor'[q] = refundedFor[q]
      BY <1>3, <1>5 DEF DeciderStep, CheckPurchase, RefundAllowed, RefundRefused, RefundReplyLost, KeepOpen,
             FailPurchase, DeciderDies, Approve, Reject, Decline, Write, GiveBack
    <2>3. \A e \in Deciders : e # d => decider'[e] = decider[e]
      BY <1>2, <1>5 DEF DeciderStep, CheckPurchase, RefundAllowed, RefundRefused, RefundReplyLost, KeepOpen,
             FailPurchase, DeciderDies, Approve, Reject, Decline, Write, DeskInv, DeskShape
    <2>4. decider'[d].q \in {my.q, "none"}
      BY <1>2, <1>3, <1>5 DEF DeciderStep, CheckPurchase, RefundAllowed, RefundRefused, RefundReplyLost,
             KeepOpen, FailPurchase, DeciderDies, Approve, Reject, Decline, Write, AfterRefused, NoTask,
             DeskInv, DeskShape
    <2> QED BY <1>2, <1>5, <2>1, <2>2, <2>3, <2>4, QuietElsewhere, ReturnsAssumption
  <1>6. ASSUME my.q = q PROVE /\ request[q].status = "awaiting_merchant"
                              /\ \A e \in Deciders : e # d => decider[e].q # q
                              /\ my.pc \notin {"fail", "write"} => refundedFor[q] = 0
                              /\ my.pc \in {"fail", "write"} => refundedFor[q] = my.amount
    BY <1>2, <1>6, Owned
  <1>7. CASE my.q = q /\ (CheckPurchase(d) \/ KeepOpen(d) \/ RefundRefused(d))
    <2>1. PICK task : decider' = [decider EXCEPT ![d] = task]
      BY <1>7 DEF CheckPurchase, KeepOpen, RefundRefused
    <2>2. UNCHANGED <<request, refundedFor>> /\ my.pc \notin {"fail", "write"}
      BY <1>7 DEF CheckPurchase, KeepOpen, RefundRefused
    <2>3. request'[q].status = "awaiting_merchant" /\ refundedFor'[q] = 0
      BY <1>6, <1>7, <2>2
    <2> QED BY <1>2, <1>6, <1>7, <2>1, <2>3, QuietInHand
  <1>8. CASE my.q = q /\ FailPurchase(d)
    <2>1. PICK task : decider' = [decider EXCEPT ![d] = task] /\ task = [my EXCEPT !.pc = "write"]
      BY <1>8 DEF FailPurchase
    <2>2. UNCHANGED <<request, refundedFor>> /\ my.pc = "fail"
      BY <1>8 DEF FailPurchase
    <2>3. task.q = q /\ task.pc = "write" /\ task.amount = my.amount
      BY <1>3, <1>8, <2>1
    <2>4. request'[q].status = "awaiting_merchant" /\ refundedFor'[q] = task.amount
      BY <1>6, <1>8, <2>2, <2>3
    <2> QED BY <1>2, <1>6, <1>8, <2>1, <2>3, <2>4, QuietInHand
  <1>9. CASE my.q = q /\ RefundAllowed(d)
    <2>1. PICK pc \in {"fail", "write"} : decider' = [decider EXCEPT ![d] = [my EXCEPT !.pc = pc]]
      BY <1>3, <1>9 DEF RefundAllowed
    <2> DEFINE task == [my EXCEPT !.pc = pc]
    <2>2. decider' = [decider EXCEPT ![d] = task] /\ task.q = q /\ task.pc = pc /\ task.amount = my.amount
      BY <1>3, <1>9, <2>1
    <2>3. UNCHANGED request /\ my.pc = "refund"
          /\ refundedFor' = [r \in Returnable |-> refundedFor[r] + IF r = my.q THEN my.amount ELSE 0]
      BY <1>9 DEF RefundAllowed, GiveBack
    <2>4. refundedFor[q] = 0 /\ refundedFor'[q] = my.amount
      BY <1>3, <1>6, <1>9, <2>3
    <2>5. request'[q].status = "awaiting_merchant"
      BY <1>6, <1>9, <2>3
    <2> HIDE DEF task
    <2> QED BY <1>2, <1>6, <1>9, <2>1, <2>2, <2>4, <2>5, QuietInHand
  <1>10. CASE my.q = q /\ (RefundReplyLost(d) \/ DeciderDies(d))
    BY <1>10 DEF RefundReplyLost, DeciderDies, Disturb
  <1>11. CASE my.q = q /\ (Approve(d) \/ Reject(d) \/ Decline(d))
    <2>1. PICK decision : /\ Write(d, decision)
                          /\ \/ my.pc = "answer"
                             \/ my.pc = "write" /\ decision = DecidedAs("refunded", my.amount)
      BY <1>11 DEF Approve, Reject, Decline
    <2>2. /\ request' = [request EXCEPT ![q] = decision] /\ refundedFor' = refundedFor
          /\ decider' = [decider EXCEPT ![d] = NoTask]
      BY <1>11, <2>1 DEF Write
    <2>3. request'[q] = decision /\ \A e \in Deciders : decider'[e].q # q
      BY <1>2, <1>6, <1>11, <2>2, ReturnsAssumption DEF DeskInv, DeskShape, NoTask
    <2>4. \/ refundedFor[q] = 0
          \/ decision.status = "refunded" /\ refundedFor[q] = decision.approved
      BY <1>6, <1>11, <2>1 DEF DecidedAs
    <2> QED BY <2>2, <2>3, <2>4 DEF Quiet, Alone, Accounted, InHandOf
  <1> QED BY <1>4, <1>5, <1>7, <1>8, <1>9, <1>10, <1>11 DEF DeciderStep, ReadToAnswer, ReadToApprove

LEMMA NextQuiet == QuietInv /\ [ReturnsNext]_returnsVars => QuietInv'
PROOF
  <1> SUFFICES ASSUME QuietInv, [ReturnsNext]_returnsVars PROVE QuietInv'
    OBVIOUS
  <1>1. DeskInv'
    BY NextDesk DEF QuietInv
  <1>2. ASSUME NEW q \in Returnable \ disturbed' PROVE Quiet(q)'
    <2>1. CASE UNCHANGED returnsVars \/ \E a \in 1..Paid : RefundDirectly(a)
      <3>1. UNCHANGED <<request, decider, refundedFor, disturbed>>
        BY <2>1 DEF returnsVars, RefundDirectly
      <3> QED BY <1>2, <3>1, QuietElsewhere DEF QuietInv
    <2> QED BY <1>2, <2>1, OpenerQuiet, DeciderQuiet, SweepQuiet DEF ReturnsNext
  <1> QED BY <1>1, <1>2 DEF QuietInv

\* Nothing was given back for what was refused or left to expire, for every
\* number of deciders and sweeps, unless they interfered with each other.
THEOREM DeniedIsKept == ReturnsSpec => []DeniedMeansKept
PROOF
  <1>1. QuietInv => DeniedMeansKept
    <2> SUFFICES ASSUME QuietInv, NEW q \in Returnable \ disturbed,
                        request[q].status \in {"rejected", "declined_by_desk", "expired"}
                 PROVE  refundedFor[q] = 0
      BY DEF DeniedMeansKept, With
    <2>1. Quiet(q) /\ refundedFor[q] \in Nat
      BY DEF QuietInv, DeskInv, DeskShape
    <2> QED BY <2>1 DEF Quiet, Alone, Accounted
  <1> QED BY <1>1, InitQuiet, NextQuiet, PTL DEF ReturnsSpec

\* Nobody has a decided request in hand, so nobody can change it.
LEMMA StepStands ==
  ASSUME QuietInv, [ReturnsNext]_returnsVars, NEW q \in Returnable \ disturbed',
         q \notin Awaiting \cup With("none")
  PROVE  request'[q] = request[q]
PROOF
  <1>1. disturbed \subseteq disturbed'
    BY DEF ReturnsNext, OpenerStep, CheckEligibility, InsertRequest, InsertRefused, SweepStep, ReadOverdue,
           ClaimExpired, DeciderStep, ReadToAnswer, ReadToApprove, ReadToDecide, CheckPurchase,
           RefundAllowed, GiveBack, RefundRefused, RefundReplyLost, KeepOpen, FailPurchase, DeciderDies,
           Approve, Reject, Decline, Write, RefundDirectly, Take, Disturb, returnsVars
  <1>2. q \in Returnable /\ Quiet(q) /\ DeskShape
    BY <1>1 DEF QuietInv, DeskInv
  <1>3. request[q].status \notin {"awaiting_merchant", "none"}
    BY <1>2 DEF Awaiting, With
  <1>4. \A d \in Deciders : decider[d].q # q
    BY <1>2, <1>3 DEF Quiet, Alone, InHandOf
  <1>5. CASE \E b \in Buyers : OpenerStep(b)
    BY <1>2, <1>3, <1>5
    DEF OpenerStep, CheckEligibility, InsertRequest, InsertRefused, NoRequest, DeskShape
  <1>6. CASE \E d \in Deciders : DeciderStep(d)
    BY <1>2, <1>4, <1>6
    DEF DeciderStep, ReadToAnswer, ReadToApprove, ReadToDecide, CheckPurchase, RefundAllowed, RefundRefused,
        RefundReplyLost, KeepOpen, FailPurchase, DeciderDies, Approve, Reject, Decline, Write, DeskShape
  <1>7. CASE \E w \in ReturnSweeps : SweepStep(w)
    <2>1. PICK w \in ReturnSweeps : SweepStep(w)
      BY <1>7
    <2>2. CASE ClaimExpired(w)
      BY <1>2, <1>3, <2>2 DEF ClaimExpired, ExpiredIfAwaiting, Awaiting, With, DeskShape
    <2> QED BY <2>1, <2>2 DEF SweepStep, ReadOverdue
  <1> QED BY <1>5, <1>6, <1>7 DEF ReturnsNext, RefundDirectly, returnsVars

\* A decision is changed only by somebody who read the request before it, for
\* every number of deciders and sweeps.
THEOREM DecisionsAreFinal == ReturnsSpec => DecisionsStand
PROOF
  <1>1. QuietInv /\ [ReturnsNext]_returnsVars
          => [\A q \in Returnable \ disturbed' :
                q \notin Awaiting \cup With("none") => request'[q] = request[q]]_returnsVars
    BY StepStands
  <1> QED BY <1>1, InitQuiet, NextQuiet, PTL DEF ReturnsSpec, DecisionsStand

-----------------------------------------------------------------------------
(* One request is live or refunded at a time *)

Live(q) == request[q].status \in {"awaiting_merchant", "refunded"}

OneRequestInv ==
  /\ QuietInv
  /\ \A b \in Buyers : opener[b].pc = "insert" => opener[b].seen = {}
  /\ disturbed = {} => \A q, r \in Returnable : Live(q) /\ Live(r) => q = r

LEMMA InitOneRequest == ReturnsInit => OneRequestInv
PROOF
  BY InitQuiet DEF ReturnsInit, OneRequestInv, Live, NoRequest, NoOpening

LEMMA NextOneRequest == OneRequestInv /\ [ReturnsNext]_returnsVars => OneRequestInv'
PROOF
  <1> SUFFICES ASSUME OneRequestInv, [ReturnsNext]_returnsVars PROVE OneRequestInv'
    OBVIOUS
  <1>1. QuietInv'
    BY NextQuiet DEF OneRequestInv
  <1>2. DeskShape
    BY DEF OneRequestInv, QuietInv, DeskInv
  <1>3. \A b \in Buyers : opener'[b].pc = "insert" => opener'[b].seen = {}
    <2>1. CASE UNCHANGED opener
      BY <2>1 DEF OneRequestInv
    <2>2. ASSUME NEW b \in Buyers, OpenerStep(b)
          PROVE  \A c \in Buyers : opener'[c].pc = "insert" => opener'[c].seen = {}
      <3>1. PICK next \in [pc : {"idle", "insert"}, seen : {{}}] : opener' = [opener EXCEPT ![b] = next]
        BY <2>2 DEF OpenerStep, CheckEligibility, ReturnEligible, InsertRequest, InsertRefused, NoOpening
      <3> QED BY <1>2, <3>1 DEF DeskShape, OneRequestInv
    <2> QED BY <2>1, <2>2
    DEF ReturnsNext, SweepStep, ReadOverdue, ClaimExpired, DeciderStep, ReadToAnswer, ReadToApprove,
        ReadToDecide, CheckPurchase, RefundAllowed, RefundRefused, RefundReplyLost, KeepOpen, FailPurchase,
        DeciderDies, Approve, Reject, Decline, Write, RefundDirectly, returnsVars
  <1>4. ASSUME disturbed' = {}, NEW q \in Returnable, NEW r \in Returnable, Live(q)', Live(r)'
        PROVE  q = r
    <2>1. disturbed = {}
      BY <1>4 DEF ReturnsNext, OpenerStep, CheckEligibility, InsertRequest, InsertRefused, SweepStep,
             ReadOverdue, ClaimExpired, DeciderStep, ReadToAnswer, ReadToApprove, ReadToDecide,
             CheckPurchase, RefundAllowed, GiveBack, RefundRefused, RefundReplyLost, KeepOpen,
             FailPurchase, DeciderDies, Approve, Reject, Decline, Write, RefundDirectly, Take, Disturb,
             returnsVars
    <2>2. CASE \E b \in Buyers, s \in Returnable : InsertRequest(b, s)
      <3>1. PICK b \in Buyers, s \in Returnable : InsertRequest(b, s)
        BY <2>2
      <3>2. With("refunded") = {}
        BY <1>4, <3>1 DEF InsertRequest, Disturb, OneRequestInv
      <3>3. \A t \in Returnable : ~Live(t)
        BY <3>1, <3>2 DEF InsertRequest, Awaiting, With, Live
      <3>4. \A t \in Returnable : t # s => request'[t] = request[t]
        BY <1>2, <3>1 DEF InsertRequest, DeskShape
      <3> QED BY <1>4, <3>3, <3>4 DEF Live
    <2>3. CASE \A t \in Returnable : Live(t)' => Live(t)
      BY <1>4, <2>1, <2>3 DEF OneRequestInv
    <2>4. ASSUME NEW d \in Deciders, DeciderStep(d), NEW t \in Returnable, Live(t)' PROVE Live(t)
      <3>1. CASE decider[d].q = t /\ decider[d].pc \in {"answer", "write"}
        <4>1. Quiet(t) /\ DeskInv
          BY <2>1 DEF OneRequestInv, QuietInv
        <4> QED BY <3>1, <4>1, Owned DEF Live
      <3>2. CASE ~(decider[d].q = t /\ decider[d].pc \in {"answer", "write"})
        BY <1>2, <2>4, <3>2
        DEF DeciderStep, ReadToAnswer, ReadToApprove, ReadToDecide, CheckPurchase, RefundAllowed,
            RefundRefused, RefundReplyLost, KeepOpen, FailPurchase, DeciderDies, Approve, Reject, Decline,
            Write, DeskShape, Live
      <3> QED BY <3>1, <3>2
    <2>5. ASSUME NEW w \in ReturnSweeps, SweepStep(w), NEW t \in Returnable, Live(t)' PROVE Live(t)
      <3>1. CASE ClaimExpired(w)
        BY <1>2, <2>5, <3>1 DEF ClaimExpired, ExpiredIfAwaiting, DecidedAs, DeskShape, Live
      <3> QED BY <2>5, <3>1 DEF SweepStep, ReadOverdue, Live
    <2> QED BY <2>2, <2>3, <2>4, <2>5
    DEF ReturnsNext, OpenerStep, CheckEligibility, InsertRefused, RefundDirectly, returnsVars, Live
  <1> QED BY <1>1, <1>3, <1>4 DEF OneRequestInv

\* One purchase is refunded for one of its requests, and for what was decided,
\* for every number of deciders, buyers and sweeps that do not interfere.
THEOREM OneRequestIsRefunded == ReturnsSpec => []RefundedForOneRequest
PROOF
  <1>1. OneRequestInv => RefundedForOneRequest
    <2> SUFFICES ASSUME OneRequestInv, disturbed = {}
                 PROVE  /\ Cardinality({q \in Returnable : refundedFor[q] > 0}) <= 1
                        /\ \A q \in With("refunded") : refundedFor[q] = request[q].approved
      BY DEF RefundedForOneRequest
    <2> DEFINE given == {q \in Returnable : refundedFor[q] > 0}
    <2>1. ASSUME NEW q \in Returnable
          PROVE  Quiet(q) /\ RequestOK(q) /\ refundedFor[q] \in Nat /\ request[q].approved \in Nat
      BY DEF OneRequestInv, QuietInv, DeskInv, DeskShape
    <2>2. \A q \in given : Live(q)
      BY <2>1 DEF Quiet, Alone, Accounted, Live
    <2>3. \A q \in given : given = {q}
      BY <2>2 DEF OneRequestInv
    <2>4. Cardinality(given) <= 1
      <3>1. CASE given = {}
        BY <3>1, FS_EmptySet
      <3>2. CASE given # {}
        <4>1. PICK q : given = {q}
          BY <2>3, <3>2
        <4> HIDE DEF given
        <4> QED BY <4>1, FS_Singleton
      <3> QED BY <3>1, <3>2
    <2>5. \A q \in With("refunded") : refundedFor[q] = request[q].approved
      BY <2>1 DEF With, Quiet, Alone, Accounted, RequestOK
    <2> QED BY <2>4, <2>5
  <1> QED BY <1>1, InitOneRequest, NextOneRequest, PTL DEF ReturnsSpec
=============================================================================
