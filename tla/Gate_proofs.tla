---------------------------- MODULE Gate_proofs ----------------------------
(* What holds of Gate for every value of its constants. *)
EXTENDS Gate, Ledger_proofs, SequenceTheorems

PCOf(p)   == IF p \in Rows THEN AttemptPC ELSE HandlerPC
NextOf(p) == IF p \in Rows THEN {"done", "replay", "fail_row"} ELSE {"idle", "fail_row", "sweep"}
Holding   == {"reserve_stock", "insert", "execute", "insert_coins", "release_short", "fail_short",
              "commit", "give_back"}

\* Where a process may be, and what it has in hand there: whoever holds a
\* reservation has at least its budget among its grants.
ShapeOf(p) ==
  /\ pc[p] \in PCOf(p) /\ next[p] \in NextOf(p)
  /\ p \in Rows => row[p] = p
  /\ pc[p] \in Holding => undo[p] # <<>>
  /\ pc[p] = "reserve_stock" => Len(undo[p]) <= Len(req[p].lines)
Shape == \A p \in Processes : ShapeOf(p)

TypeInv == TypeOK /\ Shape

\* The reservation of a request is a nonempty sequence of grants.
LEMMA GrantsTyped ==
  ASSUME NEW r \in Rows, TypeInv
  PROVE  GrantsOfRow(r) \in Seq(Grant) /\ GrantsOfRow(r) # <<>>
PROOF
  <1>1. req[r].amount \in Nat /\ req[r].lines \in Seq(Line)
    BY GateAssumption DEF TypeInv, TypeOK, Request
  <1>2. Line \subseteq Grant
    BY DEF Line, Grant, Resource
  <1>3. req[r].lines \in Seq(Grant)
    BY <1>1, <1>2
  <1>4. [of |-> Budget, qty |-> req[r].amount] \in Grant
    BY <1>1 DEF Grant, Resource
  <1> DEFINE b == <<[of |-> Budget, qty |-> req[r].amount]>>
  <1>5. b \in Seq(Grant) /\ Len(b) = 1
    BY <1>4
  <1>6. b \o req[r].lines \in Seq(Grant) /\ Len(b \o req[r].lines) = 1 + Len(req[r].lines)
    BY <1>3, <1>5
  <1>7. Len(req[r].lines) \in Nat
    BY <1>3
  <1> QED BY <1>6, <1>7 DEF GrantsOfRow, GrantsOf

LEMMA InitTyped == Init => TypeInv
PROOF
  <1> SUFFICES ASSUME Init PROVE TypeInv
    OBVIOUS
  <1> USE LedgerAssumption, GateAssumption
  <1>1. LedgerTypeOK
    BY DEF Init, LedgerTypeOK, CapIds, Cap, CapStatus, FreshCap, AbsentCap
  <1>2. rows \in [Rows -> Row]
    BY DEF Init, Row, RowStatus, Escalation
  <1>3. pc \in [Processes -> AttemptPC \cup HandlerPC] /\ row \in [Processes -> Rows]
    BY DEF Init, Processes, AttemptPC, HandlerPC
  <1>4. cap \in [Processes -> CapIds] /\ undo \in [Processes -> Seq(Grant)]
    BY DEF Init, CapIds
  <1>5. /\ next \in [Processes -> {"done", "idle", "replay", "fail_row", "sweep"}]
        /\ queue \in [Handlers -> SUBSET Rows] /\ reply \in [Rows -> Decision]
    BY DEF Init, Decision
  <1>6. /\ deals \in [Deals -> {"agreed", "redeemed"}] /\ req \in [Rows -> Requests]
        /\ coins \in Int /\ shadow \in BOOLEAN /\ agentActive \in BOOLEAN
    <2>1. InitCoins \in Nat
      OBVIOUS
    <2>2. coins \in Int
      BY <2>1 DEF Init
    <2> QED BY <2>2 DEF Init
  <1>7. TypeOK
    BY <1>1, <1>2, <1>3, <1>4, <1>5, <1>6 DEF TypeOK
  <1>8. Shape
    BY DEF Init, Shape, ShapeOf, PCOf, NextOf, Holding, Processes, AttemptPC, HandlerPC
  <1> QED BY <1>7, <1>8 DEF TypeInv


\* TypeOK by group of variables.
RowsTyped == rows \in [Rows -> Row]
EnvTyped ==
  /\ deals \in [Deals -> {"agreed", "redeemed"}]
  /\ coins \in Int /\ shadow \in BOOLEAN /\ agentActive \in BOOLEAN
  /\ req \in [Rows -> Requests]
ProcTyped ==
  /\ pc \in [Processes -> AttemptPC \cup HandlerPC]
  /\ row \in [Processes -> Rows]
  /\ cap \in [Processes -> CapIds]
  /\ undo \in [Processes -> Seq(Grant)]
  /\ next \in [Processes -> {"done", "idle", "replay", "fail_row", "sweep"}]
ReplyTyped == queue \in [Handlers -> SUBSET Rows] /\ reply \in [Rows -> Decision]

LEMMA TypeGroups ==
  /\ TypeOK <=> LedgerTypeOK /\ RowsTyped /\ EnvTyped /\ ProcTyped /\ ReplyTyped
  /\ TypeOK' <=> LedgerTypeOK' /\ RowsTyped' /\ EnvTyped' /\ ProcTyped' /\ ReplyTyped'
  BY DEF TypeOK, RowsTyped, EnvTyped, ProcTyped, ReplyTyped

LEMMA DecisionTyped == ASSUME NEW o \in Rows PROVE resultFromExistingAction(o) \in Decision
  BY DEF resultFromExistingAction, Decision

\* A step of p to label, with grants in hand and succ to follow, on row r and cap c.
Moves(p, label, grants, succ, r, c) ==
  /\ pc' = [pc EXCEPT ![p] = label]
  /\ undo' = [undo EXCEPT ![p] = grants]
  /\ next' = [next EXCEPT ![p] = succ]
  /\ row' = [row EXCEPT ![p] = r]
  /\ cap' = [cap EXCEPT ![p] = c]
  /\ req' = req

LEMMA MoveTyped ==
  ASSUME ProcTyped, Shape, NEW p \in Processes, NEW label \in PCOf(p), NEW grants \in Seq(Grant),
         NEW succ \in NextOf(p), NEW r \in Rows, NEW c \in CapIds,
         Moves(p, label, grants, succ, r, c),
         p \in Rows => r = p,
         label \in Holding => grants # <<>>,
         label = "reserve_stock" => Len(grants) <= Len(req[p].lines)
  PROVE  ProcTyped' /\ Shape'
PROOF
  <1>1. label \in AttemptPC \cup HandlerPC
    BY DEF PCOf
  <1>2. succ \in {"done", "idle", "replay", "fail_row", "sweep"}
    BY DEF NextOf
  <1>3. ProcTyped'
    BY <1>1, <1>2 DEF ProcTyped, Moves
  <1>4. ASSUME NEW q \in Processes PROVE ShapeOf(q)'
    <2>1. CASE q = p
      BY <2>1 DEF ShapeOf, PCOf, NextOf, Holding, Moves, ProcTyped
    <2>2. CASE q # p
      BY <2>2 DEF Shape, ShapeOf, PCOf, NextOf, Holding, Moves, ProcTyped
    <2> QED BY <2>1, <2>2
  <1> QED BY <1>3, <1>4 DEF Shape

\* Nothing else has to be said of a step that only moves p to label.
LEMMA GotoTyped ==
  ASSUME ProcTyped, Shape, NEW p \in Processes, NEW label \in PCOf(p),
         Goto(p, label), UNCHANGED <<undo, next, row, cap, req>>,
         label \in Holding => undo[p] # <<>>,
         label = "reserve_stock" => Len(undo[p]) <= Len(req[p].lines)
  PROVE  ProcTyped' /\ Shape'
PROOF
  <1>1. /\ undo[p] \in Seq(Grant) /\ next[p] \in NextOf(p) /\ row[p] \in Rows /\ cap[p] \in CapIds
        /\ p \in Rows => row[p] = p
    BY DEF ProcTyped, Shape, ShapeOf
  <1>2. Moves(p, label, undo[p], next[p], row[p], cap[p])
    BY DEF Moves, Goto, ProcTyped
  <1> QED BY <1>1, <1>2, MoveTyped

\* p starts to give grants back.
LEMMA UnwindTyped ==
  ASSUME ProcTyped, Shape, NEW p \in Processes, NEW grants \in Seq(Grant), grants # <<>>,
         NEW label \in NextOf(p), Unwind(p, grants, label), UNCHANGED <<row, cap, req>>
  PROVE  ProcTyped' /\ Shape'
PROOF
  <1>1. row[p] \in Rows /\ cap[p] \in CapIds /\ (p \in Rows => row[p] = p)
    BY DEF ProcTyped, Shape, ShapeOf
  <1>2. Moves(p, "give_back", grants, label, row[p], cap[p])
    BY DEF Moves, Goto, ProcTyped, Unwind
  <1>3. "give_back" \in PCOf(p)
    BY DEF PCOf, AttemptPC, HandlerPC
  <1> QED BY <1>1, <1>2, <1>3, MoveTyped

\* The budget of a reservation is its first grant.
LEMMA HeadTyped ==
  ASSUME NEW grants \in Seq(Grant), grants # <<>>
  PROVE  /\ Head(grants) \in Grant /\ Tail(grants) \in Seq(Grant)
         /\ Len(grants) # 1 => Tail(grants) # <<>>
         /\ <<Head(grants)>> \in Seq(Grant) /\ <<Head(grants)>> # <<>>
         /\ Append(Tail(grants), Head(grants)) \in Seq(Grant)
         /\ Append(Tail(grants), Head(grants)) # <<>>
PROOF
  <1>1. /\ Head(grants) \in Grant /\ Tail(grants) \in Seq(Grant)
        /\ Len(Tail(grants)) = Len(grants) - 1
    BY HeadTailProperties
  <1>2. Len(grants) # 1 => Tail(grants) # <<>>
    <2> SUFFICES ASSUME Tail(grants) = <<>> PROVE Len(grants) = 1
      OBVIOUS
    <2>1. Len(Tail(grants)) = 0
      BY EmptySeq
    <2>2. Len(grants) \in Nat
      BY LenProperties
    <2> QED BY <1>1, <2>1, <2>2
  <1>3. <<Head(grants)>> \in Seq(Grant) /\ <<Head(grants)>> # <<>>
    BY <1>1
  <1>4. /\ Append(Tail(grants), Head(grants)) \in Seq(Grant)
        /\ Append(Tail(grants), Head(grants)) # <<>>
    BY <1>1, AppendProperties
  <1> QED BY <1>1, <1>2, <1>3, <1>4

-----------------------------------------------------------------------------
(* One lemma per group of actions, one step per action.                    *)

\* executeAndSettle, on whichever process it runs.
LEMMA SettleTyped ==
  ASSUME TypeInv, NEW p \in Processes, Settle(p)
  PROVE  TypeInv'
PROOF
  <1>0. LedgerTypeOK /\ RowsTyped /\ EnvTyped /\ ProcTyped /\ ReplyTyped /\ Shape
    BY TypeGroups DEF TypeInv
  <1> SUFFICES LedgerTypeOK' /\ RowsTyped' /\ EnvTyped' /\ ProcTyped' /\ ReplyTyped' /\ Shape'
    BY TypeGroups DEF TypeInv
  <1>p. row[p] \in Rows /\ cap[p] \in CapIds /\ undo[p] \in Seq(Grant) /\ next[p] \in NextOf(p)
    BY <1>0 DEF ProcTyped, Shape, ShapeOf
  <1>w. /\ "fail_row" \in NextOf(p) /\ Over(p) \in PCOf(p)
        /\ "commit" \in PCOf(p) /\ "redeem" \in PCOf(p)
        /\ "fail_row" \in PCOf(p) /\ "give_back" \in PCOf(p)
        /\ Over(p) \notin Holding /\ Over(p) # "reserve_stock"
        /\ "redeem" \notin Holding /\ "fail_row" \notin Holding
    <2>1. CASE p \in Rows
      BY <2>1 DEF NextOf, PCOf, Over, AttemptPC, Holding
    <2>2. CASE p \notin Rows
      BY <2>2 DEF NextOf, PCOf, Over, HandlerPC, Holding
    <2> QED BY <2>1, <2>2
  <1>k. ExecutedKind(p) \in Kinds
    BY <1>0, GateAssumption DEF ExecutedKind, EnvTyped, Request, Kinds
  <1>h. pc[p] \in Holding => /\ undo[p] # <<>> 
                              /\ <<Head(undo[p])>> \in Seq(Grant) /\ <<Head(undo[p])>> # <<>>
    BY <1>0, <1>p, HeadTyped DEF Shape, ShapeOf
  <1>1. CASE SettleCoins(p)
    <2>1. RowsTyped'
      BY <1>0, <1>1, <1>p, <1>k DEF SettleCoins, RowsTyped, Row
    <2>2. EnvTyped'
      <3>1. req[row[p]].amount \in Nat
        BY <1>0, <1>p, GateAssumption DEF EnvTyped, Request
      <3>2. CoinsDelta(p) \in Int
        BY <3>1 DEF CoinsDelta
      <3> QED BY <1>0, <1>1, <3>2 DEF SettleCoins, EnvTyped
    <2>3. ProcTyped' /\ Shape'
      BY <1>0, <1>1, <1>w, <1>h, GotoTyped DEF SettleCoins, Holding
    <2> QED BY <1>0, <1>1, <2>1, <2>2, <2>3 DEF SettleCoins, LedgerTypeOK, ReplyTyped, ledgerVars
  <1>7. CASE SumBalance(p)
    <2>1. PICK label \in {"insert_coins", "release_short"} : Goto(p, label)
      BY <1>7 DEF SumBalance
    <2>2. label \in PCOf(p) /\ pc[p] \in Holding
      BY <1>7 DEF SumBalance, ExecutedKind, CoinKinds, PCOf, AttemptPC, Holding
    <2>3. ProcTyped' /\ Shape'
      BY <1>0, <1>7, <1>h, <2>1, <2>2, GotoTyped DEF SumBalance
    <2> QED BY <1>0, <1>7, <2>3
            DEF SumBalance, LedgerTypeOK, RowsTyped, EnvTyped, ReplyTyped, ledgerVars, envVars
  <1>8. CASE ReleaseShort(p)
    <2>1. LedgerTypeOK'
      BY <1>0, <1>8, <1>p, <1>h, HeadTyped, ReleaseTyped DEF ReleaseShort, Holding
    <2>2. p \in Rows
      BY <1>0, <1>8 DEF ReleaseShort, Shape, ShapeOf, PCOf, HandlerPC
    <2>3. "fail_short" \in PCOf(p) /\ pc[p] \in Holding
      BY <1>8, <2>2 DEF ReleaseShort, PCOf, AttemptPC, Holding
    <2>4. ProcTyped' /\ Shape'
      BY <1>0, <1>8, <1>h, <2>3, GotoTyped DEF ReleaseShort
    <2> QED BY <1>0, <1>8, <2>1, <2>4 DEF ReleaseShort, RowsTyped, EnvTyped, ReplyTyped, envVars
  <1>2. CASE CallRazorpay(p)
    <2>1. RowsTyped'
      BY <1>0, <1>2, <1>p, <1>k DEF CallRazorpay, RowsTyped, Row
    <2>2. ProcTyped' /\ Shape'
      <3>h. pc[p] \in Holding
        BY <1>2 DEF CallRazorpay, Holding
      <3>1. CASE Goto(p, "commit") /\ UNCHANGED <<undo, next>>
        BY <1>0, <1>2, <1>w, <1>h, <3>h, <3>1, GotoTyped DEF CallRazorpay
      <3>2. CASE Unwind(p, undo[p], "fail_row")
        BY <1>0, <1>2, <1>p, <1>w, <1>h, <3>h, <3>2, UnwindTyped DEF CallRazorpay
      <3> QED BY <1>2, <3>1, <3>2 DEF CallRazorpay
    <2> QED BY <1>0, <1>2, <2>1, <2>2
            DEF CallRazorpay, LedgerTypeOK, EnvTyped, ReplyTyped, ledgerVars, envVars
  <1>3. CASE CommitRow(p)
    <2>1. RowsTyped'
      BY <1>0, <1>3, <1>p DEF CommitRow, RowsTyped, Row, RowStatus
    <2>2. ReplyTyped'
      BY <1>0, <1>3 DEF CommitRow, ReplyTyped, Answer, Decision
    <2>3. ProcTyped' /\ Shape'
      <3> DEFINE label == IF req[row[p]].deal = NoDeal THEN Over(p) ELSE "redeem"
      <3>1. Moves(p, label, <<>>, next[p], row[p], cap[p])
        BY <1>0, <1>3 DEF CommitRow, Moves, Goto, ProcTyped
      <3>2. label \in PCOf(p) /\ label \notin Holding /\ label # "reserve_stock"
        BY <1>w
      <3>3. <<>> \in Seq(Grant) /\ (p \in Rows => row[p] = p)
        BY <1>0 DEF Shape, ShapeOf
      <3> HIDE DEF label
      <3> QED BY <1>0, <1>p, <3>1, <3>2, <3>3, MoveTyped
    <2> QED BY <1>0, <1>3, <2>1, <2>2, <2>3 DEF CommitRow, LedgerTypeOK, EnvTyped, ledgerVars, envVars
  <1>4. CASE markNegotiationRedeemed(p)
    <2>1. EnvTyped'
      BY <1>0, <1>4 DEF markNegotiationRedeemed, EnvTyped
    <2>2. ProcTyped' /\ Shape'
      BY <1>0, <1>4, <1>w, GotoTyped DEF markNegotiationRedeemed
    <2> QED BY <1>0, <1>4, <2>1, <2>2
            DEF markNegotiationRedeemed, LedgerTypeOK, RowsTyped, ReplyTyped, ledgerVars
  <1>5. CASE GiveBack(p)
    <2>h. undo[p] # <<>>
      BY <1>5, <1>h DEF GiveBack, Holding
    <2>1. LedgerTypeOK'
      BY <1>0, <1>5, <1>p, <2>h, HeadTyped, ReleaseTyped DEF GiveBack
    <2>2. ProcTyped' /\ Shape'
      <3> DEFINE label == IF Len(undo[p]) = 1 THEN next[p] ELSE "give_back"
      <3>1. Moves(p, label, Tail(undo[p]), next[p], row[p], cap[p])
        BY <1>0, <1>5 DEF GiveBack, Moves, Goto, ProcTyped
      <3>2. label \in PCOf(p) /\ label # "reserve_stock"
        BY <1>p, <1>w DEF PCOf, NextOf, AttemptPC, HandlerPC
      <3>3. label \in Holding => Tail(undo[p]) # <<>>
        <4>1. next[p] \notin Holding
          BY <1>p DEF NextOf, Holding
        <4> QED BY <1>p, <2>h, <4>1, HeadTyped
      <3>4. Tail(undo[p]) \in Seq(Grant) /\ (p \in Rows => row[p] = p)
        BY <1>0, <1>p, <2>h, HeadTyped DEF Shape, ShapeOf
      <3> HIDE DEF label
      <3> QED BY <1>0, <1>p, <3>1, <3>2, <3>3, <3>4, MoveTyped
    <2> QED BY <1>0, <1>5, <2>1, <2>2 DEF GiveBack, RowsTyped, EnvTyped, ReplyTyped, envVars
  <1>6. CASE FailRow(p)
    <2>1. RowsTyped'
      BY <1>0, <1>6, <1>p DEF FailRow, RowsTyped, Row, RowStatus
    <2>2. ReplyTyped'
      BY <1>0, <1>6 DEF FailRow, ReplyTyped, Answer, Decision
    <2>3. ProcTyped' /\ Shape'
      <3>1. Moves(p, Over(p), <<>>, next[p], row[p], cap[p])
        BY <1>0, <1>6 DEF FailRow, Moves, Goto, ProcTyped
      <3>2. <<>> \in Seq(Grant) /\ (p \in Rows => row[p] = p)
        BY <1>0 DEF Shape, ShapeOf
      <3> QED BY <1>0, <1>p, <1>w, <3>1, <3>2, MoveTyped
    <2> QED BY <1>0, <1>6, <2>1, <2>2, <2>3 DEF FailRow, LedgerTypeOK, EnvTyped, ledgerVars, envVars
  <1> QED BY <1>1, <1>2, <1>3, <1>4, <1>5, <1>6, <1>7, <1>8 DEF Settle
\* attemptMoneyAction up to executeAndSettle.
LEMMA AttemptTyped ==
  ASSUME TypeInv, NEW r \in Rows, AttemptStep(r)
  PROVE  TypeInv'
PROOF
  <1>0. LedgerTypeOK /\ RowsTyped /\ EnvTyped /\ ProcTyped /\ ReplyTyped /\ Shape
    BY TypeGroups DEF TypeInv
  <1> SUFFICES LedgerTypeOK' /\ RowsTyped' /\ EnvTyped' /\ ProcTyped' /\ ReplyTyped' /\ Shape'
    BY TypeGroups DEF TypeInv
  <1>p. /\ r \in Processes /\ PCOf(r) = AttemptPC /\ ShapeOf(r) /\ row[r] = r
        /\ cap[r] \in CapIds /\ undo[r] \in Seq(Grant) /\ next[r] \in NextOf(r)
    BY <1>0 DEF ProcTyped, Shape, ShapeOf, Processes, PCOf
  <1>n. "done" \in NextOf(r) /\ "replay" \in NextOf(r)
    BY DEF NextOf
  <1>q. req[r].amount \in Nat /\ req[r].lines \in Seq(Line)
    BY <1>0, GateAssumption DEF EnvTyped, Request
  <1>c. capCount \in CapIds
    BY <1>0 DEF LedgerTypeOK
  <1>1. CASE Begin(r)
    <2>1. ProcTyped' /\ Shape'
      BY <1>0, <1>1, <1>p, GotoTyped DEF Begin, AttemptPC, Holding, envVars
    <2>2. ReplyTyped'
      BY <1>0, <1>1, DecisionTyped DEF Begin, ReplyTyped, Answer, SameKey
    <2> QED BY <1>0, <1>1, <2>1, <2>2 DEF Begin, LedgerTypeOK, RowsTyped, EnvTyped, ledgerVars, envVars
  <1>2. CASE checkBounds(r)
    <2>1. LedgerTypeOK'
      BY <1>0, <1>2 DEF checkBounds, LedgerTypeOK, Cap, CapStatus
    <2>2. ProcTyped' /\ Shape'
      BY <1>0, <1>2, <1>p, GotoTyped DEF checkBounds, Deny, AttemptPC, Holding
    <2>3. ReplyTyped'
      BY <1>0, <1>2 DEF checkBounds, ReplyTyped, Deny, Answer, Decision
    <2> QED BY <1>0, <1>2, <2>1, <2>2, <2>3 DEF checkBounds, RowsTyped, EnvTyped, envVars
  <1>3. CASE ReadCap(r)
    <2>1. Moves(r, "reserve_budget", undo[r], next[r], row[r], capCount)
      BY <1>0, <1>3 DEF ReadCap, Moves, Goto, ProcTyped
    <2>2. ProcTyped' /\ Shape'
      BY <1>0, <1>p, <1>c, <2>1, MoveTyped DEF AttemptPC, Holding
    <2> QED BY <1>0, <1>3, <2>2
            DEF ReadCap, LedgerTypeOK, RowsTyped, EnvTyped, ReplyTyped, ledgerVars, envVars
  <1>4. CASE ReserveBudget(r)
    <2> DEFINE grant == Head(GrantsOfRow(r))
    <2>g. grant \in Grant
      BY GrantsTyped, HeadTyped
    <2>1. CASE /\ reserveBudget(r, cap[r], grant)
               /\ undo' = [undo EXCEPT ![r] = <<grant>>]
               /\ Goto(r, AfterLine(r, 0))
               /\ UNCHANGED reply
      <3>1. LedgerTypeOK'
        BY <1>0, <1>p, <2>1, <2>g, ReserveBudgetTyped
      <3>2. Moves(r, AfterLine(r, 0), <<grant>>, next[r], row[r], cap[r])
        BY <1>0, <1>4, <2>1 DEF ReserveBudget, Moves, Goto, ProcTyped
      <3>3. /\ AfterLine(r, 0) \in AttemptPC
            /\ AfterLine(r, 0) = "reserve_stock" => 1 <= Len(req[r].lines)
        <4>1. Len(req[r].lines) \in Nat
          BY <1>q, LenProperties
        <4> QED BY <4>1 DEF AfterLine, AttemptPC
      <3>4. <<grant>> \in Seq(Grant) /\ <<grant>> # <<>> /\ Len(<<grant>>) = 1
        BY <2>g
      <3> DEFINE label == AfterLine(r, 0)
                 grants == <<grant>>
      <3>5. ProcTyped' /\ Shape'
        <4>1. /\ label \in PCOf(r) /\ grants \in Seq(Grant) /\ grants # <<>>
              /\ label = "reserve_stock" => Len(grants) <= Len(req[r].lines)
          BY <1>p, <3>3, <3>4
        <4>2. Moves(r, label, grants, next[r], row[r], cap[r])
          BY <3>2
        <4> HIDE DEF grant, label, grants
        <4> QED BY <1>0, <1>p, <4>1, <4>2, MoveTyped
      <3> QED BY <1>0, <1>4, <2>1, <3>1, <3>5
              DEF ReserveBudget, RowsTyped, EnvTyped, ReplyTyped, envVars
    <2>2. CASE Deny(r) /\ UNCHANGED <<ledgerVars, undo>>
      <3>1. ProcTyped' /\ Shape'
        BY <1>0, <1>4, <1>p, <2>2, GotoTyped DEF ReserveBudget, Deny, AttemptPC, Holding
      <3>2. ReplyTyped'
        BY <1>0, <1>4, <2>2 DEF ReserveBudget, ReplyTyped, Deny, Answer, Decision
      <3> QED BY <1>0, <1>4, <2>2, <3>1, <3>2
              DEF ReserveBudget, LedgerTypeOK, RowsTyped, EnvTyped, ledgerVars, envVars
    <2> QED BY <1>4, <2>1, <2>2 DEF ReserveBudget
  <1>5. CASE ReserveStock(r)
    <2> DEFINE taken == undo[r]
               line  == req[r].lines[Len(undo[r])]
    <2>h. taken # <<>> /\ Len(taken) <= Len(req[r].lines)
      BY <1>5, <1>p DEF ReserveStock, ShapeOf, Holding
    <2>l. Len(taken) \in 1 .. Len(req[r].lines)
      <3>1. Len(taken) \in Nat \ {0}
        BY <1>p, <2>h, EmptySeq
      <3>2. Len(req[r].lines) \in Nat
        BY <1>q, LenProperties
      <3> QED BY <2>h, <3>1, <3>2
    <2>m. line \in Line /\ line \in Grant
      <3>1. line \in Line
        BY <1>q, <2>l
      <3> QED BY <3>1 DEF Line, Grant, Resource
    <2>1. CASE /\ reserveStock(r, line)
               /\ undo' = [undo EXCEPT ![r] = Append(taken, line)]
               /\ Goto(r, AfterLine(r, Len(taken)))
               /\ UNCHANGED <<next, reply>>
      <3>1. LedgerTypeOK'
        BY <1>0, <2>1, <2>m, ReserveStockTyped
      <3>2. Moves(r, AfterLine(r, Len(taken)), Append(taken, line), next[r], row[r], cap[r])
        BY <1>0, <1>5, <2>1 DEF ReserveStock, Moves, Goto, ProcTyped
      <3>3. /\ Append(taken, line) \in Seq(Grant) /\ Append(taken, line) # <<>>
            /\ Len(Append(taken, line)) = Len(taken) + 1
        BY <1>p, <2>m, AppendProperties
      <3>4. /\ AfterLine(r, Len(taken)) \in AttemptPC
            /\ AfterLine(r, Len(taken)) = "reserve_stock" => Len(taken) + 1 <= Len(req[r].lines)
        BY <2>l DEF AfterLine, AttemptPC
      <3>5. ProcTyped' /\ Shape'
        <4> DEFINE label == AfterLine(r, Len(taken))
                   more  == Append(taken, line)
        <4>1. /\ label \in PCOf(r) /\ more \in Seq(Grant) /\ more # <<>>
              /\ label = "reserve_stock" => Len(more) <= Len(req[r].lines)
          BY <1>p, <3>3, <3>4
        <4>2. Moves(r, label, more, next[r], row[r], cap[r])
          BY <3>2
        <4> HIDE DEF label, more
        <4> QED BY <1>0, <1>p, <4>1, <4>2, MoveTyped
      <3> QED BY <1>0, <1>5, <2>1, <3>1, <3>5
              DEF ReserveStock, RowsTyped, EnvTyped, ReplyTyped, envVars
    <2>2. CASE /\ Unwind(r, Append(Tail(taken), Head(taken)), "done")
               /\ Answer(r, "deny")
               /\ UNCHANGED ledgerVars
      <3>1. /\ Append(Tail(taken), Head(taken)) \in Seq(Grant)
            /\ Append(Tail(taken), Head(taken)) # <<>>
        BY <1>p, <2>h, HeadTyped
      <3>2. ProcTyped' /\ Shape'
        BY <1>0, <1>5, <1>p, <1>n, <2>2, <3>1, UnwindTyped DEF ReserveStock, envVars
      <3>3. ReplyTyped'
        BY <1>0, <1>5, <2>2 DEF ReserveStock, ReplyTyped, Answer, Decision
      <3> QED BY <1>0, <1>5, <2>2, <3>2, <3>3
              DEF ReserveStock, LedgerTypeOK, RowsTyped, EnvTyped, ledgerVars, envVars
    <2> QED BY <1>5, <2>1, <2>2 DEF ReserveStock
  <1>6. CASE InsertOrReplay(r)
    <2>h. undo[r] # <<>>
      BY <1>6, <1>p DEF InsertOrReplay, ShapeOf, Holding
    <2>1. RowsTyped'
      BY <1>0, <1>6 DEF InsertOrReplay, RowsTyped, Row, RowStatus
    <2>2. ProcTyped' /\ Shape'
      <3>1. CASE Unwind(r, undo[r], "replay")
        BY <1>0, <1>6, <1>p, <1>n, <2>h, <3>1, UnwindTyped DEF InsertOrReplay
      <3>2. CASE UNCHANGED <<undo, next>> /\ (Goto(r, "execute") \/ Goto(r, "escalate"))
        BY <1>0, <1>6, <1>p, <2>h, <3>2, GotoTyped DEF InsertOrReplay, AttemptPC, Holding
      <3> QED BY <1>6, <3>1, <3>2 DEF InsertOrReplay
    <2> QED BY <1>0, <1>6, <2>1, <2>2
            DEF InsertOrReplay, LedgerTypeOK, EnvTyped, ReplyTyped, ledgerVars, envVars
  <1>7. CASE Replay(r)
    <2>1. ProcTyped' /\ Shape'
      BY <1>0, <1>7, <1>p, GotoTyped DEF Replay, AttemptPC, Holding
    <2>2. ReplyTyped'
      BY <1>0, <1>7, DecisionTyped DEF Replay, ReplyTyped, Answer, SameKey
    <2> QED BY <1>0, <1>7, <2>1, <2>2 DEF Replay, LedgerTypeOK, RowsTyped, EnvTyped, ledgerVars, envVars
  <1>8. CASE InsertEscalation(r)
    <2>1. Moves(r, "done", <<>>, next[r], row[r], cap[r])
      BY <1>0, <1>8 DEF InsertEscalation, Moves, Goto, ProcTyped
    <2>2. ProcTyped' /\ Shape'
      BY <1>0, <1>p, <2>1, <<>> \in Seq(Grant), MoveTyped DEF AttemptPC, Holding
    <2>3. RowsTyped'
      BY <1>0, <1>8 DEF InsertEscalation, RowsTyped, Row, Escalation
    <2>4. ReplyTyped'
      BY <1>0, <1>8 DEF InsertEscalation, ReplyTyped, Answer, Decision
    <2> QED BY <1>0, <1>8, <2>2, <2>3, <2>4 DEF InsertEscalation, LedgerTypeOK, EnvTyped, ledgerVars, envVars
  <1>9. CASE Settle(r)
    BY <1>9, <1>p, SettleTyped, TypeGroups DEF TypeInv
  <1> QED BY <1>1, <1>2, <1>3, <1>4, <1>5, <1>6, <1>7, <1>8, <1>9 DEF AttemptStep

\* The sweep, the resolution of an escalation and setSpendCap.
LEMMA HandlerTyped ==
  ASSUME TypeInv, NEW h \in Handlers, HandlerStep(h) \/ HandlerCall(h)
  PROVE  TypeInv'
PROOF
  <1>0. LedgerTypeOK /\ RowsTyped /\ EnvTyped /\ ProcTyped /\ ReplyTyped /\ Shape
    BY TypeGroups DEF TypeInv
  <1> SUFFICES LedgerTypeOK' /\ RowsTyped' /\ EnvTyped' /\ ProcTyped' /\ ReplyTyped' /\ Shape'
    BY TypeGroups DEF TypeInv
  <1>p. /\ h \in Processes /\ h \notin Rows /\ PCOf(h) = HandlerPC /\ ShapeOf(h)
        /\ row[h] \in Rows /\ cap[h] \in CapIds /\ undo[h] \in Seq(Grant) /\ next[h] \in NextOf(h)
    BY <1>0, GateAssumption DEF ProcTyped, Shape, ShapeOf, Processes, PCOf
  <1>n. "sweep" \in NextOf(h) /\ "fail_row" \in NextOf(h)
    BY <1>p DEF NextOf
  <1>l. /\ "give_back" \in PCOf(h) /\ "execute" \in PCOf(h) /\ "sweep" \in PCOf(h)
        /\ "idle" \in PCOf(h) /\ "insert_cap" \in PCOf(h)
        /\ "sweep" \notin Holding /\ "idle" \notin Holding /\ "insert_cap" \notin Holding
    BY <1>p DEF HandlerPC, Holding
  <1>c. capCount \in CapIds
    BY <1>0 DEF LedgerTypeOK
  <1>1. CASE ReleaseClaimed(h)
    <2>1. ReplyTyped'
      BY <1>0, <1>1 DEF ReleaseClaimed, ReplyTyped
    <2>2. ProcTyped' /\ Shape'
      <3>1. ASSUME NEW r \in queue[h], row' = [row EXCEPT ![h] = r], cap' = [cap EXCEPT ![h] = capCount],
                   Unwind(h, GrantsOfRow(r), "sweep")
            PROVE  ProcTyped' /\ Shape'
        <4>1. r \in Rows
          BY <1>0 DEF ReplyTyped
        <4>2. Moves(h, "give_back", GrantsOfRow(r), "sweep", r, capCount)
          BY <1>1, <3>1 DEF ReleaseClaimed, Moves, Unwind, Goto
        <4>3. GrantsOfRow(r) \in Seq(Grant) /\ GrantsOfRow(r) # <<>>
          BY <4>1, GrantsTyped
        <4> QED BY <1>0, <1>p, <1>n, <1>l, <1>c, <4>1, <4>2, <4>3, MoveTyped
      <3>2. CASE Goto(h, "idle") /\ UNCHANGED <<row, cap, undo, next, queue>>
        BY <1>0, <1>1, <1>p, <1>l, <3>2, GotoTyped DEF ReleaseClaimed
      <3> QED BY <1>1, <3>1, <3>2 DEF ReleaseClaimed
    <2> QED BY <1>0, <1>1, <2>1, <2>2 DEF ReleaseClaimed, LedgerTypeOK, RowsTyped, EnvTyped, ledgerVars, envVars
  <1>2. CASE InsertCap(h)
    <2>1. LedgerTypeOK'
      <3>1. /\ capCount + 1 \in CapIds
            /\ \A choice \in CapChoices : FreshCap(choice) \in Cap
        BY <1>0, <1>2, LedgerAssumption, GateAssumption
           DEF InsertCap, LedgerTypeOK, CapIds, Cap, CapStatus, FreshCap
      <3> QED BY <1>0, <1>2, <3>1 DEF InsertCap, LedgerTypeOK
    <2>2. ProcTyped' /\ Shape'
      BY <1>0, <1>2, <1>p, <1>l, GotoTyped DEF InsertCap
    <2> QED BY <1>0, <1>2, <2>1, <2>2 DEF InsertCap, RowsTyped, EnvTyped, ReplyTyped, envVars
  <1>3. CASE Settle(h)
    BY <1>3, <1>p, SettleTyped, TypeGroups DEF TypeInv
  <1>4. CASE ClaimExpired(h)
    <2>1. RowsTyped'
      <3>1. \A r \in Rows : /\ rows[r] \in Row
                            /\ [rows[r] EXCEPT !.status = "failed", !.armed = FALSE] \in Row
        BY <1>0 DEF RowsTyped, Row, RowStatus
      <3>2. PICK claimed \in SUBSET {r \in Rows : Expired(r)} :
              rows' = [r \in Rows |-> IF r \in claimed
                                      THEN [rows[r] EXCEPT !.status = "failed", !.armed = FALSE]
                                      ELSE rows[r]]
        BY <1>4 DEF ClaimExpired
      <3> QED BY <3>1, <3>2 DEF RowsTyped
    <2>2. ReplyTyped'
      BY <1>0, <1>4 DEF ClaimExpired, ReplyTyped
    <2>3. ProcTyped' /\ Shape'
      BY <1>0, <1>4, <1>p, <1>l, GotoTyped DEF ClaimExpired
    <2> QED BY <1>0, <1>4, <2>1, <2>2, <2>3 DEF ClaimExpired, LedgerTypeOK, EnvTyped, ledgerVars, envVars
  <1>5. ASSUME NEW r \in Rows, Approve(h, r) \/ Reject(h, r)
        PROVE  LedgerTypeOK' /\ RowsTyped' /\ EnvTyped' /\ ProcTyped' /\ ReplyTyped' /\ Shape'
    <2>1. RowsTyped'
      BY <1>0, <1>5 DEF Approve, Reject, ClaimEscalation, RowsTyped, Row, Escalation
    <2>g. GrantsOfRow(r) \in Seq(Grant) /\ GrantsOfRow(r) # <<>>
      BY GrantsTyped
    <2>c. cap[r] \in CapIds
      BY <1>0 DEF ProcTyped, Processes
    <2>2. CASE Approve(h, r)
      <3>1. Moves(h, "execute", GrantsOfRow(r), next[h], r, cap[r])
        BY <1>0, <2>2 DEF Approve, ClaimEscalation, Moves, Goto, ProcTyped
      <3>2. ProcTyped' /\ Shape'
        BY <1>0, <1>p, <1>l, <2>g, <2>c, <3>1, MoveTyped DEF Holding
      <3> QED BY <1>0, <2>1, <2>2, <3>2 DEF Approve, LedgerTypeOK, EnvTyped, ReplyTyped, ledgerVars, envVars
    <2>3. CASE Reject(h, r)
      <3>1. Moves(h, "give_back", GrantsOfRow(r), "fail_row", r, cap[r])
        BY <1>0, <2>3 DEF Reject, ClaimEscalation, Moves, Unwind, Goto, ProcTyped
      <3>2. ProcTyped' /\ Shape'
        BY <1>0, <1>p, <1>l, <1>n, <2>g, <2>c, <3>1, MoveTyped
      <3> QED BY <1>0, <2>1, <2>3, <3>2 DEF Reject, LedgerTypeOK, EnvTyped, ReplyTyped, ledgerVars, envVars
    <2> QED BY <1>5, <2>2, <2>3
  <1>6. CASE RevokeCaps(h)
    <2>1. LedgerTypeOK'
      BY <1>0, <1>6 DEF RevokeCaps, LedgerTypeOK, Cap, CapStatus
    <2>2. ProcTyped' /\ Shape'
      BY <1>0, <1>6, <1>p, <1>l, GotoTyped DEF RevokeCaps
    <2> QED BY <1>0, <1>6, <2>1, <2>2 DEF RevokeCaps, RowsTyped, EnvTyped, ReplyTyped, envVars
  <1> QED BY <1>1, <1>2, <1>3, <1>4, <1>5, <1>6 DEF HandlerStep, HandlerCall

\* Thrown queries, dead processes, and the world around.
LEMMA FailureTyped ==
  ASSUME TypeInv, Failure \/ Lapse \/ ToggleShadow \/ ToggleAgent
  PROVE  TypeInv'
PROOF
  <1>0. LedgerTypeOK /\ RowsTyped /\ EnvTyped /\ ProcTyped /\ ReplyTyped /\ Shape
    BY TypeGroups DEF TypeInv
  <1> SUFFICES LedgerTypeOK' /\ RowsTyped' /\ EnvTyped' /\ ProcTyped' /\ ReplyTyped' /\ Shape'
    BY TypeGroups DEF TypeInv
  <1>1. ASSUME NEW p \in Processes, ExecutionThrows(p)
        PROVE  LedgerTypeOK' /\ RowsTyped' /\ EnvTyped' /\ ProcTyped' /\ ReplyTyped' /\ Shape'
    <2>1. undo[p] \in Seq(Grant) /\ undo[p] # <<>> /\ "fail_row" \in NextOf(p)
      BY <1>0, <1>1 DEF ExecutionThrows, ProcTyped, Shape, ShapeOf, Holding, NextOf
    <2>2. ProcTyped' /\ Shape'
      BY <1>0, <1>1, <2>1, UnwindTyped DEF ExecutionThrows
    <2> QED BY <1>0, <1>1, <2>2
            DEF ExecutionThrows, LedgerTypeOK, RowsTyped, EnvTyped, ReplyTyped, ledgerVars, envVars
  <1>2. ASSUME NEW r \in Rows, QueryThrows(r) \/ Crash(r)
        PROVE  LedgerTypeOK' /\ RowsTyped' /\ EnvTyped' /\ ProcTyped' /\ ReplyTyped' /\ Shape'
    <2>p. /\ r \in Processes /\ ShapeOf(r) /\ row[r] \in Rows /\ cap[r] \in CapIds
          /\ next[r] \in NextOf(r) /\ row[r] = r
      BY <1>0 DEF ProcTyped, Shape, ShapeOf, Processes
    <2>1. PICK label \in {"done", "dead"} : Moves(r, label, <<>>, next[r], row[r], cap[r])
      BY <1>0, <1>2 DEF QueryThrows, Crash, Deny, Moves, Goto, ProcTyped
    <2>2. label \in PCOf(r) /\ label \notin Holding /\ label # "reserve_stock"
      BY DEF PCOf, AttemptPC, Holding
    <2>3. ProcTyped' /\ Shape'
      BY <1>0, <2>p, <2>1, <2>2, <<>> \in Seq(Grant), MoveTyped
    <2>4. ReplyTyped'
      BY <1>0, <1>2 DEF QueryThrows, Crash, ReplyTyped, Deny, Answer, Decision
    <2> QED BY <1>0, <1>2, <2>3, <2>4
            DEF QueryThrows, Crash, LedgerTypeOK, RowsTyped, EnvTyped, ledgerVars, envVars
  <1>3. ASSUME NEW h \in Handlers, HandlerThrows(h) \/ HandlerCrash(h)
        PROVE  LedgerTypeOK' /\ RowsTyped' /\ EnvTyped' /\ ProcTyped' /\ ReplyTyped' /\ Shape'
    <2>p. /\ h \in Processes /\ h \notin Rows /\ row[h] \in Rows /\ cap[h] \in CapIds /\ next[h] \in NextOf(h)
      BY <1>0, GateAssumption DEF ProcTyped, Shape, ShapeOf, Processes
    <2>1. PICK label \in {"sweep", "idle"} : Moves(h, label, <<>>, next[h], row[h], cap[h])
      BY <1>0, <1>3 DEF HandlerThrows, HandlerCrash, Moves, Goto, ProcTyped
    <2>2. label \in PCOf(h) /\ label \notin Holding /\ label # "reserve_stock"
      BY <2>p DEF PCOf, HandlerPC, Holding
    <2>3. ProcTyped' /\ Shape'
      BY <1>0, <2>p, <2>1, <2>2, <<>> \in Seq(Grant), MoveTyped
    <2>4. ReplyTyped'
      BY <1>0, <1>3 DEF HandlerThrows, HandlerCrash, ReplyTyped
    <2> QED BY <1>0, <1>3, <2>3, <2>4
            DEF HandlerThrows, HandlerCrash, LedgerTypeOK, RowsTyped, EnvTyped, ledgerVars, envVars
  <1>4. CASE Lapse
    <2>1. LedgerTypeOK'
      BY <1>0, <1>4 DEF Lapse, LedgerTypeOK, Cap
    <2> QED BY <1>0, <1>4, <2>1
            DEF Lapse, RowsTyped, EnvTyped, ProcTyped, ReplyTyped, Shape, ShapeOf, envVars, procVars
  <1>5. CASE ToggleShadow \/ ToggleAgent
    BY <1>0, <1>5 DEF ToggleShadow, ToggleAgent, LedgerTypeOK, RowsTyped, EnvTyped, ProcTyped,
                      ReplyTyped, Shape, ShapeOf, ledgerVars, procVars
  <1> QED BY <1>1, <1>2, <1>3, <1>4, <1>5 DEF Failure

LEMMA NextTyped == TypeInv /\ [Next]_vars => TypeInv'
PROOF
  <1> SUFFICES ASSUME TypeInv, [Next]_vars PROVE TypeInv'
    OBVIOUS
  <1>1. CASE UNCHANGED vars
    BY <1>1 DEF vars, ledgerVars, envVars, procVars, TypeInv, TypeOK, LedgerTypeOK, Shape, ShapeOf
  <1>2. CASE Next
    BY <1>2, AttemptTyped, HandlerTyped, FailureTyped DEF Next
  <1> QED BY <1>1, <1>2

\* The types, together with where each process may be and what it holds there.
THEOREM TypeInvariant == Spec => []TypeInv
  BY InitTyped, NextTyped, PTL DEF Spec

\* gate.ts never drives a cap's spent_paise or a variant's stock below zero, and
\* never leaves a row, a process or an answer outside its states.
THEOREM TypeCorrectness == Spec => []TypeOK
  BY TypeInvariant, PTL DEF TypeInv

-----------------------------------------------------------------------------
(* One row per key, and one artifact per row.                              *)

SettlePC == {"execute", "insert_coins", "release_short", "fail_short", "commit", "fail_row"}

\* p is settling its row, or giving its reservation back before it fails it.
Settling(p) ==
  \/ pc[p] \in SettlePC
  \/ pc[p] = "give_back" /\ next[p] = "fail_row"

\* The row is there: it has been inserted and is never deleted.
Inserted(r) == rows[r].status # "none"

\* The unique index, and that nothing is made, escalated or settled before the row
\* is inserted.
KeyInv ==
  /\ \A r, o \in Rows :
       /\ Inserted(r) /\ Inserted(o) /\ req[r].key # NoKey /\ req[r].key = req[o].key
       => r = o
  /\ \A r \in Rows : rows[r].artifact # "none" \/ rows[r].escalation # "none" => Inserted(r)
  /\ \A r \in Rows : pc[r] = "escalate" => Inserted(r)
  /\ \A p \in Processes : Settling(p) => Inserted(row[p])

\* An action that inserts no row keeps KeyInv if whatever it touches was inserted.
LEMMA KeyFrame ==
  ASSUME KeyInv, req' = req,
         \A r \in Rows : Inserted(r)' <=> Inserted(r),
         \A r \in Rows : \/ Inserted(r)
                         \/ /\ rows'[r].artifact = rows[r].artifact
                            /\ rows'[r].escalation = rows[r].escalation,
         \A r \in Rows : pc'[r] = "escalate" => Inserted(r),
         \A p \in Processes : Settling(p)' => Inserted(row'[p]) /\ row'[p] \in Rows
  PROVE  KeyInv'
  BY DEF KeyInv

LEMMA KeySettle ==
  ASSUME TypeInv, KeyInv, NEW p \in Processes, Settle(p)
  PROVE  KeyInv'
PROOF
  <1>0. RowsTyped /\ ProcTyped /\ Shape
    BY TypeGroups DEF TypeInv
  <1>p. row[p] \in Rows /\ next[p] \in NextOf(p)
    BY <1>0 DEF ProcTyped, Shape, ShapeOf
  <1>s. req' = req /\ row' = row
    BY DEF Settle, SumBalance, ReleaseShort, SettleCoins, CallRazorpay, CommitRow,
           markNegotiationRedeemed, GiveBack, FailRow, envVars
  <1>1. \A q \in Processes : Settling(q)' => Settling(q)
    <2>1. CASE SettleCoins(p)
      BY <1>0, <2>1 DEF SettleCoins, Settling, SettlePC, Goto, Unwind, ProcTyped
    <2>2. CASE CallRazorpay(p)
      BY <1>0, <2>2 DEF CallRazorpay, Settling, SettlePC, Goto, Unwind, ProcTyped
    <2>3. CASE CommitRow(p)
      BY <1>0, <2>3 DEF CommitRow, Settling, SettlePC, Goto, Over, ProcTyped
    <2>4. CASE markNegotiationRedeemed(p)
      BY <1>0, <2>4 DEF markNegotiationRedeemed, Settling, SettlePC, Goto, Over, ProcTyped
    <2>5. CASE GiveBack(p)
      BY <1>0, <1>p, <2>5 DEF GiveBack, Settling, SettlePC, Goto, NextOf, ProcTyped
    <2>6. CASE FailRow(p)
      BY <1>0, <2>6 DEF FailRow, Settling, SettlePC, Goto, Over, ProcTyped
    <2>7. CASE SumBalance(p) \/ ReleaseShort(p)
      BY <1>0, <2>7 DEF SumBalance, ReleaseShort, Settling, SettlePC, Goto, ProcTyped
    <2> QED BY <2>1, <2>2, <2>3, <2>4, <2>5, <2>6, <2>7 DEF Settle
  <1>2. \A r \in Rows : pc'[r] = "escalate" => pc[r] = "escalate"
    <2>1. PICK label : Goto(p, label) /\ label # "escalate"
      <3>1. CASE GiveBack(p)
        BY <1>p, <3>1 DEF GiveBack, NextOf
      <3>2. CASE SumBalance(p) \/ ReleaseShort(p) \/ SettleCoins(p) \/ CallRazorpay(p)
        BY <3>2 DEF SumBalance, ReleaseShort, SettleCoins, CallRazorpay, Unwind
      <3>3. CASE CommitRow(p) \/ markNegotiationRedeemed(p) \/ FailRow(p)
        BY <3>3 DEF CommitRow, markNegotiationRedeemed, FailRow, Over
      <3> QED BY <3>1, <3>2, <3>3 DEF Settle
    <2> QED BY <1>0, <2>1 DEF Goto, ProcTyped
  <1>3. \/ UNCHANGED rows
        \/ /\ Inserted(row[p]) /\ Inserted(row[p])'
           /\ \A r \in Rows : r # row[p] => rows'[r] = rows[r]
    <2>i. pc[p] \in SettlePC => Inserted(row[p])
      BY DEF SettlePC, KeyInv, Settling
    <2>1. CASE SettleCoins(p)
      BY <1>0, <1>p, <2>1, <2>i DEF SettleCoins, SettlePC, RowsTyped, Row, Inserted
    <2>2. CASE CallRazorpay(p)
      BY <1>0, <1>p, <2>2, <2>i DEF CallRazorpay, SettlePC, RowsTyped, Row, Inserted
    <2>3. CASE CommitRow(p) \/ FailRow(p)
      BY <1>0, <1>p, <2>3, <2>i DEF CommitRow, FailRow, SettlePC, RowsTyped, Row, Inserted
    <2>4. CASE SumBalance(p) \/ ReleaseShort(p) \/ markNegotiationRedeemed(p) \/ GiveBack(p)
      BY <2>4 DEF SumBalance, ReleaseShort, envVars, markNegotiationRedeemed, GiveBack
    <2> QED BY <2>1, <2>2, <2>3, <2>4 DEF Settle
  <1>4. /\ \A r \in Rows : Inserted(r)' <=> Inserted(r)
        /\ \A r \in Rows : \/ Inserted(r)
                           \/ /\ rows'[r].artifact = rows[r].artifact
                              /\ rows'[r].escalation = rows[r].escalation
    <2>1. CASE UNCHANGED rows
      BY <2>1 DEF Inserted
    <2>2. ASSUME Inserted(row[p]), Inserted(row[p])', NEW r \in Rows,
                 r # row[p] => rows'[r] = rows[r]
          PROVE  /\ Inserted(r)' <=> Inserted(r)
                 /\ \/ Inserted(r)
                    \/ rows'[r] = rows[r]
      <3>1. CASE r = row[p]
        BY <1>s, <2>2, <3>1 DEF Inserted
      <3>2. CASE r # row[p]
        BY <2>2, <3>2 DEF Inserted
      <3> QED BY <3>1, <3>2
    <2> QED BY <1>3, <2>1, <2>2
  <1>5. /\ \A r \in Rows : pc'[r] = "escalate" => Inserted(r)
        /\ \A q \in Processes : Settling(q)' => Inserted(row'[q]) /\ row'[q] \in Rows
    BY <1>0, <1>s, <1>1, <1>2 DEF KeyInv, ProcTyped
  <1> QED BY <1>s, <1>4, <1>5, KeyFrame

\* A process that goes to a label from which nothing is settled.
LEMMA KeyGoto ==
  ASSUME TypeInv, KeyInv, NEW p \in Processes, NEW label, Goto(p, label),
         label \notin SettlePC \cup {"escalate"},
         label = "give_back" => next'[p] # "fail_row",
         \A q \in Processes : q # p => next'[q] = next[q] /\ row'[q] = row[q],
         UNCHANGED <<rows, req>>
  PROVE  KeyInv'
PROOF
  <1>0. ProcTyped
    BY TypeGroups DEF TypeInv
  <1>1. \A q \in Processes : Settling(q)' => q # p /\ Settling(q)
    BY <1>0 DEF ProcTyped, Goto, Settling, SettlePC
  <1>2. \A r \in Rows : pc'[r] = "escalate" => pc[r] = "escalate"
    BY <1>0 DEF ProcTyped, Goto, Processes
  <1>3. /\ \A r \in Rows : pc'[r] = "escalate" => Inserted(r)
        /\ \A q \in Processes : Settling(q)' => Inserted(row'[q]) /\ row'[q] \in Rows
    BY <1>0, <1>1, <1>2 DEF KeyInv, ProcTyped
  <1> QED BY <1>3, KeyFrame DEF Inserted

LEMMA KeyAttempt ==
  ASSUME TypeInv, KeyInv, NEW r \in Rows, AttemptStep(r)
  PROVE  KeyInv'
PROOF
  <1>0. RowsTyped /\ ProcTyped /\ Shape /\ r \in Processes
    BY TypeGroups DEF TypeInv, Processes
  <1>1. CASE Begin(r) \/ checkBounds(r) \/ ReadCap(r) \/ ReserveBudget(r) \/ ReserveStock(r) \/ Replay(r)
    <2>1. UNCHANGED <<rows, req, row>>
      BY <1>1 DEF Begin, checkBounds, ReadCap, ReserveBudget, ReserveStock, Replay, envVars
    <2>2. PICK label : /\ Goto(r, label) /\ label \notin SettlePC \cup {"escalate"}
                       /\ label = "give_back" => next'[r] # "fail_row"
                       /\ \A q \in Processes : q # r => next'[q] = next[q]
      <3>1. CASE Begin(r) \/ checkBounds(r) \/ ReadCap(r) \/ Replay(r)
        BY <3>1 DEF SettlePC, Begin, checkBounds, ReadCap, Replay, Deny
      <3>2. CASE ReserveBudget(r)
        BY <3>2 DEF SettlePC, ReserveBudget, Deny, AfterLine
      <3>3. CASE ReserveStock(r)
        BY <1>0, <3>3 DEF SettlePC, ReserveStock, AfterLine, Unwind, ProcTyped
      <3> QED BY <1>1, <3>1, <3>2, <3>3
    <2> QED BY <1>0, <2>1, <2>2, KeyGoto
  <1>2. CASE InsertOrReplay(r)
    <2>1. CASE Unwind(r, undo[r], "replay") /\ UNCHANGED rows
      BY <1>0, <1>2, <2>1, KeyGoto DEF SettlePC, InsertOrReplay, Unwind, ProcTyped
    <2>2. CASE /\ SameKey(r) = {} /\ UNCHANGED <<undo, next>>
               /\ Goto(r, "execute") \/ Goto(r, "escalate")
               /\ \/ rows' = [rows EXCEPT ![r].status = "allowed", ![r].armed = TRUE]
                  \/ rows' = [rows EXCEPT ![r].status = "pending_escalation"]
      <3>1. /\ Inserted(r)' /\ rows'[r].artifact = rows[r].artifact
            /\ rows'[r].escalation = rows[r].escalation
            /\ \A o \in Rows : o # r => rows'[o] = rows[o]
        BY <1>0, <2>2 DEF RowsTyped, Row, Inserted
      <3>2. req' = req /\ row' = row /\ next' = next
        BY <1>2, <2>2 DEF InsertOrReplay, envVars
      <3>3. ASSUME NEW a \in Rows, NEW o \in Rows, Inserted(a)', Inserted(o)', req[a].key # NoKey,
                   req[a].key = req[o].key
            PROVE  a = o
        <4>1. \A b \in Rows : b # r /\ Inserted(b)' => Inserted(b)
          BY <3>1 DEF Inserted
        <4>2. \A b \in Rows : Inserted(b) /\ req[r].key # NoKey => req[b].key # req[r].key
          BY <2>2 DEF SameKey, Inserted
        <4> QED BY <3>3, <4>1, <4>2 DEF KeyInv
      <3>4. \A o \in Rows : rows'[o].artifact # "none" \/ rows'[o].escalation # "none" => Inserted(o)'
        BY <3>1 DEF KeyInv, Inserted
      <3>5. \A o \in Rows : Inserted(o) => Inserted(o)'
        BY <3>1 DEF Inserted
      <3>6. \A o \in Rows : pc'[o] = "escalate" => Inserted(o)'
        BY <1>0, <2>2, <3>1, <3>5 DEF KeyInv, Goto, ProcTyped, Processes
      <3>7. ASSUME NEW q \in Processes, Settling(q)' PROVE Inserted(row[q])'
        <4>1. CASE q = r
          BY <1>0, <3>1, <3>2, <4>1 DEF Shape, ShapeOf
        <4>2. CASE q # r
          <5>1. Settling(q)
            BY <1>0, <2>2, <3>2, <3>7, <4>2 DEF Settling, SettlePC, Goto, ProcTyped
          <5> QED BY <1>0, <3>2, <3>5, <5>1 DEF KeyInv, ProcTyped
        <4> QED BY <4>1, <4>2
      <3> QED BY <3>2, <3>3, <3>4, <3>6, <3>7 DEF KeyInv
    <2> QED BY <1>2, <2>1, <2>2 DEF InsertOrReplay
  <1>3. CASE InsertEscalation(r)
    <2>1. Inserted(r) /\ UNCHANGED <<req, row, next>>
      BY <1>3 DEF KeyInv, InsertEscalation, envVars
    <2>2. /\ \A o \in Rows : Inserted(o)' <=> Inserted(o)
          /\ \A o \in Rows : Inserted(o) \/ rows'[o] = rows[o]
      BY <1>0, <1>3, <2>1 DEF InsertEscalation, RowsTyped, Row, Inserted
    <2>3. \A o \in Rows : pc'[o] = "escalate" => Inserted(o)
      BY <1>0, <1>3 DEF KeyInv, InsertEscalation, Goto, ProcTyped, Processes
    <2>4. \A q \in Processes : Settling(q)' => Inserted(row'[q]) /\ row'[q] \in Rows
      BY <1>0, <1>3, <2>1 DEF KeyInv, InsertEscalation, Goto, Settling, SettlePC, ProcTyped
    <2> QED BY <2>1, <2>2, <2>3, <2>4, KeyFrame
  <1>4. CASE Settle(r)
    BY <1>0, <1>4, KeySettle
  <1> QED BY <1>1, <1>2, <1>3, <1>4 DEF AttemptStep

LEMMA KeyHandler ==
  ASSUME TypeInv, KeyInv, NEW h \in Handlers, HandlerStep(h) \/ HandlerCall(h)
  PROVE  KeyInv'
PROOF
  <1>0. RowsTyped /\ ProcTyped /\ ReplyTyped /\ Shape /\ h \in Processes
    BY TypeGroups DEF TypeInv, Processes
  <1>1. CASE ReleaseClaimed(h)
    BY <1>0, <1>1, KeyGoto DEF SettlePC, ReleaseClaimed, Unwind, ProcTyped, envVars
  <1>2. CASE InsertCap(h) \/ RevokeCaps(h)
    BY <1>0, <1>2, KeyGoto DEF SettlePC, InsertCap, RevokeCaps
  <1>3. CASE Settle(h)
    BY <1>0, <1>3, KeySettle
  <1>4. CASE ClaimExpired(h)
    <2>1. \A r \in Rows : /\ Inserted(r)' <=> Inserted(r)
                          /\ rows'[r].artifact = rows[r].artifact
                          /\ rows'[r].escalation = rows[r].escalation
      <3>1. PICK claimed \in SUBSET {r \in Rows : Expired(r)} :
              rows' = [r \in Rows |-> IF r \in claimed
                                      THEN [rows[r] EXCEPT !.status = "failed", !.armed = FALSE]
                                      ELSE rows[r]]
        BY <1>4 DEF ClaimExpired
      <3>2. \A r \in claimed : rows[r].status = "allowed"
        BY DEF Expired
      <3> QED BY <1>0, <3>1, <3>2 DEF RowsTyped, Row, Inserted
    <2>2. UNCHANGED <<req, row, next>> /\ Goto(h, "sweep")
      BY <1>4 DEF ClaimExpired
    <2>3. /\ \A r \in Rows : pc'[r] = "escalate" => Inserted(r)
          /\ \A q \in Processes : Settling(q)' => Inserted(row'[q]) /\ row'[q] \in Rows
      BY <1>0, <2>2 DEF KeyInv, Goto, Settling, SettlePC, ProcTyped, Processes
    <2> QED BY <2>1, <2>2, <2>3, KeyFrame
  <1>5. ASSUME NEW r \in Rows, Approve(h, r) \/ Reject(h, r) PROVE KeyInv'
    <2>1. Inserted(r) /\ req' = req /\ row' = [row EXCEPT ![h] = r]
      BY <1>5 DEF KeyInv, Approve, Reject, ClaimEscalation, envVars
    <2>2. /\ \A o \in Rows : Inserted(o)' <=> Inserted(o)
          /\ \A o \in Rows : Inserted(o) \/ rows'[o] = rows[o]
      BY <1>0, <1>5, <2>1 DEF Approve, Reject, ClaimEscalation, RowsTyped, Row, Inserted
    <2>3. \A o \in Rows : pc'[o] = "escalate" => Inserted(o)
      BY <1>0, <1>5 DEF KeyInv, Approve, Reject, Goto, Unwind, ProcTyped, Processes
    <2>4. ASSUME NEW q \in Processes, Settling(q)' PROVE Inserted(row'[q]) /\ row'[q] \in Rows
      <3>1. CASE q = h
        BY <1>0, <2>1, <3>1 DEF ProcTyped
      <3>2. CASE q # h
        BY <1>0, <1>5, <2>1, <2>4, <3>2
           DEF KeyInv, Approve, Reject, Goto, Unwind, Settling, SettlePC, ProcTyped
      <3> QED BY <3>1, <3>2
    <2> QED BY <2>1, <2>2, <2>3, <2>4, KeyFrame
  <1> QED BY <1>1, <1>2, <1>3, <1>4, <1>5 DEF HandlerStep, HandlerCall

LEMMA KeyFailure ==
  ASSUME TypeInv, KeyInv, Failure \/ Lapse \/ ToggleShadow \/ ToggleAgent
  PROVE  KeyInv'
PROOF
  <1>0. ProcTyped /\ Shape /\ Rows \subseteq Processes /\ Handlers \subseteq Processes
    BY TypeGroups DEF TypeInv, Processes
  <1>1. ASSUME NEW p \in Processes, ExecutionThrows(p) PROVE KeyInv'
    <2>1. Settling(p) /\ UNCHANGED <<req, row, rows>>
      BY <1>1 DEF ExecutionThrows, Settling, SettlePC, envVars
    <2>2. \A q \in Processes : Settling(q)' => Settling(q)
      BY <1>0, <1>1, <2>1 DEF ExecutionThrows, Unwind, Goto, Settling, SettlePC, ProcTyped
    <2>3. \A r \in Rows : pc'[r] = "escalate" => pc[r] = "escalate"
      BY <1>0, <1>1 DEF ExecutionThrows, Unwind, Goto, ProcTyped
    <2> QED BY <1>0, <2>1, <2>2, <2>3, KeyFrame DEF KeyInv, Inserted, ProcTyped
  <1>2. ASSUME NEW r \in Rows, QueryThrows(r) \/ Crash(r) PROVE KeyInv'
    BY <1>0, <1>2, KeyGoto DEF SettlePC, QueryThrows, Crash, Deny, envVars
  <1>3. ASSUME NEW h \in Handlers, HandlerThrows(h) \/ HandlerCrash(h) PROVE KeyInv'
    BY <1>0, <1>3, KeyGoto DEF SettlePC, HandlerThrows, HandlerCrash, envVars
  <1>4. CASE Lapse \/ ToggleShadow \/ ToggleAgent
    BY <1>4 DEF Lapse, ToggleShadow, ToggleAgent, KeyInv, Settling, SettlePC, Inserted, procVars
  <1> QED BY <1>1, <1>2, <1>3, <1>4 DEF Failure

\* The unique index makes a row the only one of its key, and an artifact belongs to
\* an inserted row.
THEOREM KeyInvariant == Spec => []KeyInv
PROOF
  <1>1. Init => KeyInv
    BY GateAssumption DEF Init, KeyInv, Inserted, Settling, SettlePC, Processes
  <1>2. TypeInv /\ KeyInv /\ [Next]_vars => KeyInv'
    <2> SUFFICES ASSUME TypeInv, KeyInv, [Next]_vars PROVE KeyInv'
      OBVIOUS
    <2>1. CASE UNCHANGED vars
      BY <2>1 DEF vars, procVars, KeyInv, Settling, SettlePC, Inserted
    <2>2. CASE Next
      BY <2>2, KeyAttempt, KeyHandler, KeyFailure DEF Next
    <2> QED BY <2>1, <2>2
  <1> QED BY <1>1, <1>2, TypeInvariant, PTL DEF Spec

\* However attempts with one key, crashes, failures, sweeps and resolutions
\* interleave, one of the attempts at most ever creates anything outside.
THEOREM OneArtifact == Spec => []OneArtifactPerKey
PROOF
  <1>1. KeyInv => OneArtifactPerKey
    BY DEF KeyInv, OneArtifactPerKey
  <1> QED BY <1>1, KeyInvariant, PTL

-----------------------------------------------------------------------------
(* One settler per row.                                                    *)

BeforeInsert == {"start", "check", "preflight", "read_cap", "reserve_budget", "reserve_stock",
                 "insert"}

\* Who settles a row: its own attempt while the row is allowed, or the one handler
\* that claimed its escalation while it is pending.
WorkInv ==
  /\ \A r \in Rows :
       /\ pc[r] \in BeforeInsert => rows[r].status = "none" /\ rows[r].escalation = "none"
       /\ rows[r].escalation = "pending" => rows[r].status = "pending_escalation"
       /\ pc[r] = "escalate" =>
            rows[r].status = "pending_escalation" /\ rows[r].escalation = "none"
       /\ Settling(r) => rows[r].status = "allowed"
  /\ \A h \in Handlers : Settling(h) =>
       /\ rows[row[h]].status = "pending_escalation"
       /\ rows[row[h]].escalation \in {"approved", "rejected"}
  /\ \A h, g \in Handlers : Settling(h) /\ Settling(g) /\ row[h] = row[g] => h = g

\* A step that moves no status and lets nobody start to settle a row.
LEMMA WorkFrame ==
  ASSUME WorkInv, ProcTyped,
         \A r \in Rows : /\ rows'[r].status = rows[r].status
                         /\ rows'[r].escalation = rows[r].escalation,
         \A p \in Processes : Settling(p)' => Settling(p) /\ row'[p] = row[p],
         \A r \in Rows : /\ pc'[r] \in BeforeInsert => pc[r] \in BeforeInsert
                         /\ pc'[r] = "escalate" => pc[r] = "escalate"
  PROVE  WorkInv' /\ StatusStep
PROOF
  <1>1. StatusStep
    BY DEF StatusStep
  <1>2. ASSUME NEW r \in Rows
        PROVE  /\ pc'[r] \in BeforeInsert => rows'[r].status = "none" /\ rows'[r].escalation = "none"
               /\ rows'[r].escalation = "pending" => rows'[r].status = "pending_escalation"
               /\ pc'[r] = "escalate" =>
                    rows'[r].status = "pending_escalation" /\ rows'[r].escalation = "none"
               /\ Settling(r)' => rows'[r].status = "allowed"
    BY DEF WorkInv, Processes
  <1>3. /\ \A h \in Handlers : Settling(h)' =>
              /\ rows'[row'[h]].status = "pending_escalation"
              /\ rows'[row'[h]].escalation \in {"approved", "rejected"}
        /\ \A h, g \in Handlers : Settling(h)' /\ Settling(g)' /\ row'[h] = row'[g] => h = g
    <2>1. \A h \in Handlers : Settling(h)' =>
            /\ Settling(h) /\ row'[h] = row[h] /\ row[h] \in Rows
            /\ rows'[row[h]].status = rows[row[h]].status
            /\ rows'[row[h]].escalation = rows[row[h]].escalation
      BY DEF Processes, ProcTyped
    <2> QED BY <2>1 DEF WorkInv
  <1> QED BY <1>1, <1>2, <1>3 DEF WorkInv

\* A step after which p, and nobody else, is elsewhere.
LEMMA WorkGoto ==
  ASSUME TypeInv, WorkInv, NEW p \in Processes, NEW label, Goto(p, label),
         label \notin SettlePC \cup {"escalate"},
         label = "give_back" => next'[p] # "fail_row",
         p \in Rows /\ label \in BeforeInsert => pc[p] \in BeforeInsert,
         \A q \in Processes : q # p => next'[q] = next[q] /\ row'[q] = row[q],
         UNCHANGED rows
  PROVE  WorkInv' /\ StatusStep
PROOF
  <1>0. ProcTyped
    BY TypeGroups DEF TypeInv
  <1>1. \A q \in Processes : Settling(q)' => q # p /\ Settling(q)
    BY <1>0 DEF ProcTyped, Goto, Settling, SettlePC
  <1>2. \A r \in Rows : /\ pc'[r] \in BeforeInsert => pc[r] \in BeforeInsert
                        /\ pc'[r] = "escalate" => pc[r] = "escalate"
    BY <1>0 DEF ProcTyped, Goto, Processes
  <1> QED BY <1>0, <1>1, <1>2, WorkFrame

\* The status of row r alone moves, and whoever settled r no longer does.
LEMMA WorkSettled ==
  ASSUME TypeInv, WorkInv, NEW p \in Processes, Settling(p), ~Settling(p)',
         rows' = [rows EXCEPT ![row[p]] = rows'[row[p]]],
         rows'[row[p]].status \in {"executed", "failed"},
         rows'[row[p]].escalation = rows[row[p]].escalation,
         UNCHANGED row,
         \A q \in Processes : q # p => (Settling(q)' => Settling(q)),
         \A r \in Rows : pc'[r] \notin BeforeInsert \cup {"escalate"} \/ pc'[r] = pc[r]
  PROVE  WorkInv' /\ StatusStep
PROOF
  <1>0. RowsTyped /\ ProcTyped /\ Shape /\ row[p] \in Rows
    BY TypeGroups DEF TypeInv, ProcTyped
  <1> DEFINE s == row[p]
  <1>1. \A r \in Rows : r # s => rows'[r] = rows[r]
    BY <1>0 DEF RowsTyped
  <1>2. \/ p \in Rows /\ s = p /\ rows[s].status = "allowed"
        \/ /\ p \in Handlers /\ rows[s].status = "pending_escalation"
           /\ rows[s].escalation \in {"approved", "rejected"}
    BY <1>0 DEF WorkInv, Shape, ShapeOf, Processes
  <1>3. /\ pc'[s] \notin BeforeInsert \cup {"escalate"}
        /\ rows'[s].escalation # "pending"
    BY <1>0, <1>2 DEF WorkInv
  <1>4. \A q \in Processes : Settling(q)' => Settling(q) /\ q # p /\ row[q] # s
    <2> SUFFICES ASSUME NEW q \in Processes, Settling(q)', row[q] = s PROVE FALSE
      OBVIOUS
    <2>1. q # p /\ Settling(q)
      OBVIOUS
    <2>2. CASE q \in Rows
      BY <1>0, <1>2, <2>1, <2>2 DEF WorkInv, Shape, ShapeOf, Processes
    <2>3. CASE q \in Handlers
      BY <1>0, <1>2, <2>1, <2>3 DEF WorkInv
    <2> QED BY <2>2, <2>3 DEF Processes
  <1>5. StatusStep
    BY <1>0, <1>1, <1>2 DEF StatusStep, Lifecycle
  <1>6. ASSUME NEW r \in Rows
        PROVE  /\ pc'[r] \in BeforeInsert => rows'[r].status = "none" /\ rows'[r].escalation = "none"
               /\ rows'[r].escalation = "pending" => rows'[r].status = "pending_escalation"
               /\ pc'[r] = "escalate" =>
                    rows'[r].status = "pending_escalation" /\ rows'[r].escalation = "none"
               /\ Settling(r)' => rows'[r].status = "allowed"
    <2>1. CASE r = s
      <3>1. ~Settling(r)'
        BY <1>0, <1>4, <2>1 DEF Processes, Shape, ShapeOf
      <3> QED BY <1>3, <2>1, <3>1
    <2>2. CASE r # s
      BY <1>1, <1>4, <2>2 DEF WorkInv, Processes
    <2> QED BY <2>1, <2>2
  <1>7. /\ \A h \in Handlers : Settling(h)' =>
              /\ rows'[row'[h]].status = "pending_escalation"
              /\ rows'[row'[h]].escalation \in {"approved", "rejected"}
        /\ \A h, g \in Handlers : Settling(h)' /\ Settling(g)' /\ row'[h] = row'[g] => h = g
    BY <1>0, <1>1, <1>4 DEF WorkInv, Processes, ProcTyped
  <1> QED BY <1>5, <1>6, <1>7 DEF WorkInv

LEMMA WorkSettle ==
  ASSUME TypeInv, WorkInv, NEW p \in Processes, Settle(p)
  PROVE  WorkInv' /\ StatusStep
PROOF
  <1>0. RowsTyped /\ ProcTyped /\ Shape /\ row[p] \in Rows /\ next[p] \in NextOf(p)
    BY TypeGroups DEF TypeInv, ProcTyped, Shape, ShapeOf
  <1>1. CASE SumBalance(p) \/ ReleaseShort(p) \/ SettleCoins(p) \/ CallRazorpay(p)
    <2>1. /\ Settling(p) /\ UNCHANGED row
          /\ \A r \in Rows : /\ rows'[r].status = rows[r].status
                            /\ rows'[r].escalation = rows[r].escalation
      BY <1>0, <1>1 DEF SumBalance, ReleaseShort, SettleCoins, CallRazorpay, RowsTyped, Row, Settling, SettlePC
    <2>2. PICK label \in {"insert_coins", "release_short", "fail_short", "commit", "give_back"} : Goto(p, label)
      BY <1>1 DEF SumBalance, ReleaseShort, SettleCoins, CallRazorpay, Unwind
    <2>3. \A q \in Processes : Settling(q)' => Settling(q)
      BY <1>0, <1>1, <2>1 DEF SumBalance, ReleaseShort, SettleCoins, CallRazorpay, Unwind, Goto, Settling, SettlePC, ProcTyped
    <2>4. \A r \in Rows : pc'[r] \notin BeforeInsert \cup {"escalate"} \/ pc'[r] = pc[r]
      BY <1>0, <2>2 DEF Goto, ProcTyped, BeforeInsert
    <2> QED BY <1>0, <2>1, <2>3, <2>4, WorkFrame
  <1>2. CASE CommitRow(p) \/ FailRow(p)
    <2>1. /\ Settling(p) /\ UNCHANGED row
          /\ rows' = [rows EXCEPT ![row[p]] = rows'[row[p]]]
          /\ rows'[row[p]].status \in {"executed", "failed"}
          /\ rows'[row[p]].escalation = rows[row[p]].escalation
      BY <1>0, <1>2 DEF CommitRow, FailRow, RowsTyped, Row, Settling, SettlePC
    <2>2. PICK label \in {"done", "idle", "redeem"} : Goto(p, label)
      BY <1>2 DEF CommitRow, FailRow, Over
    <2>3. ~Settling(p)' /\ \A q \in Processes : q # p => (Settling(q)' => Settling(q))
      BY <1>0, <1>2, <2>2 DEF CommitRow, FailRow, Goto, Settling, SettlePC, ProcTyped
    <2>4. \A r \in Rows : pc'[r] \notin BeforeInsert \cup {"escalate"} \/ pc'[r] = pc[r]
      BY <1>0, <2>2 DEF Goto, ProcTyped, BeforeInsert
    <2> QED BY <2>1, <2>3, <2>4, WorkSettled
  <1>3. CASE markNegotiationRedeemed(p)
    <2>1. Goto(p, Over(p)) /\ UNCHANGED <<rows, row, next>>
      BY <1>3 DEF markNegotiationRedeemed
    <2>2. Over(p) \notin SettlePC \cup {"escalate", "give_back"} \cup BeforeInsert
      BY DEF SettlePC, Over, BeforeInsert
    <2> QED BY <2>1, <2>2, WorkGoto
  <1>4. CASE GiveBack(p)
    <2>1. UNCHANGED <<rows, row, next>>
      BY <1>4 DEF GiveBack, envVars
    <2>2. PICK label \in {"done", "idle", "replay", "fail_row", "sweep", "give_back"} :
            Goto(p, label) /\ label \in {next[p], "give_back"}
      BY <1>0, <1>4 DEF GiveBack, NextOf
    <2>3. \A q \in Processes : Settling(q)' => Settling(q)
      BY <1>0, <1>4, <2>1, <2>2 DEF GiveBack, Goto, Settling, SettlePC, ProcTyped
    <2>4. \A r \in Rows : pc'[r] \notin BeforeInsert \cup {"escalate"} \/ pc'[r] = pc[r]
      BY <1>0, <2>2 DEF Goto, ProcTyped, BeforeInsert
    <2> QED BY <1>0, <2>1, <2>3, <2>4, WorkFrame
  <1> QED BY <1>1, <1>2, <1>3, <1>4 DEF Settle

LEMMA WorkAttempt ==
  ASSUME TypeInv, WorkInv, NEW r \in Rows, AttemptStep(r)
  PROVE  WorkInv' /\ StatusStep
PROOF
  <1>0. RowsTyped /\ ProcTyped /\ Shape /\ r \in Processes
    BY TypeGroups DEF TypeInv, Processes
  <1>1. CASE Begin(r) \/ checkBounds(r) \/ ReadCap(r) \/ ReserveBudget(r) \/ ReserveStock(r) \/ Replay(r)
    <2>1. UNCHANGED <<rows, row>>
      BY <1>1 DEF Begin, checkBounds, ReadCap, ReserveBudget, ReserveStock, Replay, envVars
    <2>2. PICK label : /\ Goto(r, label) /\ label \notin SettlePC \cup {"escalate"}
                       /\ label = "give_back" => next'[r] # "fail_row"
                       /\ label \in BeforeInsert => pc[r] \in BeforeInsert
                       /\ \A q \in Processes : q # r => next'[q] = next[q]
      <3>1. CASE Begin(r) \/ checkBounds(r) \/ ReadCap(r) \/ Replay(r)
        BY <3>1 DEF SettlePC, Begin, checkBounds, ReadCap, Replay, Deny, BeforeInsert
      <3>2. CASE ReserveBudget(r)
        BY <3>2 DEF SettlePC, ReserveBudget, Deny, AfterLine, BeforeInsert
      <3>3. CASE ReserveStock(r)
        BY <1>0, <3>3 DEF SettlePC, ReserveStock, AfterLine, Unwind, BeforeInsert, ProcTyped
      <3> QED BY <1>1, <3>1, <3>2, <3>3
    <2> QED BY <1>0, <2>1, <2>2, WorkGoto
  <1>2. CASE InsertOrReplay(r)
    <2>0. rows[r].status = "none" /\ UNCHANGED row
      BY <1>2 DEF InsertOrReplay, WorkInv, BeforeInsert
    <2>1. CASE Unwind(r, undo[r], "replay") /\ UNCHANGED rows
      <3>1. Goto(r, "give_back") /\ next'[r] = "replay" /\ \A q \in Processes : q # r => next'[q] = next[q]
        BY <1>0, <2>1 DEF Unwind, ProcTyped
      <3> QED BY <1>0, <2>0, <2>1, <3>1, WorkGoto DEF SettlePC, BeforeInsert
    <2>2. ASSUME NEW label, NEW st, UNCHANGED next, Goto(r, label),
                 rows'[r].status = st, rows'[r].escalation = rows[r].escalation,
                 \A o \in Rows : o # r => rows'[o] = rows[o],
                 \/ label = "execute" /\ st = "allowed"
                 \/ label = "escalate" /\ st = "pending_escalation"
          PROVE  WorkInv' /\ StatusStep
      <3>1. StatusStep
        BY <2>0, <2>2 DEF StatusStep, Lifecycle
      <3>2. rows[r].escalation = "none" /\ UNCHANGED row
        BY <1>2, <2>0 DEF WorkInv, InsertOrReplay, BeforeInsert
      <3>3. \A q \in Processes : q # r => pc'[q] = pc[q] /\ (Settling(q)' => Settling(q))
        BY <1>0, <2>2 DEF Goto, Settling, SettlePC, ProcTyped
      <3>4. \A h \in Handlers : Settling(h) => row[h] # r
        BY <2>0 DEF WorkInv
      <3>5. pc'[r] = label
        BY <1>0, <2>2 DEF Goto, ProcTyped
      <3>6. ASSUME NEW o \in Rows
            PROVE  /\ pc'[o] \in BeforeInsert => rows'[o].status = "none" /\ rows'[o].escalation = "none"
                   /\ rows'[o].escalation = "pending" => rows'[o].status = "pending_escalation"
                   /\ pc'[o] = "escalate" =>
                        rows'[o].status = "pending_escalation" /\ rows'[o].escalation = "none"
                   /\ Settling(o)' => rows'[o].status = "allowed"
        <4>1. CASE o = r
          BY <2>2, <3>2, <3>5, <4>1 DEF BeforeInsert, Settling, SettlePC
        <4>2. CASE o # r
          BY <2>2, <3>3, <4>2 DEF WorkInv, Processes
        <4> QED BY <4>1, <4>2
      <3>7. \A h \in Handlers : Settling(h)' => Settling(h) /\ row'[h] = row[h] /\ rows'[row[h]] = rows[row[h]]
        BY <1>0, <2>2, <3>2, <3>3, <3>4, GateAssumption DEF Processes, ProcTyped
      <3>8. /\ \A h \in Handlers : Settling(h)' =>
                  /\ rows'[row'[h]].status = "pending_escalation"
                  /\ rows'[row'[h]].escalation \in {"approved", "rejected"}
            /\ \A h, g \in Handlers : Settling(h)' /\ Settling(g)' /\ row'[h] = row'[g] => h = g
        BY <3>7 DEF WorkInv
      <3> QED BY <3>1, <3>6, <3>8 DEF WorkInv
    <2>3. CASE SameKey(r) = {}
      BY <1>0, <1>2, <2>2, <2>3 DEF InsertOrReplay, RowsTyped, Row
    <2> QED BY <1>2, <2>1, <2>3 DEF InsertOrReplay
  <1>3. CASE InsertEscalation(r)
    <2>1. /\ Goto(r, "done") /\ UNCHANGED <<row, next>>
          /\ rows[r].status = "pending_escalation" /\ rows[r].escalation = "none"
          /\ rows'[r].status = rows[r].status /\ rows'[r].escalation = "pending"
          /\ \A o \in Rows : o # r => rows'[o] = rows[o]
      BY <1>0, <1>3 DEF InsertEscalation, WorkInv, RowsTyped, Row
    <2>2. \A q \in Processes : q # r => pc'[q] = pc[q] /\ (Settling(q)' => Settling(q))
      BY <1>0, <2>1 DEF Goto, Settling, SettlePC, ProcTyped
    <2>3. pc'[r] = "done"
      BY <1>0, <2>1 DEF Goto, ProcTyped
    <2>4. StatusStep
      BY <2>1 DEF StatusStep
    <2>5. ASSUME NEW o \in Rows
          PROVE  /\ pc'[o] \in BeforeInsert => rows'[o].status = "none" /\ rows'[o].escalation = "none"
                 /\ rows'[o].escalation = "pending" => rows'[o].status = "pending_escalation"
                 /\ pc'[o] = "escalate" =>
                      rows'[o].status = "pending_escalation" /\ rows'[o].escalation = "none"
                 /\ Settling(o)' => rows'[o].status = "allowed"
      <3>1. CASE o = r
        BY <2>1, <2>3, <3>1 DEF BeforeInsert, Settling, SettlePC
      <3>2. CASE o # r
        BY <2>1, <2>2, <3>2 DEF WorkInv, Processes
      <3> QED BY <3>1, <3>2
    <2>6. \A h \in Handlers : Settling(h)' => Settling(h) /\ row'[h] = row[h] /\ rows'[row[h]] = rows[row[h]]
      <3>1. \A h \in Handlers : Settling(h) => row[h] # r
        BY <2>1 DEF WorkInv
      <3> QED BY <1>0, <2>1, <2>2, <3>1, GateAssumption DEF Processes, ProcTyped
    <2>7. /\ \A h \in Handlers : Settling(h)' =>
                /\ rows'[row'[h]].status = "pending_escalation"
                /\ rows'[row'[h]].escalation \in {"approved", "rejected"}
          /\ \A h, g \in Handlers : Settling(h)' /\ Settling(g)' /\ row'[h] = row'[g] => h = g
      BY <2>6 DEF WorkInv
    <2> QED BY <2>4, <2>5, <2>7 DEF WorkInv
  <1>4. CASE Settle(r)
    BY <1>0, <1>4, WorkSettle
  <1> QED BY <1>1, <1>2, <1>3, <1>4 DEF AttemptStep

\* The sweep fails only rows whose attempt is over, unless attempts may outlast
\* their reservation.
\* No attempt outlasts its reservation where reservations are swept.
Punctual == "sweep" \in Ops => "slow" \notin Ops

LEMMA WorkClaimExpired ==
  ASSUME TypeInv, WorkInv, Punctual, NEW h \in Handlers, ClaimExpired(h)
  PROVE  WorkInv' /\ StatusStep
PROOF
  <1>0. RowsTyped /\ ProcTyped /\ h \in Processes
    BY TypeGroups DEF TypeInv, Processes
  <1>1. PICK claimed \in SUBSET {r \in Rows : Expired(r)} :
          rows' = [r \in Rows |-> IF r \in claimed
                                  THEN [rows[r] EXCEPT !.status = "failed", !.armed = FALSE]
                                  ELSE rows[r]]
    BY DEF ClaimExpired
  <1>2. Goto(h, "sweep") /\ UNCHANGED <<row, next>>
    BY DEF ClaimExpired
  <1>3. \A r \in claimed : rows[r].status = "allowed" /\ pc[r] \in {"done", "dead"}
    BY DEF Expired, Punctual, ClaimExpired
  <1>4. \A r \in Rows : /\ r \in claimed => /\ rows'[r].status = "failed"
                                            /\ rows'[r].escalation = rows[r].escalation
                        /\ r \notin claimed => rows'[r] = rows[r]
    BY <1>0, <1>1 DEF RowsTyped, Row
  <1>5. \A q \in Processes : Settling(q)' => q # h /\ Settling(q) /\ row'[q] = row[q]
    BY <1>0, <1>2 DEF Goto, Settling, SettlePC, ProcTyped
  <1>6. \A r \in Rows : r # h => pc'[r] = pc[r]
    BY <1>0, <1>2 DEF Goto, ProcTyped, Processes
  <1>7. StatusStep
    BY <1>3, <1>4 DEF StatusStep, Lifecycle
  <1>8. ASSUME NEW r \in Rows
        PROVE  /\ pc'[r] \in BeforeInsert => rows'[r].status = "none" /\ rows'[r].escalation = "none"
               /\ rows'[r].escalation = "pending" => rows'[r].status = "pending_escalation"
               /\ pc'[r] = "escalate" =>
                    rows'[r].status = "pending_escalation" /\ rows'[r].escalation = "none"
               /\ Settling(r)' => rows'[r].status = "allowed"
    <2>r. r # h
      BY GateAssumption
    <2>1. CASE r \in claimed
      <3>1. rows[r].escalation # "pending"
        BY <1>3, <2>1 DEF WorkInv
      <3>2. pc'[r] \in {"done", "dead"}
        BY <1>3, <1>6, <2>r, <2>1
      <3>3. pc'[r] \notin BeforeInsert /\ pc'[r] # "escalate" /\ ~Settling(r)'
        BY <3>2 DEF BeforeInsert, Settling, SettlePC
      <3> QED BY <1>4, <2>1, <3>1, <3>3
    <2>2. CASE r \notin claimed
      BY <1>4, <1>5, <1>6, <2>r, <2>2 DEF WorkInv, Processes
    <2> QED BY <2>1, <2>2
  <1>9. \A g \in Handlers : Settling(g)' =>
          Settling(g) /\ row'[g] = row[g] /\ rows'[row[g]] = rows[row[g]]
    BY <1>0, <1>3, <1>4, <1>5 DEF WorkInv, Processes, ProcTyped
  <1>10. /\ \A g \in Handlers : Settling(g)' =>
               /\ rows'[row'[g]].status = "pending_escalation"
               /\ rows'[row'[g]].escalation \in {"approved", "rejected"}
         /\ \A f, g \in Handlers : Settling(f)' /\ Settling(g)' /\ row'[f] = row'[g] => f = g
    BY <1>9 DEF WorkInv
  <1> QED BY <1>7, <1>8, <1>10 DEF WorkInv

\* Only one handler claims an escalation: the claim is an UPDATE of a pending one.
LEMMA WorkClaimEscalation ==
  ASSUME TypeInv, WorkInv, NEW h \in Handlers, NEW r \in Rows, Approve(h, r) \/ Reject(h, r)
  PROVE  WorkInv' /\ StatusStep
PROOF
  <1>0. RowsTyped /\ ProcTyped /\ h \in Processes
    BY TypeGroups DEF TypeInv, Processes
  <1>1. /\ rows[r].escalation = "pending" /\ rows[r].status = "pending_escalation"
        /\ rows'[r].status = rows[r].status /\ rows'[r].escalation \in {"approved", "rejected"}
        /\ \A o \in Rows : o # r => rows'[o] = rows[o]
    BY <1>0 DEF Approve, Reject, ClaimEscalation, RowsTyped, Row, WorkInv
  <1>2. /\ row'[h] = r
        /\ \A q \in Processes : q # h => row'[q] = row[q] /\ pc'[q] = pc[q] /\ next'[q] = next[q]
    BY <1>0 DEF Approve, Reject, ClaimEscalation, Goto, Unwind, ProcTyped
  <1>3. \A q \in Processes : q # h /\ Settling(q)' => Settling(q)
    BY <1>2 DEF Settling, SettlePC
  <1>4. StatusStep
    BY <1>1 DEF StatusStep
  <1>5. ASSUME NEW o \in Rows
        PROVE  /\ pc'[o] \in BeforeInsert => rows'[o].status = "none" /\ rows'[o].escalation = "none"
               /\ rows'[o].escalation = "pending" => rows'[o].status = "pending_escalation"
               /\ pc'[o] = "escalate" =>
                    rows'[o].status = "pending_escalation" /\ rows'[o].escalation = "none"
               /\ Settling(o)' => rows'[o].status = "allowed"
    <2>1. o # h /\ o \in Processes
      BY GateAssumption DEF Processes
    <2>2. CASE o = r
      <3>1. pc[r] \notin BeforeInsert /\ pc[r] # "escalate" /\ ~Settling(r)
        BY <1>1 DEF WorkInv
      <3> QED BY <1>1, <1>2, <1>3, <2>1, <2>2, <3>1
    <2>3. CASE o # r
      BY <1>1, <1>2, <1>3, <2>1, <2>3 DEF WorkInv
    <2> QED BY <2>2, <2>3
  <1>6. \A g \in Handlers : g # h /\ Settling(g)' =>
          Settling(g) /\ row[g] # r /\ row'[g] = row[g] /\ rows'[row[g]] = rows[row[g]]
    BY <1>0, <1>1, <1>2, <1>3 DEF WorkInv, Processes, ProcTyped
  <1>7. /\ \A g \in Handlers : Settling(g)' =>
              /\ rows'[row'[g]].status = "pending_escalation"
              /\ rows'[row'[g]].escalation \in {"approved", "rejected"}
        /\ \A f, g \in Handlers : Settling(f)' /\ Settling(g)' /\ row'[f] = row'[g] => f = g
    BY <1>1, <1>2, <1>6 DEF WorkInv
  <1> QED BY <1>4, <1>5, <1>7 DEF WorkInv

LEMMA WorkHandler ==
  ASSUME TypeInv, WorkInv, Punctual, NEW h \in Handlers, HandlerStep(h) \/ HandlerCall(h)
  PROVE  WorkInv' /\ StatusStep
PROOF
  <1>0. ProcTyped /\ h \in Processes /\ h \notin Rows
    BY TypeGroups, GateAssumption DEF TypeInv, Processes
  <1>1. CASE ReleaseClaimed(h)
    BY <1>0, <1>1, WorkGoto DEF SettlePC, ReleaseClaimed, Unwind, ProcTyped, envVars
  <1>2. CASE InsertCap(h) \/ RevokeCaps(h)
    BY <1>0, <1>2, WorkGoto DEF SettlePC, InsertCap, RevokeCaps
  <1>3. CASE Settle(h)
    BY <1>0, <1>3, WorkSettle
  <1>4. CASE ClaimExpired(h)
    BY <1>4, WorkClaimExpired
  <1>5. ASSUME NEW r \in Rows, Approve(h, r) \/ Reject(h, r) PROVE WorkInv' /\ StatusStep
    BY <1>5, WorkClaimEscalation
  <1> QED BY <1>1, <1>2, <1>3, <1>4, <1>5 DEF HandlerStep, HandlerCall

LEMMA WorkFailure ==
  ASSUME TypeInv, WorkInv, Failure \/ Lapse \/ ToggleShadow \/ ToggleAgent
  PROVE  WorkInv' /\ StatusStep
PROOF
  <1>0. ProcTyped /\ Rows \subseteq Processes /\ Handlers \subseteq Processes
    BY TypeGroups DEF TypeInv, Processes
  <1>1. ASSUME NEW p \in Processes, ExecutionThrows(p) PROVE WorkInv' /\ StatusStep
    <2>1. Settling(p) /\ UNCHANGED <<row, rows>>
      BY <1>1 DEF ExecutionThrows, Settling, SettlePC, envVars
    <2>2. \A q \in Processes : Settling(q)' => Settling(q)
      BY <1>0, <1>1, <2>1 DEF ExecutionThrows, Unwind, Goto, Settling, SettlePC, ProcTyped
    <2>3. \A r \in Rows : /\ pc'[r] \in BeforeInsert => pc[r] \in BeforeInsert
                          /\ pc'[r] = "escalate" => pc[r] = "escalate"
      BY <1>0, <1>1 DEF ExecutionThrows, Unwind, Goto, ProcTyped, BeforeInsert
    <2> QED BY <1>0, <2>1, <2>2, <2>3, WorkFrame
  <1>2. ASSUME NEW r \in Rows, QueryThrows(r) \/ Crash(r) PROVE WorkInv' /\ StatusStep
    <2>1. PICK label \in {"done", "dead"} : Goto(r, label)
      BY <1>2 DEF QueryThrows, Crash, Deny
    <2>2. UNCHANGED <<rows, row, next>>
      BY <1>2 DEF QueryThrows, Crash, envVars
    <2> QED BY <1>0, <2>1, <2>2, WorkGoto DEF SettlePC, BeforeInsert
  <1>3. ASSUME NEW h \in Handlers, HandlerThrows(h) \/ HandlerCrash(h) PROVE WorkInv' /\ StatusStep
    <2>1. PICK label \in {"sweep", "idle"} : Goto(h, label)
      BY <1>3 DEF HandlerThrows, HandlerCrash
    <2>2. UNCHANGED <<rows, row, next>>
      BY <1>3 DEF HandlerThrows, HandlerCrash, envVars
    <2> QED BY <1>0, <2>1, <2>2, WorkGoto DEF SettlePC, BeforeInsert
  <1>4. CASE Lapse \/ ToggleShadow \/ ToggleAgent
    BY <1>0, <1>4, WorkFrame DEF Lapse, ToggleShadow, ToggleAgent, Settling, SettlePC, procVars
  <1> QED BY <1>1, <1>2, <1>3, <1>4 DEF Failure

LEMMA WorkNext ==
  ASSUME Punctual
  PROVE  TypeInv /\ WorkInv /\ [Next]_vars => WorkInv' /\ StatusStep
PROOF
  <1> SUFFICES ASSUME TypeInv, WorkInv, [Next]_vars PROVE WorkInv' /\ StatusStep
    OBVIOUS
  <1>1. CASE UNCHANGED vars
    BY <1>1 DEF vars, procVars, WorkInv, Settling, SettlePC, StatusStep
  <1>2. CASE Next
    BY <1>2, WorkAttempt, WorkHandler, WorkFailure DEF Next
  <1> QED BY <1>1, <1>2

\* As long as no attempt outlasts its reservation, nothing overwrites the status of
\* a settled row: executor, sweep, merchant and timer settle each row once.
THEOREM SettledOnce ==
  ASSUME Punctual
  PROVE  Spec => RowsSettleOnce
PROOF
  <1>1. Init => WorkInv
    BY GateAssumption DEF Init, WorkInv, Settling, SettlePC, BeforeInsert, Processes
  <1>2. TypeInv /\ WorkInv /\ [Next]_vars => WorkInv'
    BY WorkNext
  <1>3. TypeInv /\ WorkInv /\ [Next]_vars => [StatusStep]_vars
    BY WorkNext
  <1> QED BY <1>1, <1>2, <1>3, TypeInvariant, PTL DEF Spec, RowsSettleOnce


-----------------------------------------------------------------------------
(* The books.  What the rows hold is on the books of caps and variants, and  *)
(* whoever will give a reservation back holds exactly what he will give.     *)

\* What the rows hold of cap c, and of variant v.
OnCap(c)     == [r \in Rows |-> IF cap[r] = c THEN holds[r][Budget] ELSE 0]
OfVariant(v) == [r \in Rows |-> holds[r][v]]

Booked ==
  /\ \A c \in CapIds : caps[c].spent = Total(OnCap(c), Rows)
  /\ \A v \in Variants : stock[v] = InitStock[v] - Total(OfVariant(v), Rows)
  /\ \A r \in Rows, x \in Resource : holds[r][x] \in Nat

\* Caps that are yet to come are nobody's, and no cap is overspent.
CapsInv ==
  /\ \A p \in Processes : cap[p] <= capCount
  /\ \A c \in CapIds : c > capCount => caps[c] = AbsentCap
  /\ \A c \in CapIds : caps[c].spent <= caps[c].limit

\* What p has in hand of x for its row: its grants, of which the budget is gone once a
\* short redemption has released it.
InHand(p, x) ==
  Worth(undo[p], x) - (IF pc[p] = "fail_short" THEN Part(Head(undo[p]), x) ELSE 0)
Carrying(p) == undo[p] # <<>>
Full(r)     == \A x \in Resource : holds[r][x] = Worth(GrantsOfRow(r), x)
Empty(r)    == \A x \in Resource : holds[r][x] = 0

\* A row of a sweep: claimed and not yet released, or being released.
Sweeping(h) == pc[h] = "give_back" /\ next[h] = "sweep"

Whole == {"insert", "escalate", "execute", "insert_coins", "release_short", "fail_short", "commit"}

\* Nothing makes an attempt give up a row it has inserted.
Steady == /\ Ops \cap {"throw", "decline", "lost_reply"} = {}
          /\ \A q \in Requests : q.kind # "redeem"

\* Who holds a reservation in hand, on which row, and how much of it.
HandOf(p) ==
  /\ Carrying(p) =>
       /\ cap[p] = cap[row[p]]
       /\ \A x \in Resource : holds[row[p]][x] = InHand(p, x)
       /\ \/ pc[p] \in {"reserve_stock", "insert", "escalate"}
          \/ Settling(p)
          \/ pc[p] = "give_back"
  /\ pc[p] \in Whole => undo[p] = GrantsOfRow(row[p])
  /\ pc[p] = "reserve_stock" => \A i \in 1 .. Len(undo[p]) : undo[p][i] = GrantsOfRow(p)[i]
  /\ pc[p] = "give_back" => next[p] # "idle"
  /\ pc[p] = "fail_row" => Empty(row[p])
  /\ pc[p] \in {"release_short", "fail_short"} => p \in Rows /\ req[p].kind = "redeem"
  /\ pc[p] = "insert_cap" => "set_cap" \in Ops
  /\ pc[p] = "fail_row" \/ (pc[p] = "give_back" /\ next[p] = "fail_row") =>
       ~Steady \/ (p \in Handlers /\ "reject" \in Ops)

\* What a row holds that nobody has in hand.
RestOf(r) ==
  /\ pc[r] \in {"start", "check", "preflight", "read_cap", "reserve_budget"} => Empty(r)
  /\ pc[r] = "replay" \/ (pc[r] = "give_back" /\ next[r] # "fail_row") =>
       rows[r].status = "none" /\ rows[r].escalation = "none"
  /\ pc[r] = "redeem" => rows[r].status = "executed"
  /\ rows[r].escalation = "pending" => Full(r)
  /\ rows[r].status = "executed" => Full(r)
  /\ rows[r].status = "allowed" /\ pc[r] \in {"done", "dead"} /\ "sweep" \in Ops => Full(r)

\* The rows a sweep has claimed are its own.
Swept(h) == queue[h] \cup (IF Sweeping(h) THEN {row[h]} ELSE {})
SweepInv ==
  /\ \A h \in Handlers : \A r \in queue[h] : Full(r) /\ "sweep" \in Ops
  /\ \A h \in Handlers : \A r \in Swept(h) : rows[r].status = "failed"
  /\ \A h \in Handlers : Sweeping(h) => row[h] \notin queue[h]
  /\ \A h, g \in Handlers : h # g => Swept(h) \cap Swept(g) = {}
  /\ "set_cap" \notin Ops => capCount = 1

BookInv ==
  /\ Booked /\ CapsInv
  /\ \A p \in Processes : HandOf(p)
  /\ \A r \in Rows : RestOf(r)
  /\ SweepInv

\* Nothing is given back twice: a redemption that is short is not interrupted after it
\* has released its budget, and no row is swept whose executor was interrupted while
\* it gave back, or whose cap may have been replaced.
ReleasedOnce ==
  /\ "throw" \in Ops => \A q \in Requests : q.kind # "redeem"
  /\ "sweep" \in Ops =>
       /\ "slow" \notin Ops /\ "throw" \notin Ops /\ "set_cap" \notin Ops
       /\ "crash" \in Ops => Steady

\* Live rows hold what they asked for.
LiveInv == \A r \in Rows : Live(r) => Full(r)
Undone == \/ Ops \cap {"decline", "lost_reply", "reject"} # {}
          \/ \E q \in Requests : q.kind = "redeem"
Died   == Ops \cap {"crash", "handler_crash"} # {}

\* Held(r): somebody has what row r holds in hand.
InSomeHand(r) == \/ \E p \in Processes : Carrying(p) /\ row[p] = r
                 \/ \E h \in Handlers : r \in queue[h]

\* A row of this status that nobody has in hand holds nothing.
Vacated(st) == \A r \in Rows : rows[r].status = st /\ ~InSomeHand(r) => Empty(r)

\* Only a sweep has claimed rows left.
QueueInv == \A h \in Handlers : queue[h] # {} => pc[h] = "sweep" \/ Sweeping(h)

\* A redemption takes nothing but budget.
RedeemsCoinsAlone == \A q \in Requests : q.kind = "redeem" => q.lines = <<>>

\* Everything that is claimed by a sweep is released by it.
ReleasedInFull ==
  /\ "throw" \notin Ops /\ "handler_crash" \notin Ops
  /\ "sweep" \in Ops => Cardinality(Rows) <= SweepLimit
  /\ RedeemsCoinsAlone

-----------------------------------------------------------------------------
(* How the statements of the ledger move the books.                          *)

LEMMA SumsTyped ==
  ASSUME Booked
  PROVE  /\ \A c \in CapIds : OnCap(c) \in [Rows -> Nat]
         /\ \A v \in Variants : OfVariant(v) \in [Rows -> Nat]
  BY DEF Booked, OnCap, OfVariant, Resource

\* A row's share of the books is no more than the books.
LEMMA ShareBooked ==
  ASSUME Booked, NEW r \in Rows
  PROVE  /\ \A c \in CapIds : cap[r] = c => holds[r][Budget] <= caps[c].spent
         /\ \A v \in Variants : holds[r][v] <= InitStock[v] - stock[v]
PROOF
  <1>1. IsFiniteSet(Rows)
    BY LedgerAssumption
  <1>2. ASSUME NEW c \in CapIds, cap[r] = c PROVE holds[r][Budget] <= caps[c].spent
    <2>1. \A o \in Rows : OnCap(c)[o] \in Nat
      BY SumsTyped
    <2>2. OnCap(c)[r] <= Total(OnCap(c), Rows)
      BY <1>1, <2>1, TotalMember
    <2>3. OnCap(c)[r] = holds[r][Budget]
      BY <1>2 DEF OnCap
    <2> QED BY <2>2, <2>3 DEF Booked
  <1>3. ASSUME NEW v \in Variants PROVE holds[r][v] <= InitStock[v] - stock[v]
    <2>1. \A o \in Rows : OfVariant(v)[o] \in Nat
      BY SumsTyped
    <2>2. OfVariant(v)[r] <= Total(OfVariant(v), Rows)
      BY <1>1, <2>1, TotalMember
    <2>3. OfVariant(v)[r] = holds[r][v]
      BY DEF OfVariant
    <2>4. Total(OfVariant(v), Rows) \in Nat
      BY <1>1, <2>1, TotalNat
    <2>5. stock[v] = InitStock[v] - Total(OfVariant(v), Rows) /\ InitStock[v] \in Nat
      BY LedgerAssumption DEF Booked
    <2> HIDE DEF Booked
    <2> QED BY <2>2, <2>3, <2>4, <2>5
  <1> QED BY <1>2, <1>3

\* Row r takes d of resource x, or gives it back when d is negative.
LEMMA BookMove ==
  ASSUME LedgerTypeOK, Booked, cap' = cap, NEW r \in Rows, cap[r] \in CapIds,
         NEW x \in Resource, NEW d \in Int,
         holds' = [holds EXCEPT ![r][x] = @ + d], holds[r][x] + d \in Nat,
         \A c \in CapIds : caps'[c].spent = IF x = Budget /\ c = cap[r] THEN caps[c].spent + d
                                                                    ELSE caps[c].spent,
         \A v \in Variants : stock'[v] = IF v = x THEN stock[v] - d ELSE stock[v]
  PROVE  Booked'
PROOF
  <1>1. IsFiniteSet(Rows) /\ Budget \notin Variants
    BY LedgerAssumption
  <1>2. /\ \A o \in Rows, y \in Resource :
             holds'[o][y] = IF o = r /\ y = x THEN holds[o][y] + d ELSE holds[o][y]
        /\ \A o \in Rows, y \in Resource : holds[o][y] \in Nat
    BY DEF LedgerTypeOK, Booked
  <1>3. \A o \in Rows, y \in Resource : holds'[o][y] \in Nat
    BY <1>2
  <1>4. ASSUME NEW c \in CapIds PROVE caps'[c].spent = Total(OnCap(c)', Rows)
    <2>1. \A o \in Rows :
            OnCap(c)'[o] = IF o = r /\ x = Budget /\ c = cap[r] THEN OnCap(c)[o] + d ELSE OnCap(c)[o]
      BY <1>2 DEF OnCap, Resource
    <2>2. \A o \in Rows : OnCap(c)[o] \in Int /\ OnCap(c)'[o] \in Int
      BY <1>2, <1>3 DEF OnCap, Resource
    <2>3. caps[c].spent = Total(OnCap(c), Rows)
      BY DEF Booked
    <2>4. Total(OnCap(c), Rows) \in Int
      BY <1>1, <2>2, TotalInt
    <2>5. CASE x = Budget /\ c = cap[r]
      <3>1. \A o \in Rows : o # r => OnCap(c)'[o] = OnCap(c)[o]
        BY <2>1
      <3>2. Total(OnCap(c)', Rows) = Total(OnCap(c), Rows) + OnCap(c)'[r] - OnCap(c)[r]
        BY <1>1, <2>2, <3>1, TotalChanged
      <3>3. OnCap(c)'[r] = OnCap(c)[r] + d /\ OnCap(c)[r] \in Int
        BY <2>1, <2>2, <2>5
      <3>4. caps'[c].spent = caps[c].spent + d
        BY <2>5
      <3> QED BY <2>3, <2>4, <3>2, <3>3, <3>4
    <2>6. CASE ~(x = Budget /\ c = cap[r])
      <3>1. \A o \in Rows : OnCap(c)[o] = OnCap(c)'[o]
        BY <2>1, <2>6
      <3>2. Total(OnCap(c), Rows) = Total(OnCap(c)', Rows)
        BY <1>1, <3>1, TotalSame
      <3>3. caps'[c].spent = caps[c].spent
        BY <2>6
      <3> QED BY <2>3, <3>2, <3>3
    <2> QED BY <2>5, <2>6
  <1>5. ASSUME NEW v \in Variants PROVE stock'[v] = InitStock[v] - Total(OfVariant(v)', Rows)
    <2>1. \A o \in Rows :
            OfVariant(v)'[o] = IF o = r /\ v = x THEN OfVariant(v)[o] + d ELSE OfVariant(v)[o]
      BY <1>2 DEF OfVariant, Resource
    <2>2. \A o \in Rows : OfVariant(v)[o] \in Int /\ OfVariant(v)'[o] \in Int
      BY <1>2, <1>3 DEF OfVariant, Resource
    <2>3. stock[v] = InitStock[v] - Total(OfVariant(v), Rows) /\ InitStock[v] \in Int
      BY LedgerAssumption DEF Booked
    <2>4. Total(OfVariant(v), Rows) \in Int
      BY <1>1, <2>2, TotalInt
    <2>5. CASE v = x
      <3>1. \A o \in Rows : o # r => OfVariant(v)'[o] = OfVariant(v)[o]
        BY <2>1
      <3>2. Total(OfVariant(v)', Rows) = Total(OfVariant(v), Rows) + OfVariant(v)'[r] - OfVariant(v)[r]
        BY <1>1, <2>2, <3>1, TotalChanged
      <3>3. OfVariant(v)'[r] = OfVariant(v)[r] + d /\ OfVariant(v)[r] \in Int
        BY <2>1, <2>2, <2>5
      <3>4. stock'[v] = stock[v] - d
        BY <2>5
      <3> QED BY <2>3, <2>4, <3>2, <3>3, <3>4
    <2>6. CASE v # x
      <3>1. \A o \in Rows : OfVariant(v)[o] = OfVariant(v)'[o]
        BY <2>1, <2>6
      <3>2. Total(OfVariant(v), Rows) = Total(OfVariant(v)', Rows)
        BY <1>1, <3>1, TotalSame
      <3>3. stock'[v] = stock[v]
        BY <2>6
      <3> QED BY <2>3, <3>2, <3>3
    <2> QED BY <2>5, <2>6
  <1> QED BY <1>3, <1>4, <1>5 DEF Booked

\* Nothing changes hands: caps may come, go and lapse, and a row that holds no budget may
\* turn to another cap.
LEMMA BookFrame ==
  ASSUME Booked, UNCHANGED <<holds, stock>>,
         \A c \in CapIds : caps'[c].spent = caps[c].spent,
         \A r \in Rows : cap'[r] = cap[r] \/ holds[r][Budget] = 0
  PROVE  Booked'
PROOF
  <1>1. IsFiniteSet(Rows)
    BY LedgerAssumption
  <1>2. ASSUME NEW c \in CapIds PROVE Total(OnCap(c), Rows) = Total(OnCap(c)', Rows)
    <2>1. \A r \in Rows : OnCap(c)[r] = OnCap(c)'[r]
      BY DEF OnCap
    <2> QED BY <1>1, <2>1, TotalSame
  <1>3. ASSUME NEW v \in Variants PROVE Total(OfVariant(v), Rows) = Total(OfVariant(v)', Rows)
    <2>1. \A r \in Rows : OfVariant(v)[r] = OfVariant(v)'[r]
      BY DEF OfVariant
    <2> QED BY <1>1, <2>1, TotalSame
  <1> QED BY <1>2, <1>3 DEF Booked

\* A row takes a grant, or gives it back to the cap it was charged to.
Moved(r, grant, d) ==
  /\ holds' = [holds EXCEPT ![r][grant.of] = @ + d]
  /\ UNCHANGED capCount
  /\ \A c \in CapIds :
       caps'[c] = IF grant.of = Budget /\ c = cap[r] THEN [caps[c] EXCEPT !.spent = @ + d] ELSE caps[c]
  /\ \A v \in Variants : stock'[v] = IF v = grant.of THEN stock[v] - d ELSE stock[v]

LEMMA MovedBooked ==
  ASSUME LedgerTypeOK, Booked, cap' = cap, NEW r \in Rows, cap[r] \in CapIds,
         NEW grant \in Grant, NEW d \in Int, Moved(r, grant, d), holds[r][grant.of] + d \in Nat
  PROVE  Booked'
PROOF
  <1>1. grant.of \in Resource
    BY DEF Grant
  <1>2. \A c \in CapIds : caps[c] \in Cap
    BY DEF LedgerTypeOK
  <1>3. \A c \in CapIds : caps'[c].spent = IF grant.of = Budget /\ c = cap[r] THEN caps[c].spent + d
                                                                          ELSE caps[c].spent
    BY <1>2 DEF Moved, Cap
  <1> QED BY <1>1, <1>3, BookMove DEF Moved

LEMMA TakingMoves ==
  ASSUME LedgerTypeOK, NEW r \in Rows, cap[r] \in CapIds, NEW grant \in Grant,
         \/ grant.of = Budget /\ reserveBudget(r, cap[r], grant)
         \/ grant.of # Budget /\ reserveStock(r, grant)
  PROVE  Moved(r, grant, grant.qty)
PROOF
  <1>1. CASE grant.of = Budget /\ reserveBudget(r, cap[r], grant)
    BY <1>1, LedgerAssumption DEF reserveBudget, Charge, Moved, LedgerTypeOK
  <1>2. CASE grant.of # Budget /\ reserveStock(r, grant)
    BY <1>2 DEF reserveStock, Charge, Moved, LedgerTypeOK
  <1> QED BY <1>1, <1>2

\* A release gives back exactly the grant, where the row holds as much: the floor
\* under spent_paise is not reached.
LEMMA ReleaseMoves ==
  ASSUME LedgerTypeOK, Booked, NEW r \in Rows, cap[r] \in CapIds, NEW grant \in Grant,
         Release(r, cap[r], grant), grant.qty <= holds[r][grant.of]
  PROVE  Moved(r, grant, -grant.qty)
PROOF
  <1>1. grant.qty \in Nat /\ grant.of \in Resource
    BY DEF Grant
  <1>2. holds' = [holds EXCEPT ![r][grant.of] = @ + -grant.qty]
    <2>1. holds' = [holds EXCEPT ![r][grant.of] = @ - grant.qty]
      BY DEF Release, releaseBudget, releaseStock, Uncharge
    <2>2. holds[r][grant.of] \in Nat /\ holds[r][grant.of] - grant.qty = holds[r][grant.of] + -grant.qty
      BY <1>1 DEF Booked
    <2> QED BY <2>1, <2>2
  <1>3. CASE grant.of = Budget
    <2>1. /\ caps' = [caps EXCEPT ![cap[r]].spent = FlooredDifference(@, grant.qty)]
          /\ UNCHANGED <<capCount, stock>>
      BY <1>3 DEF Release, releaseBudget
    <2>2. holds[r][Budget] <= caps[cap[r]].spent
      BY ShareBooked
    <2>3. caps[cap[r]].spent \in Nat /\ holds[r][Budget] \in Nat
      BY <1>1, <1>3 DEF LedgerTypeOK, Cap, Booked
    <2>4. FlooredDifference(caps[cap[r]].spent, grant.qty) = caps[cap[r]].spent + -grant.qty
      BY <1>1, <1>3, <2>2, <2>3 DEF FlooredDifference
    <2>6. \A c \in CapIds : caps'[c] = IF c = cap[r] THEN [caps[c] EXCEPT !.spent = @ + -grant.qty] ELSE caps[c]
      BY <2>1, <2>4 DEF LedgerTypeOK
    <2> QED BY <1>2, <1>3, <2>1, <2>6, LedgerAssumption DEF Moved
  <1>4. CASE grant.of # Budget
    <2>1. /\ stock' = [stock EXCEPT ![grant.of] = @ + grant.qty]
          /\ UNCHANGED <<caps, capCount>>
      BY <1>4 DEF Release, releaseStock
    <2>2. \A v \in Variants : stock[v] \in Nat
      BY DEF LedgerTypeOK
    <2>3. \A v \in Variants : stock'[v] = IF v = grant.of THEN stock[v] - -grant.qty ELSE stock[v]
      BY <1>1, <2>1, <2>2 DEF LedgerTypeOK
    <2> QED BY <1>2, <1>4, <2>1, <2>3 DEF Moved
  <1> QED BY <1>3, <1>4

-----------------------------------------------------------------------------
(* A reservation is in one hand at a time.                                   *)

\* p has the reservation of its row in hand, or has just given it back.
Engaged(p) == Carrying(p) \/ pc[p] = "fail_row"

\* What the row looks like meanwhile.
LEMMA EngagedRow ==
  ASSUME TypeInv, WorkInv, BookInv, NEW p \in Processes, Engaged(p)
  PROVE  \/ /\ p \in Rows /\ row[p] = p /\ pc[p] \notin {"done", "dead"}
            /\ pc[p] \notin {"start", "check", "preflight", "read_cap", "reserve_budget"}
            /\ \/ rows[p].status \in {"none", "pending_escalation"} /\ rows[p].escalation = "none"
               \/ rows[p].status = "allowed"
         \/ /\ p \in Handlers /\ Settling(p) /\ rows[row[p]].status = "pending_escalation"
            /\ rows[row[p]].escalation \in {"approved", "rejected"}
         \/ /\ p \in Handlers /\ Sweeping(p) /\ rows[row[p]].status = "failed"
PROOF
  <1>1. /\ HandOf(p) /\ p \in Rows \cup Handlers /\ next[p] \in NextOf(p) /\ pc[p] \in PCOf(p)
        /\ p \in Rows => row[p] = p
    BY DEF BookInv, Processes, TypeInv, Shape, ShapeOf
  <1>2. \/ pc[p] \in {"reserve_stock", "insert", "escalate"}
        \/ Settling(p)
        \/ pc[p] = "give_back" /\ next[p] # "fail_row" /\ next[p] # "idle"
    BY <1>1 DEF Engaged, HandOf, Settling, SettlePC
  <1>3. CASE p \in Rows
    <2>1. RestOf(p)
      BY <1>3 DEF BookInv
    <2>2. \/ rows[p].status \in {"none", "pending_escalation"} /\ rows[p].escalation = "none"
          \/ rows[p].status = "allowed"
      BY <1>2, <1>3, <2>1 DEF RestOf, WorkInv, BeforeInsert
    <2> QED BY <1>1, <1>2, <1>3, <2>2 DEF Settling, SettlePC
  <1>4. CASE p \in Handlers /\ Settling(p)
    BY <1>4 DEF WorkInv
  <1>5. CASE p \in Handlers /\ ~Settling(p)
    <2>1. p \notin Rows
      BY <1>5, GateAssumption
    <2>2. Sweeping(p)
      BY <1>1, <1>2, <1>5, <2>1 DEF PCOf, NextOf, HandlerPC, Sweeping
    <2>3. row[p] \in Swept(p)
      BY <2>2 DEF Swept
    <2> QED BY <1>5, <2>2, <2>3 DEF BookInv, SweepInv
  <1> QED BY <1>1, <1>3, <1>4, <1>5

LEMMA OneHand ==
  ASSUME TypeInv, WorkInv, BookInv, NEW p \in Processes, NEW q \in Processes, p # q,
         Engaged(p), Engaged(q)
  PROVE  row[p] # row[q]
PROOF
  <1>1. Rows \cap Handlers = {}
    BY GateAssumption
  <1>2. CASE p \in Handlers /\ Sweeping(p) /\ q \in Handlers /\ Sweeping(q)
    <2>1. row[p] \in Swept(p) /\ row[q] \in Swept(q)
      BY <1>2 DEF Swept
    <2>2. Swept(p) \cap Swept(q) = {}
      BY <1>2 DEF BookInv, SweepInv
    <2> QED BY <2>1, <2>2
  <1>3. CASE p \in Handlers /\ Settling(p) /\ q \in Handlers /\ Settling(q)
    BY <1>3 DEF WorkInv
  <1> QED BY <1>1, <1>2, <1>3, EngagedRow

\* Nor does anything else lay claim to it.
LEMMA EngagedAlone ==
  ASSUME TypeInv, WorkInv, BookInv, NEW p \in Processes, Engaged(p)
  PROVE  /\ row[p] \in Rows /\ rows[row[p]].escalation # "pending" /\ rows[row[p]].status # "executed"
         /\ ~(rows[row[p]].status = "allowed" /\ pc[row[p]] \in {"done", "dead"})
         /\ \A h \in Handlers : row[p] \notin queue[h]
         /\ pc[row[p]] \notin {"start", "check", "preflight", "read_cap", "reserve_budget"}
PROOF
  <1>1. row[p] \in Rows
    BY TypeGroups DEF TypeInv, ProcTyped
  <1>2. RestOf(row[p])
    BY <1>1 DEF BookInv
  <1>3. rows[row[p]].escalation # "pending" /\ rows[row[p]].status # "executed"
    BY <1>1, EngagedRow DEF WorkInv
  <1>4. ~(rows[row[p]].status = "allowed" /\ pc[row[p]] \in {"done", "dead"})
    BY <1>1, EngagedRow
  <1>5. ASSUME NEW h \in Handlers, row[p] \in queue[h] PROVE FALSE
    <2>1. row[p] \in Swept(h) /\ rows[row[p]].status = "failed"
      BY <1>5 DEF BookInv, SweepInv, Swept
    <2>2. p \in Handlers /\ Sweeping(p)
      BY <1>1, <2>1, EngagedRow
    <2>3. row[p] \in Swept(p)
      BY <2>2 DEF Swept
    <2> QED BY <1>5, <2>1, <2>2, <2>3 DEF BookInv, SweepInv
  <1>6. pc[row[p]] \notin {"start", "check", "preflight", "read_cap", "reserve_budget"}
    BY <1>1, EngagedRow DEF WorkInv, BeforeInsert
  <1> QED BY <1>1, <1>3, <1>4, <1>5, <1>6

\* While its attempt has not inserted it a row is in no other hand.
LEMMA Unheld ==
  ASSUME TypeInv, WorkInv, BookInv, NEW r \in Rows, pc[r] \in BeforeInsert,
         NEW q \in Processes, q # r, Engaged(q)
  PROVE  row[q] # r
  BY EngagedRow, GateAssumption DEF WorkInv

\* The hands, after a step of p that changes nothing of what others hold.
LEMMA HandStep ==
  ASSUME BookInv, NEW p \in Processes, req' = req,
         \A q \in Processes : q # p =>
           /\ pc'[q] = pc[q] /\ undo'[q] = undo[q] /\ next'[q] = next[q] /\ row'[q] = row[q] /\ cap'[q] = cap[q]
           /\ Engaged(q) => /\ cap'[row[q]] = cap[row[q]]
                            /\ \A x \in Resource : holds'[row[q]][x] = holds[row[q]][x],
         HandOf(p)'
  PROVE  \A q \in Processes : HandOf(q)'
PROOF
  <1> SUFFICES ASSUME NEW q \in Processes, q # p PROVE HandOf(q)'
    OBVIOUS
  <1>1. HandOf(q)
    BY DEF BookInv
  <1>2. \A x : InHand(q, x)' = InHand(q, x)
    BY DEF InHand
  <1>3. Settling(q)' = Settling(q)
    BY DEF Settling
  <1>4. GrantsOfRow(row[q])' = GrantsOfRow(row[q]) /\ GrantsOfRow(q)' = GrantsOfRow(q)
    BY DEF GrantsOfRow
  <1>5. Carrying(q)' = Carrying(q)
    BY DEF Carrying
  <1> QED BY <1>1, <1>2, <1>3, <1>4, <1>5 DEF HandOf, Empty, Engaged

\* The rest of the rows, after a step that concerns row s alone.
LEMMA RestStep ==
  ASSUME BookInv, NEW s \in Rows, req' = req,
         \A r \in Rows : r # s =>
           /\ pc'[r] = pc[r] /\ next'[r] = next[r]
           /\ rows'[r].status = rows[r].status /\ rows'[r].escalation = rows[r].escalation
           /\ \A x \in Resource : holds'[r][x] = holds[r][x],
         RestOf(s)'
  PROVE  \A r \in Rows : RestOf(r)'
PROOF
  <1> SUFFICES ASSUME NEW r \in Rows, r # s PROVE RestOf(r)'
    OBVIOUS
  <1>1. RestOf(r)
    BY DEF BookInv
  <1>2. GrantsOfRow(r)' = GrantsOfRow(r)
    BY DEF GrantsOfRow
  <1>3. Full(r)' = Full(r) /\ Empty(r)' = Empty(r)
    BY <1>2 DEF Full, Empty
  <1> QED BY <1>1, <1>3 DEF RestOf

\* The sweeps, after a step that starts none and spares the rows they have claimed.
LEMMA SweepStep ==
  ASSUME BookInv, req' = req,
         \A h \in Handlers : /\ queue'[h] = queue[h] \/ queue'[h] = {}
                             /\ Sweeping(h)' => Sweeping(h) /\ row'[h] = row[h],
         \A r \in Rows : rows[r].status = "failed" => rows'[r].status = "failed",
         \A h \in Handlers : \A r \in queue[h] : \A x \in Resource : holds'[r][x] = holds[r][x],
         queue \in [Handlers -> SUBSET Rows], row \in [Processes -> Rows],
         capCount' = capCount \/ "set_cap" \in Ops
  PROVE  SweepInv'
PROOF
  <1>1. \A h \in Handlers : Swept(h)' \subseteq Swept(h) /\ Swept(h) \subseteq Rows
    BY DEF Swept, Processes
  <1>2. \A h \in Handlers : \A r \in queue[h] : Full(r) /\ GrantsOfRow(r)' = GrantsOfRow(r)
    BY DEF BookInv, SweepInv, GrantsOfRow
  <1>3. \A h \in Handlers : \A r \in queue'[h] : Full(r)' /\ "sweep" \in Ops
    BY <1>2 DEF Full, BookInv, SweepInv
  <1>4. \A h \in Handlers : \A r \in Swept(h)' : rows'[r].status = "failed"
    BY <1>1 DEF BookInv, SweepInv
  <1>5. \A h \in Handlers : Sweeping(h)' => row'[h] \notin queue'[h]
    BY DEF BookInv, SweepInv
  <1>6. \A h, g \in Handlers : h # g => Swept(h)' \cap Swept(g)' = {}
    BY <1>1 DEF BookInv, SweepInv
  <1>7. "set_cap" \notin Ops => capCount' = 1
    BY DEF BookInv, SweepInv
  <1> QED BY <1>3, <1>4, <1>5, <1>6, <1>7 DEF SweepInv

\* A step of p on its row.
LEMMA BookStep ==
  ASSUME TypeInv, WorkInv, BookInv, NEW p \in Processes,
         UNCHANGED <<req, row, capCount>>,
         \A q \in Processes : q # p =>
           pc'[q] = pc[q] /\ undo'[q] = undo[q] /\ next'[q] = next[q] /\ cap'[q] = cap[q],
         p \in Rows \/ cap' = cap,
         \A o \in Rows : o # row[p] =>
           /\ rows'[o].status = rows[o].status /\ rows'[o].escalation = rows[o].escalation
           /\ \A x \in Resource : holds'[o][x] = holds[o][x],
         \/ Engaged(p)
         \/ p \in Rows /\ pc[p] \in BeforeInsert
         \/ UNCHANGED <<rows, holds, cap>>,
         rows[row[p]].status = "failed" => rows'[row[p]].status = "failed",
         p \in Handlers /\ Sweeping(p)' => Sweeping(p),
         \A h \in Handlers : queue'[h] = queue[h] \/ queue'[h] = {},
         Booked', CapsInv', HandOf(p)', RestOf(row[p])'
  PROVE  BookInv'
PROOF
  <1>0. /\ ProcTyped /\ ReplyTyped /\ row[p] \in Rows /\ Rows \cap Handlers = {}
        /\ p \in Rows => row[p] = p
    BY TypeGroups, GateAssumption DEF TypeInv, ProcTyped, Shape, ShapeOf
  <1>1. \A q \in Processes : q # p /\ Engaged(q) =>
          cap'[row[q]] = cap[row[q]] /\ \A x \in Resource : holds'[row[q]][x] = holds[row[q]][x]
    <2> SUFFICES ASSUME NEW q \in Processes, q # p, Engaged(q)
                 PROVE  cap'[row[q]] = cap[row[q]] /\ \A x \in Resource : holds'[row[q]][x] = holds[row[q]][x]
      OBVIOUS
    <2>1. row[q] \in Rows
      BY <1>0 DEF ProcTyped
    <2>2. CASE UNCHANGED <<rows, holds, cap>>
      BY <2>2
    <2>3. CASE Engaged(p) \/ (p \in Rows /\ pc[p] \in BeforeInsert)
      <3>1. row[q] # row[p]
        BY <1>0, <2>3, OneHand, Unheld
      <3>2. cap'[row[q]] = cap[row[q]]
        BY <1>0, <2>1, <3>1 DEF Processes
      <3> QED BY <2>1, <3>1, <3>2
    <2> QED BY <2>2, <2>3
  <1>2. \A q \in Processes : HandOf(q)'
    BY <1>1, HandStep
  <1>3. \A r \in Rows : r # row[p] => pc'[r] = pc[r] /\ next'[r] = next[r]
    BY <1>0 DEF Processes
  <1>4. \A r \in Rows : RestOf(r)'
    BY <1>0, <1>3, RestStep
  <1>5. \A h \in Handlers : \A r \in queue[h] : \A x \in Resource : holds'[r][x] = holds[r][x]
    <2> SUFFICES ASSUME NEW h \in Handlers, NEW r \in queue[h]
                 PROVE  \A x \in Resource : holds'[r][x] = holds[r][x]
      OBVIOUS
    <2>1. r \in Rows /\ rows[r].status = "failed"
      BY <1>0 DEF ReplyTyped, BookInv, SweepInv, Swept
    <2>2. CASE UNCHANGED <<rows, holds, cap>>
      BY <2>2
    <2>3. CASE Engaged(p)
      BY <2>1, <2>3, EngagedAlone
    <2>4. CASE p \in Rows /\ pc[p] \in BeforeInsert
      BY <1>0, <2>1, <2>4 DEF WorkInv
    <2> QED BY <2>2, <2>3, <2>4
  <1>6. \A h \in Handlers : Sweeping(h)' => Sweeping(h) /\ row'[h] = row[h]
    BY DEF Sweeping, Processes
  <1>7. \A r \in Rows : rows[r].status = "failed" => rows'[r].status = "failed"
    OBVIOUS
  <1>8. SweepInv'
    BY <1>0, <1>5, <1>6, <1>7, SweepStep DEF ReplyTyped, ProcTyped
  <1> QED BY <1>2, <1>4, <1>8 DEF BookInv

\* A step that moves no resource and changes no cap.
LEMMA StillBooked ==
  ASSUME BookInv, UNCHANGED <<ledgerVars, cap>>
  PROVE  Booked' /\ CapsInv'
  BY BookFrame DEF BookInv, CapsInv, ledgerVars

\* What the parts of a hand are.
LEMMA HandParts ==
  ASSUME TypeInv, BookInv, NEW p \in Processes
  PROVE  /\ HandOf(p) /\ ShapeOf(p) /\ row[p] \in Rows /\ cap[p] \in CapIds /\ undo[p] \in Seq(Grant)
         /\ pc[p] \in AttemptPC \cup HandlerPC /\ rows[row[p]] \in Row
         /\ pc[p] \in Holding => Carrying(p)
         /\ Carrying(p) => Settling(p) \/ pc[p] \in {"reserve_stock", "insert", "escalate", "give_back"}
         /\ p \in Rows \/ p \in Handlers
PROOF
  <1>1. ProcTyped /\ RowsTyped /\ HandOf(p) /\ ShapeOf(p)
    BY TypeGroups DEF TypeInv, Shape, BookInv
  <1> QED BY <1>1 DEF ProcTyped, RowsTyped, HandOf, ShapeOf, Carrying, Processes

\* Begin, Replay and checkBounds: nothing is in hand yet.
LEMMA BookBegin ==
  ASSUME TypeInv, WorkInv, BookInv, NEW r \in Rows, Begin(r) \/ Replay(r) \/ checkBounds(r)
  PROVE  BookInv'
PROOF
  <1>0. r \in Processes /\ ProcTyped /\ LedgerTypeOK /\ row[r] = r
    BY TypeGroups DEF Processes, TypeInv, Shape, ShapeOf
  <1>1. /\ UNCHANGED <<req, row, capCount, holds, stock, cap, undo, next, queue, rows>>
        /\ pc[r] \in {"start", "replay", "check", "preflight"}
        /\ \E label \in {"done", "check", "preflight", "read_cap"} : pc' = [pc EXCEPT ![r] = label]
    BY DEF Begin, Replay, checkBounds, Goto, Deny, ledgerVars, envVars
  <1>2. /\ \A c \in CapIds : caps'[c].spent = caps[c].spent /\ caps'[c].limit = caps[c].limit
        /\ \A c \in CapIds : c > capCount => caps'[c] = caps[c]
    <2>1. caps' = caps \/ caps' = [caps EXCEPT ![capCount].status = "expired"]
      BY DEF Begin, Replay, checkBounds, ledgerVars
    <2>2. CASE caps' = caps
      BY <2>2
    <2>3. CASE caps' = [caps EXCEPT ![capCount].status = "expired"]
      <3>1. ASSUME NEW c \in CapIds
            PROVE  /\ caps'[c].spent = caps[c].spent /\ caps'[c].limit = caps[c].limit
                   /\ c # capCount => caps'[c] = caps[c]
        <4>1. caps[c] \in Cap
          BY <1>0 DEF LedgerTypeOK
        <4>2. caps'[c] = IF c = capCount THEN [caps[c] EXCEPT !.status = "expired"] ELSE caps[c]
          BY <1>0, <2>3 DEF LedgerTypeOK
        <4> QED BY <4>1, <4>2 DEF Cap
      <3>2. capCount \in Nat
        BY <1>0 DEF LedgerTypeOK, CapIds
      <3> QED BY <3>1, <3>2
    <2> QED BY <2>1, <2>2, <2>3
  <1>3. Booked'
    BY <1>1, <1>2, BookFrame DEF BookInv
  <1>4. CapsInv'
    BY <1>1, <1>2 DEF BookInv, CapsInv
  <1>5. ~Carrying(r)
    BY <1>0, <1>1, HandParts DEF Settling, SettlePC
  <1>6. HandOf(r)'
    BY <1>0, <1>1, <1>5 DEF ProcTyped, HandOf, Carrying, Whole
  <1>7. RestOf(r)'
    <2>1. RestOf(r) /\ pc'[r] \in {"done", "check", "preflight", "read_cap"}
      BY <1>0, <1>1 DEF BookInv, ProcTyped
    <2>2. Full(r)' = Full(r) /\ Empty(r)' = Empty(r)
      BY <1>1 DEF Full, Empty, GrantsOfRow
    <2>3. rows[r].status = "none"
      BY <1>1, <2>1 DEF RestOf, WorkInv, BeforeInsert
    <2>4. pc'[r] # "done" => Empty(r)
      <3>1. CASE Begin(r) \/ checkBounds(r)
        BY <2>1, <3>1 DEF RestOf, Begin, checkBounds
      <3>2. CASE Replay(r)
        BY <1>0, <3>2 DEF Replay, Goto, ProcTyped
      <3> QED BY <3>1, <3>2
    <2> QED BY <1>1, <2>1, <2>2, <2>3, <2>4 DEF RestOf
  <1> QED BY <1>0, <1>1, <1>3, <1>4, <1>6, <1>7, BookStep, GateAssumption DEF ProcTyped

\* What a row holds, when nothing but its process moved on.
LEMMA RestKept ==
  ASSUME NEW s \in Rows, RestOf(s), req' = req,
         rows'[s].status = rows[s].status, rows'[s].escalation = rows[s].escalation,
         \A x \in Resource : holds'[s][x] = holds[s][x],
         \/ pc'[s] = pc[s] /\ next'[s] = next[s]
         \/ pc'[s] \in {"reserve_stock", "insert", "escalate", "execute", "insert_coins", "release_short",
                        "fail_short", "commit", "fail_row"}
         \/ pc'[s] = "give_back" /\ next'[s] = "fail_row"
  PROVE  RestOf(s)'
PROOF
  <1>1. Full(s)' = Full(s) /\ Empty(s)' = Empty(s)
    BY DEF Full, Empty, GrantsOfRow
  <1> QED BY <1>1 DEF RestOf

\* Who holds a whole reservation has its row fully reserved.
LEMMA WholeIsFull ==
  ASSUME TypeInv, BookInv, NEW p \in Processes,
         pc[p] \in Whole \ {"fail_short"}
  PROVE  Full(row[p]) /\ Carrying(p)
PROOF
  <1>1. row[p] \in Rows /\ HandOf(p)
    BY HandParts
  <1>2. undo[p] = GrantsOfRow(row[p]) /\ undo[p] # <<>>
    BY <1>1, GrantsTyped DEF HandOf
  <1>3. \A x \in Resource : holds[row[p]][x] = Worth(undo[p], x) - 0
    BY <1>1, <1>2 DEF HandOf, Carrying, InHand
  <1>4. \A x \in Resource : Worth(undo[p], x) \in Nat
    BY WorthNat, HandParts
  <1> QED BY <1>2, <1>3, <1>4 DEF Full, Carrying

\* The execution goes on, or fails, with everything still in hand.
LEMMA BookExecution ==
  ASSUME TypeInv, WorkInv, BookInv, ReleasedOnce, NEW p \in Processes,
         SumBalance(p) \/ SettleCoins(p) \/ CallRazorpay(p) \/ ExecutionThrows(p)
  PROVE  BookInv'
PROOF
  <1>0. ProcTyped /\ RowsTyped /\ row[p] \in Rows /\ (p \in Rows => row[p] = p)
    BY TypeGroups, HandParts DEF TypeInv, ShapeOf
  <1>1. UNCHANGED <<req, row, capCount, caps, holds, stock, cap, queue>>
    BY DEF SumBalance, SettleCoins, CallRazorpay, ExecutionThrows, ledgerVars, envVars
  <1>2. \A o \in Rows : rows'[o].status = rows[o].status /\ rows'[o].escalation = rows[o].escalation
    BY <1>0 DEF SumBalance, SettleCoins, CallRazorpay, ExecutionThrows, RowsTyped, Row
  <1>3. pc[p] \in {"execute", "insert_coins", "commit"}
    <2>1. CASE ExecutionThrows(p)
      <3>1. \A q \in Requests : q.kind # "redeem"
        BY <2>1 DEF ExecutionThrows, ReleasedOnce
      <3>2. pc[p] \notin {"release_short", "fail_short"}
        BY <3>1, HandParts, TypeGroups DEF HandOf, TypeInv, EnvTyped
      <3> QED BY <2>1, <3>2 DEF ExecutionThrows
    <2> QED BY <2>1 DEF SumBalance, SettleCoins, CallRazorpay
  <1>4. Full(row[p]) /\ Carrying(p) /\ HandOf(p) /\ cap[p] = cap[row[p]]
    BY <1>3, WholeIsFull, HandParts DEF Whole, HandOf
  <1>5. /\ \A q \in Processes : undo'[q] = undo[q]
        /\ \A q \in Processes : q # p => pc'[q] = pc[q] /\ next'[q] = next[q]
        /\ \/ pc'[p] \in {"insert_coins", "commit"}
           \/ pc'[p] = "release_short" /\ p \in Rows /\ req[p].kind = "redeem"
           \/ /\ pc'[p] = "give_back" /\ next'[p] = "fail_row"
              /\ Ops \cap {"throw", "decline", "lost_reply"} # {}
    <2>1. CASE SumBalance(p)
      <3>1. CASE Goto(p, "insert_coins")
        BY <1>0, <2>1, <3>1 DEF SumBalance, Goto, ProcTyped
      <3>2. CASE CoinsDelta(p) <= 0 /\ Goto(p, "release_short")
        <4>1. p \in Rows /\ req[p].kind \in {"redeem", "issue"}
          BY <2>1 DEF SumBalance, ExecutedKind, CoinKinds
        <4>2. req[p].amount \in Nat \ {0}
          BY <4>1, TypeGroups, GateAssumption DEF TypeInv, EnvTyped, Request
        <4>3. req[p].kind = "redeem"
          BY <1>0, <3>2, <4>1, <4>2 DEF CoinsDelta, ExecutedKind
        <4> QED BY <1>0, <2>1, <3>2, <4>1, <4>3 DEF SumBalance, Goto, ProcTyped
      <3> QED BY <2>1, <3>1, <3>2 DEF SumBalance
    <2>2. CASE SettleCoins(p)
      BY <1>0, <2>2 DEF SettleCoins, Goto, ProcTyped
    <2>3. CASE CallRazorpay(p)
      <3>1. CASE Goto(p, "commit") /\ UNCHANGED <<undo, next>>
        BY <1>0, <3>1 DEF Goto, ProcTyped
      <3>2. CASE Unwind(p, undo[p], "fail_row") /\ Ops \cap {"throw", "decline", "lost_reply"} # {}
        BY <1>0, <3>2 DEF Unwind, Goto, ProcTyped
      <3> QED BY <2>3, <3>1, <3>2 DEF CallRazorpay
    <2>4. CASE ExecutionThrows(p)
      BY <1>0, <2>4 DEF ExecutionThrows, Unwind, Goto, ProcTyped
    <2> QED BY <2>1, <2>2, <2>3, <2>4
  <1>6. HandOf(p)'
    <2>1. Carrying(p)' /\ GrantsOfRow(row[p])' = GrantsOfRow(row[p]) /\ undo'[p] = undo[p]
      BY <1>1, <1>4, <1>5 DEF Carrying, GrantsOfRow
    <2>2. \A x : InHand(p, x)' = InHand(p, x)
      BY <1>3, <1>5 DEF InHand
    <2>3. undo[p] = GrantsOfRow(row[p])
      BY <1>3, <1>4 DEF HandOf, Whole
    <2> QED BY <1>1, <1>4, <1>5, <2>1, <2>2, <2>3 DEF HandOf, Settling, SettlePC, Steady
  <1>7. RestOf(row[p])'
    <2>1. RestOf(row[p])
      BY <1>0 DEF BookInv
    <2>2. row[p] \in Processes
      BY <1>0 DEF Processes
    <2> QED BY <1>0, <1>1, <1>2, <1>5, <2>1, <2>2, RestKept
  <1>8. Booked' /\ CapsInv'
    BY <1>1, StillBooked DEF ledgerVars
  <1>9. Engaged(p)
    BY <1>4 DEF Engaged
  <1>10. p \in Handlers /\ Sweeping(p)' => Sweeping(p)
    BY <1>5 DEF Sweeping
  <1> QED BY <1>0, <1>1, <1>2, <1>5, <1>6, <1>7, <1>8, <1>9, <1>10, BookStep

\* The row is settled: executed, with all it asked for, or failed.
LEMMA BookSettled ==
  ASSUME TypeInv, WorkInv, BookInv, NEW p \in Processes,
         CommitRow(p) \/ FailRow(p)
  PROVE  BookInv'
PROOF
  <1>0. ProcTyped /\ RowsTyped /\ row[p] \in Rows /\ (p \in Rows => row[p] = p)
    BY TypeGroups, HandParts DEF TypeInv, ShapeOf
  <1>1. UNCHANGED <<req, row, capCount, caps, holds, stock, cap, next, queue>>
    BY DEF CommitRow, FailRow, ledgerVars, envVars
  <1>2. /\ \A o \in Rows : o # row[p] => rows'[o] = rows[o]
        /\ rows'[row[p]].escalation = rows[row[p]].escalation
        /\ rows'[row[p]].status = IF pc[p] = "commit" THEN "executed" ELSE "failed"
        /\ pc[p] \in {"commit", "fail_row", "fail_short"}
    BY <1>0 DEF CommitRow, FailRow, RowsTyped, Row
  <1>3. /\ pc[p] = "commit" => Full(row[p])
        /\ Engaged(p)
    BY <1>2, WholeIsFull, HandParts DEF Whole, Holding, Engaged
  <1>4. /\ undo'[p] = <<>> /\ pc'[p] \in {"done", "idle", "redeem"}
        /\ pc'[p] = "redeem" => pc[p] = "commit"
        /\ \A q \in Processes : q # p => pc'[q] = pc[q] /\ undo'[q] = undo[q]
    BY <1>0 DEF CommitRow, FailRow, ProcTyped, Goto, Over
  <1>5. HandOf(p)'
    BY <1>4 DEF HandOf, Carrying, Whole
  <1>6. RestOf(row[p])'
    <2>1. RestOf(row[p]) /\ row[p] \in Processes
      BY <1>0 DEF BookInv, Processes
    <2>2. /\ rows[row[p]].escalation # "pending" /\ rows[row[p]].status # "executed"
          /\ pc[row[p]] \notin {"start", "check", "preflight", "read_cap", "reserve_budget"}
      BY <1>3, EngagedAlone
    <2>3. Full(row[p])' = Full(row[p]) /\ Empty(row[p])' = Empty(row[p])
      BY <1>1 DEF Full, Empty, GrantsOfRow
    <2>4. ~(pc[row[p]] = "replay" \/ (pc[row[p]] = "give_back" /\ next[row[p]] # "fail_row")) \/ row[p] = p
      <3>1. rows[row[p]].status # "none"
        BY <1>0, <1>2, EngagedRow, <1>3 DEF WorkInv, Settling, SettlePC, Sweeping
      <3> QED BY <2>1, <3>1 DEF RestOf
    <2> QED BY <1>1, <1>2, <1>3, <1>4, <2>1, <2>2, <2>3, <2>4 DEF RestOf
  <1>7. Booked' /\ CapsInv'
    BY <1>1, StillBooked DEF ledgerVars
  <1>8. ~Sweeping(p)' /\ rows[row[p]].status = "failed" => rows'[row[p]].status = "failed"
    <2>1. rows[row[p]].status # "failed" \/ pc[p] # "commit"
      BY <1>0, <1>2, <1>3, EngagedRow DEF Sweeping
    <2> QED BY <1>2, <2>1
  <1>9. ~Sweeping(p)'
    BY <1>4 DEF Sweeping
  <1> QED BY <1>0, <1>1, <1>2, <1>3, <1>4, <1>5, <1>6, <1>7, <1>8, <1>9, BookStep

LEMMA BookInsert ==
  ASSUME TypeInv, WorkInv, BookInv, NEW r \in Rows,
         InsertOrReplay(r) \/ InsertEscalation(r)
  PROVE  BookInv'
PROOF
  <1>0. ProcTyped /\ RowsTyped /\ r \in Processes /\ row[r] = r
    BY TypeGroups, HandParts DEF TypeInv, ShapeOf, Processes
  <1>1. UNCHANGED <<req, row, capCount, caps, holds, stock, cap, queue>>
    BY DEF InsertOrReplay, InsertEscalation, ledgerVars, envVars
  <1>2. pc[r] \in {"insert", "escalate"} /\ Full(r) /\ Carrying(r) /\ HandOf(r) /\ undo[r] = GrantsOfRow(r)
    BY <1>0, WholeIsFull, HandParts DEF Whole, InsertOrReplay, InsertEscalation, HandOf
  <1>3. /\ \A o \in Rows : o # r => rows'[o] = rows[o]
        /\ \/ /\ rows'[r] = rows[r] /\ rows[r].status = "none" /\ rows[r].escalation = "none"
              /\ pc'[r] = "give_back" /\ next'[r] = "replay" /\ undo'[r] = undo[r]
           \/ /\ rows'[r].status = "allowed" /\ rows'[r].escalation = "none"
              /\ pc'[r] = "execute" /\ undo'[r] = undo[r]
           \/ /\ rows'[r].status = "pending_escalation" /\ rows'[r].escalation = "none"
              /\ pc'[r] = "escalate" /\ undo'[r] = undo[r]
           \/ /\ rows'[r].status = "pending_escalation" /\ rows'[r].escalation = "pending"
              /\ pc'[r] = "done" /\ undo'[r] = <<>>
    <2>1. CASE InsertOrReplay(r)
      <3>1. rows[r].status = "none" /\ rows[r].escalation = "none" /\ rows[r] \in Row
        BY <1>0, <2>1 DEF InsertOrReplay, WorkInv, BeforeInsert, RowsTyped
      <3>2. CASE Unwind(r, undo[r], "replay") /\ UNCHANGED rows
        BY <1>0, <3>1, <3>2 DEF Unwind, Goto, ProcTyped
      <3>3. CASE /\ rows' = [rows EXCEPT ![r].status = "allowed", ![r].armed = TRUE]
                 /\ Goto(r, "execute") /\ UNCHANGED undo
        BY <1>0, <3>1, <3>3 DEF Goto, ProcTyped, RowsTyped, Row
      <3>4. CASE /\ rows' = [rows EXCEPT ![r].status = "pending_escalation"]
                 /\ Goto(r, "escalate") /\ UNCHANGED undo
        BY <1>0, <3>1, <3>4 DEF Goto, ProcTyped, RowsTyped, Row
      <3> QED BY <2>1, <3>2, <3>3, <3>4 DEF InsertOrReplay
    <2>2. CASE InsertEscalation(r)
      <3>1. rows[r].status = "pending_escalation" /\ rows[r] \in Row
        BY <1>0, <2>2 DEF InsertEscalation, WorkInv, RowsTyped
      <3> QED BY <1>0, <2>2, <3>1 DEF InsertEscalation, Goto, ProcTyped, RowsTyped, Row
    <2> QED BY <2>1, <2>2
  <1>4. \A q \in Processes : q # r => pc'[q] = pc[q] /\ undo'[q] = undo[q] /\ next'[q] = next[q]
    BY <1>0 DEF InsertOrReplay, InsertEscalation, Unwind, Goto, ProcTyped
  <1>5. HandOf(r)'
    <2>1. GrantsOfRow(row[r])' = GrantsOfRow(row[r])
      BY <1>1 DEF GrantsOfRow
    <2>2. CASE undo'[r] = undo[r] /\ pc'[r] \in {"give_back", "execute", "escalate"}
      <3>1. \A x : InHand(r, x)' = InHand(r, x)
        BY <1>2, <2>2 DEF InHand
      <3> QED BY <1>0, <1>1, <1>2, <1>3, <2>1, <2>2, <3>1 DEF HandOf, Carrying, Settling, SettlePC, Whole
    <2>3. CASE undo'[r] = <<>> /\ pc'[r] = "done"
      BY <2>3 DEF HandOf, Carrying, Whole
    <2> QED BY <1>3, <2>2, <2>3
  <1>6. RestOf(r)'
    <2>1. Full(r)' = Full(r)
      BY <1>1 DEF Full, GrantsOfRow
    <2> QED BY <1>2, <1>3, <2>1 DEF RestOf
  <1>7. Booked' /\ CapsInv'
    BY <1>1, StillBooked DEF ledgerVars
  <1>8. rows[r].status # "failed"
    BY <1>2 DEF WorkInv, BeforeInsert
  <1> QED BY <1>0, <1>1, <1>2, <1>3, <1>4, <1>5, <1>6, <1>7, <1>8, BookStep, GateAssumption DEF Engaged

\* A process gives up, or is done, where it does not give its reservation back.
LEMMA BookStops ==
  ASSUME TypeInv, WorkInv, BookInv, ReleasedOnce, NEW p \in Processes,
         \/ markNegotiationRedeemed(p)
         \/ p \in Rows /\ (QueryThrows(p) \/ Crash(p))
         \/ p \in Handlers /\ (HandlerThrows(p) \/ HandlerCrash(p))
  PROVE  BookInv'
PROOF
  <1>0. ProcTyped /\ row[p] \in Rows /\ (p \in Rows => row[p] = p)
    BY TypeGroups, HandParts DEF TypeInv, ShapeOf
  <1>1. UNCHANGED <<req, row, rows, capCount, caps, holds, stock, cap, next>>
    BY DEF markNegotiationRedeemed, QueryThrows, Crash, HandlerThrows, HandlerCrash, ledgerVars, envVars
  <1>2. /\ \A q \in Processes : q # p => pc'[q] = pc[q] /\ undo'[q] = undo[q]
        /\ undo'[p] = <<>> /\ pc'[p] \in {"done", "dead", "idle", "sweep"}
        /\ p \in Handlers => pc'[p] \in {"idle", "sweep"}
    <2>1. CASE markNegotiationRedeemed(p)
      <3>1. undo[p] = <<>>
        BY <2>1, HandParts DEF markNegotiationRedeemed, Settling, SettlePC, Carrying
      <3> QED BY <1>0, <2>1, <3>1, GateAssumption DEF markNegotiationRedeemed, ProcTyped, Goto, Over
    <2>2. CASE p \in Rows /\ (QueryThrows(p) \/ Crash(p))
      BY <1>0, <2>2, GateAssumption DEF QueryThrows, Crash, Deny, Goto, ProcTyped
    <2>3. CASE p \in Handlers /\ (HandlerThrows(p) \/ HandlerCrash(p))
      BY <1>0, <2>3 DEF HandlerThrows, HandlerCrash, Goto, ProcTyped
    <2> QED BY <2>1, <2>2, <2>3
  <1>3. \A h \in Handlers : queue'[h] = queue[h] \/ queue'[h] = {}
    BY TypeGroups DEF markNegotiationRedeemed, QueryThrows, Crash, HandlerThrows, HandlerCrash, TypeInv, ReplyTyped
  <1>4. HandOf(p)'
    BY <1>2 DEF HandOf, Carrying, Whole
  <1>5. RestOf(row[p])'
    <2>0. RestOf(row[p]) /\ row[p] \in Processes
      BY <1>0 DEF BookInv, Processes
    <2>1. Full(row[p])' = Full(row[p]) /\ Empty(row[p])' = Empty(row[p])
      BY <1>1 DEF Full, Empty, GrantsOfRow
    <2>2. CASE p \in Handlers
      <3>1. row[p] # p
        BY <1>0, <2>2, GateAssumption
      <3> QED BY <1>1, <1>2, <2>0, <2>1, <3>1 DEF RestOf
    <2>3. CASE p \in Rows /\ "sweep" \in Ops /\ rows[p].status = "allowed"
      <3>1. pc[p] # "redeem" /\ HandOf(p)
        BY <1>0, <2>0, <2>3, HandParts DEF RestOf
      <3>2. Crash(p) /\ Steady
        BY <2>3, <3>1, GateAssumption DEF ReleasedOnce, QueryThrows, markNegotiationRedeemed, Crash
      <3>3. pc[p] \in AttemptPC
        BY <1>0, <2>3, HandParts DEF ShapeOf, PCOf
      <3>4. req[p].kind # "redeem"
        BY <2>3, <3>2, TypeGroups DEF Steady, TypeInv, EnvTyped
      <3>5. pc[p] \in {"execute", "insert_coins", "commit"}
        BY <1>0, <2>0, <2>3, <3>1, <3>2, <3>3, <3>4, GateAssumption DEF Crash, WorkInv, BeforeInsert, RestOf, HandOf, AttemptPC
      <3>6. Full(row[p])
        BY <3>5, WholeIsFull DEF Whole
      <3>7. row[p] = p
        BY <1>0, <2>3
      <3> QED BY <3>7, <1>0, <1>1, <1>2, <2>0, <2>1, <2>3, <3>6 DEF RestOf
    <2>4. CASE p \in Rows /\ ~("sweep" \in Ops /\ rows[p].status = "allowed")
      BY <1>0, <1>1, <1>2, <2>0, <2>1, <2>4 DEF RestOf
    <2> QED BY <2>2, <2>3, <2>4 DEF Processes
  <1>6. Booked' /\ CapsInv'
    BY <1>1, StillBooked DEF ledgerVars
  <1>7. ~Sweeping(p)'
    BY <1>2 DEF Sweeping
  <1> QED BY <1>0, <1>1, <1>2, <1>3, <1>4, <1>5, <1>6, <1>7, BookStep

LEMMA BookReadCap ==
  ASSUME TypeInv, WorkInv, BookInv, NEW r \in Rows, ReadCap(r)
  PROVE  BookInv'
PROOF
  <1>0. ProcTyped /\ LedgerTypeOK /\ r \in Processes /\ row[r] = r
    BY TypeGroups, HandParts DEF TypeInv, ShapeOf, Processes
  <1>1. /\ UNCHANGED <<req, row, rows, capCount, caps, holds, stock, undo, next, queue>>
        /\ pc[r] = "read_cap" /\ pc'[r] = "reserve_budget" /\ cap'[r] = capCount
        /\ \A q \in Processes : q # r => pc'[q] = pc[q] /\ cap'[q] = cap[q]
    BY <1>0 DEF ReadCap, Goto, ProcTyped, ledgerVars, envVars
  <1>2. Empty(r) /\ RestOf(r)
    BY <1>1 DEF BookInv, RestOf
  <1>3. undo[r] = <<>>
    BY <1>0, <1>1, HandParts DEF Settling, SettlePC, Carrying
  <1>4. Booked'
    <2>1. \A o \in Rows : cap'[o] = cap[o] \/ holds[o][Budget] = 0
      BY <1>1, <1>2 DEF Empty, Resource, Processes
    <2>2. \A c \in CapIds : caps'[c].spent = caps[c].spent
      BY <1>1
    <2>3. Booked
      BY DEF BookInv
    <2> QED BY <1>1, <2>1, <2>2, <2>3, BookFrame
  <1>5. CapsInv'
    <2>1. CapsInv /\ capCount \in Nat
      BY <1>0 DEF BookInv, LedgerTypeOK, CapIds
    <2>2. \A q \in Processes : cap'[q] <= capCount'
      BY <1>1, <2>1 DEF CapsInv
    <2> QED BY <1>1, <2>1, <2>2 DEF CapsInv
  <1>6. HandOf(r)'
    BY <1>1, <1>3 DEF HandOf, Carrying, Whole
  <1>7. RestOf(r)'
    <2>1. Full(r)' = Full(r) /\ Empty(r)' = Empty(r)
      BY <1>1 DEF Full, Empty, GrantsOfRow
    <2> QED BY <1>1, <1>2, <2>1 DEF RestOf
  <1> QED BY <1>0, <1>1, <1>4, <1>5, <1>6, <1>7, BookStep, GateAssumption DEF BeforeInsert

-----------------------------------------------------------------------------
(* The statements that take and give back.                                   *)

LEMMA RowGrants ==
  ASSUME TypeInv, NEW r \in Rows
  PROVE  /\ GrantsOfRow(r) \in Seq(Grant) /\ Len(GrantsOfRow(r)) = 1 + Len(req[r].lines)
         /\ Head(GrantsOfRow(r)) = GrantsOfRow(r)[1]
         /\ GrantsOfRow(r)[1] = [of |-> Budget, qty |-> req[r].amount]
         /\ Len(req[r].lines) \in Nat /\ req[r].amount \in Nat \ {0}
         /\ \A i \in 1 .. Len(req[r].lines) : /\ GrantsOfRow(r)[i + 1] = req[r].lines[i]
                                              /\ req[r].lines[i] \in Line
PROOF
  <1>1. req[r].amount \in Nat \ {0} /\ req[r].lines \in Seq(Line)
    BY GateAssumption DEF TypeInv, TypeOK, Request
  <1>2. GrantsOfRow(r) \in Seq(Grant) /\ GrantsOfRow(r) # <<>>
    BY GrantsTyped
  <1>3. GrantsOfRow(r) = <<[of |-> Budget, qty |-> req[r].amount]>> \o req[r].lines
    BY DEF GrantsOfRow, GrantsOf
  <1>4. Len(req[r].lines) \in Nat /\ \A i \in 1 .. Len(req[r].lines) : req[r].lines[i] \in Line
    BY <1>1
  <1> HIDE DEF GrantsOfRow
  <1>5. /\ Len(GrantsOfRow(r)) = 1 + Len(req[r].lines)
        /\ GrantsOfRow(r)[1] = [of |-> Budget, qty |-> req[r].amount]
        /\ \A i \in 1 .. Len(req[r].lines) : GrantsOfRow(r)[i + 1] = req[r].lines[i]
    BY <1>1, <1>3, <1>4
  <1>6. Head(GrantsOfRow(r)) = GrantsOfRow(r)[1]
    BY <1>2, HeadTailProperties
  <1> QED BY <1>1, <1>2, <1>4, <1>5, <1>6

\* What the rows hold after one of them took or gave back.
LEMMA MovedHolds ==
  ASSUME LedgerTypeOK, NEW r \in Rows, NEW grant \in Grant, NEW d, Moved(r, grant, d)
  PROVE  \A o \in Rows, x \in Resource :
           holds'[o][x] = IF o = r /\ x = grant.of THEN holds[o][x] + d ELSE holds[o][x]
  BY DEF Moved, LedgerTypeOK, Grant

LEMMA MovedCaps ==
  ASSUME LedgerTypeOK, CapsInv, cap' = cap, NEW r \in Rows, cap[r] \in CapIds,
         NEW grant \in Grant, NEW d \in Int, Moved(r, grant, d),
         grant.of = Budget => caps[cap[r]].spent + d <= caps[cap[r]].limit
  PROVE  CapsInv'
PROOF
  <1>1. capCount' = capCount /\ capCount \in Nat /\ r \in Processes
    BY DEF Moved, LedgerTypeOK, CapIds, Processes
  <1>2. ASSUME NEW c \in CapIds
        PROVE  /\ c > capCount => caps'[c] = AbsentCap
               /\ caps'[c].spent <= caps'[c].limit
    <2>1. caps[c] \in Cap /\ caps[c].spent <= caps[c].limit /\ c \in Nat /\ cap[r] <= capCount
          /\ (c > capCount => caps[c] = AbsentCap) /\ cap[r] \in Nat
      BY <1>1 DEF LedgerTypeOK, CapsInv, CapIds
    <2>2. CASE grant.of = Budget /\ c = cap[r]
      <3>1. caps'[c] = [caps[c] EXCEPT !.spent = @ + d]
        BY <2>2 DEF Moved
      <3>2. caps'[c].spent = caps[c].spent + d /\ caps'[c].limit = caps[c].limit
        BY <2>1, <3>1 DEF Cap
      <3> QED BY <1>1, <2>1, <2>2, <3>2
    <2>3. CASE ~(grant.of = Budget /\ c = cap[r])
      <3>1. caps'[c] = caps[c]
        BY <2>3 DEF Moved
      <3> QED BY <2>1, <3>1
    <2> QED BY <2>2, <2>3
  <1> QED BY <1>1, <1>2 DEF CapsInv

\* A denied reservation changes nothing but where the attempt is.
LEMMA BookDenied ==
  ASSUME TypeInv, WorkInv, BookInv, NEW r \in Rows, pc[r] = "reserve_budget", Deny(r),
         UNCHANGED <<ledgerVars, undo, rows, envVars, req, row, cap, next, queue>>
  PROVE  BookInv'
PROOF
  <1>0. ProcTyped /\ r \in Processes /\ row[r] = r
    BY TypeGroups, HandParts DEF TypeInv, ShapeOf, Processes
  <1>1. /\ pc'[r] = "done" /\ \A q \in Processes : q # r => pc'[q] = pc[q]
        /\ UNCHANGED <<holds, capCount>>
    BY <1>0 DEF Deny, Goto, ProcTyped, ledgerVars
  <1>2. undo[r] = <<>>
    BY <1>0, HandParts DEF Settling, SettlePC, Carrying
  <1>3. HandOf(r)'
    BY <1>1, <1>2 DEF HandOf, Carrying, Whole
  <1>4. RestOf(r)'
    <2>1. RestOf(r) /\ rows[r].status = "none"
      BY DEF BookInv, WorkInv, BeforeInsert
    <2>2. Full(r)' = Full(r) /\ Empty(r)' = Empty(r)
      BY <1>1 DEF Full, Empty, GrantsOfRow
    <2> QED BY <1>1, <2>1, <2>2 DEF RestOf
  <1>5. Booked' /\ CapsInv'
    BY StillBooked
  <1> QED BY <1>0, <1>1, <1>3, <1>4, <1>5, BookStep, GateAssumption

LEMMA BookReserveBudget ==
  ASSUME TypeInv, WorkInv, BookInv, NEW r \in Rows, ReserveBudget(r)
  PROVE  BookInv'
PROOF
  <1>0. ProcTyped /\ LedgerTypeOK /\ r \in Processes /\ row[r] = r /\ cap[r] \in CapIds
    BY TypeGroups, HandParts DEF TypeInv, ShapeOf, Processes
  <1> DEFINE grant == Head(GrantsOfRow(r))
  <1>1. /\ grant \in Grant /\ grant.of = Budget /\ grant.qty \in Nat /\ grant = GrantsOfRow(r)[1]
        /\ GrantsOfRow(r) \in Seq(Grant) /\ Len(GrantsOfRow(r)) = 1 + Len(req[r].lines)
        /\ Len(req[r].lines) \in Nat
    <2>1. /\ GrantsOfRow(r) \in Seq(Grant) /\ Len(GrantsOfRow(r)) = 1 + Len(req[r].lines)
          /\ Len(req[r].lines) \in Nat /\ req[r].amount \in Nat
          /\ grant = GrantsOfRow(r)[1] /\ GrantsOfRow(r)[1] = [of |-> Budget, qty |-> req[r].amount]
      BY RowGrants
    <2> HIDE DEF grant
    <2>2. grant = [of |-> Budget, qty |-> req[r].amount]
      BY <2>1
    <2>3. grant \in Grant /\ grant.of = Budget /\ grant.qty \in Nat
      BY <2>1, <2>2 DEF Grant, Resource
    <2> QED BY <2>1, <2>3
  <1>2. CASE ~BudgetAvailable(cap[r], grant.qty) /\ Deny(r) /\ UNCHANGED <<ledgerVars, undo>>
    BY <1>2, BookDenied DEF ReserveBudget
  <1>3. CASE /\ reserveBudget(r, cap[r], grant)
             /\ undo' = [undo EXCEPT ![r] = <<grant>>]
             /\ Goto(r, AfterLine(r, 0))
    <2> HIDE DEF grant
    <2>1. Moved(r, grant, grant.qty)
      BY <1>0, <1>1, <1>3, TakingMoves
    <2>2. Empty(r) /\ RestOf(r) /\ rows[r].status = "none" /\ rows[r].escalation = "none"
      BY <1>3 DEF ReserveBudget, BookInv, RestOf, WorkInv, BeforeInsert
    <2>3. /\ UNCHANGED <<req, row, rows, cap, next, queue, capCount>>
          /\ pc[r] = "reserve_budget"
          /\ undo'[r] = <<grant>> /\ pc'[r] = AfterLine(r, 0)
          /\ \A q \in Processes : q # r => pc'[q] = pc[q] /\ undo'[q] = undo[q]
      BY <1>0, <1>3, <2>1 DEF ReserveBudget, ProcTyped, Goto, envVars, Moved
    <2>4. \A x \in Resource : holds[r][x] = 0
      BY <2>2 DEF Empty
    <2>5. \A o \in Rows, x \in Resource :
            holds'[o][x] = IF o = r /\ x = grant.of THEN holds[o][x] + grant.qty ELSE holds[o][x]
      BY <1>0, <1>1, <2>1, MovedHolds
    <2>6. \A x \in Resource : holds'[r][x] = Worth(<<grant>>, x)
      <3> SUFFICES ASSUME NEW x \in Resource PROVE holds'[r][x] = Worth(<<grant>>, x)
        OBVIOUS
      <3>1. <<grant>> = Append(<<>>, grant) /\ <<>> \in Seq(Grant)
        BY <1>1
      <3>2. Worth(<<grant>>, x) = 0 + Part(grant, x)
        <4>1. PICK g \in Grant : g = grant
          BY <1>1
        <4>2. Worth(<<>>, x) = 0
          BY WorthEmpty
        <4>3. Worth(Append(<<>>, g), x) = Worth(<<>>, x) + Part(g, x)
          BY <3>1, WorthAppend
        <4> QED BY <3>1, <4>1, <4>2, <4>3
      <3>3. holds'[r][x] = 0 + Part(grant, x)
        BY <1>1, <2>4, <2>5 DEF Part
      <3> QED BY <3>2, <3>3
    <2>7. Booked'
      <3>1. holds[r][grant.of] + grant.qty \in Nat
        BY <1>1, <2>4 DEF Resource
      <3>2. grant.qty \in Int /\ Booked
        BY <1>1 DEF BookInv
      <3> QED BY <1>0, <1>1, <2>1, <2>3, <3>1, <3>2, MovedBooked
    <2>8. CapsInv'
      <3>1. caps[cap[r]].spent + grant.qty <= caps[cap[r]].limit
        BY <1>3 DEF reserveBudget, BudgetAvailable
      <3>2. grant.qty \in Int /\ CapsInv
        BY <1>1 DEF BookInv
      <3> QED BY <1>0, <1>1, <2>1, <2>3, <3>1, <3>2, MovedCaps
    <2>9. pc'[r] \in {"insert", "reserve_stock"} /\ (pc'[r] = "insert" => Len(req[r].lines) = 0)
      BY <2>3 DEF AfterLine
    <2>10. HandOf(r)'
      <3>1. \A x : InHand(r, x)' = Worth(<<grant>>, x) - 0
        BY <2>3, <2>9 DEF InHand
      <3>0. <<grant>> \in Seq(Grant) /\ Len(<<grant>>) = 1 /\ <<grant>>[1] = grant
        BY <1>1
      <3>2. \A x : Worth(<<grant>>, x) \in Nat
        BY <3>0, WorthNat
      <3>3. pc'[r] = "insert" => <<grant>> = GrantsOfRow(r)
        <4> SUFFICES ASSUME pc'[r] = "insert" PROVE <<grant>> = GrantsOfRow(r)
          OBVIOUS
        <4>1. Len(GrantsOfRow(r)) = Len(<<grant>>)
          BY <1>1, <2>9, <3>0
        <4>2. \A i \in 1 .. Len(<<grant>>) : <<grant>>[i] = GrantsOfRow(r)[i]
          BY <1>1, <3>0
        <4> QED BY <1>1, <3>0, <4>1, <4>2, SeqEqual
      <3>4. \A i \in 1 .. Len(<<grant>>) : <<grant>>[i] = GrantsOfRow(r)[i]
        BY <1>1
      <3>5. GrantsOfRow(r)' = GrantsOfRow(r)
        BY <2>3 DEF GrantsOfRow
      <3> QED BY <1>0, <2>3, <2>6, <2>9, <3>1, <3>2, <3>3, <3>4, <3>5 DEF HandOf, Whole
    <2>11. RestOf(r)'
      BY <2>2, <2>3, <2>9 DEF RestOf
    <2>12. \A o \in Rows : o # r => \A x \in Resource : holds'[o][x] = holds[o][x]
      BY <2>5
    <2> QED BY <1>0, <2>3, <2>7, <2>8, <2>10, <2>11, <2>12, BookStep, GateAssumption DEF BeforeInsert
  <1> QED BY <1>2, <1>3 DEF ReserveBudget

LEMMA BookReserveStock ==
  ASSUME TypeInv, WorkInv, BookInv, NEW r \in Rows, ReserveStock(r)
  PROVE  BookInv'
PROOF
  <1>0. /\ ProcTyped /\ LedgerTypeOK /\ r \in Processes /\ row[r] = r /\ cap[r] \in CapIds
        /\ HandOf(r) /\ ShapeOf(r) /\ undo[r] \in Seq(Grant)
    BY TypeGroups, HandParts DEF TypeInv, ShapeOf, Processes
  <1> DEFINE taken == undo[r]
             line  == req[r].lines[Len(taken)]
             lines == GrantsOfRow(r)
  <1>1. /\ pc[r] = "reserve_stock" /\ taken \in Seq(Grant) /\ taken # <<>> /\ Carrying(r)
        /\ Len(taken) \in Nat \ {0} /\ Len(taken) <= Len(req[r].lines)
        /\ \A i \in 1 .. Len(taken) : taken[i] = lines[i]
        /\ \A x \in Resource : holds[r][x] = Worth(taken, x)
    <2>1. pc[r] = "reserve_stock" /\ taken # <<>> /\ Len(taken) <= Len(req[r].lines) /\ Carrying(r)
      BY <1>0 DEF ReserveStock, ShapeOf, Holding, Carrying
    <2>2. Len(taken) \in Nat \ {0}
      BY <1>0, <2>1, EmptySeq, LenProperties
    <2>3. \A x \in Resource : holds[r][x] = Worth(taken, x) - 0
      BY <1>0, <2>1 DEF HandOf, InHand
    <2>4. \A x : Worth(taken, x) \in Nat
      BY <1>0, WorthNat
    <2>5. \A i \in 1 .. Len(taken) : taken[i] = lines[i]
      BY <1>0, <2>1 DEF HandOf
    <2> QED BY <1>0, <2>1, <2>2, <2>3, <2>4, <2>5
  <1>2. /\ lines \in Seq(Grant) /\ Len(lines) = 1 + Len(req[r].lines) /\ Len(req[r].lines) \in Nat
        /\ lines[Len(taken) + 1] = line /\ line \in Line
    <2>1. PICK n \in 1 .. Len(req[r].lines) : n = Len(taken)
      BY <1>1, RowGrants
    <2>2. GrantsOfRow(r)[n + 1] = req[r].lines[n] /\ req[r].lines[n] \in Line
      BY RowGrants
    <2> QED BY <2>1, <2>2, RowGrants
  <1>3. /\ line \in Grant /\ line.of # Budget /\ line.of \in Variants /\ line.qty \in Nat
    BY <1>2, LedgerAssumption DEF Line, Grant, Resource
  <1>4. RestOf(r) /\ rows[r].status = "none" /\ rows[r].escalation = "none"
    BY <1>1 DEF BookInv, WorkInv, BeforeInsert
  <1>5. CASE /\ reserveStock(r, line)
             /\ undo' = [undo EXCEPT ![r] = Append(taken, line)]
             /\ Goto(r, AfterLine(r, Len(taken))) /\ UNCHANGED next
    <2> PICK n : n = Len(taken)
      OBVIOUS
    <2>g. PICK got \in Seq(Grant) : got = Append(taken, line)
      BY <1>1, <1>3, AppendProperties
    <2>t. PICK grant \in Grant : grant = line
      BY <1>3
    <2>1. Moved(r, grant, grant.qty)
      BY <1>0, <1>3, <1>5, <2>t, TakingMoves
    <2>3. /\ UNCHANGED <<req, row, rows, cap, next, queue, capCount>>
          /\ undo'[r] = got /\ pc'[r] \in {"insert", "reserve_stock"}
          /\ pc'[r] = "insert" => n = Len(req[r].lines)
          /\ \A q \in Processes : q # r => pc'[q] = pc[q] /\ undo'[q] = undo[q]
      BY <1>0, <1>5, <2>1, <2>g DEF ReserveStock, ProcTyped, Goto, envVars, Moved, AfterLine
    <2>5. \A o \in Rows, x \in Resource :
            holds'[o][x] = IF o = r /\ x = grant.of THEN holds[o][x] + grant.qty ELSE holds[o][x]
      BY <1>0, <2>1, MovedHolds
    <2>6. \A x \in Resource : holds'[r][x] = Worth(got, x)
      <3> SUFFICES ASSUME NEW x \in Resource PROVE holds'[r][x] = Worth(got, x)
        OBVIOUS
      <3>1. Worth(got, x) = Worth(taken, x) + Part(grant, x)
        BY <1>1, <2>g, <2>t, WorthAppend
      <3>2. Worth(taken, x) \in Nat
        BY <1>1, WorthNat
      <3>3. holds'[r][x] = IF x = grant.of THEN Worth(taken, x) + grant.qty ELSE Worth(taken, x)
        BY <1>1, <2>5
      <3>4. grant.qty \in Nat
        BY <1>3, <2>t
      <3> QED BY <3>1, <3>2, <3>3, <3>4 DEF Part
    <2>7. Booked'
      <3>1. holds[r][grant.of] + grant.qty \in Nat
        <4>1. holds[r][grant.of] \in Nat
          BY <1>3, <2>t DEF BookInv, Booked, Resource
        <4> QED BY <1>3, <2>t, <4>1
      <3>2. grant.qty \in Int /\ Booked
        BY <1>3, <2>t DEF BookInv
      <3> QED BY <1>0, <2>1, <2>3, <3>1, <3>2, MovedBooked
    <2>8. CapsInv'
      <3>1. grant.qty \in Int /\ CapsInv /\ grant.of # Budget
        BY <1>3, <2>t DEF BookInv
      <3> QED BY <1>0, <2>1, <2>3, <3>1, MovedCaps
    <2>10. HandOf(r)'
      <3>0. Len(got) = n + 1 /\ \A i \in 1 .. Len(got) : got[i] = lines[i]
        BY <1>1, <1>2, <2>g, AppendProperties
      <3>1. \A x : InHand(r, x)' = Worth(got, x) - 0
        BY <2>3 DEF InHand
      <3>2. \A x : Worth(got, x) \in Nat
        BY WorthNat
      <3>3. pc'[r] = "insert" => got = lines
        <4> SUFFICES ASSUME pc'[r] = "insert" PROVE got = lines
          OBVIOUS
        <4>1. Len(got) = Len(lines)
          BY <1>2, <2>3, <3>0
        <4> QED BY <1>2, <3>0, <4>1, SeqEqual
      <3>5. GrantsOfRow(r)' = GrantsOfRow(r)
        BY <2>3 DEF GrantsOfRow
      <3> QED BY <1>0, <2>3, <2>6, <3>0, <3>1, <3>2, <3>3, <3>5 DEF HandOf, Whole
    <2>11. RestOf(r)'
      BY <1>4, <2>3 DEF RestOf
    <2>12. \A o \in Rows : o # r => \A x \in Resource : holds'[o][x] = holds[o][x]
      BY <2>5
    <2> QED BY <1>0, <1>1, <2>3, <2>7, <2>8, <2>10, <2>11, <2>12, BookStep, GateAssumption DEF BeforeInsert
  <1>6. CASE Unwind(r, Append(Tail(taken), Head(taken)), "done") /\ UNCHANGED ledgerVars
    <2>g. PICK given \in Seq(Grant) : given = Append(Tail(taken), Head(taken)) /\ given # <<>>
      BY <1>1, HeadTyped
    <2>1. /\ UNCHANGED <<req, row, rows, cap, queue, capCount, holds>>
          /\ undo'[r] = given /\ pc'[r] = "give_back" /\ next'[r] = "done"
          /\ \A q \in Processes : q # r => pc'[q] = pc[q] /\ undo'[q] = undo[q] /\ next'[q] = next[q]
      BY <1>0, <1>6, <2>g DEF ReserveStock, ProcTyped, Unwind, Goto, envVars, ledgerVars
    <2>2. \A x : Worth(given, x) = Worth(taken, x)
      <3> SUFFICES ASSUME NEW x PROVE Worth(given, x) = Worth(taken, x)
        OBVIOUS
      <3>1. Head(taken) \in Grant /\ Tail(taken) \in Seq(Grant)
        BY <1>1, HeadTyped
      <3>2. Worth(given, x) = Worth(Tail(taken), x) + Part(Head(taken), x)
        BY <2>g, <3>1, WorthAppend
      <3>3. Worth(taken, x) = Part(Head(taken), x) + Worth(Tail(taken), x)
        BY <1>1, WorthTail
      <3>4. Worth(Tail(taken), x) \in Nat /\ Part(Head(taken), x) \in Nat
        BY <3>1, WorthNat DEF Part, Grant
      <3> QED BY <3>2, <3>3, <3>4
    <2>3. HandOf(r)'
      <3>1. \A x : InHand(r, x)' = Worth(given, x) - 0
        BY <2>1 DEF InHand
      <3>2. \A x : Worth(given, x) \in Nat
        BY WorthNat
      <3> QED BY <1>0, <1>1, <2>1, <2>2, <3>1, <3>2 DEF HandOf, Whole
    <2>4. RestOf(r)'
      BY <1>4, <2>1 DEF RestOf
    <2>5. Booked' /\ CapsInv'
      BY <1>6, <2>1, StillBooked
    <2> QED BY <1>0, <1>1, <2>1, <2>3, <2>4, <2>5, BookStep, GateAssumption DEF BeforeInsert
  <1> QED BY <1>5, <1>6 DEF ReserveStock

\* One grant of what p has in hand goes back.
LEMMA GivenBack ==
  ASSUME TypeInv, BookInv, NEW p \in Processes, Carrying(p), pc[p] # "fail_short",
         Release(row[p], cap[p], Head(undo[p])), cap' = cap
  PROVE  /\ Booked' /\ CapsInv' /\ UNCHANGED capCount
         /\ Head(undo[p]) \in Grant /\ Tail(undo[p]) \in Seq(Grant)
         /\ \A o \in Rows : o # row[p] => \A x \in Resource : holds'[o][x] = holds[o][x]
         /\ \A x \in Resource : /\ holds'[row[p]][x] = Worth(undo[p], x) - Part(Head(undo[p]), x)
                                /\ holds'[row[p]][x] = Worth(Tail(undo[p]), x)
PROOF
  <1>0. /\ LedgerTypeOK /\ row[p] \in Rows /\ cap[row[p]] \in CapIds /\ cap[p] = cap[row[p]]
        /\ undo[p] \in Seq(Grant) /\ undo[p] # <<>>
        /\ \A x \in Resource : holds[row[p]][x] = Worth(undo[p], x) - 0
        /\ Booked /\ CapsInv
    BY TypeGroups, HandParts DEF TypeInv, HandOf, Carrying, InHand, BookInv
  <1>1. PICK grant \in Grant : grant = Head(undo[p])
    BY <1>0, HeadTyped
  <1>2. PICK rest \in Seq(Grant) : rest = Tail(undo[p])
    BY <1>0, HeadTyped
  <1>3. /\ \A x : Worth(undo[p], x) = Part(grant, x) + Worth(rest, x)
        /\ \A x : Worth(undo[p], x) \in Nat /\ Worth(rest, x) \in Nat
    BY <1>0, <1>1, <1>2, WorthTail, WorthNat
  <1>4. grant.of \in Resource /\ grant.qty \in Nat
    BY DEF Grant
  <1>5. grant.qty <= holds[row[p]][grant.of] /\ holds[row[p]][grant.of] + -grant.qty \in Nat
    <2>1. Part(grant, grant.of) = grant.qty
      BY DEF Part
    <2>2. /\ holds[row[p]][grant.of] = Worth(undo[p], grant.of) - 0
          /\ Worth(undo[p], grant.of) = grant.qty + Worth(rest, grant.of)
          /\ Worth(undo[p], grant.of) \in Nat /\ Worth(rest, grant.of) \in Nat
      BY <1>0, <1>3, <1>4, <2>1
    <2> QED BY <1>4, <2>2
  <1>6. Moved(row[p], grant, -grant.qty)
    <2>1. Release(row[p], cap[row[p]], grant)
      BY <1>0, <1>1
    <2> QED BY <1>0, <1>5, <2>1, ReleaseMoves
  <1>7. -grant.qty \in Int
    BY <1>4
  <1>8. Booked'
    BY <1>0, <1>5, <1>6, <1>7, MovedBooked
  <1>9. CapsInv'
    <2>1. grant.of = Budget => caps[cap[row[p]]].spent + -grant.qty <= caps[cap[row[p]]].limit
      <3>1. /\ caps[cap[row[p]]].spent <= caps[cap[row[p]]].limit
            /\ caps[cap[row[p]]].spent \in Nat /\ caps[cap[row[p]]].limit \in Nat
        BY <1>0 DEF CapsInv, LedgerTypeOK, Cap
      <3> QED BY <1>4, <3>1
    <2> QED BY <1>0, <1>6, <1>7, <2>1, MovedCaps
  <1>10. \A o \in Rows, x \in Resource :
           holds'[o][x] = IF o = row[p] /\ x = grant.of THEN holds[o][x] + -grant.qty ELSE holds[o][x]
    BY <1>0, <1>6, MovedHolds
  <1>11. ASSUME NEW x \in Resource
         PROVE  /\ holds'[row[p]][x] = Worth(undo[p], x) - Part(grant, x)
                /\ holds'[row[p]][x] = Worth(rest, x)
    <2>1. holds'[row[p]][x] = IF x = grant.of THEN holds[row[p]][x] + -grant.qty ELSE holds[row[p]][x]
      BY <1>0, <1>10
    <2>2. Part(grant, x) = IF x = grant.of THEN grant.qty ELSE 0
      BY DEF Part
    <2>3. /\ holds[row[p]][x] = Worth(undo[p], x) - 0
          /\ Worth(undo[p], x) = Part(grant, x) + Worth(rest, x)
          /\ Worth(undo[p], x) \in Nat /\ Worth(rest, x) \in Nat
      BY <1>0, <1>3
    <2> QED BY <1>4, <2>1, <2>2, <2>3
  <1> QED BY <1>1, <1>2, <1>6, <1>8, <1>9, <1>10, <1>11 DEF Moved

LEMMA BookReleaseShort ==
  ASSUME TypeInv, WorkInv, BookInv, NEW p \in Processes, ReleaseShort(p)
  PROVE  BookInv'
PROOF
  <1>0. ProcTyped /\ row[p] \in Rows /\ HandOf(p) /\ pc[p] = "release_short"
    BY TypeGroups, HandParts DEF TypeInv, ReleaseShort
  <1>1. Full(row[p]) /\ Carrying(p) /\ cap[p] = cap[row[p]] /\ p \in Rows /\ req[p].kind = "redeem"
        /\ undo[p] = GrantsOfRow(row[p])
    BY <1>0, WholeIsFull DEF HandOf, Whole
  <1>2. /\ UNCHANGED <<rows, req, row, cap, undo, next, queue>>
        /\ pc'[p] = "fail_short" /\ \A q \in Processes : q # p => pc'[q] = pc[q]
    BY <1>0 DEF ReleaseShort, ProcTyped, Goto, envVars
  <1>3. /\ Booked' /\ CapsInv' /\ UNCHANGED capCount
        /\ \A o \in Rows : o # row[p] => \A x \in Resource : holds'[o][x] = holds[o][x]
        /\ \A x \in Resource : holds'[row[p]][x] = Worth(undo[p], x) - Part(Head(undo[p]), x)
    BY <1>0, <1>1, <1>2, GivenBack DEF ReleaseShort
  <1>4. HandOf(p)'
    <2>1. \A x : InHand(p, x)' = Worth(undo[p], x) - Part(Head(undo[p]), x)
      BY <1>2 DEF InHand, Part
    <2>2. GrantsOfRow(row[p])' = GrantsOfRow(row[p])
      BY <1>2 DEF GrantsOfRow
    <2> QED BY <1>0, <1>1, <1>2, <1>3, <2>1, <2>2 DEF HandOf, Settling, SettlePC, Carrying
  <1>5. RestOf(row[p])'
    <2>1. row[p] = p
      BY <1>1, HandParts DEF ShapeOf
    <2>2. Engaged(p)
      BY <1>1 DEF Engaged
    <2>3. rows[row[p]].escalation # "pending" /\ rows[row[p]].status # "executed"
      BY <2>2, EngagedAlone
    <2> QED BY <1>2, <2>1, <2>3 DEF RestOf
  <1> QED BY <1>0, <1>1, <1>2, <1>3, <1>4, <1>5, BookStep, GateAssumption DEF Engaged

LEMMA BookGiveBack ==
  ASSUME TypeInv, WorkInv, BookInv, NEW p \in Processes, GiveBack(p)
  PROVE  BookInv'
PROOF
  <1>0. /\ ProcTyped /\ row[p] \in Rows /\ HandOf(p) /\ pc[p] = "give_back" /\ Carrying(p)
        /\ undo[p] \in Seq(Grant) /\ next[p] \in NextOf(p) /\ cap[p] = cap[row[p]] /\ Engaged(p)
        /\ next[p] # "idle" /\ row[p] \in Processes /\ (p \in Rows => row[p] = p)
    BY TypeGroups, HandParts DEF TypeInv, GiveBack, Holding, ShapeOf, HandOf, Engaged, Processes
  <1>1. PICK rest \in Seq(Grant) : rest = Tail(undo[p])
    BY <1>0, HeadTyped DEF Carrying
  <1>2. /\ UNCHANGED <<rows, req, row, cap, next, queue>>
        /\ undo'[p] = rest /\ pc'[p] = (IF Len(undo[p]) = 1 THEN next[p] ELSE "give_back")
        /\ \A q \in Processes : q # p => pc'[q] = pc[q] /\ undo'[q] = undo[q]
    BY <1>0, <1>1 DEF GiveBack, ProcTyped, Goto, envVars
  <1>3. /\ Booked' /\ CapsInv' /\ UNCHANGED capCount
        /\ \A o \in Rows : o # row[p] => \A x \in Resource : holds'[o][x] = holds[o][x]
        /\ \A x \in Resource : holds'[row[p]][x] = Worth(rest, x)
    BY <1>0, <1>1, <1>2, GivenBack DEF GiveBack
  <1>4. Len(undo[p]) = 1 => rest = <<>> /\ Empty(row[p])'
    <2> SUFFICES ASSUME Len(undo[p]) = 1 PROVE rest = <<>> /\ Empty(row[p])'
      OBVIOUS
    <2>1. Len(rest) = 0
      BY <1>0, <1>1, HeadTailProperties DEF Carrying
    <2>2. rest = <<>>
      BY <2>1, EmptySeq
    <2> QED BY <1>2, <1>3, <2>2, WorthEmpty DEF Empty
  <1>5. CASE Len(undo[p]) # 1
    <2>1. HandOf(p)'
      <3>1. \A x : InHand(p, x)' = Worth(rest, x) - 0
        BY <1>2, <1>5 DEF InHand
      <3>2. \A x : Worth(rest, x) \in Nat
        BY WorthNat
      <3> QED BY <1>0, <1>2, <1>3, <1>5, <3>1, <3>2 DEF HandOf, Whole, Settling, SettlePC
    <2>2. RestOf(row[p])'
      <3>1. /\ rows[row[p]].escalation # "pending" /\ rows[row[p]].status # "executed"
            /\ ~(rows[row[p]].status = "allowed" /\ pc[row[p]] \in {"done", "dead"})
            /\ pc[row[p]] \notin {"start", "check", "preflight", "read_cap", "reserve_budget"}
        BY <1>0, EngagedAlone
      <3>2. RestOf(row[p]) /\ pc'[row[p]] = pc[row[p]]
        BY <1>0, <1>2, <1>5 DEF BookInv
      <3> QED BY <1>2, <3>1, <3>2 DEF RestOf
    <2>3. p \in Handlers /\ Sweeping(p)' => Sweeping(p)
      BY <1>0, <1>2 DEF Sweeping
    <2> QED BY <1>0, <1>2, <1>3, <2>1, <2>2, <2>3, BookStep
  <1>6. CASE Len(undo[p]) = 1
    <2>0. pc'[p] = next[p] /\ next[p] \in {"done", "replay", "fail_row", "sweep"}
          /\ undo'[p] = <<>> /\ Empty(row[p])'
      BY <1>0, <1>2, <1>4, <1>6 DEF NextOf
    <2>1. HandOf(p)'
      <3>1. \A x \in Resource : holds'[row'[p]][x] = 0
        BY <1>2, <2>0 DEF Empty
      <3> QED BY <1>0, <1>2, <2>0, <3>1 DEF HandOf, Whole, Carrying, Empty
    <2>2. RestOf(row[p])'
      <3>1. /\ rows[row[p]].escalation # "pending" /\ rows[row[p]].status # "executed"
            /\ ~(rows[row[p]].status = "allowed" /\ pc[row[p]] \in {"done", "dead"})
            /\ pc[row[p]] \notin {"start", "check", "preflight", "read_cap", "reserve_budget"}
        BY <1>0, EngagedAlone
      <3>2. RestOf(row[p])
        BY <1>0 DEF BookInv
      <3>3. CASE p \in Rows
        BY <1>0, <1>2, <2>0, <3>1, <3>2, <3>3 DEF RestOf, NextOf
      <3>4. CASE p \notin Rows
        <4>1. row[p] # p /\ pc'[row[p]] = pc[row[p]]
          BY <1>0, <1>2, <3>4
        <4> QED BY <1>2, <3>1, <3>2, <4>1 DEF RestOf
      <3> QED BY <3>3, <3>4
    <2>3. ~Sweeping(p)'
      BY <2>0 DEF Sweeping
    <2> QED BY <1>0, <1>2, <1>3, <2>1, <2>2, <2>3, BookStep
  <1> QED BY <1>5, <1>6

-----------------------------------------------------------------------------
(* The handlers' own steps.                                                  *)

\* What the rows hold, after a step that changes no row.
LEMMA RestSame ==
  ASSUME BookInv, UNCHANGED <<rows, holds, req>>,
         \A r \in Rows : pc'[r] = pc[r] /\ next'[r] = next[r]
  PROVE  \A r \in Rows : RestOf(r)'
PROOF
  <1> SUFFICES ASSUME NEW r \in Rows PROVE RestOf(r)'
    OBVIOUS
  <1>1. RestOf(r)
    BY DEF BookInv
  <1>2. Full(r)' = Full(r) /\ Empty(r)' = Empty(r)
    BY DEF Full, Empty, GrantsOfRow
  <1> QED BY <1>1, <1>2 DEF RestOf

LEMMA BookReleaseClaimed ==
  ASSUME TypeInv, WorkInv, BookInv, ReleasedOnce, NEW h \in Handlers, ReleaseClaimed(h)
  PROVE  BookInv'
PROOF
  <1>0. /\ ProcTyped /\ ReplyTyped /\ LedgerTypeOK /\ h \in Processes /\ h \notin Rows /\ pc[h] = "sweep"
        /\ SweepInv /\ HandOf(h) /\ row[h] \in Rows
    BY TypeGroups, HandParts, GateAssumption DEF TypeInv, Processes, ReleaseClaimed, BookInv
  <1>1. /\ UNCHANGED <<ledgerVars, rows, req, holds, capCount>>
        /\ \A q \in Processes : q # h => /\ pc'[q] = pc[q] /\ undo'[q] = undo[q] /\ next'[q] = next[q]
                                         /\ row'[q] = row[q] /\ cap'[q] = cap[q]
    BY <1>0 DEF ReleaseClaimed, ProcTyped, Goto, Unwind, ledgerVars
  <1>2. CASE UNCHANGED <<row, cap, undo, next, queue>> /\ Goto(h, "idle")
    <2>1. undo[h] = <<>>
      BY <1>0, HandParts DEF Carrying, Settling, SettlePC
    <2>2. pc'[h] = "idle"
      BY <1>0, <1>2 DEF Goto, ProcTyped
    <2>3. HandOf(h)'
      BY <1>2, <2>1, <2>2 DEF HandOf, Whole, Carrying
    <2>4. RestOf(row[h])'
      <3>1. \A o \in Rows : pc'[o] = pc[o] /\ next'[o] = next[o]
        BY <1>0, <1>1 DEF Processes
      <3>2. \A o \in Rows : RestOf(o)'
        BY <1>1, <3>1, RestSame
      <3>3. row'[h] \in Rows
        BY <1>0, <1>2
      <3> QED BY <3>2, <3>3
    <2>5. Booked' /\ CapsInv'
      BY <1>1, <1>2, StillBooked
    <2>6. ~Sweeping(h)'
      BY <2>2 DEF Sweeping
    <2> QED BY <1>0, <1>1, <1>2, <2>3, <2>4, <2>5, <2>6, BookStep
  <1>3. ASSUME NEW r \in queue[h],
               queue' = [queue EXCEPT ![h] = @ \ {r}], row' = [row EXCEPT ![h] = r],
               cap' = [cap EXCEPT ![h] = capCount], Unwind(h, GrantsOfRow(r), "sweep")
        PROVE  BookInv'
    <2>0. /\ r \in Rows /\ Full(r) /\ rows[r].status = "failed"
          /\ "sweep" \in Ops /\ capCount = 1 /\ cap[r] = 1
      <3>1. r \in Rows /\ Full(r) /\ "sweep" \in Ops /\ rows[r].status = "failed"
        BY <1>0 DEF ReplyTyped, SweepInv, Swept
      <3>2. capCount = 1
        BY <1>0, <3>1 DEF SweepInv, ReleasedOnce
      <3>3. cap[r] \in Nat \ {0} /\ cap[r] <= capCount
        BY <1>0, <3>1 DEF ProcTyped, CapIds, BookInv, CapsInv, Processes
      <3> QED BY <3>1, <3>2, <3>3
    <2>1. /\ pc'[h] = "give_back" /\ next'[h] = "sweep" /\ undo'[h] = GrantsOfRow(r)
          /\ row'[h] = r /\ cap'[h] = 1 /\ queue'[h] = queue[h] \ {r}
          /\ \A g \in Handlers : g # h => queue'[g] = queue[g]
          /\ \A o \in Rows : cap'[o] = cap[o]
      BY <1>0, <1>3, <2>0 DEF ProcTyped, ReplyTyped, Goto, Unwind, Processes
    <2>2. GrantsOfRow(r) \in Seq(Grant) /\ GrantsOfRow(r) # <<>>
      BY <2>0, GrantsTyped
    <2>3. HandOf(h)'
      <3>1. \A x : InHand(h, x)' = Worth(GrantsOfRow(r), x) - 0
        BY <2>1 DEF InHand
      <3>2. \A x : Worth(GrantsOfRow(r), x) \in Nat
        BY <2>2, WorthNat
      <3>3. \A x \in Resource : holds'[row'[h]][x] = Worth(GrantsOfRow(r), x)
        BY <1>1, <2>0, <2>1 DEF Full
      <3>4. cap'[h] = cap'[row'[h]]
        BY <2>0, <2>1
      <3> QED BY <1>0, <2>1, <3>1, <3>2, <3>3, <3>4 DEF HandOf, Whole
    <2>4. \A q \in Processes : q # h /\ Engaged(q) =>
            cap'[row[q]] = cap[row[q]] /\ \A x \in Resource : holds'[row[q]][x] = holds[row[q]][x]
      BY <1>0, <1>1, <2>1 DEF ProcTyped
    <2>5. \A q \in Processes : HandOf(q)'
      BY <1>0, <1>1, <2>3, <2>4, HandStep
    <2>6. \A o \in Rows : RestOf(o)'
      BY <1>0, <1>1, GateAssumption, RestSame DEF Processes
    <2>7. Booked'
      <3>1. \A c \in CapIds : caps'[c].spent = caps[c].spent
        BY <1>1 DEF ledgerVars
      <3>2. Booked /\ UNCHANGED <<holds, stock>>
        BY <1>1 DEF BookInv, ledgerVars
      <3> QED BY <2>1, <3>1, <3>2, BookFrame
    <2>8. CapsInv'
      <3>1. \A q \in Processes : cap'[q] <= capCount'
        BY <1>1, <2>0, <2>1 DEF BookInv, CapsInv
      <3>2. UNCHANGED <<caps, capCount>>
        BY <1>1 DEF ledgerVars
      <3> QED BY <3>1, <3>2 DEF BookInv, CapsInv
    <2>9. SweepInv'
      <3>1. \A g \in Handlers : Swept(g)' \subseteq Swept(g)
        <4>1. \A g \in Handlers : g # h => Swept(g)' = Swept(g)
          BY <1>1, <2>1 DEF Swept, Sweeping, Processes
        <4>2. Swept(h)' \subseteq Swept(h)
          BY <1>3, <2>1 DEF Swept, Sweeping
        <4> QED BY <4>1, <4>2
      <3>2. \A g \in Handlers : \A o \in queue'[g] : o \in queue[g]
        BY <2>1
      <3>3. \A g \in Handlers : \A o \in queue'[g] : Full(o)' /\ "sweep" \in Ops
        BY <1>0, <1>1, <3>2 DEF SweepInv, Full, GrantsOfRow
      <3>4. \A g \in Handlers : \A o \in Swept(g)' : rows'[o].status = "failed"
        BY <1>0, <1>1, <3>1 DEF SweepInv
      <3>5. \A g \in Handlers : Sweeping(g)' => row'[g] \notin queue'[g]
        BY <1>0, <1>1, <2>1 DEF SweepInv, Sweeping, Processes
      <3>6. \A g, k \in Handlers : g # k => Swept(g)' \cap Swept(k)' = {}
        BY <1>0, <3>1 DEF SweepInv
      <3>7. capCount' = 1
        BY <1>1, <2>0
      <3> QED BY <3>3, <3>4, <3>5, <3>6, <3>7 DEF SweepInv
    <2> QED BY <2>5, <2>6, <2>7, <2>8, <2>9 DEF BookInv
  <1> QED BY <1>2, <1>3 DEF ReleaseClaimed

LEMMA BookResolve ==
  ASSUME TypeInv, WorkInv, BookInv, NEW h \in Handlers, NEW r \in Rows,
         Approve(h, r) \/ Reject(h, r)
  PROVE  BookInv'
PROOF
  <1>0. /\ ProcTyped /\ ReplyTyped /\ RowsTyped /\ LedgerTypeOK /\ h \in Processes /\ h \notin Rows
        /\ pc[h] = "idle" /\ rows[r].escalation = "pending" /\ rows[r].status = "pending_escalation"
        /\ r \in Processes /\ RestOf(r) /\ Full(r)
    BY TypeGroups, GateAssumption
    DEF TypeInv, Processes, Approve, Reject, ClaimEscalation, WorkInv, BookInv, RestOf
  <1>1. /\ UNCHANGED <<ledgerVars, req, holds, capCount, queue>>
        /\ \A q \in Processes : q # h => /\ pc'[q] = pc[q] /\ undo'[q] = undo[q] /\ next'[q] = next[q]
                                         /\ row'[q] = row[q] /\ cap'[q] = cap[q]
        /\ \A o \in Rows : o # r => rows'[o] = rows[o]
        /\ rows'[r].status = "pending_escalation" /\ rows'[r].escalation \in {"approved", "rejected"}
        /\ row'[h] = r /\ cap'[h] = cap[r] /\ undo'[h] = GrantsOfRow(r)
        /\ \/ pc'[h] = "execute"
           \/ pc'[h] = "give_back" /\ next'[h] = "fail_row" /\ "reject" \in Ops
    <2>1. UNCHANGED <<ledgerVars, req, holds, capCount, queue>>
      BY DEF Approve, Reject, ledgerVars, envVars
    <2>2. PICK outcome \in {"approved", "rejected"} :
            /\ rows' = [rows EXCEPT ![r].escalation = outcome]
            /\ row' = [row EXCEPT ![h] = r]
            /\ cap' = [cap EXCEPT ![h] = cap[r]]
      BY DEF Approve, Reject, ClaimEscalation
    <2>3. /\ \A o \in Rows : o # r => rows'[o] = rows[o]
          /\ rows'[r].status = "pending_escalation" /\ rows'[r].escalation \in {"approved", "rejected"}
      BY <1>0, <2>2 DEF RowsTyped, Row
    <2>4. /\ \A q \in Processes : q # h => row'[q] = row[q] /\ cap'[q] = cap[q]
          /\ row'[h] = r /\ cap'[h] = cap[r]
      BY <1>0, <2>2 DEF ProcTyped
    <2>5. /\ \A q \in Processes : q # h => pc'[q] = pc[q] /\ undo'[q] = undo[q] /\ next'[q] = next[q]
          /\ undo'[h] = GrantsOfRow(r)
          /\ \/ pc'[h] = "execute"
             \/ pc'[h] = "give_back" /\ next'[h] = "fail_row" /\ "reject" \in Ops
      BY <1>0 DEF Approve, Reject, Unwind, Goto, ProcTyped
    <2> QED BY <2>1, <2>3, <2>4, <2>5
  <1>2. GrantsOfRow(r) \in Seq(Grant) /\ GrantsOfRow(r) # <<>> /\ GrantsOfRow(r)' = GrantsOfRow(r)
    BY <1>1, GrantsTyped DEF GrantsOfRow
  <1>3. HandOf(h)'
    <2>1. \A x : InHand(h, x)' = Worth(GrantsOfRow(r), x) - 0
      BY <1>1 DEF InHand
    <2>2. \A x : Worth(GrantsOfRow(r), x) \in Nat
      BY <1>2, WorthNat
    <2>3. \A x \in Resource : holds'[row'[h]][x] = Worth(GrantsOfRow(r), x)
      BY <1>0, <1>1 DEF Full
    <2>4. cap'[h] = cap'[row'[h]]
      BY <1>0, <1>1
    <2>5. GrantsOfRow(row[h])' = GrantsOfRow(r)
      BY <1>1, <1>2 DEF GrantsOfRow
    <2> QED BY <1>0, <1>1, <2>1, <2>2, <2>3, <2>4, <2>5 DEF HandOf, Whole, Settling, SettlePC
  <1>4. \A q \in Processes : q # h /\ Engaged(q) =>
          cap'[row[q]] = cap[row[q]] /\ \A x \in Resource : holds'[row[q]][x] = holds[row[q]][x]
    BY <1>0, <1>1 DEF ProcTyped, Processes
  <1>5. \A q \in Processes : HandOf(q)'
    BY <1>0, <1>1, <1>3, <1>4, HandStep
  <1>6. \A o \in Rows : RestOf(o)'
    <2>1. RestOf(r)'
      <3>1. pc'[r] = pc[r] /\ next'[r] = next[r]
        BY <1>0, <1>1
      <3>2. Full(r)' = Full(r) /\ Empty(r)' = Empty(r)
        BY <1>1 DEF Full, Empty, GrantsOfRow
      <3> QED BY <1>0, <1>1, <3>1, <3>2 DEF RestOf
    <2>2. \A o \in Rows : o # r =>
            /\ pc'[o] = pc[o] /\ next'[o] = next[o]
            /\ rows'[o].status = rows[o].status /\ rows'[o].escalation = rows[o].escalation
            /\ \A x \in Resource : holds'[o][x] = holds[o][x]
      BY <1>0, <1>1 DEF Processes
    <2> QED BY <1>1, <2>1, <2>2, RestStep
  <1>7. Booked'
    <2>1. /\ \A c \in CapIds : caps'[c].spent = caps[c].spent
          /\ \A o \in Rows : cap'[o] = cap[o]
          /\ UNCHANGED <<holds, stock>>
      BY <1>0, <1>1 DEF ledgerVars, Processes
    <2> QED BY <2>1, BookFrame DEF BookInv
  <1>8. CapsInv'
    <2>1. \A q \in Processes : cap'[q] <= capCount'
      BY <1>0, <1>1 DEF BookInv, CapsInv
    <2>2. UNCHANGED <<caps, capCount>>
      BY <1>1 DEF ledgerVars
    <2> QED BY <2>1, <2>2 DEF BookInv, CapsInv
  <1>9. SweepInv'
    <2>1. \A g \in Handlers : /\ queue'[g] = queue[g]
                              /\ Sweeping(g)' => Sweeping(g) /\ row'[g] = row[g]
      BY <1>0, <1>1 DEF Sweeping, Processes
    <2>2. \A o \in Rows : rows[o].status = "failed" => rows'[o].status = "failed"
      BY <1>0, <1>1
    <2> QED BY <1>0, <1>1, <2>1, <2>2, SweepStep DEF ReplyTyped, ProcTyped
  <1> QED BY <1>5, <1>6, <1>7, <1>8, <1>9 DEF BookInv

LEMMA BookClaimExpired ==
  ASSUME TypeInv, WorkInv, BookInv, ReleasedOnce, NEW h \in Handlers, ClaimExpired(h)
  PROVE  BookInv'
PROOF
  <1>0. /\ ProcTyped /\ ReplyTyped /\ RowsTyped /\ h \in Processes /\ h \notin Rows
        /\ pc[h] = "idle" /\ "sweep" \in Ops /\ SweepInv
    BY TypeGroups, GateAssumption DEF TypeInv, Processes, ClaimExpired, BookInv
  <1>1. PICK claimed \in SUBSET {r \in Rows : Expired(r)} :
          /\ rows' = [r \in Rows |-> IF r \in claimed
                                     THEN [rows[r] EXCEPT !.status = "failed", !.armed = FALSE]
                                     ELSE rows[r]]
          /\ \E first \in SUBSET claimed : queue' = [queue EXCEPT ![h] = first]
    BY DEF ClaimExpired
  <1>2. PICK first \in SUBSET claimed : queue' = [queue EXCEPT ![h] = first]
    BY <1>1
  <1>3. /\ UNCHANGED <<ledgerVars, req, holds, capCount, row, cap, undo, next>>
        /\ pc'[h] = "sweep" /\ \A q \in Processes : q # h => pc'[q] = pc[q]
        /\ queue'[h] = first /\ \A g \in Handlers : g # h => queue'[g] = queue[g]
    BY <1>0, <1>2 DEF ClaimExpired, Goto, ProcTyped, ReplyTyped, ledgerVars, envVars
  <1>4. \A r \in claimed : /\ r \in Rows /\ rows[r].status = "allowed" /\ pc[r] \in {"done", "dead"}
                           /\ rows[r].escalation # "pending" /\ Full(r)
    BY <1>0 DEF Expired, ReleasedOnce, BookInv, RestOf, WorkInv
  <1>5. \A r \in Rows : /\ rows'[r].status = IF r \in claimed THEN "failed" ELSE rows[r].status
                        /\ rows'[r].escalation = rows[r].escalation
    BY <1>0, <1>1 DEF RowsTyped, Row
  <1>6. HandOf(h)'
    <2>1. undo[h] = <<>>
      BY <1>0, HandParts DEF Carrying, Settling, SettlePC
    <2> QED BY <1>3, <2>1 DEF HandOf, Whole, Carrying
  <1>7. \A q \in Processes : HandOf(q)'
    <2>1. \A q \in Processes : q # h =>
            /\ pc'[q] = pc[q] /\ undo'[q] = undo[q] /\ next'[q] = next[q] /\ row'[q] = row[q] /\ cap'[q] = cap[q]
            /\ Engaged(q) => /\ cap'[row[q]] = cap[row[q]]
                             /\ \A x \in Resource : holds'[row[q]][x] = holds[row[q]][x]
      BY <1>3
    <2> QED BY <1>0, <1>3, <1>6, <2>1, HandStep
  <1>8. \A r \in Rows : Full(r)' = Full(r) /\ Empty(r)' = Empty(r)
    BY <1>3 DEF Full, Empty, GrantsOfRow
  <1>9. \A r \in Rows : RestOf(r)'
    <2> SUFFICES ASSUME NEW r \in Rows PROVE RestOf(r)'
      OBVIOUS
    <2>1. RestOf(r) /\ pc'[r] = pc[r] /\ next'[r] = next[r]
      BY <1>0, <1>3 DEF BookInv, Processes
    <2>2. CASE r \in claimed
      BY <1>4, <1>5, <2>1, <2>2 DEF RestOf
    <2>3. CASE r \notin claimed
      BY <1>5, <1>8, <2>1, <2>3 DEF RestOf
    <2> QED BY <2>2, <2>3
  <1>10. Booked' /\ CapsInv'
    BY <1>3, StillBooked
  <1>11. SweepInv'
    <2>1. \A g \in Handlers : g # h => Swept(g)' = Swept(g) /\ Sweeping(g)' = Sweeping(g)
      BY <1>0, <1>3 DEF Swept, Sweeping, Processes
    <2>2. Swept(h)' = first /\ ~Sweeping(h)'
      BY <1>3 DEF Swept, Sweeping
    <2>3. \A g \in Handlers : \A r \in Swept(g) : r \in Rows /\ rows[r].status = "failed" /\ r \notin claimed
      BY <1>0, <1>4 DEF SweepInv, Swept, ReplyTyped, ProcTyped, Processes
    <2>4. \A g \in Handlers : \A r \in queue'[g] : Full(r)' /\ "sweep" \in Ops
      <3> SUFFICES ASSUME NEW g \in Handlers, NEW r \in queue'[g] PROVE Full(r)'
        BY <1>0
      <3>1. CASE g = h
        BY <1>3, <1>4, <1>8, <3>1
      <3>2. CASE g # h
        <4>1. r \in queue[g] /\ r \in Rows /\ Full(r)
          BY <1>0, <1>3, <3>2 DEF SweepInv, ReplyTyped
        <4> QED BY <1>8, <4>1
      <3> QED BY <3>1, <3>2
    <2>5. \A g \in Handlers : \A r \in Swept(g)' : rows'[r].status = "failed"
      <3> SUFFICES ASSUME NEW g \in Handlers, NEW r \in Swept(g)' PROVE rows'[r].status = "failed"
        OBVIOUS
      <3>1. CASE g = h
        BY <1>4, <1>5, <2>2, <3>1
      <3>2. CASE g # h
        BY <1>5, <2>1, <2>3, <3>2
      <3> QED BY <3>1, <3>2
    <2>6. \A g \in Handlers : Sweeping(g)' => row'[g] \notin queue'[g]
      BY <1>0, <1>3, <2>1, <2>2 DEF SweepInv
    <2>7. \A g, k \in Handlers : g # k => Swept(g)' \cap Swept(k)' = {}
      <3> SUFFICES ASSUME NEW g \in Handlers, NEW k \in Handlers, g # k, NEW r \in Swept(g)', r \in Swept(k)'
                   PROVE  FALSE
        OBVIOUS
      <3>1. CASE g # h /\ k # h
        <4>1. r \in Swept(g) /\ r \in Swept(k) /\ Swept(g) \cap Swept(k) = {}
          BY <1>0, <2>1, <3>1 DEF SweepInv
        <4> QED BY <4>1
      <3>2. CASE g = h
        <4>1. r \in claimed /\ r \in Swept(k)
          BY <2>1, <2>2, <3>2
        <4> QED BY <2>3, <4>1
      <3>3. CASE k = h
        <4>1. r \in claimed /\ r \in Swept(g)
          BY <2>1, <2>2, <3>3
        <4> QED BY <2>3, <4>1
      <3> QED BY <3>1, <3>2, <3>3
    <2>8. "set_cap" \notin Ops => capCount' = 1
      BY <1>0, <1>3 DEF SweepInv
    <2> QED BY <2>4, <2>5, <2>6, <2>7, <2>8 DEF SweepInv
  <1> QED BY <1>7, <1>9, <1>10, <1>11 DEF BookInv

\* A step that moves neither a row, nor a reservation, nor a process that has one in hand.
LEMMA BookAside ==
  ASSUME TypeInv, BookInv, UNCHANGED <<rows, holds, stock, req, row, cap, undo, next, queue>>,
         \A q \in Processes : pc'[q] = pc[q] \/ (q \in Handlers /\ ~Carrying(q) /\ HandOf(q)' /\ ~Sweeping(q)'),
         \A c \in CapIds : caps'[c].spent = caps[c].spent /\ caps'[c].limit >= caps[c].spent,
         capCount' = capCount \/ "set_cap" \in Ops, capCount' \in CapIds, capCount' >= capCount,
         \A c \in CapIds : c > capCount' => caps'[c] = AbsentCap
  PROVE  BookInv'
PROOF
  <1>0. ProcTyped /\ ReplyTyped /\ LedgerTypeOK
    BY TypeGroups DEF TypeInv
  <1>1. \A q \in Processes : HandOf(q)'
    <2> SUFFICES ASSUME NEW q \in Processes, pc'[q] = pc[q] PROVE HandOf(q)'
      OBVIOUS
    <2>1. HandOf(q)
      BY DEF BookInv
    <2>2. \A x : InHand(q, x)' = InHand(q, x)
      BY DEF InHand
    <2>3. GrantsOfRow(row[q])' = GrantsOfRow(row[q]) /\ GrantsOfRow(q)' = GrantsOfRow(q)
      BY DEF GrantsOfRow
    <2>4. Settling(q)' = Settling(q) /\ Carrying(q)' = Carrying(q) /\ Empty(row[q])' = Empty(row[q])
      BY DEF Settling, Carrying, Empty
    <2> QED BY <2>1, <2>2, <2>3, <2>4 DEF HandOf
  <1>2. \A r \in Rows : RestOf(r)'
    <2>1. \A r \in Rows : pc'[r] = pc[r]
      BY GateAssumption DEF Processes
    <2> QED BY <2>1, RestSame
  <1>3. Booked'
    BY BookFrame DEF BookInv
  <1>4. CapsInv'
    <2>1. CapsInv /\ capCount \in Nat /\ capCount' \in Nat /\ \A q \in Processes : cap[q] \in Nat
      BY <1>0 DEF BookInv, LedgerTypeOK, CapIds, ProcTyped
    <2>2. \A q \in Processes : cap'[q] <= capCount'
      BY <2>1 DEF CapsInv
    <2>3. \A c \in CapIds : caps'[c].spent <= caps'[c].limit
      OBVIOUS
    <2> QED BY <2>2, <2>3 DEF CapsInv
  <1>5. SweepInv'
    <2>1. \A h \in Handlers : /\ queue'[h] = queue[h]
                              /\ Sweeping(h)' => Sweeping(h) /\ row'[h] = row[h]
      BY DEF Sweeping, Processes
    <2> QED BY <1>0, <2>1, SweepStep DEF ReplyTyped, ProcTyped
  <1> QED BY <1>1, <1>2, <1>3, <1>4, <1>5 DEF BookInv

LEMMA BookCaps ==
  ASSUME TypeInv, WorkInv, BookInv,
         \/ \E h \in Handlers : RevokeCaps(h) \/ InsertCap(h)
         \/ Lapse \/ ToggleShadow \/ ToggleAgent
  PROVE  BookInv'
PROOF
  <1>0. /\ ProcTyped /\ LedgerTypeOK /\ capCount \in CapIds /\ capCount \in Nat /\ CapsInv
        /\ \A c \in CapIds : /\ caps[c] \in Cap /\ caps[c].spent \in Nat /\ caps[c].limit \in Nat
                             /\ c \in Nat /\ caps[c].limit >= caps[c].spent
        /\ \A c \in CapIds : c > capCount => caps[c] = AbsentCap
    <2>1. ProcTyped /\ LedgerTypeOK /\ CapsInv
      BY TypeGroups DEF TypeInv, BookInv
    <2>2. capCount \in CapIds /\ capCount \in Nat /\ \A c \in CapIds : c \in Nat /\ caps[c] \in Cap
      BY <2>1 DEF LedgerTypeOK, CapIds
    <2>3. \A c \in CapIds : caps[c].spent \in Nat /\ caps[c].limit \in Nat
      BY <2>2 DEF Cap
    <2>4. \A c \in CapIds : /\ caps[c].spent <= caps[c].limit
                            /\ c > capCount => caps[c] = AbsentCap
      BY <2>1 DEF CapsInv
    <2> QED BY <2>1, <2>2, <2>3, <2>4
  <1>1. ASSUME NEW h \in Handlers, RevokeCaps(h) PROVE BookInv'
    <2>1. /\ UNCHANGED <<rows, holds, stock, req, row, cap, undo, next, queue, capCount>>
          /\ pc'[h] = "insert_cap" /\ "set_cap" \in Ops /\ h \in Processes
          /\ \A q \in Processes : q # h => pc'[q] = pc[q]
      BY <1>0, <1>1 DEF RevokeCaps, envVars, Goto, ProcTyped, Processes
    <2>2. \A c \in CapIds : /\ caps'[c].spent = caps[c].spent /\ caps'[c].limit = caps[c].limit
                            /\ c > capCount => caps'[c] = caps[c]
      BY <1>0, <1>1 DEF RevokeCaps, Cap
    <2>3. undo[h] = <<>>
      BY <1>1, <2>1, HandParts DEF RevokeCaps, Carrying, Settling, SettlePC
    <2>4. HandOf(h)' /\ ~Sweeping(h)' /\ ~Carrying(h)
      BY <2>1, <2>3 DEF HandOf, Whole, Carrying, Sweeping
    <2>5. \A c \in CapIds : caps'[c].spent = caps[c].spent /\ caps'[c].limit >= caps[c].spent
      BY <1>0, <2>2
    <2>6. \A c \in CapIds : c > capCount' => caps'[c] = AbsentCap
      BY <1>0, <2>1, <2>2
    <2>7. \A q \in Processes : pc'[q] = pc[q] \/ (q \in Handlers /\ ~Carrying(q) /\ HandOf(q)' /\ ~Sweeping(q)')
      BY <1>1, <2>1, <2>4
    <2>8. capCount' \in CapIds /\ capCount' >= capCount
      BY <1>0, <2>1
    <2> QED BY <2>1, <2>5, <2>6, <2>7, <2>8, BookAside
  <1>2. ASSUME NEW h \in Handlers, InsertCap(h) PROVE BookInv'
    <2>0. PICK choice \in CapChoices : caps' = [caps EXCEPT ![capCount + 1] = FreshCap(choice)]
      BY <1>2 DEF InsertCap
    <2>1. /\ UNCHANGED <<rows, holds, stock, req, row, cap, undo, next, queue>>
          /\ pc[h] = "insert_cap" /\ pc'[h] = "idle" /\ h \in Processes
          /\ capCount' = capCount + 1 /\ capCount + 1 \in CapIds
          /\ \A q \in Processes : q # h => pc'[q] = pc[q]
      BY <1>0, <1>2, LedgerAssumption DEF InsertCap, envVars, Goto, ProcTyped, Processes, CapIds
    <2>2. "set_cap" \in Ops /\ undo[h] = <<>>
      BY <2>1, HandParts DEF HandOf, Carrying, Settling, SettlePC
    <2>3. \A c \in CapIds : caps'[c] = IF c = capCount + 1 THEN FreshCap(choice) ELSE caps[c]
      BY <1>0, <2>0, <2>1 DEF LedgerTypeOK
    <2>4. /\ caps[capCount + 1].spent = 0 /\ FreshCap(choice).spent = 0
          /\ FreshCap(choice).limit \in Nat
      BY <1>0, <2>1, GateAssumption DEF AbsentCap, FreshCap
    <2>5. \A c \in CapIds : caps'[c].spent = caps[c].spent /\ caps'[c].limit >= caps[c].spent
      BY <1>0, <2>3, <2>4
    <2>6. \A c \in CapIds : c > capCount' => caps'[c] = AbsentCap
      BY <1>0, <2>1, <2>3
    <2>7. HandOf(h)' /\ ~Sweeping(h)' /\ ~Carrying(h)
      BY <2>1, <2>2 DEF HandOf, Whole, Carrying, Sweeping
    <2>8. \A q \in Processes : pc'[q] = pc[q] \/ (q \in Handlers /\ ~Carrying(q) /\ HandOf(q)' /\ ~Sweeping(q)')
      BY <1>2, <2>1, <2>7
    <2>9. capCount' \in CapIds /\ capCount' >= capCount
      BY <1>0, <2>1
    <2> QED BY <2>1, <2>2, <2>5, <2>6, <2>8, <2>9, BookAside
  <1>3. CASE Lapse \/ ToggleShadow \/ ToggleAgent
    <2>1. /\ UNCHANGED <<rows, holds, stock, req, row, cap, undo, next, queue, capCount, pc>>
          /\ caps' = caps \/ caps' = [caps EXCEPT ![capCount].open = FALSE]
      BY <1>3 DEF Lapse, ToggleShadow, ToggleAgent, ledgerVars, procVars
    <2>2. \A c \in CapIds : /\ caps'[c].spent = caps[c].spent /\ caps'[c].limit = caps[c].limit
                            /\ c # capCount => caps'[c] = caps[c]
      <3> SUFFICES ASSUME NEW c \in CapIds
                   PROVE  /\ caps'[c].spent = caps[c].spent /\ caps'[c].limit = caps[c].limit
                          /\ c # capCount => caps'[c] = caps[c]
        OBVIOUS
      <3>1. caps'[c] = caps[c] \/ (c = capCount /\ caps'[c] = [caps[c] EXCEPT !.open = FALSE])
        BY <1>0, <2>1 DEF LedgerTypeOK
      <3> QED BY <1>0, <3>1 DEF Cap
    <2>5. \A c \in CapIds : caps'[c].spent = caps[c].spent /\ caps'[c].limit >= caps[c].spent
      BY <1>0, <2>2
    <2>6. \A c \in CapIds : c > capCount' => caps'[c] = AbsentCap
      BY <1>0, <2>1, <2>2
    <2>7. \A q \in Processes : pc'[q] = pc[q]
      BY <2>1
    <2>8. capCount' \in CapIds /\ capCount' >= capCount
      BY <1>0, <2>1
    <2> QED BY <2>1, <2>5, <2>6, <2>7, <2>8, BookAside
  <1> QED BY <1>1, <1>2, <1>3

-----------------------------------------------------------------------------
LEMMA BookInit == Init => BookInv
PROOF
  <1> SUFFICES ASSUME Init PROVE BookInv
    OBVIOUS
  <1>0. /\ \A r \in Rows, x \in Resource : holds[r][x] = 0
        /\ \A q \in Processes : pc[q] \in {"start", "idle"} /\ undo[q] = <<>> /\ cap[q] = 1
        /\ \A q \in Rows : pc[q] = "start"
        /\ \A r \in Rows : rows[r].status = "none" /\ rows[r].escalation = "none"
        /\ \A h \in Handlers : queue[h] = {} /\ pc[h] = "idle"
        /\ capCount = 1 /\ stock = InitStock
    BY GateAssumption DEF Init, Processes
  <1>1. \A c \in CapIds : /\ caps[c].spent = 0 /\ caps[c].limit \in Nat
                          /\ c > capCount => caps[c] = AbsentCap
    BY <1>0, GateAssumption DEF Init, CapIds, FreshCap, AbsentCap
  <1>2. Booked
    <2>0. IsFiniteSet(Rows) /\ IsFiniteSet({})
      BY LedgerAssumption, FS_EmptySet
    <2>1. ASSUME NEW g, \A r \in Rows : g[r] = 0 PROVE Total(g, Rows) = 0
      <3>1. \A r \in Rows : g[r] \in Nat
        BY <2>1
      <3>2. Total(g, Rows) = Total(g, {})
        BY <2>0, <2>1, <3>1, TotalWithin
      <3> QED BY <3>2, TotalEmpty
    <2>2. ASSUME NEW c \in CapIds PROVE Total(OnCap(c), Rows) = 0
      <3>1. \A r \in Rows : OnCap(c)[r] = 0
        BY <1>0 DEF OnCap, Resource
      <3> QED BY <2>1, <3>1
    <2>3. ASSUME NEW v \in Variants PROVE Total(OfVariant(v), Rows) = 0
      <3>1. \A r \in Rows : OfVariant(v)[r] = 0
        BY <1>0 DEF OfVariant, Resource
      <3> QED BY <2>1, <3>1
    <2>4. \A v \in Variants : InitStock[v] \in Nat
      BY LedgerAssumption
    <2> QED BY <1>0, <1>1, <2>2, <2>3, <2>4 DEF Booked
  <1>3. CapsInv
    BY <1>0, <1>1 DEF CapsInv
  <1>4. \A q \in Processes : HandOf(q)
    BY <1>0 DEF HandOf, Carrying, Whole
  <1>5. \A r \in Rows : RestOf(r)
    BY <1>0 DEF RestOf, Empty
  <1>6. SweepInv
    BY <1>0 DEF SweepInv, Swept, Sweeping
  <1> QED BY <1>2, <1>3, <1>4, <1>5, <1>6 DEF BookInv

LEMMA BookNext ==
  ASSUME ReleasedOnce
  PROVE  TypeInv /\ WorkInv /\ BookInv /\ [Next]_vars => BookInv'
PROOF
  <1> SUFFICES ASSUME TypeInv, WorkInv, BookInv, [Next]_vars PROVE BookInv'
    OBVIOUS
  <1>1. ASSUME NEW p \in Processes, Settle(p) PROVE BookInv'
    BY <1>1, BookExecution, BookSettled, BookReleaseShort, BookGiveBack, BookStops DEF Settle
  <1>2. ASSUME NEW r \in Rows, AttemptStep(r) PROVE BookInv'
    BY <1>1, <1>2, BookBegin, BookReadCap, BookReserveBudget, BookReserveStock, BookInsert
    DEF AttemptStep, Processes
  <1>3. ASSUME NEW h \in Handlers, HandlerStep(h) \/ HandlerCall(h) PROVE BookInv'
    BY <1>1, <1>3, BookReleaseClaimed, BookCaps, BookClaimExpired, BookResolve
    DEF HandlerStep, HandlerCall, Processes
  <1>4. CASE Failure
    BY <1>4, BookExecution, BookStops DEF Failure, Processes
  <1>5. CASE UNCHANGED vars
    <2>1. /\ UNCHANGED <<ledgerVars, rows, req, row, cap, undo, next, queue, pc>>
          /\ \A r \in Rows : pc'[r] = pc[r]
      BY <1>5 DEF vars, procVars
    <2>2. \A c \in CapIds : /\ caps'[c].spent = caps[c].spent /\ caps'[c].limit >= caps[c].spent
                            /\ c > capCount' => caps'[c] = AbsentCap
      BY <2>1, TypeGroups DEF BookInv, CapsInv, TypeInv, LedgerTypeOK, Cap, ledgerVars
    <2>3. capCount' \in CapIds /\ capCount' >= capCount /\ capCount' = capCount
      BY <2>1, TypeGroups DEF TypeInv, LedgerTypeOK, ledgerVars, CapIds
    <2> QED BY <2>1, <2>2, <2>3, BookAside DEF ledgerVars
  <1> QED BY <1>2, <1>3, <1>4, <1>5, BookCaps DEF Next

-----------------------------------------------------------------------------
(* What is live is fully reserved, unless a process died while it was giving *)
(* something back.                                                           *)

LiveStatus == {"allowed", "pending_escalation", "executed"}
Releasing  == {"release_short", "fail_short", "give_back", "fail_row"}
NothingTorn == "throw" \notin Ops /\ ~(Died /\ Undone)

\* Other rows are as live as they were, and hold what they held.
LEMMA LiveStep ==
  ASSUME LiveInv, NEW p \in Processes, NEW s \in Rows, req' = req,
         \A q \in Processes : q # p => pc'[q] = pc[q] /\ row'[q] = row[q],
         pc[p] \in Releasing => row[p] = s,
         \A o \in Rows : o # s =>
           /\ rows'[o].status = rows[o].status \/ rows'[o].status \notin LiveStatus
           /\ \A x \in Resource : holds'[o][x] = holds[o][x],
         Live(s)' => Full(s)'
  PROVE  LiveInv'
PROOF
  <1> SUFFICES ASSUME NEW o \in Rows, o # s, Live(o)' PROVE Full(o)'
    BY DEF LiveInv
  <1>1. rows[o].status \in LiveStatus
    BY DEF Live, LiveStatus
  <1>2. ~BeingReleased(o)
    <2> SUFFICES ASSUME NEW q \in Processes, row[q] = o, pc[q] \in Releasing PROVE FALSE
      BY DEF BeingReleased, Releasing
    <2>1. q # p
      OBVIOUS
    <2>2. row'[q] = o /\ pc'[q] \in Releasing
      BY <2>1
    <2> QED BY <2>2 DEF Live, BeingReleased, Releasing
  <1>3. Full(o)
    BY <1>1, <1>2 DEF LiveInv, Live, LiveStatus
  <1> QED BY <1>3 DEF Full, GrantsOfRow

\* A process that gives a row back, before and after: the row is not live.
LEMMA ReleasingDead ==
  ASSUME NEW p \in Processes, NEW s
  PROVE  /\ row[p] = s /\ pc[p] \in Releasing => ~Live(s)
         /\ row'[p] = s /\ pc'[p] \in Releasing => ~Live(s)'
  BY DEF Live, BeingReleased, Releasing

LEMMA LiveSettle ==
  ASSUME TypeInv, WorkInv, BookInv, LiveInv, NEW p \in Processes,
         Settle(p) \/ ExecutionThrows(p)
  PROVE  LiveInv'
PROOF
  <1>0. /\ ProcTyped /\ RowsTyped /\ row[p] \in Rows /\ UNCHANGED <<req, row>>
        /\ \A q \in Processes : q # p => pc'[q] = pc[q] /\ row'[q] = row[q]
        /\ (p \in Rows => row[p] = p) /\ next[p] \in NextOf(p) /\ RestOf(row[p]) /\ HandOf(p)
    BY TypeGroups, HandParts
    DEF TypeInv, ShapeOf, Settle, SumBalance, ReleaseShort, SettleCoins, CallRazorpay, CommitRow,
        markNegotiationRedeemed, GiveBack, FailRow, ExecutionThrows, Unwind, Goto, ProcTyped, envVars, BookInv
  <1> DEFINE s == row[p]
  <1>1. CASE SumBalance(p) \/ SettleCoins(p) \/ CallRazorpay(p) \/ CommitRow(p)
    <2>1. Full(s)
      BY <1>1, WholeIsFull DEF SumBalance, SettleCoins, CallRazorpay, CommitRow, Whole
    <2>2. UNCHANGED holds
      BY <1>1 DEF SumBalance, SettleCoins, CallRazorpay, CommitRow, ledgerVars
    <2>3. Full(s)'
      BY <1>0, <2>1, <2>2 DEF Full, GrantsOfRow
    <2>4. pc[p] \notin Releasing /\ \A o \in Rows : o # s => rows'[o].status = rows[o].status
      BY <1>0, <1>1 DEF SumBalance, SettleCoins, CallRazorpay, CommitRow, Releasing, RowsTyped
    <2> HIDE DEF s
    <2> QED BY <1>0, <2>2, <2>3, <2>4, LiveStep DEF s
  <1>2. CASE markNegotiationRedeemed(p)
    <2>1. UNCHANGED <<holds, rows>> /\ pc[p] \notin Releasing
      BY <1>2 DEF markNegotiationRedeemed, ledgerVars, Releasing
    <2>2. Live(s)' => Full(s)'
      <3> SUFFICES ASSUME Live(s)' PROVE Full(s)'
        OBVIOUS
      <3>1. rows[s].status \in LiveStatus
        BY <1>0, <2>1 DEF Live, LiveStatus
      <3>2. ~BeingReleased(s)
        <4> SUFFICES ASSUME NEW q \in Processes, row[q] = s, pc[q] \in Releasing PROVE FALSE
          BY DEF BeingReleased, Releasing
        <4>1. row'[q] = s /\ pc'[q] \in Releasing /\ s = row'[p]
          BY <1>0, <2>1
        <4> QED BY <1>0, <4>1 DEF Live, BeingReleased, Releasing
      <3>3. Full(s)
        BY <1>0, <3>1, <3>2 DEF LiveInv, Live, LiveStatus
      <3> QED BY <1>0, <2>1, <3>3 DEF Full, GrantsOfRow
    <2> HIDE DEF s
    <2> QED BY <1>0, <2>1, <2>2, LiveStep DEF s
  <1>3. CASE ReleaseShort(p) \/ GiveBack(p) \/ FailRow(p) \/ ExecutionThrows(p)
    <2>1. ~Live(s)'
      <3>1. CASE ReleaseShort(p) \/ ExecutionThrows(p)
        <4>1. pc'[p] \in Releasing /\ row'[p] = s
          BY <1>0, <3>1 DEF ReleaseShort, ExecutionThrows, Unwind, Goto, Releasing, ProcTyped
        <4> QED BY <1>0, <4>1, ReleasingDead
      <3>2. CASE FailRow(p)
        BY <1>0, <3>2 DEF FailRow, RowsTyped, Row, Live
      <3>3. CASE GiveBack(p)
        <4>1. pc[p] = "give_back" /\ pc'[p] \in {"give_back", next[p]} /\ UNCHANGED rows /\ next[p] # "idle"
          BY <1>0, <3>3 DEF GiveBack, Goto, ProcTyped, HandOf
        <4>2. CASE pc'[p] \in Releasing
          BY <1>0, <4>2, ReleasingDead
        <4>3. CASE pc'[p] \notin Releasing
          <5>1. pc'[p] = next[p] /\ next[p] # "fail_row"
            BY <4>1, <4>3 DEF Releasing
          <5>2. rows[s].status \in {"none", "failed"}
            <6>1. CASE p \in Rows
              BY <1>0, <4>1, <5>1, <6>1 DEF RestOf
            <6>2. CASE p \in Handlers
              <7>1. next[p] = "sweep"
                BY <1>0, <4>1, <5>1, <6>2, GateAssumption DEF NextOf
              <7>2. s \in Swept(p)
                BY <4>1, <7>1 DEF Swept, Sweeping
              <7> QED BY <6>2, <7>2 DEF BookInv, SweepInv
            <6> QED BY <6>1, <6>2 DEF Processes
          <5> QED BY <1>0, <4>1, <5>2 DEF Live
        <4> QED BY <4>2, <4>3
      <3> QED BY <1>3, <3>1, <3>2, <3>3
    <2>2. \A o \in Rows : o # s => /\ rows'[o].status = rows[o].status
                                   /\ \A x \in Resource : holds'[o][x] = holds[o][x]
      <3>1. CASE ReleaseShort(p) \/ GiveBack(p)
        <4>1. Release(s, cap[p], Head(undo[p])) /\ UNCHANGED rows
          BY <3>1 DEF ReleaseShort, GiveBack
        <4>2. holds' = [holds EXCEPT ![s][Head(undo[p]).of] = @ - Head(undo[p]).qty]
          BY <4>1 DEF Release, releaseBudget, releaseStock, Uncharge
        <4>3. holds \in [Rows -> [Resource -> Int]]
          BY TypeGroups DEF TypeInv, LedgerTypeOK
        <4> QED BY <4>1, <4>2, <4>3
      <3>2. CASE FailRow(p) \/ ExecutionThrows(p)
        BY <1>0, <3>2 DEF FailRow, ExecutionThrows, ledgerVars, RowsTyped
      <3> QED BY <1>3, <3>1, <3>2
    <2> HIDE DEF s
    <2> QED BY <1>0, <2>1, <2>2, LiveStep DEF s
  <1> QED BY <1>1, <1>2, <1>3 DEF Settle

LEMMA LiveAttempt ==
  ASSUME TypeInv, WorkInv, BookInv, LiveInv, NEW r \in Rows,
         Begin(r) \/ checkBounds(r) \/ ReadCap(r) \/ ReserveBudget(r) \/ ReserveStock(r)
           \/ InsertOrReplay(r) \/ Replay(r) \/ InsertEscalation(r)
  PROVE  LiveInv'
PROOF
  <1>0. /\ ProcTyped /\ RowsTyped /\ LedgerTypeOK /\ r \in Processes /\ row[r] = r /\ RestOf(r)
        /\ UNCHANGED <<req, row>>
        /\ \A q \in Processes : q # r => pc'[q] = pc[q]
    BY TypeGroups, HandParts
    DEF TypeInv, ShapeOf, Processes, BookInv, Begin, checkBounds, ReadCap, ReserveBudget, ReserveStock,
        InsertOrReplay, Replay, InsertEscalation, Deny, Unwind, Goto, ProcTyped, envVars
  <1>1. pc[r] \notin Releasing
    BY DEF Begin, checkBounds, ReadCap, ReserveBudget, ReserveStock, InsertOrReplay, Replay,
           InsertEscalation, Releasing
  <1>2. \A o \in Rows : o # r => /\ rows'[o].status = rows[o].status
                                 /\ \A x \in Resource : holds'[o][x] = holds[o][x]
    <2>1. CASE ReserveBudget(r) \/ ReserveStock(r)
      <3>1. UNCHANGED rows
        BY <2>1 DEF ReserveBudget, ReserveStock
      <3>2. UNCHANGED holds \/ \E grant : Charge(r, grant)
        BY <2>1 DEF ReserveBudget, ReserveStock, reserveBudget, reserveStock, ledgerVars
      <3> QED BY <1>0, <3>1, <3>2 DEF Charge, LedgerTypeOK
    <2>2. CASE ~(ReserveBudget(r) \/ ReserveStock(r))
      BY <1>0, <2>2 DEF Begin, checkBounds, ReadCap, InsertOrReplay, Replay, InsertEscalation, ledgerVars, RowsTyped
    <2> QED BY <2>1, <2>2
  <1>3. Live(r)' => Full(r)'
    <2>1. CASE InsertOrReplay(r) \/ InsertEscalation(r)
      <3>1. Full(r)
        <4>1. Full(row[r])
          BY <1>0, <2>1, WholeIsFull DEF InsertOrReplay, InsertEscalation, Whole
        <4> QED BY <1>0, <4>1
      <3>2. UNCHANGED holds
        BY <2>1 DEF InsertOrReplay, InsertEscalation, ledgerVars
      <3> QED BY <1>0, <3>1, <3>2 DEF Full, GrantsOfRow
    <2>2. CASE ~(InsertOrReplay(r) \/ InsertEscalation(r))
      <3>1. rows[r].status = "none" /\ UNCHANGED rows
        BY <1>0, <2>2 DEF Begin, checkBounds, ReadCap, ReserveBudget, ReserveStock, Replay, WorkInv,
                         BeforeInsert, RestOf
      <3> QED BY <3>1 DEF Live
    <2> QED BY <2>1, <2>2
  <1> QED BY <1>0, <1>1, <1>2, <1>3, LiveStep

LEMMA LiveHandler ==
  ASSUME TypeInv, WorkInv, BookInv, LiveInv, NEW h \in Handlers,
         \/ ReleaseClaimed(h) \/ ClaimExpired(h) \/ InsertCap(h) \/ RevokeCaps(h)
         \/ \E r \in Rows : Approve(h, r) \/ Reject(h, r)
  PROVE  LiveInv'
PROOF
  <1>0. /\ ProcTyped /\ ReplyTyped /\ RowsTyped /\ h \in Processes /\ UNCHANGED <<req, holds>>
        /\ pc[h] \notin Releasing
        /\ \A q \in Processes : q # h => pc'[q] = pc[q] /\ row'[q] = row[q]
    BY TypeGroups
    DEF TypeInv, Processes, ReleaseClaimed, ClaimExpired, InsertCap, RevokeCaps, Approve, Reject,
        ClaimEscalation, Unwind, Goto, ProcTyped, envVars, ledgerVars, Releasing
  <1>1. ASSUME NEW r \in Rows,
               \A o \in Rows : rows'[o].status = rows[o].status \/ rows'[o].status \notin LiveStatus
        PROVE  LiveInv'
    <2>1. Live(r)' => Full(r)'
      <3> SUFFICES ASSUME Live(r)' PROVE Full(r)'
        OBVIOUS
      <3>1. rows[r].status \in LiveStatus
        BY <1>1 DEF Live, LiveStatus
      <3>2. ~BeingReleased(r)
        <4> SUFFICES ASSUME NEW q \in Processes, row[q] = r, pc[q] \in Releasing PROVE FALSE
          BY DEF BeingReleased, Releasing
        <4>1. row'[q] = r /\ pc'[q] \in Releasing
          BY <1>0
        <4> QED BY <4>1 DEF Live, BeingReleased, Releasing
      <3>3. Full(r)
        BY <3>1, <3>2 DEF LiveInv, Live, LiveStatus
      <3> QED BY <1>0, <3>3 DEF Full, GrantsOfRow
    <2> QED BY <1>0, <1>1, <2>1, LiveStep
  <1>2. \A o \in Rows : rows'[o].status = rows[o].status \/ rows'[o].status \notin LiveStatus
    <2>1. CASE ClaimExpired(h)
      <3>1. PICK claimed \in SUBSET {r \in Rows : Expired(r)} :
              rows' = [r \in Rows |-> IF r \in claimed
                                      THEN [rows[r] EXCEPT !.status = "failed", !.armed = FALSE]
                                      ELSE rows[r]]
        BY <2>1 DEF ClaimExpired
      <3> QED BY <1>0, <3>1 DEF RowsTyped, Row, LiveStatus
    <2>2. CASE ReleaseClaimed(h) \/ InsertCap(h) \/ RevokeCaps(h)
      BY <2>2 DEF ReleaseClaimed, InsertCap, RevokeCaps
    <2>3. CASE \E r \in Rows : Approve(h, r) \/ Reject(h, r)
      BY <1>0, <2>3 DEF Approve, Reject, ClaimEscalation, RowsTyped, Row
    <2> QED BY <2>1, <2>2, <2>3
  <1> QED BY <1>1, <1>2, GateAssumption

\* A process dies: where nothing is ever undone it was not giving anything back.
LEMMA LiveDeath ==
  ASSUME TypeInv, WorkInv, BookInv, LiveInv, NothingTorn, NEW p \in Processes,
         \/ p \in Rows /\ Crash(p)
         \/ p \in Handlers /\ HandlerCrash(p)
  PROVE  LiveInv'
PROOF
  <1>0. /\ ProcTyped /\ row[p] \in Rows /\ UNCHANGED <<req, row, rows, holds>>
        /\ \A q \in Processes : q # p => pc'[q] = pc[q] /\ row'[q] = row[q]
        /\ (p \in Rows => row[p] = p) /\ next[p] \in NextOf(p) /\ RestOf(row[p]) /\ HandOf(p)
    BY TypeGroups, HandParts
    DEF TypeInv, ShapeOf, Crash, HandlerCrash, Goto, ProcTyped, envVars, ledgerVars, BookInv
  <1> DEFINE s == row[p]
  <1>1. Steady /\ "reject" \notin Ops /\ \A r \in Rows : req[r].kind # "redeem"
    <2>1. Ops \cap {"decline", "lost_reply", "reject"} = {} /\ \A q \in Requests : q.kind # "redeem"
      BY DEF NothingTorn, Died, Undone, Crash, HandlerCrash
    <2> QED BY <2>1, TypeGroups DEF Steady, NothingTorn, TypeInv, EnvTyped
  <1>2. pc[p] \in Releasing => rows[s].status \in {"none", "failed"}
    <2> SUFFICES ASSUME pc[p] \in Releasing PROVE rows[s].status \in {"none", "failed"}
      OBVIOUS
    <2>1. pc[p] = "give_back" /\ next[p] # "fail_row" /\ next[p] # "idle"
      BY <1>0, <1>1 DEF HandOf, Releasing
    <2>2. CASE p \in Rows
      BY <1>0, <2>1, <2>2 DEF RestOf
    <2>3. CASE p \in Handlers
      <3>1. next[p] = "sweep"
        BY <1>0, <2>1, <2>3, GateAssumption DEF NextOf
      <3>2. s \in Swept(p)
        BY <2>1, <3>1 DEF Swept, Sweeping
      <3> QED BY <2>3, <3>2 DEF BookInv, SweepInv
    <2> QED BY <2>2, <2>3 DEF Processes
  <1>3. Live(s)' => Full(s)'
    <2> SUFFICES ASSUME Live(s)' PROVE Full(s)'
      OBVIOUS
    <2>1. rows[s].status \in LiveStatus /\ pc[p] \notin Releasing
      BY <1>0, <1>2 DEF Live, LiveStatus
    <2>2. ~BeingReleased(s)
      <3> SUFFICES ASSUME NEW q \in Processes, row[q] = s, pc[q] \in Releasing PROVE FALSE
        BY DEF BeingReleased, Releasing
      <3>1. row'[q] = s /\ pc'[q] \in Releasing /\ s = row'[p]
        BY <1>0, <2>1
      <3> QED BY <1>0, <3>1 DEF Live, BeingReleased, Releasing
    <2>3. Full(s)
      BY <1>0, <2>1, <2>2 DEF LiveInv, Live, LiveStatus
    <2> QED BY <1>0, <2>3 DEF Full, GrantsOfRow
  <1> HIDE DEF s
  <1> QED BY <1>0, <1>3, LiveStep DEF s

LEMMA LiveNext ==
  ASSUME NothingTorn
  PROVE  TypeInv /\ WorkInv /\ BookInv /\ LiveInv /\ [Next]_vars => LiveInv'
PROOF
  <1> SUFFICES ASSUME TypeInv, WorkInv, BookInv, LiveInv, [Next]_vars PROVE LiveInv'
    OBVIOUS
  <1>1. ASSUME NEW r \in Rows, AttemptStep(r) PROVE LiveInv'
    BY <1>1, LiveAttempt, LiveSettle DEF AttemptStep, Processes
  <1>2. ASSUME NEW h \in Handlers, HandlerStep(h) \/ HandlerCall(h) PROVE LiveInv'
    BY <1>2, LiveHandler, LiveSettle DEF HandlerStep, HandlerCall, Processes
  <1>3. CASE Failure
    BY <1>3, LiveSettle, LiveDeath DEF Failure, Processes, QueryThrows, HandlerThrows, NothingTorn
  <1>4. CASE Lapse \/ ToggleShadow \/ ToggleAgent \/ UNCHANGED vars
    <2>1. UNCHANGED <<rows, row, pc, req, holds>>
      BY <1>4 DEF Lapse, ToggleShadow, ToggleAgent, vars, procVars, ledgerVars
    <2> QED BY <2>1 DEF LiveInv, Live, BeingReleased, Full, GrantsOfRow
  <1> QED BY <1>1, <1>2, <1>3, <1>4 DEF Next

-----------------------------------------------------------------------------
(* What is failed, or never came to be, holds nothing.                       *)

LEMMA QueueNext == TypeInv /\ QueueInv /\ [Next]_vars => QueueInv'
PROOF
  <1> SUFFICES ASSUME TypeInv, QueueInv, [Next]_vars PROVE QueueInv'
    OBVIOUS
  <1>0. ProcTyped /\ ReplyTyped /\ Rows \cap Handlers = {} /\ Handlers \subseteq Processes
    BY TypeGroups, GateAssumption DEF TypeInv, Processes
  <1>1. ASSUME NEW h \in Handlers, Settle(h) \/ ExecutionThrows(h) \/ ReleaseClaimed(h) \/ InsertCap(h)
                 \/ HandlerThrows(h) \/ HandlerCrash(h) \/ ClaimExpired(h) \/ RevokeCaps(h)
                 \/ \E r \in Rows : Approve(h, r) \/ Reject(h, r)
        PROVE  QueueInv'
    <2>1. \A g \in Handlers : g # h => pc'[g] = pc[g] /\ next'[g] = next[g] /\ queue'[g] = queue[g]
      BY <1>0, <1>1 DEF Settle, SumBalance, ReleaseShort, SettleCoins, CallRazorpay, CommitRow,
         markNegotiationRedeemed, GiveBack, FailRow, ExecutionThrows, ReleaseClaimed, InsertCap,
         HandlerThrows, HandlerCrash, ClaimExpired, RevokeCaps, Approve, Reject, ClaimEscalation,
         Unwind, Goto, ProcTyped, ReplyTyped
    <2>2. queue'[h] # {} => pc'[h] = "sweep" \/ (pc'[h] = "give_back" /\ next'[h] = "sweep")
      <3>1. CASE Settle(h) \/ ExecutionThrows(h)
        <4>1. queue' = queue
          BY <3>1 DEF Settle, SumBalance, ReleaseShort, SettleCoins, CallRazorpay, CommitRow,
             markNegotiationRedeemed, GiveBack, FailRow, ExecutionThrows
        <4>2. CASE GiveBack(h)
          BY <1>0, <4>1, <4>2 DEF GiveBack, Goto, ProcTyped, QueueInv, Sweeping
        <4>3. CASE ~GiveBack(h)
          <5>1. pc[h] # "sweep" /\ pc[h] # "give_back"
            BY <3>1, <4>3 DEF Settle, SumBalance, ReleaseShort, SettleCoins, CallRazorpay, CommitRow,
               markNegotiationRedeemed, FailRow, ExecutionThrows
          <5> QED BY <4>1, <5>1 DEF QueueInv, Sweeping
        <4> QED BY <4>2, <4>3
      <3>2. CASE ReleaseClaimed(h) \/ ClaimExpired(h)
        BY <1>0, <3>2 DEF ReleaseClaimed, ClaimExpired, Unwind, Goto, ProcTyped
      <3>3. CASE HandlerThrows(h) \/ HandlerCrash(h)
        BY <1>0, <3>3 DEF HandlerThrows, HandlerCrash, Goto, ProcTyped, ReplyTyped, QueueInv, Sweeping
      <3>4. CASE InsertCap(h) \/ RevokeCaps(h) \/ \E r \in Rows : Approve(h, r) \/ Reject(h, r)
        <4>1. queue' = queue /\ pc[h] \in {"idle", "insert_cap"}
          BY <3>4 DEF InsertCap, RevokeCaps, Approve, Reject, ClaimEscalation
        <4> QED BY <4>1 DEF QueueInv, Sweeping
      <3> QED BY <1>1, <3>1, <3>2, <3>3, <3>4
    <2> QED BY <2>1, <2>2 DEF QueueInv, Sweeping
  <1>2. ASSUME UNCHANGED queue, \A h \in Handlers : pc'[h] = pc[h] /\ next'[h] = next[h]
        PROVE  QueueInv'
    BY <1>2 DEF QueueInv, Sweeping
  <1>3. ASSUME NEW r \in Rows, AttemptStep(r) \/ ExecutionThrows(r) \/ QueryThrows(r) \/ Crash(r)
        PROVE  QueueInv'
    <2>1. UNCHANGED queue /\ \A h \in Handlers : pc'[h] = pc[h] /\ next'[h] = next[h]
      BY <1>0, <1>3 DEF AttemptStep, Begin, checkBounds, ReadCap, ReserveBudget, ReserveStock, InsertOrReplay,
         Replay, InsertEscalation, Deny, Settle, SumBalance, ReleaseShort, SettleCoins, CallRazorpay,
         CommitRow, markNegotiationRedeemed, GiveBack, FailRow, ExecutionThrows, QueryThrows, Crash,
         Unwind, Goto, ProcTyped
    <2> QED BY <1>2, <2>1
  <1>4. CASE Lapse \/ ToggleShadow \/ ToggleAgent \/ UNCHANGED vars
    BY <1>2, <1>4 DEF Lapse, ToggleShadow, ToggleAgent, vars, procVars
  <1> QED BY <1>1, <1>3, <1>4 DEF Next, Failure, HandlerStep, HandlerCall, Processes

\* Nothing that bears on it changes.
LEMMA VacantSame ==
  ASSUME NEW st, Vacated(st), UNCHANGED <<undo, row, rows, holds, queue>>
  PROVE  Vacated(st)'
  BY DEF Vacated, InSomeHand, Carrying, Empty

\* p works on row s, and no other row leaves anyone's hand.
LEMMA VacantStep ==
  ASSUME NEW st, Vacated(st), NEW p \in Processes, NEW s \in Rows,
         \A q \in Processes : q # p => undo'[q] = undo[q] /\ row'[q] = row[q],
         Carrying(p) => row[p] = s,
         \A o \in Rows : o # s =>
           /\ rows'[o].status = rows[o].status
           /\ \A x \in Resource : holds'[o][x] = holds[o][x]
           /\ \A h \in Handlers : o \in queue[h] => o \in queue'[h],
         rows'[s].status = st /\ ~InSomeHand(s)' => Empty(s)'
  PROVE  Vacated(st)'
PROOF
  <1> SUFFICES ASSUME NEW o \in Rows, o # s, rows'[o].status = st, ~InSomeHand(o)' PROVE Empty(o)'
    BY DEF Vacated
  <1>1. ~InSomeHand(o)
    <2>1. ASSUME NEW q \in Processes, Carrying(q), row[q] = o PROVE FALSE
      <3>1. q # p
        BY <2>1
      <3>2. Carrying(q)' /\ row'[q] = o
        BY <2>1, <3>1 DEF Carrying
      <3> QED BY <3>2 DEF InSomeHand
    <2>2. ASSUME NEW h \in Handlers, o \in queue[h] PROVE FALSE
      BY <2>2 DEF InSomeHand
    <2> QED BY <2>1, <2>2 DEF InSomeHand
  <1>2. Empty(o)
    BY <1>1 DEF Vacated
  <1> QED BY <1>2 DEF Empty

\* What p has in hand is in a hand.
LEMMA CarriedInHand ==
  ASSUME NEW p \in Processes, NEW s
  PROVE  /\ Carrying(p) /\ row[p] = s => InSomeHand(s)
         /\ Carrying(p)' /\ row'[p] = s => InSomeHand(s)'
  BY DEF InSomeHand

\* A redemption that is short has only its budget to give back.
LEMMA ShortIsEmpty ==
  ASSUME TypeInv, BookInv, RedeemsCoinsAlone, NEW p \in Processes, pc[p] = "fail_short"
  PROVE  Empty(row[p])
PROOF
  <1>1. /\ HandOf(p) /\ Carrying(p) /\ undo[p] = GrantsOfRow(row[p]) /\ row[p] \in Rows
        /\ p \in Rows /\ req[p].kind = "redeem" /\ row[p] = p
    BY HandParts DEF HandOf, Whole, Holding, ShapeOf
  <1>2. req[p].lines = <<>>
    BY <1>1, TypeGroups DEF RedeemsCoinsAlone, TypeInv, EnvTyped
  <1>3. undo[p] \in Seq(Grant) /\ undo[p] # <<>> /\ Len(undo[p]) = 1
    <2>1. undo[p] \in Seq(Grant) /\ Len(undo[p]) = 1 + Len(req[p].lines)
      BY <1>1, RowGrants
    <2>2. Len(req[p].lines) = 0
      BY <1>2
    <2> QED BY <1>1, <2>1, <2>2 DEF Carrying
  <1>4. Tail(undo[p]) = <<>>
    <2>1. Len(Tail(undo[p])) = 0 /\ Tail(undo[p]) \in Seq(Grant)
      BY <1>3, HeadTailProperties
    <2> QED BY <2>1, EmptySeq
  <1>5. ASSUME NEW x \in Resource PROVE holds[p][x] = 0
    <2>1. Worth(undo[p], x) = Part(Head(undo[p]), x) + 0
      BY <1>3, <1>4, WorthTail, WorthEmpty
    <2>2. Part(Head(undo[p]), x) \in Nat
      BY <1>3, HeadTyped DEF Part, Grant
    <2>3. holds[p][x] = Worth(undo[p], x) - Part(Head(undo[p]), x)
      BY <1>1 DEF HandOf, InHand
    <2> QED BY <2>1, <2>2, <2>3
  <1> QED BY <1>1, <1>5 DEF Empty

LEMMA VacantSettle ==
  ASSUME TypeInv, WorkInv, BookInv, ReleasedInFull, NEW st \in {"failed", "none"}, Vacated(st),
         NEW p \in Processes, Settle(p)
  PROVE  Vacated(st)'
PROOF
  <1>0. /\ ProcTyped /\ RowsTyped /\ row[p] \in Rows /\ UNCHANGED <<req, row, queue>>
        /\ \A q \in Processes : q # p => undo'[q] = undo[q] /\ row'[q] = row[q]
        /\ HandOf(p) /\ undo[p] \in Seq(Grant)
    BY TypeGroups, HandParts
    DEF TypeInv, Settle, SumBalance, ReleaseShort, SettleCoins, CallRazorpay, CommitRow,
        markNegotiationRedeemed, GiveBack, FailRow, Unwind, ProcTyped, envVars
  <1>1. CASE markNegotiationRedeemed(p)
    BY <1>1, VacantSame DEF markNegotiationRedeemed, ledgerVars
  <1> DEFINE s == row[p]
  <1>2. CASE ~markNegotiationRedeemed(p)
    <2>1. \A o \in Rows : o # s => /\ rows'[o].status = rows[o].status
                                   /\ \A x \in Resource : holds'[o][x] = holds[o][x]
      <3>1. CASE ReleaseShort(p) \/ GiveBack(p)
        <4>1. Release(s, cap[p], Head(undo[p])) /\ UNCHANGED rows
          BY <3>1 DEF ReleaseShort, GiveBack
        <4>2. holds' = [holds EXCEPT ![s][Head(undo[p]).of] = @ - Head(undo[p]).qty]
          BY <4>1 DEF Release, releaseBudget, releaseStock, Uncharge
        <4>3. holds \in [Rows -> [Resource -> Int]]
          BY TypeGroups DEF TypeInv, LedgerTypeOK
        <4> QED BY <4>1, <4>2, <4>3
      <3>2. CASE SumBalance(p) \/ SettleCoins(p) \/ CallRazorpay(p) \/ CommitRow(p) \/ FailRow(p)
        BY <1>0, <3>2 DEF SumBalance, SettleCoins, CallRazorpay, CommitRow, FailRow, ledgerVars, RowsTyped
      <3> QED BY <1>2, <3>1, <3>2 DEF Settle
    <2>2. rows'[s].status = st /\ ~InSomeHand(s)' => Empty(s)'
      <3>1. CASE SumBalance(p) \/ SettleCoins(p) \/ CallRazorpay(p) \/ ReleaseShort(p)
        <4>1. Carrying(p)
          BY <3>1, HandParts DEF SumBalance, SettleCoins, CallRazorpay, ReleaseShort, Holding
        <4>2. undo'[p] = undo[p]
          BY <1>0, <3>1 DEF SumBalance, SettleCoins, CallRazorpay, ReleaseShort, Unwind, ProcTyped
        <4>3. Carrying(p)' /\ row'[p] = s
          BY <1>0, <4>1, <4>2 DEF Carrying
        <4> QED BY <4>3, CarriedInHand
      <3>2. CASE CommitRow(p)
        BY <1>0, <3>2 DEF CommitRow, RowsTyped, Row
      <3>3. CASE FailRow(p)
        <4>1. Empty(s)
          BY <1>0, <3>3, ShortIsEmpty DEF FailRow, HandOf, ReleasedInFull
        <4>2. holds'[s] = holds[s]
          BY <3>3 DEF FailRow, ledgerVars
        <4>3. \A x \in Resource : holds'[s][x] = 0
          BY <4>1, <4>2 DEF Empty
        <4>4. row' = row
          BY <1>0
        <4>5. Empty(s)'
          BY <4>3, <4>4 DEF Empty
        <4> QED BY <4>5
      <3>4. CASE GiveBack(p)
        <4>1. Carrying(p) /\ pc[p] # "fail_short"
          BY <3>4, HandParts DEF GiveBack, Holding
        <4>2. PICK rest \in Seq(Grant) : rest = Tail(undo[p])
          BY <1>0, <4>1, HeadTyped DEF Carrying
        <4>3. undo'[p] = rest /\ row'[p] = s
          BY <1>0, <3>4, <4>2 DEF GiveBack, ProcTyped
        <4>4. \A x \in Resource : holds'[s][x] = Worth(rest, x)
          BY <3>4, <4>1, <4>2, GivenBack DEF GiveBack
        <4>5. CASE rest = <<>>
          <5>1. \A x \in Resource : holds'[s][x] = 0
            BY <4>4, <4>5, WorthEmpty
          <5>2. row' = row
            BY <1>0
          <5>3. Empty(s)'
            BY <5>1, <5>2 DEF Empty
          <5> QED BY <5>3
        <4>6. CASE rest # <<>>
          <5>1. Carrying(p)'
            BY <4>3, <4>6 DEF Carrying
          <5> QED BY <4>3, <5>1, CarriedInHand
        <4> QED BY <4>5, <4>6
      <3> QED BY <1>2, <3>1, <3>2, <3>3, <3>4 DEF Settle
    <2> HIDE DEF s
    <2> QED BY <1>0, <2>1, <2>2, VacantStep DEF s
  <1> QED BY <1>1, <1>2

LEMMA VacantAttempt ==
  ASSUME TypeInv, WorkInv, BookInv, NEW st \in {"failed", "none"}, Vacated(st), NEW r \in Rows,
         Begin(r) \/ checkBounds(r) \/ ReadCap(r) \/ ReserveBudget(r) \/ ReserveStock(r)
           \/ InsertOrReplay(r) \/ Replay(r) \/ InsertEscalation(r)
  PROVE  Vacated(st)'
PROOF
  <1>0. /\ ProcTyped /\ RowsTyped /\ LedgerTypeOK /\ r \in Processes /\ row[r] = r
        /\ UNCHANGED <<req, row, queue>> /\ undo[r] \in Seq(Grant)
        /\ \A q \in Processes : q # r => undo'[q] = undo[q] /\ row'[q] = row[q]
    BY TypeGroups, HandParts
    DEF TypeInv, ShapeOf, Processes, Begin, checkBounds, ReadCap, ReserveBudget, ReserveStock,
        InsertOrReplay, Replay, InsertEscalation, Unwind, ProcTyped, envVars
  <1>1. CASE UNCHANGED <<undo, rows, holds>>
    BY <1>0, <1>1, VacantSame
  <1>2. ASSUME \A o \in Rows : o # r => rows'[o] = rows[o] /\ \A x \in Resource : holds'[o][x] = holds[o][x],
               Carrying(r)' \/ rows'[r].status = "pending_escalation"
        PROVE  Vacated(st)'
    <2>1. rows'[r].status = st /\ ~InSomeHand(r)' => Empty(r)'
      BY <1>0, <1>2, CarriedInHand
    <2> QED BY <1>0, <1>2, <2>1, VacantStep
  <1>3. CASE Begin(r) \/ checkBounds(r) \/ ReadCap(r) \/ Replay(r)
    BY <1>1, <1>3 DEF Begin, checkBounds, ReadCap, Replay, ledgerVars
  <1>4. CASE ReserveBudget(r)
    <2>1. CASE UNCHANGED <<ledgerVars, undo>>
      BY <1>1, <1>4, <2>1 DEF ReserveBudget, ledgerVars
    <2>2. CASE /\ reserveBudget(r, cap[r], Head(GrantsOfRow(r)))
               /\ undo' = [undo EXCEPT ![r] = <<Head(GrantsOfRow(r))>>]
      <3>1. Carrying(r)'
        BY <1>0, <2>2 DEF Carrying, ProcTyped
      <3> QED BY <1>0, <1>2, <1>4, <2>2, <3>1 DEF ReserveBudget, reserveBudget, Charge, LedgerTypeOK
    <2> QED BY <1>4, <2>1, <2>2 DEF ReserveBudget
  <1>5. CASE ReserveStock(r)
    <2>0. undo[r] # <<>>
      <3>1. pc[r] \in Holding
        BY <1>5 DEF ReserveStock, Holding
      <3>2. Carrying(r)
        BY <1>0, <3>1, HandParts
      <3> QED BY <3>2 DEF Carrying
    <2>1. PICK line \in Line : line = req[r].lines[Len(undo[r])]
      <3>1. Len(undo[r]) \in 1 .. Len(req[r].lines)
        <4>1. Len(undo[r]) <= Len(req[r].lines)
          BY <1>0, <1>5, HandParts DEF ShapeOf, ReserveStock
        <4>2. Len(undo[r]) \in Nat \ {0} /\ Len(req[r].lines) \in Nat
          BY <1>0, <2>0, RowGrants, LenProperties, EmptySeq
        <4> QED BY <4>1, <4>2
      <3> QED BY <3>1, RowGrants
    <2>2. line \in Grant
      BY DEF Line, Grant, Resource
    <2>3. CASE reserveStock(r, line) /\ undo' = [undo EXCEPT ![r] = Append(undo[r], line)]
      <3>1. Append(undo[r], line) # <<>>
        BY <1>0, <2>2, AppendProperties
      <3>2. Carrying(r)'
        BY <1>0, <2>3, <3>1 DEF Carrying, ProcTyped
      <3> QED BY <1>0, <1>2, <1>5, <2>3, <3>2 DEF ReserveStock, reserveStock, Charge, LedgerTypeOK
    <2>4. CASE Unwind(r, Append(Tail(undo[r]), Head(undo[r])), "done") /\ UNCHANGED ledgerVars
      <3>1. Append(Tail(undo[r]), Head(undo[r])) # <<>>
        BY <1>0, <2>0, HeadTyped
      <3>2. Carrying(r)'
        BY <1>0, <2>4, <3>1 DEF Carrying, ProcTyped, Unwind
      <3> QED BY <1>0, <1>2, <1>5, <2>4, <3>2 DEF ReserveStock, ledgerVars
    <2> QED BY <1>5, <2>1, <2>3, <2>4 DEF ReserveStock
  <1>6. CASE InsertOrReplay(r)
    <2>1. undo[r] # <<>> /\ undo'[r] = undo[r]
      BY <1>0, <1>6, HandParts DEF InsertOrReplay, Holding, Carrying, Unwind, ProcTyped
    <2>2. Carrying(r)'
      BY <2>1 DEF Carrying
    <2> QED BY <1>0, <1>2, <1>6, <2>2 DEF InsertOrReplay, ledgerVars, RowsTyped
  <1>7. CASE InsertEscalation(r)
    <2>1. rows'[r].status = "pending_escalation"
      BY <1>0, <1>7 DEF InsertEscalation, WorkInv, RowsTyped, Row
    <2> QED BY <1>0, <1>2, <1>7, <2>1 DEF InsertEscalation, ledgerVars, RowsTyped
  <1> QED BY <1>3, <1>4, <1>5, <1>6, <1>7

LEMMA VacantHandler ==
  ASSUME TypeInv, WorkInv, BookInv, QueueInv, ReleasedInFull, NEW st \in {"failed", "none"}, Vacated(st),
         NEW h \in Handlers,
         \/ ReleaseClaimed(h) \/ ClaimExpired(h) \/ InsertCap(h) \/ RevokeCaps(h)
         \/ \E r \in Rows : Approve(h, r) \/ Reject(h, r)
  PROVE  Vacated(st)'
PROOF
  <1>0. /\ ProcTyped /\ ReplyTyped /\ RowsTyped /\ h \in Processes /\ UNCHANGED <<req, holds>>
        /\ pc[h] \in {"sweep", "idle", "insert_cap"}
        /\ \A q \in Processes : q # h => undo'[q] = undo[q] /\ row'[q] = row[q]
    BY TypeGroups
    DEF TypeInv, Processes, ReleaseClaimed, ClaimExpired, InsertCap, RevokeCaps, Approve, Reject,
        ClaimEscalation, Unwind, ProcTyped, envVars, ledgerVars
  <1>1. ~Carrying(h)
    BY <1>0, HandParts DEF Settling, SettlePC
  <1>2. CASE InsertCap(h) \/ RevokeCaps(h)
    BY <1>2, VacantSame DEF InsertCap, RevokeCaps
  <1>3. CASE ReleaseClaimed(h)
    <2>1. CASE UNCHANGED <<row, undo, queue>>
      BY <1>0, <1>3, <2>1, VacantSame DEF ReleaseClaimed
    <2>2. ASSUME NEW r \in queue[h], queue' = [queue EXCEPT ![h] = @ \ {r}], row' = [row EXCEPT ![h] = r],
                 Unwind(h, GrantsOfRow(r), "sweep")
          PROVE  Vacated(st)'
      <3>1. r \in Rows
        BY <1>0 DEF ReplyTyped
      <3>2. undo'[h] = GrantsOfRow(r) /\ row'[h] = r /\ GrantsOfRow(r) # <<>>
        BY <1>0, <2>2, <3>1, GrantsTyped DEF Unwind, ProcTyped
      <3>3. Carrying(h)'
        BY <3>2 DEF Carrying
      <3>4. InSomeHand(r)'
        BY <1>0, <3>2, <3>3, CarriedInHand
      <3>5. \A o \in Rows : o # r => \A g \in Handlers : o \in queue[g] => o \in queue'[g]
        BY <1>0, <2>2 DEF ReplyTyped
      <3>6. UNCHANGED rows
        BY <1>3 DEF ReleaseClaimed
      <3> QED BY <1>0, <1>1, <3>1, <3>4, <3>5, <3>6, VacantStep
    <2> QED BY <1>3, <2>1, <2>2 DEF ReleaseClaimed
  <1>4. ASSUME NEW r \in Rows, Approve(h, r) \/ Reject(h, r) PROVE Vacated(st)'
    <2>1. undo'[h] = GrantsOfRow(r) /\ row'[h] = r /\ GrantsOfRow(r) # <<>> /\ UNCHANGED queue
      BY <1>0, <1>4, GrantsTyped DEF Approve, Reject, ClaimEscalation, Unwind, ProcTyped
    <2>2. Carrying(h)'
      BY <2>1 DEF Carrying
    <2>3. InSomeHand(r)'
      BY <1>0, <2>1, <2>2, CarriedInHand
    <2>4. \A o \in Rows : o # r => rows'[o].status = rows[o].status
      BY <1>0, <1>4 DEF Approve, Reject, ClaimEscalation, RowsTyped
    <2> QED BY <1>0, <1>1, <2>1, <2>3, <2>4, VacantStep
  <1>5. CASE ClaimExpired(h)
    <2>1. PICK claimed \in SUBSET {r \in Rows : Expired(r)} :
            /\ rows' = [r \in Rows |-> IF r \in claimed
                                       THEN [rows[r] EXCEPT !.status = "failed", !.armed = FALSE]
                                       ELSE rows[r]]
            /\ \E first \in SUBSET claimed :
                 /\ IF Cardinality(claimed) <= SweepLimit
                    THEN first = claimed ELSE Cardinality(first) = SweepLimit
                 /\ queue' = [queue EXCEPT ![h] = first]
      BY <1>5 DEF ClaimExpired
    <2>2. Cardinality(claimed) <= SweepLimit
      <3>1. IsFiniteSet(Rows) /\ claimed \subseteq Rows
        BY LedgerAssumption
      <3>2. Cardinality(claimed) \in Nat /\ Cardinality(Rows) \in Nat /\ Cardinality(claimed) <= Cardinality(Rows)
        BY <3>1, FS_Subset, FS_CardinalityType
      <3>3. Cardinality(Rows) <= SweepLimit /\ SweepLimit \in Nat
        BY <1>5, GateAssumption DEF ClaimExpired, ReleasedInFull
      <3> QED BY <3>2, <3>3
    <2>3. /\ queue'[h] = claimed /\ \A g \in Handlers : g # h => queue'[g] = queue[g]
          /\ queue[h] = {} /\ UNCHANGED <<undo, row>>
      BY <1>0, <1>5, <2>1, <2>2 DEF ClaimExpired, ReplyTyped, QueueInv, Sweeping
    <2>4. \A r \in Rows : InSomeHand(r) => InSomeHand(r)'
      BY <2>3 DEF InSomeHand, Carrying
    <2>5. \A r \in claimed : InSomeHand(r)'
      BY <2>3 DEF InSomeHand
    <2>6. \A r \in Rows : r \notin claimed => rows'[r] = rows[r]
      BY <2>1
    <2>7. UNCHANGED holds
      BY <1>0
    <2> QED BY <2>4, <2>5, <2>6, <2>7 DEF Vacated, Empty
  <1> QED BY <1>2, <1>3, <1>4, <1>5

LEMMA VacantNext ==
  ASSUME ReleasedInFull, NEW st \in {"failed", "none"}, st = "none" => "crash" \notin Ops
  PROVE  TypeInv /\ WorkInv /\ BookInv /\ QueueInv /\ Vacated(st) /\ [Next]_vars => Vacated(st)'
PROOF
  <1> SUFFICES ASSUME TypeInv, WorkInv, BookInv, QueueInv, Vacated(st), [Next]_vars PROVE Vacated(st)'
    OBVIOUS
  <1>1. ASSUME NEW r \in Rows, AttemptStep(r) PROVE Vacated(st)'
    BY <1>1, VacantAttempt, VacantSettle DEF AttemptStep, Processes
  <1>2. ASSUME NEW h \in Handlers, HandlerStep(h) \/ HandlerCall(h) PROVE Vacated(st)'
    BY <1>2, VacantHandler, VacantSettle DEF HandlerStep, HandlerCall, Processes
  <1>3. ASSUME NEW r \in Rows, Crash(r) PROVE Vacated(st)'
    <2>0. /\ ProcTyped /\ r \in Processes /\ row[r] = r /\ UNCHANGED <<row, rows, holds, queue>>
          /\ \A q \in Processes : q # r => undo'[q] = undo[q]
      BY <1>3, TypeGroups, HandParts DEF TypeInv, ShapeOf, Processes, Crash, ProcTyped, ledgerVars
    <2>1. st = "failed"
      BY <1>3 DEF Crash
    <2>2. CASE Carrying(r)
      <3>1. Engaged(r)
        BY <2>2 DEF Engaged
      <3>2. rows[r].status # "failed"
        BY <2>0, <3>1, EngagedRow, GateAssumption
      <3> QED BY <2>0, <2>1, <3>2, VacantStep
    <2>3. CASE ~Carrying(r)
      <3>1. undo' = undo
        BY <1>3, <2>0, <2>3 DEF Crash, Carrying, ProcTyped
      <3> QED BY <2>0, <3>1, VacantSame
    <2> QED BY <2>2, <2>3
  <1>4. CASE Failure
    BY <1>3, <1>4 DEF Failure, ReleasedInFull, ExecutionThrows, QueryThrows, HandlerThrows, HandlerCrash
  <1>5. CASE Lapse \/ ToggleShadow \/ ToggleAgent \/ UNCHANGED vars
    BY <1>5, VacantSame DEF Lapse, ToggleShadow, ToggleAgent, vars, procVars, ledgerVars
  <1> QED BY <1>1, <1>2, <1>4, <1>5 DEF Next

-----------------------------------------------------------------------------
(* What the rows add up to.                                                  *)

LEMMA AmountTyped ==
  ASSUME TypeInv, NEW r \in Rows
  PROVE  Amounts[r] \in Int
PROOF
  <1>1. Amounts[r] = req[r].amount
    BY DEF Amounts
  <1>2. req[r].amount \in Nat \ {0}
    BY RowGrants
  <1> QED BY <1>1, <1>2

\* A full row holds its amount and its lines.
LEMMA FullRow ==
  ASSUME TypeInv, NEW r \in Rows, Full(r)
  PROVE  /\ holds[r][Budget] = Amounts[r]
         /\ \A v \in Variants : holds[r][v] = Units(v)[r]
PROOF
  <1>1. req[r].amount \in Nat /\ req[r].lines \in Seq(Line)
    BY GateAssumption DEF TypeInv, TypeOK, Request
  <1>2. \A x \in Resource : holds[r][x] = Worth(GrantsOf(req[r].amount, req[r].lines), x)
    BY DEF Full, GrantsOfRow
  <1>3. /\ Worth(GrantsOf(req[r].amount, req[r].lines), Budget) = req[r].amount
        /\ \A v \in Variants : Worth(GrantsOf(req[r].amount, req[r].lines), v) = Worth(req[r].lines, v)
    BY <1>1, LedgerAssumption, WorthOfRow
  <1> QED BY <1>2, <1>3 DEF Amounts, Units, Resource

\* Rows that hold what they asked for are covered by the books.
LEMMA FullWithinBooks ==
  ASSUME TypeInv, BookInv, NEW S, S \subseteq Rows, \A r \in S : Full(r)
  PROVE  /\ \A c \in CapIds : (\A r \in S : cap[r] = c) => Total(Amounts, S) <= caps[c].spent
         /\ \A v \in Variants : Total(Units(v), S) <= InitStock[v] - stock[v]
PROOF
  <1>0. Booked /\ IsFiniteSet(Rows) /\ IsFiniteSet(S)
    BY LedgerAssumption, FS_Subset DEF BookInv
  <1>1. ASSUME NEW c \in CapIds, \A r \in S : cap[r] = c
        PROVE  Total(Amounts, S) <= caps[c].spent
    <2>1. \A r \in S : Amounts[r] = OnCap(c)[r]
      BY <1>1, FullRow DEF OnCap
    <2>2. Total(Amounts, S) = Total(OnCap(c), S)
      BY <1>0, <2>1, TotalSame
    <2>3. \A r \in Rows : OnCap(c)[r] \in Nat
      BY <1>0, SumsTyped
    <2>4. Total(OnCap(c), S) <= Total(OnCap(c), Rows)
      BY <1>0, <2>3, TotalPart
    <2>5. caps[c].spent = Total(OnCap(c), Rows)
      BY <1>0 DEF Booked
    <2> QED BY <2>2, <2>4, <2>5
  <1>2. ASSUME NEW v \in Variants PROVE Total(Units(v), S) <= InitStock[v] - stock[v]
    <2>1. \A r \in S : Units(v)[r] = OfVariant(v)[r]
      BY FullRow DEF OfVariant
    <2>2. Total(Units(v), S) = Total(OfVariant(v), S)
      BY <1>0, <2>1, TotalSame
    <2>3. \A r \in Rows : OfVariant(v)[r] \in Nat
      BY <1>0, SumsTyped
    <2>4. Total(OfVariant(v), S) <= Total(OfVariant(v), Rows)
      BY <1>0, <2>3, TotalPart
    <2>5. stock[v] = InitStock[v] - Total(OfVariant(v), Rows)
      BY <1>0 DEF Booked
    <2>6. Total(OfVariant(v), Rows) \in Nat /\ InitStock[v] \in Nat
      BY <1>0, <2>3, TotalNat, LedgerAssumption
    <2> QED BY <2>2, <2>4, <2>5, <2>6
  <1> QED BY <1>1, <1>2

\* If every other row holds nothing, these rows are all there is on the books.
LEMMA FullIsBooks ==
  ASSUME TypeInv, BookInv, NEW S, S \subseteq Rows, \A r \in S : Full(r),
         \A r \in Rows : r \notin S => Empty(r)
  PROVE  /\ \A c \in CapIds : caps[c].spent = Total(Amounts, {r \in S : cap[r] = c})
         /\ \A v \in Variants : stock[v] = InitStock[v] - Total(Units(v), S)
PROOF
  <1>0. Booked /\ IsFiniteSet(Rows) /\ IsFiniteSet(S)
    BY LedgerAssumption, FS_Subset DEF BookInv
  <1>1. ASSUME NEW c \in CapIds PROVE caps[c].spent = Total(Amounts, {r \in S : cap[r] = c})
    <2> DEFINE T == {r \in S : cap[r] = c}
    <2>0. T \subseteq Rows /\ IsFiniteSet(T)
      BY <1>0, FS_Subset
    <2>1. \A r \in T : Amounts[r] = OnCap(c)[r]
      BY FullRow DEF OnCap
    <2>2. \A r \in Rows : r \notin T => OnCap(c)[r] = 0
      BY DEF OnCap, Empty, Resource
    <2>3. \A r \in Rows : OnCap(c)[r] \in Nat
      BY <1>0, SumsTyped
    <2>4. caps[c].spent = Total(OnCap(c), Rows)
      BY <1>0 DEF Booked
    <2> HIDE DEF T
    <2>5. Total(OnCap(c), Rows) = Total(OnCap(c), T)
      BY <1>0, <2>0, <2>2, <2>3, TotalWithin
    <2>6. Total(Amounts, T) = Total(OnCap(c), T)
      BY <2>0, <2>1, TotalSame
    <2>7. caps[c].spent = Total(Amounts, T)
      BY <2>4, <2>5, <2>6
    <2> QED BY <2>7 DEF T
  <1>2. ASSUME NEW v \in Variants PROVE stock[v] = InitStock[v] - Total(Units(v), S)
    <2>1. \A r \in S : Units(v)[r] = OfVariant(v)[r]
      BY FullRow DEF OfVariant
    <2>2. \A r \in Rows : r \notin S => OfVariant(v)[r] = 0
      BY DEF OfVariant, Empty, Resource
    <2>3. \A r \in Rows : OfVariant(v)[r] \in Nat
      BY <1>0, SumsTyped
    <2>4. Total(OfVariant(v), Rows) = Total(OfVariant(v), S)
      BY <1>0, <2>2, <2>3, TotalWithin
    <2>5. Total(Units(v), S) = Total(OfVariant(v), S)
      BY <1>0, <2>1, TotalSame
    <2> QED BY <1>0, <2>4, <2>5 DEF Booked
  <1> QED BY <1>1, <1>2

LEMMA Balanced ==
  ASSUME ReleasedOnce
  PROVE  Spec => [](TypeInv /\ WorkInv /\ BookInv)
PROOF
  <1>1. Punctual
    BY DEF ReleasedOnce, Punctual
  <1>2. Init => WorkInv
    BY GateAssumption DEF Init, WorkInv, Settling, SettlePC, BeforeInsert, Processes
  <1>3. TypeInv /\ WorkInv /\ [Next]_vars => WorkInv'
    BY <1>1, WorkNext
  <1>4. TypeInv /\ WorkInv /\ BookInv /\ [Next]_vars => BookInv'
    BY BookNext
  <1> QED BY <1>2, <1>3, <1>4, BookInit, TypeInvariant, PTL DEF Spec

\* Whatever attempts, crashes, failing queries and resolutions do to each other, and
\* however often the cap is replaced, what has been executed fits the cap it was
\* charged to.
THEOREM ExecutedFits ==
  ASSUME ReleasedOnce
  PROVE  Spec => []ExecutedWithinCap
PROOF
  <1>1. TypeInv /\ BookInv => ExecutedWithinCap
    <2> SUFFICES ASSUME TypeInv, BookInv, NEW c \in CapIds
                 PROVE  Total(Amounts, {r \in Rows : rows[r].status = "executed" /\ cap[r] = c})
                          <= caps[c].limit
      BY DEF ExecutedWithinCap
    <2> DEFINE S == {r \in Rows : rows[r].status = "executed" /\ cap[r] = c}
    <2>1. S \subseteq Rows /\ (\A r \in S : Full(r)) /\ (\A r \in S : cap[r] = c)
      BY DEF BookInv, RestOf
    <2>2. caps[c].spent <= caps[c].limit /\ caps[c].spent \in Nat /\ caps[c].limit \in Nat
      BY TypeGroups DEF BookInv, CapsInv, TypeInv, LedgerTypeOK, Cap
    <2> HIDE DEF S
    <2>3. Total(Amounts, S) <= caps[c].spent
      BY <2>1, FullWithinBooks
    <2>4. Total(Amounts, S) \in Int
      <3>1. \A r \in S : Amounts[r] \in Int
        BY <2>1, AmountTyped
      <3> QED BY <2>1, <3>1, TotalInt, LedgerAssumption, FS_Subset
    <2>5. Total(Amounts, S) <= caps[c].limit
      BY <2>2, <2>3, <2>4
    <2> QED BY <2>5 DEF S
  <1> QED BY <1>1, Balanced, PTL

LEMMA BalancedAndLive ==
  ASSUME ReleasedOnce, NothingTorn
  PROVE  Spec => [](TypeInv /\ WorkInv /\ BookInv /\ LiveInv)
PROOF
  <1>1. Init => LiveInv
    BY DEF Init, LiveInv, Live
  <1>2. TypeInv /\ WorkInv /\ BookInv /\ LiveInv /\ [Next]_vars => LiveInv'
    BY LiveNext
  <1> QED BY <1>1, <1>2, Balanced, PTL DEF Spec

\* If no query fails and no process dies while it gives a reservation back, the live
\* rows together fit the caps they were charged to and the stock there was.
THEOREM CommittedFits ==
  ASSUME ReleasedOnce, NothingTorn
  PROVE  Spec => [](CommittedWithinCap /\ SoldWithinStock)
PROOF
  <1>1. TypeInv /\ BookInv /\ LiveInv => CommittedWithinCap
    <2> SUFFICES ASSUME TypeInv, BookInv, LiveInv, NEW c \in CapIds
                 PROVE  Total(Amounts, {r \in Rows : Live(r) /\ cap[r] = c}) <= caps[c].limit
      BY DEF CommittedWithinCap, CommittedOn
    <2> DEFINE S == {r \in Rows : Live(r) /\ cap[r] = c}
    <2>1. S \subseteq Rows /\ (\A r \in S : Full(r)) /\ (\A r \in S : cap[r] = c)
      BY DEF LiveInv
    <2>2. caps[c].spent <= caps[c].limit /\ caps[c].spent \in Nat /\ caps[c].limit \in Nat
      BY TypeGroups DEF BookInv, CapsInv, TypeInv, LedgerTypeOK, Cap
    <2> HIDE DEF S
    <2>3. Total(Amounts, S) <= caps[c].spent
      BY <2>1, FullWithinBooks
    <2>4. Total(Amounts, S) \in Int
      <3>1. \A r \in S : Amounts[r] \in Int
        BY <2>1, AmountTyped
      <3> QED BY <2>1, <3>1, TotalInt, LedgerAssumption, FS_Subset
    <2>5. Total(Amounts, S) <= caps[c].limit
      BY <2>2, <2>3, <2>4
    <2> QED BY <2>5 DEF S
  <1>2. TypeInv /\ BookInv /\ LiveInv => SoldWithinStock
    <2> SUFFICES ASSUME TypeInv, BookInv, LiveInv, NEW v \in Variants
                 PROVE  Total(Units(v), {r \in Rows : Live(r)}) <= InitStock[v]
      BY DEF SoldWithinStock, SoldOf
    <2> DEFINE S == {r \in Rows : Live(r)}
    <2>1. S \subseteq Rows /\ (\A r \in S : Full(r))
      BY DEF LiveInv
    <2>2. stock[v] \in Nat /\ InitStock[v] \in Nat
      BY TypeGroups, LedgerAssumption DEF TypeInv, LedgerTypeOK
    <2> HIDE DEF S
    <2>3. Total(Units(v), S) <= InitStock[v] - stock[v]
      BY <2>1, FullWithinBooks
    <2>4. Total(Units(v), S) \in Int
      <3>1. \A r \in S : Units(v)[r] \in Int
        <4> SUFFICES ASSUME NEW r \in S PROVE Units(v)[r] \in Int
          OBVIOUS
        <4>1. Units(v)[r] = holds[r][v] /\ holds[r][v] \in Int
          BY <2>1, FullRow, TypeGroups DEF TypeInv, LedgerTypeOK, Resource
        <4> QED BY <4>1
      <3> QED BY <2>1, <3>1, TotalInt, LedgerAssumption, FS_Subset
    <2>5. Total(Units(v), S) <= InitStock[v]
      BY <2>2, <2>3, <2>4
    <2> QED BY <2>5 DEF S
  <1> QED BY <1>1, <1>2, BalancedAndLive, PTL

\* Once nothing is under way nobody has anything in hand.
LEMMA IdleHands ==
  ASSUME TypeInv, BookInv, QueueInv, ~Busy, NEW r \in Rows
  PROVE  ~InSomeHand(r) /\ ~BeingReleased(r)
PROOF
  <1>1. \A q \in Processes : pc[q] \in {"start", "done", "dead", "idle"}
    BY DEF Busy, Processes
  <1>2. \A q \in Processes : ~Carrying(q)
    BY <1>1, HandParts DEF Settling, SettlePC
  <1>3. \A h \in Handlers : queue[h] = {}
    BY <1>1 DEF QueueInv, Sweeping, Busy
  <1> QED BY <1>1, <1>2, <1>3 DEF InSomeHand, BeingReleased

LEMMA QueueInit == Init => QueueInv
  BY DEF Init, QueueInv

LEMMA VacantInit ==
  ASSUME NEW st
  PROVE  Init => Vacated(st)
  BY DEF Init, Vacated, Empty

\* Whatever is failed also gives back all it held, by its executor, by the merchant or
\* by the sweep, however they and the dying attempts overlap.
THEOREM SweepReleases ==
  ASSUME ReleasedOnce, ReleasedInFull
  PROVE  Spec => []SweepReleasesAnything
PROOF
  <1>1. TypeInv /\ BookInv /\ QueueInv /\ Vacated("failed") => SweepReleasesAnything
    BY IdleHands DEF SweepReleasesAnything, Vacated, Empty
  <1>2. TypeInv /\ QueueInv /\ [Next]_vars => QueueInv'
    BY QueueNext
  <1>3. TypeInv /\ WorkInv /\ BookInv /\ QueueInv /\ Vacated("failed") /\ [Next]_vars
          => Vacated("failed")'
    BY VacantNext
  <1>4. Init => Vacated("failed")
    BY VacantInit
  <1> QED BY <1>1, <1>2, <1>3, <1>4, QueueInit, Balanced, PTL DEF Spec

\* If moreover nothing dies, spent_paise and stock are exactly what the live rows
\* account for whenever nothing is under way.
THEOREM LedgerMatches ==
  ASSUME ReleasedOnce, ReleasedInFull, "crash" \notin Ops
  PROVE  Spec => []LedgerMatchesRows
PROOF
  <1>0. NothingTorn
    BY DEF NothingTorn, ReleasedInFull, Died
  <1>1. TypeInv /\ BookInv /\ LiveInv /\ QueueInv /\ Vacated("failed") /\ Vacated("none")
          => LedgerMatchesRows
    <2> SUFFICES ASSUME TypeInv, BookInv, LiveInv, QueueInv, Vacated("failed"), Vacated("none"), ~Busy
                 PROVE  LedgerMatchesRows
      BY DEF LedgerMatchesRows
    <2> DEFINE S == {r \in Rows : Live(r)}
    <2>1. S \subseteq Rows /\ (\A r \in S : Full(r))
      BY DEF LiveInv
    <2>2. \A r \in Rows : r \notin S => Empty(r)
      <3> SUFFICES ASSUME NEW r \in Rows, ~Live(r) PROVE Empty(r)
        OBVIOUS
      <3>1. ~InSomeHand(r) /\ ~BeingReleased(r)
        BY IdleHands
      <3>2. rows[r].status \in RowStatus
        BY TypeGroups DEF TypeInv, RowsTyped, Row
      <3>3. rows[r].status \in {"none", "failed"}
        BY <3>1, <3>2 DEF Live, RowStatus
      <3> QED BY <3>1, <3>3 DEF Vacated
    <2>3. \A c \in CapIds : {r \in S : cap[r] = c} = {r \in Rows : Live(r) /\ cap[r] = c}
      OBVIOUS
    <2> HIDE DEF S
    <2>4. /\ \A c \in CapIds : caps[c].spent = Total(Amounts, {r \in S : cap[r] = c})
          /\ \A v \in Variants : stock[v] = InitStock[v] - Total(Units(v), S)
      BY <2>1, <2>2, FullIsBooks
    <2>5. \A c \in CapIds : caps[c].spent = CommittedOn(c)
      BY <2>3, <2>4 DEF CommittedOn
    <2>6. \A v \in Variants : stock[v] = InitStock[v] - SoldOf(v)
      BY <2>4 DEF SoldOf, S
    <2> QED BY <2>5, <2>6 DEF LedgerMatchesRows
  <1>2. TypeInv /\ QueueInv /\ [Next]_vars => QueueInv'
    BY QueueNext
  <1>3. TypeInv /\ WorkInv /\ BookInv /\ QueueInv /\ Vacated("failed") /\ [Next]_vars
          => Vacated("failed")'
    BY VacantNext
  <1>4. TypeInv /\ WorkInv /\ BookInv /\ QueueInv /\ Vacated("none") /\ [Next]_vars
          => Vacated("none")'
    BY VacantNext
  <1>5. Init => Vacated("failed") /\ Vacated("none")
    BY VacantInit
  <1>6. Spec => [](TypeInv /\ WorkInv /\ BookInv /\ LiveInv)
    BY <1>0, BalancedAndLive
  <1> QED BY <1>1, <1>2, <1>3, <1>4, <1>5, <1>6, QueueInit, PTL DEF Spec

-----------------------------------------------------------------------------
(* The gate implements the resource ledger.                                  *)

\* The limit of the first cap is never changed: a new cap is a new row.
LimitInv == caps[1].limit = FirstCap.limit

UsedOf == [x \in Resource |-> IF x = Budget THEN caps[1].spent ELSE InitStock[x] - stock[x]]
HeldOf == [r \in Rows |-> [x \in Resource |-> IF x = Budget /\ cap[r] # 1 THEN 0 ELSE holds[r][x]]]

\* A step that takes a grant, one that gives a grant back, and one that does neither.
Took(r, grant) ==
  /\ Moved(r, grant, grant.qty) /\ cap' = cap
  /\ IF grant.of = Budget THEN caps[cap[r]].spent + grant.qty <= caps[cap[r]].limit
                          ELSE grant.qty <= stock[grant.of]
Gave(r, grant) ==
  /\ Moved(r, grant, -grant.qty) /\ cap' = cap
  /\ grant.qty <= holds[r][grant.of]
Kept ==
  /\ UNCHANGED <<holds, stock>>
  /\ caps'[1].spent = caps[1].spent
  /\ \A r \in Rows : cap'[r] = cap[r] \/ holds[r][Budget] = 0

\* checkBounds moves no money: at most it finds a cap past its window expired.
LEMMA BoundsMoveNothing ==
  ASSUME TypeInv, NEW r \in Rows, checkBounds(r)
  PROVE  caps'[1].spent = caps[1].spent /\ caps'[1].limit = caps[1].limit
PROOF
  <1>0. LedgerTypeOK /\ 1 \in CapIds /\ capCount \in CapIds
    BY TypeGroups, LedgerAssumption DEF TypeInv, LedgerTypeOK, CapIds
  <1>1. CASE UNCHANGED caps
    BY <1>1
  <1>2. CASE caps' = [caps EXCEPT ![capCount].status = "expired"]
    BY <1>0, <1>2 DEF LedgerTypeOK, Cap
  <1>3. UNCHANGED caps \/ caps' = [caps EXCEPT ![capCount].status = "expired"]
    BY DEF checkBounds
  <1> QED BY <1>1, <1>2, <1>3

LEMMA LimitNext ==
  ASSUME TypeInv, BookInv, LimitInv, [Next]_vars
  PROVE  LimitInv'
PROOF
  <1>0. LedgerTypeOK /\ capCount \in Nat \ {0} /\ 1 \in CapIds
    BY TypeGroups, LedgerAssumption DEF TypeInv, LedgerTypeOK, CapIds
  <1>1. CASE UNCHANGED caps
    BY <1>1 DEF LimitInv
  <1>2. ASSUME NEW c \in CapIds, NEW s, caps' = [caps EXCEPT ![c].spent = s] PROVE LimitInv'
    BY <1>0, <1>2 DEF LimitInv, LedgerTypeOK, Cap
  <1>3. ASSUME NEW p \in Processes, Settle(p) PROVE LimitInv'
    <2>1. cap[p] \in CapIds
      BY HandParts
    <2> QED BY <1>0, <1>1, <1>2, <1>3, <2>1
         DEF Settle, SumBalance, ReleaseShort, SettleCoins, CallRazorpay, CommitRow,
             markNegotiationRedeemed, GiveBack, FailRow, Release, releaseBudget, releaseStock, ledgerVars
  <1>4. ASSUME NEW r \in Rows, AttemptStep(r) PROVE LimitInv'
    <2>1. cap[r] \in CapIds
      BY HandParts DEF Processes
    <2>2. CASE checkBounds(r)
      BY <2>2, BoundsMoveNothing DEF LimitInv
    <2>3. CASE ReserveBudget(r)
      BY <1>0, <1>1, <1>2, <2>1, <2>3 DEF ReserveBudget, reserveBudget, ledgerVars
    <2>4. CASE Begin(r) \/ ReadCap(r) \/ ReserveStock(r) \/ InsertOrReplay(r) \/ Replay(r) \/ InsertEscalation(r)
      BY <1>1, <2>4 DEF Begin, ReadCap, ReserveStock, reserveStock, InsertOrReplay, Replay, InsertEscalation,
         ledgerVars
    <2> QED BY <1>3, <1>4, <2>2, <2>3, <2>4 DEF AttemptStep, Processes
  <1>5. ASSUME NEW h \in Handlers, HandlerStep(h) \/ HandlerCall(h) PROVE LimitInv'
    <2>1. CASE RevokeCaps(h)
      BY <1>0, <2>1 DEF RevokeCaps, LimitInv, LedgerTypeOK, Cap
    <2>2. CASE InsertCap(h)
      <3>1. capCount + 1 # 1
        BY <1>0
      <3> QED BY <1>0, <2>2, <3>1 DEF InsertCap, LimitInv, LedgerTypeOK
    <2>3. CASE ReleaseClaimed(h) \/ ClaimExpired(h) \/ \E r \in Rows : Approve(h, r) \/ Reject(h, r)
      BY <1>1, <2>3 DEF ReleaseClaimed, ClaimExpired, Approve, Reject, ledgerVars
    <2> QED BY <1>3, <1>5, <2>1, <2>2, <2>3 DEF HandlerStep, HandlerCall, Processes
  <1>6. CASE Failure \/ ToggleShadow \/ ToggleAgent \/ UNCHANGED vars
    BY <1>1, <1>6 DEF Failure, ExecutionThrows, QueryThrows, Crash, HandlerThrows, HandlerCrash, ToggleShadow,
       ToggleAgent, vars, ledgerVars
  <1>7. CASE Lapse
    BY <1>0, <1>7 DEF Lapse, LimitInv, LedgerTypeOK, Cap
  <1> QED BY <1>4, <1>5, <1>6, <1>7 DEF Next

\* A grant that p gives back is one its row holds.
LEMMA GivingBack ==
  ASSUME TypeInv, BookInv, NEW p \in Processes, Carrying(p), pc[p] # "fail_short",
         Release(row[p], cap[p], Head(undo[p])), cap' = cap
  PROVE  \E r \in Rows, grant \in Grant : Gave(r, grant)
PROOF
  <1>0. /\ LedgerTypeOK /\ row[p] \in Rows /\ cap[row[p]] \in CapIds /\ cap[p] = cap[row[p]]
        /\ undo[p] \in Seq(Grant) /\ undo[p] # <<>>
        /\ \A x \in Resource : holds[row[p]][x] = Worth(undo[p], x) - 0
        /\ Booked
    BY TypeGroups, HandParts DEF TypeInv, HandOf, Carrying, InHand, BookInv
  <1>1. PICK grant \in Grant : grant = Head(undo[p])
    BY <1>0, HeadTyped
  <1>2. PICK rest \in Seq(Grant) : rest = Tail(undo[p])
    BY <1>0, HeadTyped
  <1>3. grant.of \in Resource /\ grant.qty \in Nat
    BY DEF Grant
  <1>4. grant.qty <= holds[row[p]][grant.of]
    <2>1. Part(grant, grant.of) = grant.qty
      BY DEF Part
    <2>2. /\ Worth(undo[p], grant.of) = Part(grant, grant.of) + Worth(rest, grant.of)
          /\ Worth(rest, grant.of) \in Nat
      BY <1>0, <1>1, <1>2, WorthTail, WorthNat
    <2>3. holds[row[p]][grant.of] = Worth(undo[p], grant.of) - 0
      BY <1>0, <1>3
    <2> QED BY <1>3, <2>1, <2>2, <2>3
  <1>5. Release(row[p], cap[row[p]], grant)
    BY <1>0, <1>1
  <1>6. Moved(row[p], grant, -grant.qty)
    BY <1>0, <1>4, <1>5, ReleaseMoves
  <1>7. Gave(row[p], grant)
    BY <1>4, <1>6 DEF Gave
  <1> QED BY <1>0, <1>7

LEMMA StepKinds ==
  ASSUME TypeInv, WorkInv, BookInv, [Next]_vars
  PROVE  Kept \/ \E r \in Rows, grant \in Grant : Took(r, grant) \/ Gave(r, grant)
PROOF
  <1> DEFINE Goal == Kept \/ \E r \in Rows, grant \in Grant : Took(r, grant) \/ Gave(r, grant)
  <1>0. LedgerTypeOK /\ 1 \in CapIds /\ capCount \in Nat \ {0}
    BY TypeGroups, LedgerAssumption DEF TypeInv, LedgerTypeOK, CapIds
  <1>1. CASE UNCHANGED <<holds, stock, caps>> /\ cap' = cap
    BY <1>1 DEF Kept
  <1>2. ASSUME NEW p \in Processes, Settle(p) PROVE Goal
    <2>1. CASE ReleaseShort(p) \/ GiveBack(p)
      <3>1. /\ Release(row[p], cap[p], Head(undo[p])) /\ cap' = cap
            /\ pc[p] \in {"release_short", "give_back"}
        BY <2>1 DEF ReleaseShort, GiveBack
      <3>2. Carrying(p) /\ pc[p] # "fail_short"
        BY <3>1, HandParts DEF Holding
      <3>3. \E r \in Rows, grant \in Grant : Gave(r, grant)
        BY <3>1, <3>2, GivingBack
      <3> QED BY <3>3
    <2>2. CASE SumBalance(p) \/ SettleCoins(p) \/ CallRazorpay(p) \/ CommitRow(p)
                 \/ markNegotiationRedeemed(p) \/ FailRow(p)
      BY <1>1, <2>2 DEF SumBalance, SettleCoins, CallRazorpay, CommitRow, markNegotiationRedeemed, FailRow,
         ledgerVars
    <2> QED BY <1>2, <2>1, <2>2 DEF Settle
  <1>3. ASSUME NEW r \in Rows, AttemptStep(r) PROVE Goal
    <2>0. r \in Processes /\ ProcTyped /\ cap[r] \in CapIds
      BY TypeGroups, HandParts DEF Processes, TypeInv
    <2>1. CASE checkBounds(r)
      <3>1. caps'[1].spent = caps[1].spent
        BY <2>1, BoundsMoveNothing
      <3> QED BY <2>1, <3>1 DEF checkBounds, Kept
    <2>2. CASE ReadCap(r)
      <3>1. holds[r][Budget] = 0
        BY <2>2 DEF ReadCap, BookInv, RestOf, Empty, Resource
      <3>2. \A o \in Rows : o # r => cap'[o] = cap[o]
        BY <2>0, <2>2 DEF ReadCap, ProcTyped, Processes
      <3> QED BY <2>2, <3>1, <3>2 DEF ReadCap, ledgerVars, Kept
    <2>3. CASE ReserveBudget(r)
      <3>1. CASE UNCHANGED <<ledgerVars, undo>>
        BY <1>1, <2>3, <3>1 DEF ReserveBudget, ledgerVars
      <3>2. CASE reserveBudget(r, cap[r], Head(GrantsOfRow(r)))
        <4>1. PICK grant \in Grant : grant = Head(GrantsOfRow(r)) /\ grant.of = Budget
          <5>1. /\ Head(GrantsOfRow(r)) = [of |-> Budget, qty |-> req[r].amount]
                /\ req[r].amount \in Nat
            BY RowGrants
          <5> QED BY <5>1 DEF Grant, Resource
        <4>2. reserveBudget(r, cap[r], grant)
          BY <3>2, <4>1
        <4>3. Moved(r, grant, grant.qty)
          BY <1>0, <2>0, <4>1, <4>2, TakingMoves
        <4>4. caps[cap[r]].spent + grant.qty <= caps[cap[r]].limit /\ cap' = cap
          BY <2>3, <4>2 DEF reserveBudget, BudgetAvailable, ReserveBudget
        <4>5. Took(r, grant)
          BY <4>1, <4>3, <4>4 DEF Took
        <4> QED BY <4>5
      <3> QED BY <2>3, <3>1, <3>2 DEF ReserveBudget
    <2>4. CASE ReserveStock(r)
      <3>0. undo[r] # <<>> /\ undo[r] \in Seq(Grant)
        <4>1. pc[r] \in Holding
          BY <2>4 DEF ReserveStock, Holding
        <4>2. Carrying(r)
          BY <2>0, <4>1, HandParts
        <4> QED BY <2>0, <4>2, HandParts DEF Carrying
      <3>1. PICK line \in Line : line = req[r].lines[Len(undo[r])]
        <4>1. Len(undo[r]) <= Len(req[r].lines)
          BY <2>0, <2>4, HandParts DEF ShapeOf, ReserveStock
        <4>2. Len(undo[r]) \in Nat \ {0} /\ Len(req[r].lines) \in Nat
          BY <3>0, RowGrants, LenProperties, EmptySeq
        <4>3. Len(undo[r]) \in 1 .. Len(req[r].lines)
          BY <4>1, <4>2
        <4> QED BY <4>3, RowGrants
      <3>2. CASE UNCHANGED ledgerVars
        BY <1>1, <2>4, <3>2 DEF ReserveStock, ledgerVars
      <3>3. CASE reserveStock(r, line)
        <4>1. PICK grant \in Grant : grant = line /\ grant.of # Budget
          BY LedgerAssumption DEF Line, Grant, Resource
        <4>2. reserveStock(r, grant)
          BY <3>3, <4>1
        <4>3. Moved(r, grant, grant.qty)
          BY <1>0, <2>0, <4>1, <4>2, TakingMoves
        <4>4. grant.qty <= stock[grant.of] /\ cap' = cap
          BY <2>4, <4>2 DEF reserveStock, StockAvailable, ReserveStock
        <4>5. Took(r, grant)
          BY <4>1, <4>3, <4>4 DEF Took
        <4> QED BY <4>5
      <3> QED BY <2>4, <3>1, <3>2, <3>3 DEF ReserveStock
    <2>5. CASE Begin(r) \/ InsertOrReplay(r) \/ Replay(r) \/ InsertEscalation(r)
      BY <1>1, <2>5 DEF Begin, InsertOrReplay, Replay, InsertEscalation, ledgerVars
    <2> QED BY <1>2, <1>3, <2>0, <2>1, <2>2, <2>3, <2>4, <2>5 DEF AttemptStep
  <1>4. ASSUME NEW h \in Handlers, HandlerStep(h) \/ HandlerCall(h) PROVE Goal
    <2>0. h \in Processes /\ ProcTyped /\ \A o \in Rows : o # h /\ o \in Processes
      BY TypeGroups, GateAssumption DEF Processes, TypeInv
    <2>1. CASE RevokeCaps(h) \/ InsertCap(h)
      <3>1. caps'[1].spent = caps[1].spent
        <4>1. CASE RevokeCaps(h)
          BY <1>0, <4>1 DEF RevokeCaps, LedgerTypeOK, Cap
        <4>2. CASE InsertCap(h)
          <5>1. capCount + 1 # 1
            BY <1>0
          <5> QED BY <1>0, <4>2, <5>1 DEF InsertCap, LedgerTypeOK
        <4> QED BY <2>1, <4>1, <4>2
      <3> QED BY <2>1, <3>1 DEF RevokeCaps, InsertCap, Kept
    <2>2. CASE ReleaseClaimed(h) \/ ClaimExpired(h) \/ \E r \in Rows : Approve(h, r) \/ Reject(h, r)
      <3>1. UNCHANGED ledgerVars /\ \A o \in Rows : cap'[o] = cap[o]
        BY <2>0, <2>2 DEF ReleaseClaimed, ClaimExpired, Approve, Reject, ClaimEscalation, ProcTyped
      <3> QED BY <3>1 DEF Kept, ledgerVars
    <2> QED BY <1>2, <1>4, <2>0, <2>1, <2>2 DEF HandlerStep, HandlerCall
  <1>5. CASE Failure \/ ToggleShadow \/ ToggleAgent \/ UNCHANGED vars
    BY <1>1, <1>5 DEF Failure, ExecutionThrows, QueryThrows, Crash, HandlerThrows, HandlerCrash, ToggleShadow,
       ToggleAgent, vars, ledgerVars, procVars
  <1>6. CASE Lapse
    <2>1. caps'[1].spent = caps[1].spent
      BY <1>0, <1>6 DEF Lapse, LedgerTypeOK, Cap
    <2> QED BY <1>6, <2>1 DEF Lapse, Kept, procVars
  <1> QED BY <1>3, <1>4, <1>5, <1>6 DEF Next

\* The three kinds of step, seen from the resource ledger.
LEMMA KeptRefines ==
  ASSUME TypeInv, Kept
  PROVE  UNCHANGED <<UsedOf, HeldOf>>
PROOF
  <1>1. UsedOf' = UsedOf
    BY DEF UsedOf, Kept
  <1>2. HeldOf' = HeldOf
    <2>1. ASSUME NEW r \in Rows, NEW x \in Resource
          PROVE  (IF x = Budget /\ cap'[r] # 1 THEN 0 ELSE holds'[r][x])
                   = IF x = Budget /\ cap[r] # 1 THEN 0 ELSE holds[r][x]
      BY DEF Kept
    <2> QED BY <2>1 DEF HeldOf
  <1> QED BY <1>1, <1>2

\* A table whose entries differ in one place is the table with that place changed.
LEMMA TableMoved ==
  ASSUME NEW f \in [Rows -> [Resource -> Int]], NEW g \in [Rows -> [Resource -> Int]],
         NEW r \in Rows, NEW y \in Resource, NEW d \in Int,
         \A o \in Rows, x \in Resource : g[o][x] = IF o = r /\ x = y THEN f[o][x] + d ELSE f[o][x]
  PROVE  /\ g = [f EXCEPT ![r][y] = @ + d]
         /\ d = 0 => g = f
PROOF
  <1> DEFINE h == [f EXCEPT ![r][y] = @ + d]
  <1>1. h \in [Rows -> [Resource -> Int]]
    OBVIOUS
  <1>2. \A o \in Rows, x \in Resource : h[o][x] = g[o][x]
    OBVIOUS
  <1> HIDE DEF h
  <1>3. \A o \in Rows : h[o] = g[o]
    <2> SUFFICES ASSUME NEW o \in Rows PROVE h[o] = g[o]
      OBVIOUS
    <2>1. h[o] \in [Resource -> Int] /\ g[o] \in [Resource -> Int]
      BY <1>1
    <2> QED BY <1>2, <2>1
  <1>4. h = g
    BY <1>1, <1>3
  <1>5. ASSUME d = 0 PROVE g = f
    <2>1. \A o \in Rows : g[o] = f[o]
      <3> SUFFICES ASSUME NEW o \in Rows PROVE g[o] = f[o]
        OBVIOUS
      <3>1. f[o] \in [Resource -> Int] /\ g[o] \in [Resource -> Int]
        OBVIOUS
      <3>2. \A x \in Resource : g[o][x] = f[o][x]
        BY <1>5, <3>1
      <3> QED BY <3>1, <3>2
    <2> QED BY <2>1
  <1> QED BY <1>4, <1>5 DEF h

LEMMA HeldTyped ==
  ASSUME holds \in [Rows -> [Resource -> Int]]
  PROVE  HeldOf \in [Rows -> [Resource -> Int]]
  BY DEF HeldOf

\* What moves in the ledger's view when row r moves d of grant.
MovesInLedger(r, grant, d) ==
  IF grant.of = Budget /\ cap[r] # 1
  THEN UNCHANGED <<UsedOf, HeldOf>>
  ELSE /\ UsedOf' = [UsedOf EXCEPT ![grant.of] = @ + d]
       /\ HeldOf' = [HeldOf EXCEPT ![r][grant.of] = @ + d]
       /\ d = 0 => HeldOf' = HeldOf

LEMMA MovedRefines ==
  ASSUME TypeInv, NEW r \in Rows, NEW grant \in Grant, NEW d \in Int,
         Moved(r, grant, d), cap' = cap
  PROVE  MovesInLedger(r, grant, d)
PROOF
  <1>0. /\ LedgerTypeOK /\ grant.of \in Resource /\ 1 \in CapIds /\ caps[1] \in Cap
        /\ \A v \in Variants : stock[v] \in Int /\ InitStock[v] \in Int
    BY TypeGroups, LedgerAssumption DEF TypeInv, LedgerTypeOK, CapIds, Grant
  <1>1. \A o \in Rows, x \in Resource :
          holds'[o][x] = IF o = r /\ x = grant.of THEN holds[o][x] + d ELSE holds[o][x]
    BY <1>0, MovedHolds
  <1>2. caps'[1].spent = IF grant.of = Budget /\ 1 = cap[r] THEN caps[1].spent + d ELSE caps[1].spent
    BY <1>0 DEF Moved, Cap
  <1>3. \A v \in Variants : stock'[v] = IF v = grant.of THEN stock[v] - d ELSE stock[v]
    BY DEF Moved
  <1>4. CASE grant.of = Budget /\ cap[r] # 1
    <2>1. \A x \in Resource : UsedOf'[x] = UsedOf[x]
      BY <1>2, <1>3, <1>4, LedgerAssumption DEF UsedOf, Resource
    <2>2. UsedOf' = UsedOf
      BY <2>1 DEF UsedOf
    <2>3. ASSUME NEW o \in Rows, NEW x \in Resource
          PROVE  (IF x = Budget /\ cap'[o] # 1 THEN 0 ELSE holds'[o][x])
                   = IF x = Budget /\ cap[o] # 1 THEN 0 ELSE holds[o][x]
      BY <1>1, <1>4
    <2>4. HeldOf' = HeldOf
      BY <2>3 DEF HeldOf
    <2> QED BY <1>4, <2>2, <2>4 DEF MovesInLedger
  <1>5. CASE ~(grant.of = Budget /\ cap[r] # 1)
    <2>1. \A x \in Resource : UsedOf'[x] = IF x = grant.of THEN UsedOf[x] + d ELSE UsedOf[x]
      <3> SUFFICES ASSUME NEW x \in Resource
                   PROVE  UsedOf'[x] = IF x = grant.of THEN UsedOf[x] + d ELSE UsedOf[x]
        OBVIOUS
      <3>1. CASE x = Budget
        BY <1>2, <1>5, <3>1 DEF UsedOf
      <3>2. CASE x # Budget
        <4>1. x \in Variants /\ UsedOf[x] = InitStock[x] - stock[x] /\ UsedOf'[x] = InitStock[x] - stock'[x]
          BY <3>2 DEF UsedOf, Resource
        <4>2. stock[x] \in Int /\ InitStock[x] \in Int
          BY <1>0, <4>1
        <4>3. stock'[x] = IF x = grant.of THEN stock[x] - d ELSE stock[x]
          BY <1>3, <4>1
        <4> QED BY <4>1, <4>2, <4>3
      <3> QED BY <3>1, <3>2
    <2>2. UsedOf' = [UsedOf EXCEPT ![grant.of] = @ + d]
      BY <2>1 DEF UsedOf
    <2>3. ASSUME NEW o \in Rows, NEW x \in Resource
          PROVE  HeldOf'[o][x] = IF o = r /\ x = grant.of THEN HeldOf[o][x] + d ELSE HeldOf[o][x]
      BY <1>1, <1>5 DEF HeldOf
    <2>4. HeldOf \in [Rows -> [Resource -> Int]] /\ HeldOf' \in [Rows -> [Resource -> Int]]
      <3>1. holds' \in [Rows -> [Resource -> Int]]
        BY <1>0 DEF Moved, LedgerTypeOK
      <3>2. HeldOf' \in [Rows -> [Resource -> Int]]
        BY <3>1 DEF HeldOf
      <3> QED BY <1>0, <3>2, HeldTyped DEF LedgerTypeOK
    <2>5. /\ HeldOf' = [HeldOf EXCEPT ![r][grant.of] = @ + d]
          /\ d = 0 => HeldOf' = HeldOf
      BY <1>0, <2>3, <2>4, TableMoved
    <2> QED BY <1>5, <2>2, <2>5 DEF MovesInLedger
  <1> QED BY <1>4, <1>5

LEMMA TookRefines ==
  ASSUME TypeInv, BookInv, LimitInv, NEW r \in Rows, NEW grant \in Grant, Took(r, grant)
  PROVE  GateLedger!Next \/ UNCHANGED <<UsedOf, HeldOf>>
PROOF
  <1>0. /\ grant.qty \in Nat /\ grant.of \in Resource /\ Moved(r, grant, grant.qty) /\ cap' = cap
        /\ caps[1] \in Cap /\ FirstCap.limit \in Nat
        /\ \A v \in Variants : stock[v] \in Nat /\ InitStock[v] \in Nat
    BY TypeGroups, LedgerAssumption, GateAssumption DEF TypeInv, LedgerTypeOK, CapIds, Grant, Took
  <1>d. PICK d \in Int : d = grant.qty
    BY <1>0
  <1>1. IF grant.of = Budget /\ cap[r] # 1
        THEN UNCHANGED <<UsedOf, HeldOf>>
        ELSE /\ UsedOf' = [UsedOf EXCEPT ![grant.of] = @ + d]
             /\ HeldOf' = [HeldOf EXCEPT ![r][grant.of] = @ + d]
             /\ d = 0 => HeldOf' = HeldOf
    <2>1. Moved(r, grant, d)
      BY <1>0, <1>d
    <2>2. MovesInLedger(r, grant, d)
      BY <1>0, <2>1, MovedRefines
    <2> QED BY <2>2 DEF MovesInLedger
  <1>2. CASE grant.of = Budget /\ cap[r] # 1
    BY <1>1, <1>2
  <1>3. CASE ~(grant.of = Budget /\ cap[r] # 1) /\ grant.qty = 0
    <2>1. UsedOf[grant.of] \in Int /\ HeldOf[r][grant.of] \in Int
      <3>1. holds[r][grant.of] \in Int
        BY <1>0, TypeGroups DEF TypeInv, LedgerTypeOK
      <3>2. UsedOf[grant.of] \in Int
        BY <1>0 DEF UsedOf, Cap, Resource
      <3> QED BY <1>0, <3>1, <3>2 DEF HeldOf
    <2>2. UsedOf' = UsedOf
      BY <1>1, <1>3, <1>d, <2>1 DEF UsedOf
    <2>3. HeldOf' = HeldOf
      BY <1>1, <1>3, <1>d
    <2> QED BY <2>2, <2>3
  <1>4. CASE ~(grant.of = Budget /\ cap[r] # 1) /\ grant.qty # 0
    <2> DEFINE capacity == [x \in Resource |-> IF x = Budget THEN FirstCap.limit ELSE InitStock[x]]
    <2>1. grant.qty \in 1 .. capacity[grant.of] - UsedOf[grant.of]
      <3>1. CASE grant.of = Budget
        <4>1. caps[1].spent + grant.qty <= caps[1].limit /\ caps[1].limit = FirstCap.limit
          BY <1>4, <3>1 DEF Took, LimitInv
        <4>2. caps[1].spent \in Nat
          BY <1>0 DEF Cap
        <4>3. capacity[grant.of] = FirstCap.limit /\ UsedOf[grant.of] = caps[1].spent
          BY <1>0, <3>1 DEF UsedOf
        <4> QED BY <1>0, <1>4, <4>1, <4>2, <4>3
      <3>2. CASE grant.of # Budget
        <4>1. grant.qty <= stock[grant.of] /\ grant.of \in Variants
          BY <1>0, <3>2 DEF Took, Resource
        <4>2. capacity[grant.of] = InitStock[grant.of] /\ UsedOf[grant.of] = InitStock[grant.of] - stock[grant.of]
          BY <1>0, <3>2 DEF UsedOf
        <4>3. stock[grant.of] \in Nat /\ InitStock[grant.of] \in Nat
          BY <1>0, <4>1
        <4> QED BY <1>0, <1>4, <4>1, <4>2, <4>3
      <3> QED BY <3>1, <3>2
    <2>2. GateLedger!Take(r, grant.of)
      BY <1>1, <1>4, <1>d, <2>1 DEF GateLedger!Take, UsedOf, HeldOf
    <2> QED BY <1>0, <2>2 DEF GateLedger!Next
  <1> QED BY <1>2, <1>3, <1>4

LEMMA GaveRefines ==
  ASSUME TypeInv, BookInv, NEW r \in Rows, NEW grant \in Grant, Gave(r, grant)
  PROVE  GateLedger!Next \/ UNCHANGED <<UsedOf, HeldOf>>
PROOF
  <1>0. /\ grant.qty \in Nat /\ -grant.qty \in Int /\ grant.of \in Resource
        /\ Moved(r, grant, -grant.qty) /\ cap' = cap
        /\ caps[1] \in Cap /\ \A v \in Variants : stock[v] \in Nat /\ InitStock[v] \in Nat
    BY TypeGroups, LedgerAssumption DEF TypeInv, LedgerTypeOK, CapIds, Grant, Gave
  <1>d. PICK d \in Int : d = -grant.qty
    BY <1>0
  <1>1. IF grant.of = Budget /\ cap[r] # 1
        THEN UNCHANGED <<UsedOf, HeldOf>>
        ELSE /\ UsedOf' = [UsedOf EXCEPT ![grant.of] = @ + d]
             /\ HeldOf' = [HeldOf EXCEPT ![r][grant.of] = @ + d]
             /\ d = 0 => HeldOf' = HeldOf
    <2>1. Moved(r, grant, d)
      BY <1>0, <1>d
    <2>2. MovesInLedger(r, grant, d)
      BY <1>0, <2>1, MovedRefines
    <2> QED BY <2>2 DEF MovesInLedger
  <1>2. CASE grant.of = Budget /\ cap[r] # 1
    BY <1>1, <1>2
  <1>3. CASE ~(grant.of = Budget /\ cap[r] # 1)
    <2>1. UsedOf[grant.of] \in Int /\ HeldOf[r][grant.of] = holds[r][grant.of] /\ holds[r][grant.of] \in Int
      <3>1. holds[r][grant.of] \in Int
        BY <1>0, TypeGroups DEF TypeInv, LedgerTypeOK
      <3>2. UsedOf[grant.of] \in Int
        BY <1>0 DEF UsedOf, Cap, Resource
      <3> QED BY <1>0, <1>3, <3>1, <3>2 DEF HeldOf
    <2>2. /\ UsedOf' = [UsedOf EXCEPT ![grant.of] = @ - grant.qty]
          /\ HeldOf' = [HeldOf EXCEPT ![r][grant.of] = @ - grant.qty]
      <3>1. /\ UsedOf[grant.of] + -grant.qty = UsedOf[grant.of] - grant.qty
            /\ HeldOf[r][grant.of] + -grant.qty = HeldOf[r][grant.of] - grant.qty
        BY <1>0, <2>1
      <3> QED BY <1>1, <1>3, <1>d, <3>1
    <2>3. CASE grant.qty = 0
      <3>1. UsedOf' = UsedOf
        BY <2>1, <2>2, <2>3 DEF UsedOf
      <3>2. HeldOf' = HeldOf
        <4>1. d = 0
          <5>1. d + grant.qty = 0
            BY <1>0, <1>d
          <5> QED BY <1>0, <2>3, <5>1
        <4> QED BY <1>1, <1>3, <4>1
      <3> QED BY <3>1, <3>2
    <2>4. CASE grant.qty # 0
      <3>1. grant.qty \in 1 .. HeldOf[r][grant.of]
        BY <1>0, <2>1, <2>4 DEF Gave
      <3>2. GateLedger!Give(r, grant.of)
        BY <2>2, <3>1 DEF GateLedger!Give, UsedOf, HeldOf
      <3> QED BY <1>0, <3>2 DEF GateLedger!Next
    <2> QED BY <2>3, <2>4
  <1> QED BY <1>2, <1>3

\* Every step of the gate takes from one resource no more than is left, gives back no
\* more than its row holds of it, or leaves the resources alone.
THEOREM GateRefinesLedger ==
  ASSUME ReleasedOnce
  PROVE  Spec => ReservationsAreLedger
PROOF
  <1>1. Init => GateLedger!Init /\ LimitInv
    <2> SUFFICES ASSUME Init PROVE GateLedger!Init /\ LimitInv
      OBVIOUS
    <2>1. 1 \in CapIds /\ caps[1] = FreshCap(FirstCap) /\ stock = InitStock
          /\ holds = [r \in Rows |-> [x \in Resource |-> 0]]
      BY LedgerAssumption DEF Init, CapIds
    <2>2. caps[1].spent = 0 /\ caps[1].limit = FirstCap.limit
      BY <2>1 DEF FreshCap
    <2>3. \A v \in Variants : InitStock[v] - stock[v] = 0
      BY <2>1, LedgerAssumption
    <2> QED BY <2>1, <2>2, <2>3 DEF GateLedger!Init, LimitInv, Resource
  <1>2. TypeInv /\ BookInv /\ LimitInv /\ [Next]_vars => LimitInv'
    BY LimitNext
  <1>3. TypeInv /\ WorkInv /\ BookInv /\ LimitInv /\ [Next]_vars
          => [GateLedger!Next]_<<UsedOf, HeldOf>>
    BY StepKinds, KeptRefines, TookRefines, GaveRefines
  <1>4. TypeInv /\ WorkInv /\ BookInv /\ LimitInv /\ [Next]_vars
          => [GateLedger!Next]_<<[x \in Resource |-> IF x = Budget THEN caps[1].spent
                                                                  ELSE InitStock[x] - stock[x]],
                                [r \in Rows |-> [x \in Resource |->
                                   IF x = Budget /\ cap[r] # 1 THEN 0 ELSE holds[r][x]]]>>
    BY <1>3 DEF UsedOf, HeldOf
  <1> QED BY <1>1, <1>2, <1>4, Balanced, PTL DEF Spec, ReservationsAreLedger, GateLedger!Spec

-----------------------------------------------------------------------------
(* One cap in force.                                                         *)

\* Whatever is in force is the latest cap, and nothing is while a new one is due.
OneCapInv ==
  /\ \A c \in CapIds : caps[c].status = "active" => c = capCount
  /\ \A h \in Handlers : pc[h] = "insert_cap" =>
       \A c \in CapIds : caps[c].status # "active"

\* setSpendCap is not called again before it has inserted the new cap.
CapsSetInTurn ==
  \A h, g \in Handlers : pc[h] = "insert_cap" /\ pc[g] = "insert_cap" => h = g

\* No cap comes into force, and nobody starts to set one.
LEMMA OneCapKept ==
  ASSUME OneCapInv, capCount' = capCount,
         \A c \in CapIds : caps'[c].status = "active" => caps[c].status = "active",
         \A h \in Handlers : pc'[h] = "insert_cap" => pc[h] = "insert_cap"
  PROVE  OneCapInv'
  BY DEF OneCapInv

LEMMA OneCapNext ==
  ASSUME TypeInv, OneCapInv, CapsSetInTurn, [Next]_vars
  PROVE  OneCapInv'
PROOF
  <1>0. LedgerTypeOK /\ ProcTyped /\ capCount \in CapIds /\ Handlers \subseteq Processes
        /\ Rows \cap Handlers = {}
    BY TypeGroups, GateAssumption DEF TypeInv, LedgerTypeOK, Processes
  <1>1. ASSUME NEW p \in Processes, Settle(p) \/ ExecutionThrows(p) PROVE OneCapInv'
    <2>1. capCount' = capCount /\ \A h \in Handlers : pc'[h] = "insert_cap" => pc[h] = "insert_cap"
      <3>1. PICK label : Goto(p, label) /\ label # "insert_cap"
        <4>1. next[p] # "insert_cap"
          BY <1>0 DEF ProcTyped
        <4> QED BY <1>1, <4>1 DEF Settle, SumBalance, ReleaseShort, SettleCoins, CallRazorpay, CommitRow,
             markNegotiationRedeemed, GiveBack, FailRow, ExecutionThrows, Unwind, Over, Goto
      <3>2. capCount' = capCount
        BY <1>1 DEF Settle, SumBalance, ReleaseShort, SettleCoins, CallRazorpay, CommitRow,
           markNegotiationRedeemed, GiveBack, FailRow, ExecutionThrows, Release, releaseBudget, releaseStock,
           ledgerVars
      <3> QED BY <1>0, <3>1, <3>2 DEF Goto, ProcTyped
    <2>2. \A c \in CapIds : caps'[c].status = caps[c].status
      <3>1. CASE UNCHANGED caps
        BY <3>1
      <3>2. ASSUME NEW s, caps' = [caps EXCEPT ![cap[p]].spent = s]
            PROVE  \A c \in CapIds : caps'[c].status = caps[c].status
        BY <1>0, <3>2 DEF LedgerTypeOK, Cap
      <3> QED BY <1>1, <3>1, <3>2
           DEF Settle, SumBalance, ReleaseShort, SettleCoins, CallRazorpay, CommitRow,
               markNegotiationRedeemed, GiveBack, FailRow, ExecutionThrows, Release, releaseBudget, releaseStock,
               ledgerVars
    <2> QED BY <2>1, <2>2, OneCapKept
  <1>2. ASSUME NEW r \in Rows, Begin(r) \/ checkBounds(r) \/ ReadCap(r) \/ ReserveBudget(r) \/ ReserveStock(r)
                  \/ InsertOrReplay(r) \/ Replay(r) \/ InsertEscalation(r) \/ QueryThrows(r) \/ Crash(r)
        PROVE  OneCapInv'
    <2>1. capCount' = capCount /\ \A h \in Handlers : pc'[h] = pc[h]
      <3>1. \E label : Goto(r, label)
        BY <1>2 DEF Begin, checkBounds, ReadCap, ReserveBudget, ReserveStock, InsertOrReplay, Replay,
           InsertEscalation, QueryThrows, Crash, Deny, Unwind, Goto
      <3>2. capCount' = capCount
        BY <1>2 DEF Begin, checkBounds, ReadCap, ReserveBudget, reserveBudget, ReserveStock, reserveStock,
           InsertOrReplay, Replay, InsertEscalation, QueryThrows, Crash, ledgerVars
      <3> QED BY <1>0, <3>1, <3>2 DEF Goto, ProcTyped
    <2>2. \A c \in CapIds : caps'[c].status = "active" => caps[c].status = "active"
      <3>1. CASE UNCHANGED caps
        BY <3>1
      <3>2. ASSUME NEW s, caps' = [caps EXCEPT ![cap[r]].spent = s]
            PROVE  \A c \in CapIds : caps'[c].status = "active" => caps[c].status = "active"
        BY <1>0, <3>2 DEF LedgerTypeOK, Cap
      <3>3. CASE caps' = [caps EXCEPT ![capCount].status = "expired"]
        BY <1>0, <3>3 DEF LedgerTypeOK, Cap
      <3> QED BY <1>2, <3>1, <3>2, <3>3
           DEF Begin, checkBounds, ReadCap, ReserveBudget, reserveBudget, ReserveStock, reserveStock,
               InsertOrReplay, Replay, InsertEscalation, QueryThrows, Crash, ledgerVars
    <2> QED BY <2>1, <2>2, OneCapKept
  <1>3. ASSUME NEW h \in Handlers, RevokeCaps(h) PROVE OneCapInv'
    <2>1. \A c \in CapIds : caps'[c].status # "active"
      <3> SUFFICES ASSUME NEW c \in CapIds PROVE caps'[c].status # "active"
        OBVIOUS
      <3>1. CASE c <= capCount
        BY <1>0, <1>3, <3>1 DEF RevokeCaps, LedgerTypeOK, Cap
      <3>2. CASE ~(c <= capCount)
        <4>1. c # capCount
          BY <1>0, <3>2 DEF CapIds
        <4>2. caps'[c] = caps[c]
          BY <1>3, <3>2 DEF RevokeCaps
        <4> QED BY <4>1, <4>2 DEF OneCapInv
      <3> QED BY <3>1, <3>2
    <2> QED BY <2>1 DEF OneCapInv
  <1>4. ASSUME NEW h \in Handlers, InsertCap(h) PROVE OneCapInv'
    <2>1. /\ pc[h] = "insert_cap" /\ capCount' = capCount + 1 /\ pc'[h] = "idle"
          /\ \A g \in Handlers : g # h => pc'[g] = pc[g]
          /\ \A c \in CapIds : c # capCount + 1 => caps'[c] = caps[c]
      BY <1>0, <1>4 DEF InsertCap, Goto, ProcTyped, LedgerTypeOK
    <2>2. \A c \in CapIds : caps'[c].status = "active" => c = capCount + 1
      BY <2>1 DEF OneCapInv
    <2>3. \A g \in Handlers : pc'[g] # "insert_cap"
      BY <2>1 DEF CapsSetInTurn
    <2> QED BY <2>1, <2>2, <2>3 DEF OneCapInv
  <1>5. ASSUME NEW h \in Handlers,
               \/ ReleaseClaimed(h) \/ ClaimExpired(h) \/ HandlerThrows(h) \/ HandlerCrash(h)
               \/ \E r \in Rows : Approve(h, r) \/ Reject(h, r)
        PROVE  OneCapInv'
    <2>1. UNCHANGED ledgerVars /\ \E label : Goto(h, label) /\ label # "insert_cap"
      BY <1>5 DEF ReleaseClaimed, ClaimExpired, HandlerThrows, HandlerCrash, Approve, Reject, Unwind, Goto
    <2> QED BY <1>0, <2>1, OneCapKept DEF Goto, ProcTyped, ledgerVars
  <1>6. CASE Lapse \/ ToggleShadow \/ ToggleAgent \/ UNCHANGED vars
    <2>1. UNCHANGED <<pc, capCount>> /\ \A c \in CapIds : caps'[c].status = caps[c].status
      <3>1. CASE Lapse
        BY <1>0, <3>1 DEF Lapse, procVars, LedgerTypeOK, Cap
      <3>2. CASE ToggleShadow \/ ToggleAgent \/ UNCHANGED vars
        BY <3>2 DEF ToggleShadow, ToggleAgent, vars, procVars, ledgerVars
      <3> QED BY <1>6, <3>1, <3>2
    <2> QED BY <2>1, OneCapKept
  <1> QED BY <1>1, <1>2, <1>3, <1>4, <1>5, <1>6
       DEF Next, AttemptStep, HandlerStep, HandlerCall, Failure, Processes

\* However attempts charge, expire and release caps: as long as one call of setSpendCap
\* is over before the next begins, an agent has at most one cap in force.
THEOREM OneCapInForce == Spec /\ []CapsSetInTurn => []OneActiveCap
PROOF
  <1>1. Init => OneCapInv
    BY GateAssumption, LedgerAssumption DEF Init, OneCapInv, AbsentCap, Processes, CapIds
  <1>2. TypeInv /\ OneCapInv /\ CapsSetInTurn /\ [Next]_vars => OneCapInv'
    BY OneCapNext
  <1>3. OneCapInv => OneActiveCap
    <2> SUFFICES ASSUME OneCapInv PROVE OneActiveCap
      OBVIOUS
    <2> DEFINE S == {c \in CapIds : caps[c].status = "active"}
    <2>1. S \subseteq {capCount}
      BY DEF OneCapInv
    <2>2. IsFiniteSet({capCount}) /\ Cardinality({capCount}) = 1
      BY FS_Singleton
    <2> HIDE DEF S
    <2>3. Cardinality(S) <= 1
      BY <2>1, <2>2, FS_Subset
    <2> QED BY <2>3 DEF OneActiveCap, S
  <1> QED BY <1>1, <1>2, <1>3, TypeInvariant, PTL DEF Spec

-----------------------------------------------------------------------------
(* Coins.                                                                    *)

\* A redemption that has found its coins and not yet taken them.
Redeeming(r) == pc[r] = "insert_coins" /\ req[r].kind = "redeem"

\* What it found is still there.
CoinsCovered ==
  /\ coins >= 0
  /\ \A r \in Rows : Redeeming(r) => coins >= req[r].amount
  /\ \A r \in Rows : pc[r] = "insert_coins" => req[r].kind \in CoinKinds

\* No redemption sums the balance while another is about to be inserted.
RedeemedInTurn == \A r, o \in Rows : Redeeming(r) /\ Redeeming(o) => r = o

\* No coins move, and nobody starts to insert any.
LEMMA CoinsUntouched ==
  ASSUME CoinsCovered, UNCHANGED <<coins, req>>,
         \A r \in Rows : pc'[r] = "insert_coins" => pc[r] = "insert_coins"
  PROVE  CoinsCovered'
  BY DEF CoinsCovered, Redeeming

\* Only a row of its own makes a process move coins.
LEMMA CoinsOfRow ==
  ASSUME TypeInv, NEW p \in Processes, pc[p] \in {"execute", "insert_coins"},
         ExecutedKind(p) \in CoinKinds
  PROVE  /\ p \in Rows /\ row[p] = p /\ req[p].kind = ExecutedKind(p)
         /\ req[p].amount \in Nat /\ req[p].amount > 0
  <1>1. p \in Rows /\ req[p].kind = ExecutedKind(p)
    BY DEF ExecutedKind, CoinKinds
  <1>2. ShapeOf(p)
    BY DEF TypeInv, Shape
  <1>3. req[p] \in Request
    BY <1>1, GateAssumption DEF TypeInv, TypeOK
  <1> QED BY <1>1, <1>2, <1>3 DEF ShapeOf, Request

LEMMA CoinsSettle ==
  ASSUME TypeInv, CoinsCovered, RedeemedInTurn, NEW p \in Processes, Settle(p) \/ ExecutionThrows(p)
  PROVE  CoinsCovered'
PROOF
  <1>0. /\ ProcTyped /\ coins \in Int /\ Rows \subseteq Processes
        /\ \A r \in Rows : req[r].amount \in Nat
    BY TypeGroups, GateAssumption DEF TypeInv, EnvTyped, Processes, Request
  <1>1. CASE SumBalance(p)
    <2>1. p \in Rows /\ row[p] = p /\ req[p].kind = ExecutedKind(p) /\ UNCHANGED <<coins, req>>
      BY <1>1, CoinsOfRow DEF SumBalance, envVars
    <2>2. \A r \in Rows : r # p => pc'[r] = pc[r]
      BY <1>0, <1>1 DEF SumBalance, Goto, ProcTyped
    <2>3. pc'[p] = "insert_coins" /\ req[p].kind = "redeem" => coins >= req[p].amount
      BY <1>0, <1>1, <2>1 DEF SumBalance, Goto, ProcTyped, CoinsDelta
    <2>4. req[p].kind \in CoinKinds
      BY <1>1, <2>1 DEF SumBalance
    <2> QED BY <2>1, <2>2, <2>3, <2>4 DEF CoinsCovered, Redeeming
  <1>2. CASE SettleCoins(p)
    <2>1. p \in Processes /\ pc[p] = "insert_coins" /\ coins' = coins + CoinsDelta(p) /\ UNCHANGED req
      BY <1>2 DEF SettleCoins
    <2>2. p \in Rows
      BY <1>0, <2>1 DEF TypeInv, Shape, ShapeOf, PCOf, HandlerPC, Processes
    <2>3. req[p].kind \in CoinKinds /\ ExecutedKind(p) = req[p].kind
      BY <2>1, <2>2 DEF CoinsCovered, ExecutedKind
    <2>4. row[p] = p
      BY <2>1, <2>3, CoinsOfRow
    <2>5. \A r \in Rows : /\ pc'[r] = "insert_coins" => r # p /\ pc[r] = "insert_coins"
      BY <1>0, <1>2, <2>2 DEF SettleCoins, Goto, ProcTyped
    <2>6. CASE req[p].kind = "issue"
      <3>1. CoinsDelta(p) = req[p].amount
        BY <2>3, <2>4, <2>6 DEF CoinsDelta
      <3> QED BY <1>0, <2>1, <2>2, <2>5, <3>1 DEF CoinsCovered, Redeeming
    <2>7. CASE req[p].kind = "redeem"
      <3>1. CoinsDelta(p) = -req[p].amount
        BY <2>3, <2>4, <2>7 DEF CoinsDelta
      <3>2. coins >= req[p].amount
        BY <2>1, <2>2, <2>7 DEF CoinsCovered, Redeeming
      <3>3. \A r \in Rows : ~Redeeming(r)'
        BY <2>1, <2>2, <2>5, <2>7 DEF RedeemedInTurn, Redeeming
      <3>4. coins' >= 0
        BY <1>0, <2>1, <2>2, <3>1, <3>2
      <3> QED BY <2>1, <2>5, <3>3, <3>4 DEF CoinsCovered
    <2> QED BY <2>3, <2>6, <2>7 DEF CoinKinds
  <1>3. CASE ~(SumBalance(p) \/ SettleCoins(p))
    <2>1. UNCHANGED <<coins, req>>
      BY <1>3 DEF Settle, ReleaseShort, CallRazorpay, CommitRow, markNegotiationRedeemed, GiveBack, FailRow,
        ExecutionThrows, envVars
    <2>2. PICK label : Goto(p, label) /\ label # "insert_coins"
      <3>1. next[p] # "insert_coins"
        BY <1>0 DEF ProcTyped
      <3>2. CASE GiveBack(p)
        BY <3>1, <3>2 DEF GiveBack, Goto
      <3>3. CASE CallRazorpay(p) \/ ExecutionThrows(p)
        BY <3>3 DEF CallRazorpay, ExecutionThrows, Unwind, Goto
      <3>4. CASE ReleaseShort(p) \/ CommitRow(p) \/ markNegotiationRedeemed(p) \/ FailRow(p)
        BY <3>4 DEF ReleaseShort, CommitRow, markNegotiationRedeemed, FailRow, Over, Goto
      <3> QED BY <1>3, <3>2, <3>3, <3>4 DEF Settle
    <2>3. \A r \in Rows : pc'[r] = "insert_coins" => pc[r] = "insert_coins"
      BY <1>0, <2>2 DEF Goto, ProcTyped
    <2> QED BY <2>1, <2>3, CoinsUntouched
  <1> QED BY <1>1, <1>2, <1>3

LEMMA CoinsNext ==
  ASSUME TypeInv, CoinsCovered, RedeemedInTurn, [Next]_vars
  PROVE  CoinsCovered'
PROOF
  <1>0. ProcTyped /\ Rows \subseteq Processes /\ Handlers \subseteq Processes
    BY TypeGroups DEF TypeInv, Processes
  <1>1. ASSUME NEW p \in Processes, NEW label, label # "insert_coins", Goto(p, label), UNCHANGED <<coins, req>>
        PROVE  CoinsCovered'
    BY <1>0, <1>1, CoinsUntouched DEF Goto, ProcTyped
  <1>2. ASSUME NEW r \in Rows, Begin(r) \/ checkBounds(r) \/ ReadCap(r) \/ ReserveBudget(r) \/ ReserveStock(r)
                  \/ InsertOrReplay(r) \/ Replay(r) \/ InsertEscalation(r) \/ QueryThrows(r) \/ Crash(r)
        PROVE  CoinsCovered'
    <2>1. UNCHANGED <<coins, req>>
      BY <1>2 DEF Begin, checkBounds, ReadCap, ReserveBudget, ReserveStock, InsertOrReplay, Replay,
        InsertEscalation, QueryThrows, Crash, envVars
    <2>2. \E label : label # "insert_coins" /\ Goto(r, label)
      BY <1>2 DEF Begin, checkBounds, ReadCap, ReserveBudget, ReserveStock, InsertOrReplay, Replay,
        InsertEscalation, QueryThrows, Crash, Deny, Unwind, Goto, AfterLine
    <2> QED BY <1>0, <1>1, <2>1, <2>2
  <1>3. ASSUME NEW h \in Handlers,
               \/ ReleaseClaimed(h) \/ InsertCap(h) \/ ClaimExpired(h) \/ RevokeCaps(h)
               \/ HandlerThrows(h) \/ HandlerCrash(h) \/ \E r \in Rows : Approve(h, r) \/ Reject(h, r)
        PROVE  CoinsCovered'
    <2>1. CASE ReleaseClaimed(h)
      <3>1. UNCHANGED <<coins, req>>
        BY <2>1 DEF ReleaseClaimed, envVars
      <3>2. \E label : label # "insert_coins" /\ Goto(h, label)
        BY <2>1 DEF ReleaseClaimed, Unwind, Goto
      <3> QED BY <1>0, <1>1, <3>1, <3>2
    <2>4. CASE InsertCap(h) \/ RevokeCaps(h)
      <3>1. UNCHANGED <<coins, req>>
        BY <2>4 DEF InsertCap, RevokeCaps, envVars
      <3>2. \E label : label # "insert_coins" /\ Goto(h, label)
        BY <2>4 DEF InsertCap, RevokeCaps, Unwind, Goto
      <3> QED BY <1>0, <1>1, <3>1, <3>2
    <2>5. CASE ClaimExpired(h)
      <3>1. UNCHANGED <<coins, req>>
        BY <2>5 DEF ClaimExpired, envVars
      <3>2. \E label : label # "insert_coins" /\ Goto(h, label)
        BY <2>5 DEF ClaimExpired, Unwind, Goto
      <3> QED BY <1>0, <1>1, <3>1, <3>2
    <2>2. CASE HandlerThrows(h) \/ HandlerCrash(h)
      <3>1. UNCHANGED <<coins, req>>
        BY <2>2 DEF HandlerThrows, HandlerCrash, envVars
      <3>2. \E label : label # "insert_coins" /\ Goto(h, label)
        BY <2>2 DEF HandlerThrows, HandlerCrash, Goto
      <3> QED BY <1>0, <1>1, <3>1, <3>2
    <2>3. ASSUME NEW r \in Rows, Approve(h, r) \/ Reject(h, r) PROVE CoinsCovered'
      <3>1. UNCHANGED <<coins, req>>
        BY <2>3 DEF Approve, Reject, envVars
      <3>2. \E label : label # "insert_coins" /\ Goto(h, label)
        BY <2>3 DEF Approve, Reject, Unwind, Goto
      <3> QED BY <1>0, <1>1, <3>1, <3>2
    <2> QED BY <1>3, <2>1, <2>2, <2>3, <2>4, <2>5
  <1>4. CASE Lapse \/ ToggleShadow \/ ToggleAgent \/ UNCHANGED vars
    BY <1>4, CoinsUntouched DEF Lapse, ToggleShadow, ToggleAgent, vars, envVars, procVars
  <1>5. ASSUME NEW p \in Processes, Settle(p) \/ ExecutionThrows(p) PROVE CoinsCovered'
    BY <1>5, CoinsSettle
  <1> QED BY <1>0, <1>2, <1>3, <1>4, <1>5 DEF Next, AttemptStep, HandlerStep, HandlerCall, Failure, Processes

\* Whatever fails, dies or is resolved: as long as no redemption sums the balance while
\* another is about to be inserted, which nothing in executeAndSettle sees to, a buyer's
\* balance never goes negative.
THEOREM BalanceHolds == Spec /\ []RedeemedInTurn => []BalanceNeverNegative
PROOF
  <1>1. Init => CoinsCovered
    BY GateAssumption DEF Init, CoinsCovered, Redeeming, Processes
  <1>2. TypeInv /\ CoinsCovered /\ RedeemedInTurn /\ [Next]_vars => CoinsCovered'
    BY CoinsNext
  <1>3. CoinsCovered => BalanceNeverNegative
    BY DEF CoinsCovered, BalanceNeverNegative
  <1> QED BY <1>1, <1>2, <1>3, TypeInvariant, PTL DEF Spec

-----------------------------------------------------------------------------
(* What a caller has been told, and what has become of its row.              *)

\* The row has what it asked for.
Delivered(r) ==
  /\ rows[r].status = "executed" /\ rows[r].artifact = req[r].kind
  /\ rows[r].entity <=> req[r].kind \notin CoinKinds

AnswerInv(r) ==
  /\ pc[r] \in {"replay", "done"} /\ rows[r].status = "none" => Empty(r)
  /\ pc[r] = "done" /\ reply[r] = "deny" =>
       \/ rows[r].status = "none"
       \/ rows[r].status = "failed" /\ Empty(r) /\ \A h \in Handlers : r \notin Swept(h)
  /\ pc[r] = "commit" => rows[r].artifact = req[r].kind
  /\ pc[r] = "redeem" => Delivered(r) /\ reply[r] = "allow"
  /\ pc[r] = "done" /\ reply[r] = "allow" /\ rows[r].status # "none" =>
       Delivered(r) /\ (req[r].deal # NoDeal => deals[req[r].deal] = "redeemed")

\* A step that takes nothing of this from the row.
LEMMA AnswerSame ==
  ASSUME NEW r \in Rows, AnswerInv(r), UNCHANGED req, pc'[r] = pc[r], reply'[r] = reply[r],
         rows'[r].status = rows[r].status, rows'[r].artifact = rows[r].artifact,
         rows'[r].entity = rows[r].entity,
         \A x \in Resource : holds'[r][x] = holds[r][x],
         \A d : deals[d] = "redeemed" => deals'[d] = "redeemed",
         \A h \in Handlers : r \in Swept(h)' => r \in Swept(h)
  PROVE  AnswerInv(r)'
  BY DEF AnswerInv, Delivered, Empty

\* A step after which the attempt is somewhere else, or has been told to wait.
LEMMA AnswerAway ==
  ASSUME NEW r \in Rows, pc'[r] \notin {"replay", "done", "commit", "redeem"}
  PROVE  AnswerInv(r)'
  BY DEF AnswerInv

\* A step after which the attempt is answered without a row.
LEMMA AnswerNone ==
  ASSUME NEW r \in Rows, rows'[r].status = "none", Empty(r)',
         pc'[r] \in {"replay", "done"}
  PROVE  AnswerInv(r)'
  BY DEF AnswerInv

\* A row that is in another's hands has not been denied or delivered.
LEMMA AnswerOpen ==
  ASSUME WorkInv, NEW r \in Rows, AnswerInv(r),
         \/ rows[r].status = "pending_escalation"
         \/ rows[r].status = "failed" /\ \E h \in Handlers : r \in Swept(h)
         \/ rows[r].status = "allowed" /\ pc[r] \in {"done", "dead"}
  PROVE  /\ pc[r] \notin {"commit", "redeem"}
         /\ pc[r] = "done" => reply[r] \notin {"deny", "allow"}
         /\ rows[r].status # "none"
  BY DEF AnswerInv, Delivered, WorkInv, Settling, SettlePC

\* Who settles a row sweeps no other than before.
LEMMA SettleSweeps ==
  ASSUME TypeInv, NEW p \in Processes, Settle(p), NEW h \in Handlers, NEW r, r \in Swept(h)'
  PROVE  r \in Swept(h)
PROOF
  <1>0. ProcTyped /\ h \in Processes /\ UNCHANGED <<row, queue>>
    BY TypeGroups DEF TypeInv, Processes, Settle, SumBalance, ReleaseShort, SettleCoins, CallRazorpay, CommitRow,
        markNegotiationRedeemed, GiveBack, FailRow
  <1>1. Sweeping(h)' => Sweeping(h)
    <2>1. CASE h # p
      BY <1>0, <2>1 DEF Settle, SumBalance, ReleaseShort, SettleCoins, CallRazorpay, CommitRow,
        markNegotiationRedeemed, GiveBack, FailRow, Unwind, Goto, ProcTyped, Sweeping
    <2>2. CASE h = p
      <3>1. CASE GiveBack(p)
        BY <1>0, <2>2, <3>1 DEF GiveBack, Sweeping
      <3>2. CASE CallRazorpay(p)
        BY <1>0, <2>2, <3>2 DEF CallRazorpay, Unwind, Goto, ProcTyped, Sweeping
      <3>3. CASE ~GiveBack(p) /\ ~CallRazorpay(p)
        BY <1>0, <2>2, <3>3 DEF Settle, SumBalance, ReleaseShort, SettleCoins, CommitRow,
          markNegotiationRedeemed, FailRow, Goto, Over, ProcTyped, Sweeping
      <3> QED BY <3>1, <3>2, <3>3
    <2> QED BY <2>1, <2>2
  <1> QED BY <1>0, <1>1 DEF Swept

LEMMA AnswerSettle ==
  ASSUME TypeInv, WorkInv, BookInv, RedeemsCoinsAlone, \A r \in Rows : AnswerInv(r),
         NEW p \in Processes, Settle(p)
  PROVE  \A r \in Rows : AnswerInv(r)'
PROOF
  <1>0. /\ RowsTyped /\ ProcTyped /\ ReplyTyped /\ EnvTyped /\ row[p] \in Rows /\ UNCHANGED <<row, req>>
        /\ p \in Rows \/ p \in Handlers
        /\ \A q \in Processes : q # p => pc'[q] = pc[q]
        /\ Rows \subseteq Processes /\ Rows \cap Handlers = {}
        /\ p \in Rows => row[p] = p
    BY TypeGroups, HandParts, GateAssumption
    DEF TypeInv, ShapeOf, Processes, Settle, SumBalance, ReleaseShort, SettleCoins, CallRazorpay, CommitRow,
        markNegotiationRedeemed, GiveBack, FailRow, Unwind, Goto, ProcTyped
  <1>s. PICK s \in Rows : s = row[p]
    BY <1>0
  <1>1. \A o \in Rows : o # s => rows'[o] = rows[o] /\ pc'[o] = pc[o] /\ reply'[o] = reply[o]
    <2>1. \A o \in Rows : o # s => rows'[o] = rows[o]
      BY <1>0, <1>s DEF Settle, SumBalance, ReleaseShort, SettleCoins, CallRazorpay, CommitRow,
        markNegotiationRedeemed, GiveBack, FailRow, RowsTyped
    <2>2. \A o \in Rows : o # s => reply'[o] = reply[o]
      BY <1>0, <1>s DEF Settle, SumBalance, ReleaseShort, SettleCoins, CallRazorpay, CommitRow,
        markNegotiationRedeemed, GiveBack, FailRow, Answer, ReplyTyped
    <2> QED BY <1>0, <1>s, <2>1, <2>2
  <1>2. \A o \in Rows : o # s => \A x \in Resource : holds'[o][x] = holds[o][x]
    <2>1. CASE ReleaseShort(p) \/ GiveBack(p)
      <3>1. Release(s, cap[p], Head(undo[p]))
        BY <1>s, <2>1 DEF ReleaseShort, GiveBack
      <3>2. holds' = [holds EXCEPT ![s][Head(undo[p]).of] = @ - Head(undo[p]).qty]
        BY <3>1 DEF Release, releaseBudget, releaseStock, Uncharge
      <3>3. holds \in [Rows -> [Resource -> Int]]
        BY TypeGroups DEF TypeInv, LedgerTypeOK
      <3> QED BY <3>2, <3>3
    <2>2. CASE ~(ReleaseShort(p) \/ GiveBack(p))
      BY <2>2 DEF Settle, SumBalance, SettleCoins, CallRazorpay, CommitRow, markNegotiationRedeemed, FailRow,
        ledgerVars
    <2> QED BY <2>1, <2>2
  <1>3. \A d : deals[d] = "redeemed" => deals'[d] = "redeemed"
    <2>1. CASE markNegotiationRedeemed(p)
      BY <1>0, <2>1 DEF markNegotiationRedeemed, EnvTyped
    <2>2. CASE ~markNegotiationRedeemed(p)
      BY <2>2 DEF Settle, SumBalance, ReleaseShort, SettleCoins, CallRazorpay, CommitRow, GiveBack, FailRow, envVars
    <2> QED BY <2>1, <2>2
  <1>4. \A h \in Handlers : \A r \in Rows : r \in Swept(h)' => r \in Swept(h)
    BY SettleSweeps
  <1>5. \A o \in Rows : o # s => AnswerInv(o)'
    BY <1>0, <1>1, <1>2, <1>3, <1>4, AnswerSame
  <1> SUFFICES AnswerInv(s)'
    BY <1>5
  <1>6. rows[s] \in Row /\ AnswerInv(s) /\ HandOf(p) /\ ShapeOf(p)
    BY <1>0, HandParts DEF RowsTyped
  <1>7. CASE p \in Rows
    <2>0. s = p
      BY <1>0, <1>s, <1>7
    <2>1. CASE SumBalance(p) \/ ReleaseShort(p)
      BY <1>0, <1>7, <2>0, <2>1, AnswerAway DEF SumBalance, ReleaseShort, Goto, ProcTyped
    <2>2. CASE SettleCoins(p) \/ CallRazorpay(p)
      <3>1. CASE pc'[s] = "commit" /\ rows' = [rows EXCEPT ![s].artifact = req[s].kind]
        BY <1>0, <1>6, <3>1 DEF RowsTyped, Row, AnswerInv
      <3>2. CASE pc'[s] = "give_back"
        BY <3>2, AnswerAway
      <3>3. \/ pc'[s] = "commit" /\ rows' = [rows EXCEPT ![s].artifact = req[s].kind]
            \/ pc'[s] = "give_back"
        <4>1. CASE SettleCoins(p)
          BY <1>0, <1>s, <1>7, <2>0, <4>1 DEF SettleCoins, Goto, ProcTyped, ExecutedKind
        <4>2. CASE CallRazorpay(p)
          BY <1>0, <1>s, <1>7, <2>0, <4>2 DEF CallRazorpay, Goto, Unwind, ProcTyped, ExecutedKind
        <4> QED BY <2>2, <4>1, <4>2
      <3> QED BY <3>1, <3>2, <3>3
    <2>3. CASE CommitRow(p)
      <3>1. /\ rows'[s].status = "executed" /\ rows'[s].artifact = rows[s].artifact
            /\ rows'[s].entity = (req[s].kind \notin CoinKinds)
        BY <1>0, <1>s, <1>6, <1>7, <2>0, <2>3 DEF CommitRow, RowsTyped, Row, ExecutedKind
      <3>2. rows[s].artifact = req[s].kind
        BY <1>6, <2>0, <2>3 DEF CommitRow, AnswerInv
      <3>3. reply'[s] = "allow"
        BY <1>0, <1>7, <2>0, <2>3 DEF CommitRow, Answer, ReplyTyped
      <3>4. Delivered(s)'
        BY <1>0, <3>1, <3>2 DEF Delivered
      <3>5. pc'[s] = "redeem" \/ (pc'[s] = "done" /\ req[s].deal = NoDeal)
        BY <1>0, <1>s, <1>7, <2>0, <2>3 DEF CommitRow, Goto, Over, ProcTyped
      <3> QED BY <1>0, <3>1, <3>3, <3>4, <3>5 DEF AnswerInv
    <2>4. CASE markNegotiationRedeemed(p)
      <3>1. Delivered(s) /\ reply[s] = "allow"
        BY <1>6, <2>0, <2>4 DEF markNegotiationRedeemed, AnswerInv
      <3>2. pc'[s] = "done" /\ UNCHANGED <<rows, reply>>
        BY <1>0, <1>7, <2>0, <2>4 DEF markNegotiationRedeemed, Goto, Over, ProcTyped
      <3>3. req[s].deal # NoDeal => deals'[req[s].deal] = "redeemed"
        <4>1. req[s].deal \in Deals \cup {NoDeal}
          BY <1>0, GateAssumption DEF EnvTyped, Request
        <4> QED BY <1>0, <1>s, <2>4, <4>1 DEF markNegotiationRedeemed, EnvTyped
      <3>4. Delivered(s)'
        BY <1>0, <3>1, <3>2 DEF Delivered
      <3> QED BY <1>0, <3>1, <3>2, <3>3, <3>4 DEF AnswerInv, Delivered
    <2>5. CASE GiveBack(p)
      <3>1. pc'[s] = IF Len(undo[p]) = 1 THEN next[p] ELSE "give_back"
        BY <1>0, <1>7, <2>0, <2>5 DEF GiveBack, Goto, ProcTyped
      <3>2. CASE Len(undo[p]) = 1 /\ next[p] # "fail_row"
        <4>1. rows'[s].status = "none"
          BY <1>7, <2>0, <2>5, <3>2 DEF GiveBack, BookInv, RestOf
        <4>2. Carrying(p) /\ pc[p] # "fail_short" /\ undo[p] \in Seq(Grant)
          BY <2>5, HandParts DEF GiveBack, Holding
        <4>3. PICK rest \in Seq(Grant) : rest = Tail(undo[p])
          BY <4>2, HeadTyped DEF Carrying
        <4>4. rest = <<>>
          <5>1. Len(Tail(undo[p])) = 0
            BY <3>2, <4>2, HeadTailProperties DEF Carrying
          <5> QED BY <4>3, <5>1, EmptySeq
        <4>5. \A x \in Resource : holds'[s][x] = Worth(rest, x)
          BY <1>s, <2>5, <4>2, <4>3, GivenBack DEF GiveBack
        <4>6. Empty(s)'
          BY <4>4, <4>5, WorthEmpty DEF Empty
        <4>7. pc'[s] \in {"replay", "done"}
          BY <1>6, <1>7, <3>1, <3>2 DEF ShapeOf, NextOf
        <4> QED BY <4>1, <4>6, <4>7, AnswerNone
      <3>3. CASE ~(Len(undo[p]) = 1 /\ next[p] # "fail_row")
        BY <3>1, <3>3, AnswerAway
      <3> QED BY <3>2, <3>3
    <2>6. CASE FailRow(p)
      <3>1. Empty(s)
        BY <1>s, <1>6, <2>6, ShortIsEmpty DEF FailRow, HandOf
      <3>2. Empty(s)'
        BY <2>6, <3>1 DEF FailRow, ledgerVars, Empty
      <3>3. rows'[s].status = "failed" /\ reply'[s] = "deny"
        BY <1>0, <1>s, <1>6, <1>7, <2>0, <2>6 DEF FailRow, RowsTyped, Row, Answer, ReplyTyped
      <3>4. rows[s].status = "allowed"
        BY <1>7, <2>0, <2>6 DEF FailRow, WorkInv, Settling, SettlePC
      <3>5. \A h \in Handlers : s \notin Swept(h)
        BY <3>4 DEF BookInv, SweepInv
      <3>6. \A h \in Handlers : s \notin Swept(h)'
        BY <1>4, <3>5
      <3>7. pc'[s] = "done"
        BY <1>0, <1>7, <2>0, <2>6 DEF FailRow, Goto, Over, ProcTyped
      <3> QED BY <3>2, <3>3, <3>6, <3>7 DEF AnswerInv
    <2> QED BY <2>1, <2>2, <2>3, <2>4, <2>5, <2>6 DEF Settle
  <1>8. CASE p \in Handlers
    <2>0. pc'[s] = pc[s] /\ reply'[s] = reply[s]
      <3>1. pc'[s] = pc[s]
        BY <1>0, <1>8
      <3>2. reply' = reply
        BY <1>0, <1>8 DEF Settle, SumBalance, ReleaseShort, SettleCoins, CallRazorpay, CommitRow,
          markNegotiationRedeemed, GiveBack, FailRow
      <3> QED BY <3>1, <3>2
    <2>1. CASE markNegotiationRedeemed(p)
      <3>1. UNCHANGED <<rows, holds>>
        BY <2>1 DEF markNegotiationRedeemed, ledgerVars
      <3> QED BY <1>0, <1>3, <1>4, <1>6, <2>0, <3>1, AnswerSame
    <2>2. CASE ~markNegotiationRedeemed(p)
      <3>1. Settling(p) \/ Sweeping(p)
        <4>1. CASE GiveBack(p)
          BY <1>0, <1>6, <1>8, <4>1 DEF GiveBack, HandOf, ShapeOf, NextOf, Settling, Sweeping
        <4>2. CASE ~GiveBack(p)
          BY <2>2, <4>2 DEF Settle, SumBalance, ReleaseShort, SettleCoins, CallRazorpay, CommitRow, FailRow,
            Settling, SettlePC
        <4> QED BY <4>1, <4>2
      <3>2. \/ rows[s].status = "pending_escalation"
            \/ rows[s].status = "failed" /\ \E h \in Handlers : s \in Swept(h)
        <4>1. CASE Settling(p)
          BY <1>s, <1>8, <4>1 DEF WorkInv
        <4>2. CASE Sweeping(p)
          BY <1>s, <1>8, <4>2 DEF BookInv, SweepInv, Swept
        <4> QED BY <3>1, <4>1, <4>2
      <3>3. /\ pc[s] \notin {"commit", "redeem"} /\ rows[s].status # "none"
            /\ pc[s] = "done" => reply[s] \notin {"deny", "allow"}
        BY <1>6, <3>2, AnswerOpen
      <3>4. rows'[s].status # "none"
        BY <1>0, <1>s, <1>6, <3>3 DEF Settle, SumBalance, ReleaseShort, SettleCoins, CallRazorpay, CommitRow,
          markNegotiationRedeemed, GiveBack, FailRow, RowsTyped, Row
      <3> QED BY <2>0, <3>3, <3>4 DEF AnswerInv
    <2> QED BY <2>1, <2>2
  <1> QED BY <1>0, <1>7, <1>8

LEMMA AnswerAttempt ==
  ASSUME TypeInv, WorkInv, BookInv, \A r \in Rows : AnswerInv(r), NEW r \in Rows,
         Begin(r) \/ checkBounds(r) \/ ReadCap(r) \/ ReserveBudget(r) \/ ReserveStock(r)
           \/ InsertOrReplay(r) \/ Replay(r) \/ InsertEscalation(r)
  PROVE  \A o \in Rows : AnswerInv(o)'
PROOF
  <1>0. /\ RowsTyped /\ ProcTyped /\ ReplyTyped /\ LedgerTypeOK /\ rows[r] \in Row /\ r \in Processes
        /\ Rows \cap Handlers = {} /\ Rows \subseteq Processes /\ Handlers \subseteq Processes
        /\ RestOf(r) /\ AnswerInv(r)
    BY TypeGroups, GateAssumption DEF TypeInv, Processes, RowsTyped, BookInv
  <1>1. UNCHANGED <<row, req, queue, deals>>
    BY DEF Begin, checkBounds, ReadCap, ReserveBudget, ReserveStock, InsertOrReplay, Replay, InsertEscalation,
           envVars
  <1>2. \A q \in Processes : q # r => pc'[q] = pc[q] /\ next'[q] = next[q]
    BY <1>0 DEF Begin, checkBounds, ReadCap, ReserveBudget, ReserveStock, InsertOrReplay, Replay,
       InsertEscalation, Deny, Unwind, Goto, ProcTyped
  <1>3. \A o \in Rows : o # r => rows'[o] = rows[o] /\ reply'[o] = reply[o]
    BY <1>0 DEF Begin, checkBounds, ReadCap, ReserveBudget, ReserveStock, InsertOrReplay, Replay,
       InsertEscalation, Deny, Answer, RowsTyped, ReplyTyped
  <1>4. \A o \in Rows : o # r => \A x \in Resource : holds'[o][x] = holds[o][x]
    <2>1. UNCHANGED holds \/ \E grant : Charge(r, grant)
      BY DEF Begin, checkBounds, ReadCap, ReserveBudget, ReserveStock, InsertOrReplay, Replay, InsertEscalation,
         reserveBudget, reserveStock, ledgerVars
    <2> QED BY <1>0, <2>1 DEF Charge, LedgerTypeOK
  <1>5. \A h \in Handlers : \A o \in Rows : o \in Swept(h)' => o \in Swept(h)
    BY <1>0, <1>1, <1>2 DEF Swept, Sweeping
  <1>6. \A o \in Rows : o # r => AnswerInv(o)'
    BY <1>0, <1>1, <1>2, <1>3, <1>4, <1>5, AnswerSame
  <1> SUFFICES AnswerInv(r)'
    BY <1>6
  <1>7. CASE pc'[r] \notin {"replay", "done", "commit", "redeem"}
    BY <1>7, AnswerAway
  <1>8. CASE Begin(r) \/ checkBounds(r) \/ ReserveBudget(r)
    <2>1. pc[r] \in {"start", "check", "preflight", "reserve_budget"}
      BY <1>8 DEF Begin, checkBounds, ReserveBudget
    <2>2. rows[r].status = "none" /\ Empty(r) /\ UNCHANGED rows
      BY <1>0, <1>8, <2>1 DEF WorkInv, BeforeInsert, RestOf, Begin, checkBounds, ReserveBudget
    <2>3. CASE pc'[r] = "done"
      <3>1. UNCHANGED holds
        <4>1. CASE Begin(r) \/ checkBounds(r)
          BY <4>1 DEF Begin, checkBounds, ledgerVars
        <4>2. CASE ReserveBudget(r)
          BY <1>0, <2>3, <4>2 DEF ReserveBudget, ledgerVars, Goto, AfterLine, ProcTyped
        <4> QED BY <1>8, <4>1, <4>2
      <3>2. Empty(r)'
        BY <2>2, <3>1 DEF Empty
      <3> QED BY <2>2, <2>3, <3>2, AnswerNone
    <2>4. pc'[r] \in {"done", "check", "preflight", "read_cap", "reserve_stock", "insert"}
      BY <1>0, <1>8 DEF Begin, checkBounds, ReserveBudget, Deny, Goto, AfterLine, ProcTyped
    <2> QED BY <1>7, <2>3, <2>4
  <1>9. CASE ReadCap(r) \/ ReserveStock(r) \/ InsertOrReplay(r)
    <2>1. pc'[r] \in {"reserve_budget", "reserve_stock", "insert", "give_back", "execute", "escalate"}
      BY <1>0, <1>9 DEF ReadCap, ReserveStock, InsertOrReplay, Goto, Unwind, AfterLine, ProcTyped
    <2> QED BY <1>7, <2>1
  <1>10. CASE Replay(r)
    <2>1. rows[r].status = "none" /\ UNCHANGED <<rows, holds>> /\ pc[r] = "replay" /\ pc'[r] = "done"
      BY <1>0, <1>10 DEF Replay, RestOf, ledgerVars, Goto, ProcTyped
    <2>2. Empty(r)'
      BY <1>0, <2>1 DEF AnswerInv, Empty
    <2> QED BY <2>1, <2>2, AnswerNone
  <1>11. CASE InsertEscalation(r)
    <2>1. /\ rows'[r].status = "pending_escalation" /\ pc'[r] = "done" /\ reply'[r] = "escalate"
      BY <1>0, <1>11 DEF InsertEscalation, WorkInv, RowsTyped, Row, Goto, Answer, ProcTyped, ReplyTyped
    <2> QED BY <2>1 DEF AnswerInv
  <1> QED BY <1>8, <1>9, <1>10, <1>11

LEMMA AnswerHandler ==
  ASSUME TypeInv, WorkInv, BookInv, Punctual, \A r \in Rows : AnswerInv(r), NEW h \in Handlers,
         \/ ReleaseClaimed(h) \/ ClaimExpired(h) \/ InsertCap(h) \/ RevokeCaps(h)
         \/ \E r \in Rows : Approve(h, r) \/ Reject(h, r)
  PROVE  \A r \in Rows : AnswerInv(r)'
PROOF
  <1>0. /\ RowsTyped /\ ProcTyped /\ ReplyTyped /\ Rows \subseteq Processes /\ Handlers \subseteq Processes
        /\ h \notin Rows
    BY TypeGroups, GateAssumption DEF TypeInv, Processes
  <1>1. UNCHANGED <<req, reply, holds, deals>>
    BY DEF ReleaseClaimed, ClaimExpired, InsertCap, RevokeCaps, Approve, Reject, ledgerVars, envVars
  <1>2. PICK label : Goto(h, label)
    BY DEF ReleaseClaimed, ClaimExpired, InsertCap, RevokeCaps, Approve, Reject, Unwind
  <1>3. \A o \in Rows : pc'[o] = pc[o]
    BY <1>0, <1>2 DEF Goto, ProcTyped
  <1>4. \A g \in Handlers : g # h => Swept(g)' = Swept(g)
    <2>1. \A g \in Handlers : g # h => pc'[g] = pc[g]
      BY <1>0, <1>2 DEF Goto, ProcTyped
    <2>2. \A g \in Handlers : g # h => next'[g] = next[g]
      <3>1. CASE UNCHANGED next
        BY <3>1
      <3>2. CASE \E succ : next' = [next EXCEPT ![h] = succ]
        BY <1>0, <3>2 DEF ReplyTyped, ProcTyped
      <3>3. UNCHANGED next \/ \E succ : next' = [next EXCEPT ![h] = succ]
        BY DEF ReleaseClaimed, ClaimExpired, InsertCap, RevokeCaps, Approve, Reject, Unwind
      <3> QED BY <3>1, <3>2, <3>3
    <2>3. \A g \in Handlers : g # h => row'[g] = row[g]
      <3>1. UNCHANGED row \/ \E s : row' = [row EXCEPT ![h] = s]
        BY DEF ReleaseClaimed, ClaimExpired, InsertCap, RevokeCaps, Approve, Reject, ClaimEscalation
      <3> QED BY <1>0, <3>1 DEF ReplyTyped, ProcTyped
    <2>4. \A g \in Handlers : g # h => queue'[g] = queue[g]
      <3>1. UNCHANGED queue \/ \E left : queue' = [queue EXCEPT ![h] = left]
        BY DEF ReleaseClaimed, ClaimExpired, InsertCap, RevokeCaps, Approve, Reject
      <3> QED BY <1>0, <3>1 DEF ReplyTyped, ProcTyped
    <2> QED BY <2>1, <2>2, <2>3, <2>4 DEF Swept, Sweeping
  <1>5. CASE ReleaseClaimed(h) \/ InsertCap(h) \/ RevokeCaps(h)
    <2>1. \A o \in Rows : o \in Swept(h)' => o \in Swept(h)
      <3>1. CASE ReleaseClaimed(h)
        BY <1>0, <3>1 DEF ReleaseClaimed, Unwind, Goto, Swept, Sweeping, ProcTyped, ReplyTyped
      <3>2. CASE InsertCap(h) \/ RevokeCaps(h)
        BY <1>0, <3>2 DEF InsertCap, RevokeCaps, Goto, Swept, Sweeping, ProcTyped
      <3> QED BY <1>5, <3>1, <3>2
    <2>2. UNCHANGED rows
      BY <1>5 DEF ReleaseClaimed, InsertCap, RevokeCaps
    <2> QED BY <1>1, <1>3, <1>4, <2>1, <2>2, AnswerSame
  <1>6. ASSUME NEW r \in Rows, Approve(h, r) \/ Reject(h, r) PROVE \A o \in Rows : AnswerInv(o)'
    <2>1. \A o \in Rows : o \in Swept(h)' => o \in Swept(h)
      BY <1>0, <1>6 DEF Approve, Reject, Unwind, Goto, Swept, Sweeping, ProcTyped
    <2>2. \A o \in Rows : /\ rows'[o].status = rows[o].status /\ rows'[o].artifact = rows[o].artifact
                          /\ rows'[o].entity = rows[o].entity
      BY <1>0, <1>6 DEF Approve, Reject, ClaimEscalation, RowsTyped, Row
    <2> QED BY <1>1, <1>3, <1>4, <2>1, <2>2, AnswerSame
  <1>7. CASE ClaimExpired(h)
    <2>1. PICK claimed \in SUBSET {r \in Rows : Expired(r)} :
            /\ rows' = [r \in Rows |-> IF r \in claimed
                                       THEN [rows[r] EXCEPT !.status = "failed", !.armed = FALSE]
                                       ELSE rows[r]]
            /\ \E first \in SUBSET claimed : queue' = [queue EXCEPT ![h] = first]
      BY <1>7 DEF ClaimExpired
    <2>2. \A o \in Rows : o \in Swept(h)' => o \in claimed
      <3>1. ~Sweeping(h)' /\ queue'[h] \subseteq claimed
        BY <1>0, <1>7, <2>1 DEF ClaimExpired, Goto, Sweeping, ProcTyped, ReplyTyped
      <3> QED BY <3>1 DEF Swept
    <2>3. ASSUME NEW o \in Rows PROVE AnswerInv(o)'
      <3>1. CASE o \in claimed
        <4>1. rows[o].status = "allowed" /\ pc[o] \in {"done", "dead"} /\ rows[o] \in Row
          BY <1>0, <1>7, <2>1, <3>1 DEF Expired, Punctual, ClaimExpired, RowsTyped
        <4>2. pc[o] = "done" => reply[o] \notin {"deny", "allow"}
          BY <4>1, AnswerOpen
        <4>3. rows'[o].status = "failed"
          BY <2>1, <3>1, <4>1 DEF Row
        <4> QED BY <1>1, <1>3, <4>1, <4>2, <4>3 DEF AnswerInv
      <3>2. CASE o \notin claimed
        <4>1. rows'[o] = rows[o] /\ \A g \in Handlers : o \in Swept(g)' => o \in Swept(g)
          BY <1>4, <2>1, <2>2, <3>2
        <4> QED BY <1>1, <1>3, <4>1, AnswerSame
      <3> QED BY <3>1, <3>2
    <2> QED BY <2>3
  <1> QED BY <1>5, <1>6, <1>7

LEMMA AnswerNext ==
  ASSUME Punctual, "throw" \notin Ops, RedeemsCoinsAlone, TypeInv, WorkInv, BookInv,
         \A r \in Rows : AnswerInv(r), [Next]_vars
  PROVE  \A r \in Rows : AnswerInv(r)'
PROOF
  <1>0. ProcTyped /\ ReplyTyped /\ Rows \subseteq Processes /\ Handlers \subseteq Processes /\ Rows \cap Handlers = {}
    BY TypeGroups, GateAssumption DEF TypeInv, Processes
  <1>1. ASSUME NEW r \in Rows, AttemptStep(r) PROVE \A o \in Rows : AnswerInv(o)'
    BY <1>1, AnswerAttempt, AnswerSettle DEF AttemptStep, Processes
  <1>2. ASSUME NEW h \in Handlers, HandlerStep(h) \/ HandlerCall(h) PROVE \A o \in Rows : AnswerInv(o)'
    BY <1>2, AnswerHandler, AnswerSettle DEF HandlerStep, HandlerCall, Processes
  <1>3. ASSUME NEW r \in Rows, Crash(r) PROVE \A o \in Rows : AnswerInv(o)'
    <2>1. /\ UNCHANGED <<rows, req, reply, holds, deals, row, next, queue>> /\ pc'[r] = "dead"
          /\ \A q \in Processes : q # r => pc'[q] = pc[q]
      BY <1>0, <1>3 DEF Crash, Goto, ProcTyped, ledgerVars, envVars
    <2>2. \A h \in Handlers : Swept(h)' = Swept(h)
      BY <1>0, <2>1 DEF Swept, Sweeping
    <2>3. AnswerInv(r)'
      BY <2>1, AnswerAway
    <2> QED BY <1>0, <2>1, <2>2, <2>3, AnswerSame
  <1>4. ASSUME NEW h \in Handlers, HandlerCrash(h) PROVE \A o \in Rows : AnswerInv(o)'
    <2>1. /\ UNCHANGED <<rows, req, reply, holds, deals, row, next>> /\ pc'[h] = "idle" /\ queue'[h] = {}
          /\ \A q \in Processes : q # h => pc'[q] = pc[q]
          /\ \A g \in Handlers : g # h => queue'[g] = queue[g]
      BY <1>0, <1>4 DEF HandlerCrash, Goto, ProcTyped, ReplyTyped, ledgerVars, envVars
    <2>2. \A g \in Handlers : \A o \in Rows : o \in Swept(g)' => o \in Swept(g)
      BY <1>0, <2>1 DEF Swept, Sweeping
    <2> QED BY <1>0, <2>1, <2>2, AnswerSame
  <1>5. CASE Failure
    BY <1>3, <1>4, <1>5 DEF Failure, ExecutionThrows, QueryThrows, HandlerThrows
  <1>6. CASE Lapse \/ ToggleShadow \/ ToggleAgent \/ UNCHANGED vars
    <2>1. UNCHANGED <<rows, req, reply, holds, deals, row, next, pc, queue>>
      BY <1>6 DEF Lapse, ToggleShadow, ToggleAgent, vars, procVars, ledgerVars, envVars
    <2>2. \A h \in Handlers : Swept(h)' = Swept(h)
      BY <2>1 DEF Swept, Sweeping
    <2> QED BY <2>1, <2>2, AnswerSame
  <1> QED BY <1>1, <1>2, <1>5, <1>6 DEF Next

AnswersInv == \A r \in Rows : AnswerInv(r)

\* If no query fails: whoever was denied is charged nothing and has no live row, whoever
\* was told "allow" by its own row has what it asked for, and what is escalated is fully
\* reserved until it is resolved, whatever else is refused, resolved, swept or dies.
THEOREM AnswersHold ==
  ASSUME ReleasedOnce, "throw" \notin Ops, RedeemsCoinsAlone
  PROVE  Spec => []AnswersAreTrue
PROOF
  <1>1. TypeInv /\ BookInv /\ AnswersInv => AnswersAreTrue
    <2> SUFFICES ASSUME TypeInv, BookInv, \A r \in Rows : AnswerInv(r), NEW r \in Rows, pc[r] = "done"
                 PROVE  /\ reply[r] = "deny" => ~Live(r) /\ \A x \in Resource : holds[r][x] = 0
                        /\ reply[r] = "allow" /\ rows[r].status # "none" =>
                             /\ rows[r].status = "executed"
                             /\ rows[r].artifact = req[r].kind
                             /\ rows[r].entity <=> req[r].kind \notin CoinKinds
                             /\ req[r].deal # NoDeal => deals[req[r].deal] = "redeemed"
                        /\ rows[r].escalation = "pending" =>
                             \A x \in Resource : holds[r][x] = Worth(GrantsOfRow(r), x)
      BY DEF AnswersAreTrue, AnswersInv
    <2>1. AnswerInv(r) /\ RestOf(r)
      BY DEF BookInv
    <2>2. reply[r] = "deny" => ~Live(r) /\ \A x \in Resource : holds[r][x] = 0
      BY <2>1 DEF AnswerInv, Live, Empty
    <2>3. reply[r] = "allow" /\ rows[r].status # "none" =>
            Delivered(r) /\ (req[r].deal # NoDeal => deals[req[r].deal] = "redeemed")
      BY <2>1 DEF AnswerInv
    <2>4. rows[r].escalation = "pending" => \A x \in Resource : holds[r][x] = Worth(GrantsOfRow(r), x)
      BY <2>1 DEF RestOf, Full
    <2> QED BY <2>2, <2>3, <2>4 DEF Delivered
  <1>2. Init => AnswersInv
    BY DEF Init, AnswersInv, AnswerInv, Processes
  <1>3. Punctual
    BY DEF ReleasedOnce, Punctual
  <1>4. TypeInv /\ WorkInv /\ BookInv /\ AnswersInv /\ [Next]_vars => AnswersInv'
    BY <1>3, AnswerNext DEF AnswersInv
  <1> QED BY <1>1, <1>2, <1>4, Balanced, PTL DEF Spec
=============================================================================
