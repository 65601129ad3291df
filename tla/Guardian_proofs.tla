-------------------------- MODULE Guardian_proofs --------------------------
(***************************************************************************)
(* What the Guardian and the kill switch keep true for any number of       *)
(* agents, purchases, sweeps and dashboards.                               *)
(*                                                                         *)
(* FrozenAgentsStayStopped and UnfreezeRestores are not inductive: which   *)
(* agents a freeze stopped depends on what its transaction had read, and   *)
(* what an unfreeze restores on snapshots that an overlapping call may     *)
(* have replaced.  GuardianInv ties the snapshots, the rows and what every *)
(* call under way has read together.                                       *)
(***************************************************************************)
EXTENDS Guardian, TLAPS

Maybe == State \cup {"none"}

EvalSet == [pc : {"idle", "read", "signals", "write", "denied", "allowed"},
            a : Agents \cup {NoAgent}, seen : Maybe, todo : SUBSET Agents]

HandSet == [pc : {"idle", "rearm", "freeze", "unfreeze"}, a : Agents \cup {NoAgent},
            seen : [Agents -> Maybe], prior : [Agents -> Maybe], todo : SUBSET Agents]

Signals == {"none", "breach", "merchant_rearm", "merchant_kill_switch",
            "merchant_kill_switch_release"}

RowSet == [state : State, lastSignal : Signals]

\* An evaluation under way is about an agent, and writes from a state it has read.
EvalOK(e) ==
  /\ e \in EvalSet
  /\ e.pc \in {"read", "signals", "write"} => e.a \in Agents
  /\ e.pc \in {"signals", "write"} => e.seen \in State

\* A call at rest has read nothing; an unfreeze reads the rows of exactly the agents
\* that had a snapshot when it started.
HandOK(h) ==
  /\ h \in HandSet
  /\ h.pc = "idle" => h.seen = Unseen
  /\ h.pc = "rearm" => h.a \in Agents
  /\ h.pc = "unfreeze" => \A a \in Agents : h.prior[a] # "none" <=> h.seen[a] # "none" \/ a \in h.todo

Shape ==
  /\ active \subseteq Agents
  /\ row \in [Agents -> RowSet]
  /\ snapshot \in [Agents -> Maybe]
  /\ frozen \in BOOLEAN
  /\ breaching \in [Agents -> BOOLEAN]
  /\ eval \in [Requests \cup Sweeps -> EvalSet]
  /\ hand \in [Merchants -> HandSet]
  /\ raced \subseteq Agents /\ rearmed \subseteq Agents
  /\ before \in [Agents -> Maybe]

\* While the switch is thrown, an untouched agent with a snapshot is suspended or
\* still in the stopped state the freeze found, which is what its snapshot says.
SnapshotsAreBefore ==
  frozen => \A a \in Agents :
    snapshot[a] # "none" /\ a \notin rearmed \cup raced =>
      /\ snapshot[a] = before[a]
      /\ row[a].state = "suspended" \/ row[a].state = before[a]

GuardianInv ==
  /\ Shape
  /\ \A p \in Requests \cup Sweeps : EvalOK(eval[p])
  /\ \A m \in Merchants : HandOK(hand[m])
  /\ SnapshotsEndWithFreeze
  /\ FrozenAgentsStayStopped
  /\ SnapshotsAreBefore

-----------------------------------------------------------------------------
(* The operators the proof keeps needing.                                  *)

\* A breach leads to a state at least as severe, never up from a stopped one.
LEMMA BreachOnlyRaises ==
  ASSUME NEW s \in State
  PROVE  /\ NEXT_STATE_ON_BREACH(s) \in State
         /\ Stopped(s) => NEXT_STATE_ON_BREACH(s) = s
         /\ Severity[s] <= Severity[NEXT_STATE_ON_BREACH(s)]
<1>1. CASE s = "normal"    BY <1>1 DEF State, NEXT_STATE_ON_BREACH, Stopped, Severity
<1>2. CASE s = "throttled" BY <1>2 DEF State, NEXT_STATE_ON_BREACH, Stopped, Severity
<1>3. CASE s = "suspended" BY <1>3 DEF State, NEXT_STATE_ON_BREACH, Stopped, Severity
<1>4. CASE s = "revoked"   BY <1>4 DEF State, NEXT_STATE_ON_BREACH, Stopped, Severity
<1>5. QED BY <1>1, <1>2, <1>3, <1>4 DEF State

LEMMA SuspendingRaises ==
  ASSUME NEW s \in State, ~Stopped(s)
  PROVE  Severity[s] < Severity["suspended"]
BY DEF State, Stopped, Severity

LEMMA AtRestOK == HandOK(AtRest)
BY DEF HandOK, HandSet, AtRest, Unseen, Maybe, NoAgent

LEMMA NotEvaluatingOK == EvalOK(NotEvaluating)
BY DEF EvalOK, EvalSet, NotEvaluating, Maybe, NoAgent

\* An evaluation that has its answer keeps its agents to come.
LEMMA AnswerOK ==
  ASSUME NEW p \in Requests \cup Sweeps, NEW verdict,
         eval \in [Requests \cup Sweeps -> EvalSet], Answer(p, verdict)
  PROVE  /\ eval' \in [Requests \cup Sweeps -> EvalSet]
         /\ EvalOK(eval'[p])
         /\ \A q \in Requests \cup Sweeps : q # p => eval'[q] = eval[q]
<1> DEFINE v == CASE p \in Sweeps                        -> "idle"
                  [] p \notin Sweeps /\ Stopped(verdict) -> "denied"
                  [] OTHER                               -> "allowed"
<1>1. v \in {"idle", "denied", "allowed"} OBVIOUS
<1>2. eval' = [eval EXCEPT ![p].pc = v, ![p].a = NoAgent, ![p].seen = "none"]
  BY DEF Answer
<1> HIDE DEF v
<1>3. eval'[p].pc = v /\ eval'[p] \in EvalSet
  BY <1>1, <1>2 DEF EvalSet, Maybe
<1>4. QED BY <1>1, <1>2, <1>3 DEF EvalOK, EvalSet

-----------------------------------------------------------------------------
(* The invariant holds initially and is kept by every action.              *)

\* What an action needs to keep, when it leaves alone what the others write.
HandsOK == \A m \in Merchants : HandOK(hand[m])

LEMMA InitHolds == ASSUME Init PROVE GuardianInv
<1> USE GuardianAssumption
<1>1. Shape
  <2>1. NotEvaluating \in EvalSet /\ AtRest \in HandSet
    BY NotEvaluatingOK, AtRestOK DEF EvalOK, HandOK
  <2>2. row \in [Agents -> RowSet] BY DEF Init, RowSet, State, Signals
  <2>3. snapshot \in [Agents -> Maybe] /\ before \in [Agents -> Maybe]
    BY DEF Init, Unseen, Maybe
  <2>4. QED BY <2>1, <2>2, <2>3 DEF Init, Shape
<1>2. \A p \in Requests \cup Sweeps : EvalOK(eval[p])
  BY NotEvaluatingOK DEF Init
<1>3. \A m \in Merchants : HandOK(hand[m])
  BY AtRestOK DEF Init
<1>4. SnapshotsEndWithFreeze
  BY DEF SnapshotsEndWithFreeze, Init, Unseen
<1>5. ~frozen BY DEF Init
<1>6. QED BY <1>1, <1>2, <1>3, <1>4, <1>5
       DEF GuardianInv, FrozenAgentsStayStopped, SnapshotsAreBefore

\* Reading changes only what one evaluation, or one merchant's call, has in hand.
LEMMA EvaluationReads ==
  ASSUME GuardianInv, NEW p \in Requests \cup Sweeps,
         eval' \in [Requests \cup Sweeps -> EvalSet], EvalOK(eval'[p]),
         \A q \in Requests \cup Sweeps : q # p => eval'[q] = eval[q],
         UNCHANGED <<active, row, snapshot, frozen, breaching, hand, history>>
  PROVE  GuardianInv'
<1>1. UNCHANGED <<active, row, snapshot, frozen, breaching, hand, raced, rearmed, before>>
  BY DEF history
<1>2. \A q \in Requests \cup Sweeps : EvalOK(eval[q]) BY DEF GuardianInv
<1>3. \A q \in Requests \cup Sweeps : EvalOK(eval'[q]) BY <1>2
<1>4. Shape' BY <1>1 DEF Shape, GuardianInv
<1>5. (SnapshotsEndWithFreeze /\ FrozenAgentsStayStopped /\ SnapshotsAreBefore)'
  BY <1>1 DEF GuardianInv, SnapshotsEndWithFreeze, FrozenAgentsStayStopped, SnapshotsAreBefore
<1>6. (\A m \in Merchants : HandOK(hand[m]))' BY <1>1 DEF GuardianInv
<1>7. QED BY <1>3, <1>4, <1>5, <1>6 DEF GuardianInv

LEMMA MerchantReads ==
  ASSUME GuardianInv, NEW m \in Merchants, NEW h, HandOK(h),
         hand' = [hand EXCEPT ![m] = h],
         UNCHANGED <<active, row, snapshot, frozen, breaching, eval, history>>
  PROVE  GuardianInv'
<1>1. UNCHANGED <<active, row, snapshot, frozen, breaching, eval, raced, rearmed, before>>
  BY DEF history
<1>2. hand \in [Merchants -> HandSet] /\ \A n \in Merchants : HandOK(hand[n])
  BY DEF GuardianInv, Shape
<1>3. hand' \in [Merchants -> HandSet] /\ \A n \in Merchants : HandOK(hand'[n])
  BY <1>2 DEF HandOK
<1>4. Shape' BY <1>1, <1>3 DEF Shape, GuardianInv
<1>5. (SnapshotsEndWithFreeze /\ FrozenAgentsStayStopped /\ SnapshotsAreBefore)'
  BY <1>1 DEF GuardianInv, SnapshotsEndWithFreeze, FrozenAgentsStayStopped, SnapshotsAreBefore
<1>6. (\A p \in Requests \cup Sweeps : EvalOK(eval[p]))' BY <1>1 DEF GuardianInv
<1>7. QED BY <1>3, <1>4, <1>5, <1>6 DEF GuardianInv

LEMMA RequestKeeps ==
  ASSUME GuardianInv, NEW p \in Requests, NEW a \in Agents, Request(p, a) PROVE GuardianInv'
<1>1. eval[p] \in EvalSet /\ eval \in [Requests \cup Sweeps -> EvalSet]
  BY DEF GuardianInv, Shape
<1>2. /\ eval' \in [Requests \cup Sweeps -> EvalSet]
      /\ EvalOK(eval'[p])
      /\ \A q \in Requests \cup Sweeps : q # p => eval'[q] = eval[q]
  BY <1>1 DEF Request, EvalOK, EvalSet
<1>3. QED BY <1>2, EvaluationReads DEF Request

LEMMA StartSweepKeeps ==
  ASSUME GuardianInv, NEW p \in Sweeps, StartSweep(p) PROVE GuardianInv'
<1>1. eval[p] \in EvalSet /\ eval \in [Requests \cup Sweeps -> EvalSet] /\ active \subseteq Agents
  BY DEF GuardianInv, Shape
<1>2. /\ eval' \in [Requests \cup Sweeps -> EvalSet]
      /\ EvalOK(eval'[p])
      /\ \A q \in Requests \cup Sweeps : q # p => eval'[q] = eval[q]
  BY <1>1 DEF StartSweep, EvalOK, EvalSet
<1>3. QED BY <1>2, EvaluationReads DEF StartSweep

LEMMA SweepNextKeeps ==
  ASSUME GuardianInv, NEW p \in Sweeps, NEW a \in Agents, SweepNext(p, a) PROVE GuardianInv'
<1>1. eval[p] \in EvalSet /\ eval \in [Requests \cup Sweeps -> EvalSet]
  BY DEF GuardianInv, Shape
<1>2. /\ eval' \in [Requests \cup Sweeps -> EvalSet]
      /\ EvalOK(eval'[p])
      /\ \A q \in Requests \cup Sweeps : q # p => eval'[q] = eval[q]
  BY <1>1 DEF SweepNext, EvalOK, EvalSet
<1>3. QED BY <1>2, EvaluationReads DEF SweepNext

LEMMA ReadStateKeeps ==
  ASSUME GuardianInv, NEW p \in Requests \cup Sweeps, ReadState(p) PROVE GuardianInv'
<1>1. /\ eval[p] \in EvalSet /\ eval \in [Requests \cup Sweeps -> EvalSet]
      /\ eval[p].a \in Agents
      /\ row[eval[p].a].state \in State
  BY DEF GuardianInv, Shape, EvalOK, ReadState, RowSet
<1>2. /\ eval' \in [Requests \cup Sweeps -> EvalSet]
      /\ EvalOK(eval'[p])
      /\ \A q \in Requests \cup Sweeps : q # p => eval'[q] = eval[q]
  BY <1>1 DEF ReadState, EvalOK, EvalSet, Maybe
<1>3. QED BY <1>2, EvaluationReads DEF ReadState

LEMMA ComputeSignalsKeeps ==
  ASSUME GuardianInv, NEW p \in Requests \cup Sweeps, ComputeSignals(p) PROVE GuardianInv'
<1>1. /\ eval[p] \in EvalSet /\ eval \in [Requests \cup Sweeps -> EvalSet]
      /\ EvalOK(eval[p]) /\ eval[p].pc = "signals"
  BY DEF GuardianInv, Shape, ComputeSignals
<1>2. /\ eval' \in [Requests \cup Sweeps -> EvalSet]
      /\ EvalOK(eval'[p])
      /\ \A q \in Requests \cup Sweeps : q # p => eval'[q] = eval[q]
  <2>1. CASE eval' = [eval EXCEPT ![p].pc = "write"]
    BY <1>1, <2>1 DEF EvalOK, EvalSet
  <2>2. CASE Answer(p, eval[p].seen)
    BY <1>1, <2>2, AnswerOK
  <2>3. QED BY <2>1, <2>2 DEF ComputeSignals
<1>3. QED BY <1>2, EvaluationReads DEF ComputeSignals

\* Only a transition whose reader nobody overtook leaves its agent out of raced; it
\* moves the agent up, and not out of a stopped state.
LEMMA TransitionKeeps ==
  ASSUME GuardianInv, NEW p \in Requests \cup Sweeps, Transition(p) PROVE GuardianInv'
<1> DEFINE b == eval[p].a
           s == eval[p].seen
           next == NEXT_STATE_ON_BREACH(s)
           put == [state |-> next, lastSignal |-> "breach"]
<1>1. eval[p].pc = "write" /\ EvalOK(eval[p]) /\ b \in Agents /\ s \in State
  BY DEF GuardianInv, Transition, EvalOK
<1>2. next \in State /\ (Stopped(s) => next = s)
  BY <1>1, BreachOnlyRaises
<1>3. /\ row' = [row EXCEPT ![b] = put]
      /\ raced' = IF row[b].state = s THEN raced ELSE raced \cup {b}
      /\ Answer(p, next)
      /\ UNCHANGED <<active, snapshot, frozen, breaching, hand, rearmed, before>>
  BY DEF Transition
<1>4. Shape BY DEF GuardianInv
<1>5. put \in RowSet BY <1>2 DEF RowSet, Signals
<1>6. put.state = next OBVIOUS
<1>7. /\ eval' \in [Requests \cup Sweeps -> EvalSet]
      /\ EvalOK(eval'[p])
      /\ \A q \in Requests \cup Sweeps : q # p => eval'[q] = eval[q]
  BY <1>3, <1>4, AnswerOK DEF Shape
<1> HIDE DEF b, s, next, put
<1>8. /\ row' \in [Agents -> RowSet] /\ row'[b] = put
      /\ \A a \in Agents : a # b => row'[a] = row[a]
  BY <1>1, <1>3, <1>4, <1>5 DEF Shape
<1>9. raced \subseteq raced' /\ raced' \subseteq Agents /\ (b \notin raced' => row[b].state = s)
  BY <1>1, <1>3, <1>4 DEF Shape
<1>10. Shape' BY <1>3, <1>4, <1>7, <1>8, <1>9 DEF Shape
<1>11. (\A q \in Requests \cup Sweeps : EvalOK(eval[q]))'
  BY <1>7 DEF GuardianInv
<1>12. (\A m \in Merchants : HandOK(hand[m]))' BY <1>3 DEF GuardianInv
<1>13. SnapshotsEndWithFreeze'
  BY <1>3, <1>9 DEF GuardianInv, SnapshotsEndWithFreeze
<1>14. ASSUME frozen, NEW a \in Agents, snapshot[a] # "none", a \notin rearmed \cup raced'
       PROVE  /\ Stopped(row'[a].state)
              /\ snapshot[a] = before[a]
              /\ row'[a].state = "suspended" \/ row'[a].state = before[a]
  <2>1. /\ Stopped(row[a].state)
        /\ snapshot[a] = before[a]
        /\ row[a].state = "suspended" \/ row[a].state = before[a]
    BY <1>9, <1>14 DEF GuardianInv, FrozenAgentsStayStopped, SnapshotsAreBefore
  <2>2. row'[a].state = row[a].state
    <3>1. CASE a = b BY <3>1, <2>1, <1>2, <1>6, <1>8, <1>9, <1>14
    <3>2. CASE a # b BY <3>2, <1>8
    <3>3. QED BY <3>1, <3>2
  <2>3. QED BY <2>1, <2>2
<1>15. FrozenAgentsStayStopped' /\ SnapshotsAreBefore'
  BY <1>3, <1>14 DEF FrozenAgentsStayStopped, SnapshotsAreBefore
<1>16. QED BY <1>10, <1>11, <1>12, <1>13, <1>15 DEF GuardianInv

LEMMA ReadForRearmKeeps ==
  ASSUME GuardianInv, NEW m \in Merchants, NEW a \in Agents, ReadForRearm(m, a)
  PROVE  GuardianInv'
<1> DEFINE h == [hand[m] EXCEPT !.pc = "rearm", !.a = a]
<1>1. hand[m] \in HandSet /\ hand \in [Merchants -> HandSet] BY DEF GuardianInv, Shape
<1>2. HandOK(h) BY <1>1 DEF HandOK, HandSet
<1>3. hand' = [hand EXCEPT ![m] = h] BY <1>1 DEF ReadForRearm
<1> HIDE DEF h
<1>4. QED BY <1>2, <1>3, MerchantReads DEF ReadForRearm

LEMMA StartFreezeKeeps ==
  ASSUME GuardianInv, NEW m \in Merchants, StartFreeze(m) PROVE GuardianInv'
<1> DEFINE h == [hand[m] EXCEPT !.pc = "freeze", !.todo = active]
<1>1. hand[m] \in HandSet /\ active \subseteq Agents BY DEF GuardianInv, Shape
<1>2. HandOK(h) BY <1>1 DEF HandOK, HandSet
<1>3. hand' = [hand EXCEPT ![m] = h] BY <1>1 DEF StartFreeze
<1> HIDE DEF h
<1>4. QED BY <1>2, <1>3, MerchantReads DEF StartFreeze

LEMMA FreezeReadKeeps ==
  ASSUME GuardianInv, NEW m \in Merchants, NEW a \in Agents, FreezeRead(m, a)
  PROVE  GuardianInv'
<1> DEFINE h == [hand[m] EXCEPT !.seen[a] = row[a].state, !.todo = @ \ {a}]
<1>1. /\ hand[m] \in HandSet /\ row[a].state \in Maybe
  BY DEF GuardianInv, Shape, RowSet, Maybe
<1>2. h \in HandSet /\ h.pc = "freeze" BY <1>1 DEF HandSet, FreezeRead
<1>3. HandOK(h) BY <1>2 DEF HandOK
<1>4. hand' = [hand EXCEPT ![m] = h] BY DEF FreezeRead
<1> HIDE DEF h
<1>5. QED BY <1>3, <1>4, MerchantReads DEF FreezeRead

\* What an unfreeze has read and what it has still to read are its snapshots.
LEMMA StartUnfreezeKeeps ==
  ASSUME GuardianInv, NEW m \in Merchants, StartUnfreeze(m) PROVE GuardianInv'
<1> DEFINE h == [hand[m] EXCEPT !.pc = "unfreeze", !.prior = snapshot,
                                !.todo = {a \in Agents : snapshot[a] # "none"}]
<1>1. /\ hand[m] \in HandSet /\ snapshot \in [Agents -> Maybe]
      /\ hand[m].seen = Unseen
  BY DEF GuardianInv, Shape, HandOK, StartUnfreeze
<1>2. h \in HandSet /\ h.pc = "unfreeze" BY <1>1 DEF HandSet
<1>3. /\ h.prior = snapshot /\ h.seen = Unseen
      /\ h.todo = {a \in Agents : snapshot[a] # "none"}
  BY <1>1 DEF HandSet
<1>4. HandOK(h) BY <1>2, <1>3 DEF HandOK, Unseen
<1>5. hand' = [hand EXCEPT ![m] = h] BY DEF StartUnfreeze
<1> HIDE DEF h
<1>6. QED BY <1>4, <1>5, MerchantReads DEF StartUnfreeze

LEMMA UnfreezeReadKeeps ==
  ASSUME GuardianInv, NEW m \in Merchants, NEW a \in Agents, UnfreezeRead(m, a)
  PROVE  GuardianInv'
<1> DEFINE h == [hand[m] EXCEPT !.seen[a] = row[a].state, !.todo = @ \ {a}]
<1>1. /\ hand[m] \in HandSet /\ row[a].state \in State /\ HandOK(hand[m])
      /\ hand[m].pc = "unfreeze" /\ a \in hand[m].todo
  BY DEF GuardianInv, Shape, RowSet, UnfreezeRead
<1>2. h \in HandSet /\ h.pc = "unfreeze" BY <1>1 DEF HandSet, Maybe
<1>3. /\ h.prior = hand[m].prior /\ h.todo = hand[m].todo \ {a}
      /\ h.seen[a] # "none" /\ \A c \in Agents : c # a => h.seen[c] = hand[m].seen[c]
  BY <1>1 DEF HandSet, State
<1>4. HandOK(h) BY <1>1, <1>2, <1>3 DEF HandOK
<1>5. hand' = [hand EXCEPT ![m] = h] BY DEF UnfreezeRead
<1> HIDE DEF h
<1>6. QED BY <1>4, <1>5, MerchantReads DEF UnfreezeRead

LEMMA FreezeFailsKeeps ==
  ASSUME GuardianInv, NEW m \in Merchants, FreezeFails(m) PROVE GuardianInv'
BY AtRestOK, MerchantReads DEF FreezeFails

-----------------------------------------------------------------------------
(* The three writes of the merchant.                                       *)

\* A re-arm while the switch is thrown takes its agent out of what it stopped.
LEMMA RearmKeeps ==
  ASSUME GuardianInv, NEW m \in Merchants, Rearm(m) PROVE GuardianInv'
<1> DEFINE b == hand[m].a
           put == [state |-> "normal", lastSignal |-> "merchant_rearm"]
<1>1. b \in Agents BY DEF GuardianInv, HandOK, Rearm
<1>2. put \in RowSet BY DEF RowSet, State, Signals
<1>3. /\ row' = [row EXCEPT ![b] = put]
      /\ rearmed' = IF frozen THEN rearmed \cup {b} ELSE rearmed
      /\ hand' = [hand EXCEPT ![m] = AtRest]
      /\ UNCHANGED <<active, snapshot, frozen, breaching, eval, raced, before>>
  BY DEF Rearm
<1> HIDE DEF b, put
<1>4. Shape BY DEF GuardianInv
<1>5. /\ row' \in [Agents -> RowSet]
      /\ \A a \in Agents : a # b => row'[a] = row[a]
      /\ rearmed \subseteq rearmed' /\ rearmed' \subseteq Agents /\ (frozen => b \in rearmed')
  BY <1>1, <1>2, <1>3, <1>4 DEF Shape
<1>6. hand' \in [Merchants -> HandSet] /\ \A n \in Merchants : HandOK(hand'[n])
  BY <1>3, <1>4, AtRestOK DEF GuardianInv, HandOK, Shape
<1>7. Shape' BY <1>3, <1>4, <1>5, <1>6 DEF Shape
<1>8. (\A p \in Requests \cup Sweeps : EvalOK(eval[p]))' BY <1>3 DEF GuardianInv
<1>9. SnapshotsEndWithFreeze' BY <1>3 DEF GuardianInv, SnapshotsEndWithFreeze
<1>10. FrozenAgentsStayStopped' /\ SnapshotsAreBefore'
  BY <1>3, <1>5 DEF GuardianInv, FrozenAgentsStayStopped, SnapshotsAreBefore
<1>11. QED BY <1>6, <1>7, <1>8, <1>9, <1>10 DEF GuardianInv

LEMMA FreezeCommitKeeps ==
  ASSUME GuardianInv, NEW m \in Merchants, FreezeCommit(m) PROVE GuardianInv'
<1> DEFINE seen == hand[m].seen
           found == Found(m)
           stop == [state |-> "suspended", lastSignal |-> "merchant_kill_switch"]
<1>1. Shape /\ ~frozen /\ seen \in [Agents -> Maybe]
  BY DEF GuardianInv, Shape, FreezeCommit, Conflict, HandSet
<1>2. found = {a \in Agents : seen[a] # "none"} BY DEF Found
<1>3. Suspends(m) = {a \in found : ~Stopped(seen[a])} BY DEF Suspends
<1>4. /\ frozen' = TRUE
      /\ snapshot' = [a \in Agents |-> IF a \in found THEN seen[a] ELSE snapshot[a]]
      /\ row' = [a \in Agents |-> IF a \in found /\ ~Stopped(seen[a]) THEN stop ELSE row[a]]
      /\ raced' = (raced \ found) \cup {a \in found : row[a].state # seen[a]}
      /\ rearmed' = rearmed \ found
      /\ before' = [a \in Agents |-> row[a].state]
      /\ hand' = [hand EXCEPT ![m] = AtRest]
      /\ UNCHANGED <<active, breaching, eval>>
  <2>1. row' = [a \in Agents |-> IF a \in Suspends(m) THEN stop ELSE row[a]]
    BY DEF FreezeCommit
  <2>2. \A a \in Agents : a \in Suspends(m) <=> a \in found /\ ~Stopped(seen[a])
    BY <1>3
  <2>3. row' = [a \in Agents |-> IF a \in found /\ ~Stopped(seen[a]) THEN stop ELSE row[a]]
    BY <2>1, <2>2
  <2>4. QED BY <2>3 DEF FreezeCommit
<1>5. stop \in RowSet /\ stop.state = "suspended" BY DEF RowSet, State, Signals
<1> HIDE DEF seen, found, stop
<1>6. hand' \in [Merchants -> HandSet] /\ \A n \in Merchants : HandOK(hand'[n])
  BY <1>1, <1>4, AtRestOK DEF GuardianInv, HandOK, Shape
<1>7. row' \in [Agents -> RowSet] BY <1>1, <1>4, <1>5 DEF Shape
<1>8. snapshot' \in [Agents -> Maybe] BY <1>1, <1>4 DEF Shape
<1>9. before' \in [Agents -> Maybe] BY <1>1, <1>4 DEF Shape, RowSet, Maybe
<1>10. raced' \subseteq Agents /\ rearmed' \subseteq Agents BY <1>1, <1>2, <1>4 DEF Shape
<1>11. Shape' BY <1>1, <1>4, <1>6, <1>7, <1>8, <1>9, <1>10 DEF Shape
<1>12. (\A p \in Requests \cup Sweeps : EvalOK(eval[p]))' BY <1>4 DEF GuardianInv
<1>13. SnapshotsEndWithFreeze' BY <1>4 DEF SnapshotsEndWithFreeze
<1>14. ASSUME NEW a \in Agents, snapshot'[a] # "none", a \notin raced'
       PROVE  /\ Stopped(row'[a].state)
              /\ snapshot'[a] = before'[a]
              /\ row'[a].state = "suspended" \/ row'[a].state = before'[a]
  <2>1. a \in found
    <3> SUFFICES ASSUME a \notin found PROVE FALSE OBVIOUS
    <3>1. snapshot[a] # "none" /\ a \notin raced BY <1>4, <1>14
    <3>2. QED BY <3>1, <1>1 DEF GuardianInv, SnapshotsEndWithFreeze
  <2>2. row[a].state = seen[a] /\ snapshot'[a] = seen[a] /\ before'[a] = row[a].state
    BY <2>1, <1>4, <1>14
  <2>3. CASE Stopped(seen[a])
    <3>1. row'[a] = row[a] BY <2>3, <1>4
    <3>2. QED BY <3>1, <2>2, <2>3
  <2>4. CASE ~Stopped(seen[a])
    <3>1. row'[a] = stop BY <2>4, <2>1, <1>4
    <3>2. QED BY <3>1, <2>2, <1>5 DEF Stopped
  <2>5. QED BY <2>3, <2>4
<1>15. FrozenAgentsStayStopped' /\ SnapshotsAreBefore'
  BY <1>14 DEF FrozenAgentsStayStopped, SnapshotsAreBefore
<1>16. QED BY <1>6, <1>11, <1>12, <1>13, <1>15 DEF GuardianInv

\* A snapshot the unfreeze does not delete is one it has not read.
LEMMA UnfreezeCommitKeeps ==
  ASSUME GuardianInv, NEW m \in Merchants, UnfreezeCommit(m) PROVE GuardianInv'
<1> DEFINE seen == hand[m].seen
           prior == hand[m].prior
           back(a) == [state |-> prior[a], lastSignal |-> "merchant_kill_switch_release"]
<1>1. /\ Shape /\ seen \in [Agents -> Maybe] /\ prior \in [Agents -> Maybe]
      /\ \A a \in Agents : prior[a] # "none" <=> seen[a] # "none"
  BY DEF GuardianInv, Shape, UnfreezeCommit, HandSet, HandOK
<1>2. /\ frozen' = FALSE
      /\ snapshot' = [a \in Agents |-> IF seen[a] # "none" THEN "none" ELSE snapshot[a]]
      /\ row' = [a \in Agents |-> IF seen[a] = "suspended" THEN back(a) ELSE row[a]]
      /\ raced' = {a \in Agents : \/ a \in Found(m) /\ row[a].state # seen[a]
                                  \/ snapshot[a] # prior[a]}
      /\ rearmed' = {} /\ before' = Unseen
      /\ hand' = [hand EXCEPT ![m] = AtRest]
      /\ UNCHANGED <<active, breaching, eval>>
  BY DEF UnfreezeCommit, Cleared, Found, Restored
<1> HIDE DEF seen, prior
<1>3. hand' \in [Merchants -> HandSet] /\ \A n \in Merchants : HandOK(hand'[n])
  BY <1>1, <1>2, AtRestOK DEF GuardianInv, HandOK, Shape
<1>4. row' \in [Agents -> RowSet]
  <2>1. ASSUME NEW a \in Agents, seen[a] = "suspended" PROVE back(a) \in RowSet
    BY <1>1, <2>1 DEF RowSet, Maybe, Signals
  <2>2. QED BY <1>1, <1>2, <2>1 DEF Shape
<1>5. snapshot' \in [Agents -> Maybe] /\ before' \in [Agents -> Maybe]
  BY <1>1, <1>2 DEF Shape, Unseen, Maybe
<1>6. Shape' BY <1>1, <1>2, <1>3, <1>4, <1>5 DEF Shape
<1>7. (\A p \in Requests \cup Sweeps : EvalOK(eval[p]))' BY <1>2 DEF GuardianInv
<1>8. SnapshotsEndWithFreeze' BY <1>1, <1>2 DEF SnapshotsEndWithFreeze
<1>9. FrozenAgentsStayStopped' /\ SnapshotsAreBefore'
  BY <1>2 DEF FrozenAgentsStayStopped, SnapshotsAreBefore
<1>10. QED BY <1>3, <1>6, <1>7, <1>8, <1>9 DEF GuardianInv

LEMMA RegisterAgentKeeps ==
  ASSUME GuardianInv, NEW a \in Agents, RegisterAgent(a) PROVE GuardianInv'
BY DEF RegisterAgent, history, GuardianInv, Shape, SnapshotsEndWithFreeze,
       FrozenAgentsStayStopped, SnapshotsAreBefore

LEMMA BehaveKeeps ==
  ASSUME GuardianInv, NEW a \in Agents, Behave(a) PROVE GuardianInv'
BY DEF Behave, history, GuardianInv, Shape, SnapshotsEndWithFreeze,
       FrozenAgentsStayStopped, SnapshotsAreBefore

LEMMA StutterKeeps == ASSUME GuardianInv, UNCHANGED vars PROVE GuardianInv'
BY DEF vars, GuardianInv, Shape, SnapshotsEndWithFreeze, FrozenAgentsStayStopped,
       SnapshotsAreBefore

LEMMA NextKeeps == ASSUME GuardianInv, Next PROVE GuardianInv'
<1>1. ASSUME NEW p \in Requests \cup Sweeps, EvaluationStep(p) PROVE GuardianInv'
  BY <1>1, ReadStateKeeps, ComputeSignalsKeeps, TransitionKeeps DEF EvaluationStep
<1>2. ASSUME NEW p \in Requests, NEW a \in Agents, Request(p, a) PROVE GuardianInv'
  BY <1>2, RequestKeeps
<1>3. ASSUME NEW p \in Sweeps, SweepStep(p) PROVE GuardianInv'
  BY <1>1, <1>3, StartSweepKeeps, SweepNextKeeps DEF SweepStep
<1>4. ASSUME NEW m \in Merchants, MerchantStep(m) PROVE GuardianInv'
  BY <1>4, RearmKeeps, FreezeCommitKeeps, FreezeFailsKeeps, UnfreezeCommitKeeps,
     FreezeReadKeeps, UnfreezeReadKeeps DEF MerchantStep
<1>5. ASSUME NEW m \in Merchants, StartFreeze(m) \/ StartUnfreeze(m) PROVE GuardianInv'
  BY <1>5, StartFreezeKeeps, StartUnfreezeKeeps
<1>6. ASSUME NEW m \in Merchants, NEW a \in Agents, ReadForRearm(m, a) PROVE GuardianInv'
  BY <1>6, ReadForRearmKeeps
<1>7. ASSUME NEW a \in Agents, RegisterAgent(a) \/ Behave(a) PROVE GuardianInv'
  BY <1>7, RegisterAgentKeeps, BehaveKeeps
<1>8. QED BY <1>1, <1>2, <1>3, <1>4, <1>5, <1>6, <1>7 DEF Next

\* The rows, the snapshots and what every call under way has read stay consistent,
\* however evaluations, re-arms, freezes and unfreezes interleave.
THEOREM GuardianInvariant == Spec => []GuardianInv
<1>1. Init => GuardianInv BY InitHolds
<1>2. GuardianInv /\ [Next]_vars => GuardianInv' BY NextKeeps, StutterKeeps
<1>3. QED BY <1>1, <1>2, PTL DEF Spec

\* Every state of the Guardian is one of the code's.
THEOREM GuardianTyped == Spec => []GuardianTypeOK
<1>1. GuardianInv => GuardianTypeOK
  BY DEF GuardianInv, Shape, GuardianTypeOK, RowSet, EvalSet, Maybe
<1>2. QED BY <1>1, GuardianInvariant, PTL

\* While the kill switch is thrown, no agent it stopped can buy, unless the merchant
\* re-armed it or a write overtook a read of freezeAllAgents, rearmAgent or
\* evaluateAndTransition.
THEOREM FrozenStayStopped == Spec => []FrozenAgentsStayStopped
<1>1. GuardianInv => FrozenAgentsStayStopped BY DEF GuardianInv
<1>2. QED BY <1>1, GuardianInvariant, PTL

\* No snapshot outlives its freeze, except one that an overlapping unfreeze missed:
\* freezeAllAgents does not fail on the leftovers of an earlier freeze.
THEOREM NoSnapshotOutlivesItsFreeze == Spec => []SnapshotsEndWithFreeze
<1>1. GuardianInv => SnapshotsEndWithFreeze BY DEF GuardianInv
<1>2. QED BY <1>1, GuardianInvariant, PTL

\* unfreezeAllAgents is the only step that ends a freeze.
LEMMA OnlyUnfreezeEnds ==
  ASSUME GuardianInv, [Next]_vars, frozen, ~frozen'
  PROVE  \E m \in Merchants : UnfreezeCommit(m)
BY DEF Next, vars, history, EvaluationStep, SweepStep, MerchantStep, Request, StartSweep,
       SweepNext, ReadState, ComputeSignals, Transition, ReadForRearm, Rearm, StartFreeze,
       FreezeRead, FreezeCommit, FreezeFails, StartUnfreeze, UnfreezeRead, RegisterAgent,
       Behave

\* Unfreezing gives every agent that nobody touched the state the freeze found.
THEOREM UnfreezeGivesBack == Spec => UnfreezeRestores
<1>1. ASSUME GuardianInv, [Next]_vars, frozen, ~frozen', NEW a \in Agents,
             snapshot[a] # "none", a \notin rearmed \cup raced \cup raced'
      PROVE  row'[a].state = before[a]
  <2>1. PICK m \in Merchants : UnfreezeCommit(m) BY <1>1, OnlyUnfreezeEnds
  <2>2. /\ hand[m].prior[a] # "none" <=> hand[m].seen[a] # "none"
        /\ row' = [c \in Agents |->
             IF hand[m].seen[c] = "suspended"
             THEN [state |-> hand[m].prior[c], lastSignal |-> "merchant_kill_switch_release"]
             ELSE row[c]]
        /\ raced' = {c \in Agents : \/ c \in Found(m) /\ row[c].state # hand[m].seen[c]
                                    \/ snapshot[c] # hand[m].prior[c]}
    BY <1>1, <2>1 DEF UnfreezeCommit, GuardianInv, HandOK, Restored
  <2>3. snapshot[a] = hand[m].prior[a] /\ hand[m].seen[a] # "none" BY <1>1, <2>2
  <2>4. row[a].state = hand[m].seen[a] BY <1>1, <2>2, <2>3 DEF Found
  <2>5. /\ snapshot[a] = before[a]
        /\ row[a].state = "suspended" \/ row[a].state = before[a]
    BY <1>1 DEF GuardianInv, SnapshotsAreBefore
  <2>6. CASE hand[m].seen[a] = "suspended" BY <2>2, <2>3, <2>5, <2>6
  <2>7. CASE hand[m].seen[a] # "suspended" BY <2>2, <2>4, <2>5, <2>7
  <2>8. QED BY <2>6, <2>7
<1>2. GuardianInv /\ [Next]_vars =>
        (frozen /\ ~frozen' =>
           \A a \in Agents : snapshot[a] # "none" /\ a \notin rearmed \cup raced \cup raced' =>
             row'[a].state = before[a])
  BY <1>1
<1>3. QED BY <1>2, GuardianInvariant, PTL DEF UnfreezeRestores, Spec

\* An evaluation that no write overtook only raises the severity of its agent, and so
\* does a freeze: from a state the Guardian put it in, only the merchant brings an
\* agent down.
THEOREM GuardianNeverLowers == Spec => OnlyMerchantLowers
<1> DEFINE Lowered(a) == Severity[row'[a].state] < Severity[row[a].state] /\ a \notin raced'
           ByMerchant(a) ==
             row'[a].lastSignal \in {"merchant_rearm", "merchant_kill_switch_release"}
<1>1. ASSUME GuardianInv, [Next]_vars, NEW a \in Agents, Lowered(a) PROVE ByMerchant(a)
  <2>1. row \in [Agents -> RowSet] /\ row[a].state \in State /\ Severity[row[a].state] \in Int
    BY <1>1 DEF GuardianInv, Shape, RowSet, State, Severity
  <2>2. row'[a] # row[a] BY <1>1, <2>1
  <2>3. CASE \E p \in Requests \cup Sweeps : Transition(p)
    <3>1. PICK p \in Requests \cup Sweeps : Transition(p) BY <2>3
    <3>2. /\ eval[p].a \in Agents /\ eval[p].seen \in State
          /\ row' = [row EXCEPT ![eval[p].a] =
               [state |-> NEXT_STATE_ON_BREACH(eval[p].seen), lastSignal |-> "breach"]]
          /\ raced' = IF row[eval[p].a].state = eval[p].seen THEN raced
                      ELSE raced \cup {eval[p].a}
      BY <1>1, <3>1 DEF GuardianInv, EvalOK, Transition
    <3>3. a = eval[p].a BY <2>1, <2>2, <3>2
    <3>4. row[a].state = eval[p].seen BY <1>1, <3>2, <3>3
    <3>5. row'[a].state = NEXT_STATE_ON_BREACH(row[a].state) BY <2>1, <3>2, <3>3, <3>4
    <3>6. /\ Severity[row[a].state] <= Severity[row'[a].state]
          /\ Severity[row'[a].state] \in Int
      <4>1. \A s \in State : Severity[s] \in Int BY DEF State, Severity
      <4>2. QED BY <2>1, <3>5, <4>1, BreachOnlyRaises
    <3>7. QED BY <1>1, <2>1, <3>6
  <2>4. CASE \E m \in Merchants : FreezeCommit(m)
    <3>1. PICK m \in Merchants : FreezeCommit(m) BY <2>4
    <3>2. a \in Suspends(m) /\ row'[a].state = "suspended" BY <2>2, <3>1 DEF FreezeCommit
    <3>3. a \in Found(m) /\ ~Stopped(hand[m].seen[a]) BY <3>2 DEF Suspends
    <3>4. row[a].state = hand[m].seen[a] BY <1>1, <3>1, <3>3 DEF FreezeCommit
    <3>5. Severity[row[a].state] < Severity[row'[a].state] /\ Severity[row'[a].state] \in Int
      <4>1. Severity["suspended"] \in Int BY DEF Severity
      <4>2. QED BY <2>1, <3>2, <3>3, <3>4, <4>1, SuspendingRaises
    <3>6. QED BY <1>1, <2>1, <3>5
  <2>5. CASE \E m \in Merchants : Rearm(m)
    <3>1. PICK m \in Merchants : Rearm(m) BY <2>5
    <3>2. hand[m].a \in Agents BY <1>1, <3>1 DEF GuardianInv, HandOK, Rearm
    <3>3. QED BY <2>1, <2>2, <3>1, <3>2 DEF Rearm
  <2>6. CASE \E m \in Merchants : UnfreezeCommit(m)
    BY <2>2, <2>6 DEF UnfreezeCommit
  <2>7. CASE row' = row BY <2>2, <2>7
  <2>8. QED
    BY <1>1, <2>3, <2>4, <2>5, <2>6, <2>7
       DEF Next, vars, history, EvaluationStep, SweepStep, MerchantStep, Request, StartSweep,
           SweepNext, ReadState, ComputeSignals, ReadForRearm, StartFreeze, FreezeRead,
           FreezeFails, StartUnfreeze, UnfreezeRead, RegisterAgent, Behave
<1>2. GuardianInv /\ [Next]_vars => \A a \in Agents : Lowered(a) => ByMerchant(a)
  BY <1>1
<1>3. QED BY <1>2, GuardianInvariant, PTL DEF OnlyMerchantLowers, Spec
=============================================================================
