-------------------------- MODULE Recovery_proofs --------------------------
(* What holds of Recovery for every number of runners and failures. *)
EXTENDS Recovery, SequenceTheorems, TLAPS

PC == {"idle", "next", "done", "read", "diagnose", "decide", "stop", "insert", "recovering",
       "writeoff_stop", "writeoff_strategy", "agent", "provision", "gate", "fail", "deliver",
       "save", "report", "none"} \cup Strategies
Result == {"none", "stopped", "not_yet", "final", "failed", "pending"}
AttemptRow ==
  [no: Nat, outcome: {"pending", "succeeded", "failed", "abandoned"}, reason: Result \cup {"attempt"},
   link: Link \cup {NoLink}, next: {"ahead", "passed"}]
FailureRow ==
  [amount: Amounts, status: {"new", "diagnosed", "recovering"} \cup Resolved,
   strategy: Strategies \cup {"none"}]
TaskRow ==
  [status: {"none", "pending", "waiting", "claimed"} \cup Ended, due: {"now", "soon", "backoff"},
   lease: {"fresh", "lapsed"}, count: Nat]
Queued == [f: Failures, count: Nat]
RunnerState ==
  [pc: PC, f: Failures \cup {NoFailure}, no: Nat, row: Nat, count: Nat,
   strategy: Strategies \cup {"none"}, agent: Agents \cup {NoLink}, queue: Seq(Queued), result: Result]

RowsTyped ==
  failure \in [Failures -> FailureRow] /\ attempts \in [Failures -> Seq(AttemptRow)]
TasksTyped ==
  task \in [Failures -> TaskRow] /\ retrying \in [Merchants -> Failures \cup {NoFailure}]
GateTyped == agents \subseteq Agents /\ keys \subseteq Link /\ sent \in [Link -> Nat]
Typed == RowsTyped /\ TasksTyped /\ GateTyped

\* What the attempt ceiling and the ROI governor allow, whatever the status.
Affordable(f, no) ==
  /\ no \in 1..MAX_ATTEMPTS_PER_FAILURE /\ WithinBudget(failure[f].amount, no)
  /\ failure[f].amount \in MIN_RECOVERABLE_AMOUNT_PAISE..(HIGH_VALUE_ESCALATION_PAISE - 1)

\* A runner that got past the stopping rules has a failure and a number within
\* them; one that is about to send holds a key that nobody has sent under.
Past == {"insert", "recovering", "agent", "provision", "gate", "deliver", "save"}
Stopped == {"idle", "next", "done"}
KeyOf(r) == [agent |-> r.agent, f |-> r.f, no |-> r.no]
RunnerOK(r) ==
  /\ r \in RunnerState
  /\ r.pc \notin Stopped => r.f \in Failures
  /\ r.pc \in Past => r.f \in Failures /\ Affordable(r.f, r.no)
  /\ r.pc \in {"gate", "deliver", "save"} => r.agent \in Agents
  /\ r.pc = "deliver" => KeyOf(r) \in keys /\ sent[KeyOf(r)] = 0

RunnersOK == DOMAIN runner = Runners /\ runner = [p \in Runners |-> runner[p]]
             /\ \A p \in Runners : RunnerOK(runner[p])
OneDeliverer ==
  \A p, q \in Runners :
    At(p, "deliver") /\ At(q, "deliver") /\ KeyOf(runner[p]) = KeyOf(runner[q]) => p = q
SentOK == \A l \in Link : sent[l] > 0 => sent[l] = 1 /\ l \in keys /\ Affordable(l.f, l.no)

MeansInv == Typed /\ RunnersOK /\ OneDeliverer /\ SentOK

SameAmounts == \A f \in Failures : failure'[f].amount = failure[f].amount

LEMMA StaysAffordable ==
  ASSUME SameAmounts, NEW f \in Failures, NEW no, Affordable(f, no)
  PROVE  Affordable(f, no)'
  BY DEF SameAmounts, Affordable, WithinBudget

LEMMA LimitsAreNumbers ==
  MIN_RECOVERABLE_AMOUNT_PAISE \in Nat /\ HIGH_VALUE_ESCALATION_PAISE \in Nat
  BY SMT DEF MIN_RECOVERABLE_AMOUNT_PAISE, HIGH_VALUE_ESCALATION_PAISE

\* A step that leaves the runners and the gate alone.
LEMMA StepAside ==
  ASSUME MeansInv, Typed', SameAmounts, UNCHANGED <<runner, keys, sent>>
  PROVE  MeansInv'
PROOF
  <1>1. ASSUME NEW p \in Runners PROVE RunnerOK(runner[p])'
    BY <1>1, StaysAffordable DEF MeansInv, RunnersOK, RunnerOK
  <1>2. RunnersOK' /\ OneDeliverer'
    BY <1>1 DEF MeansInv, RunnersOK, OneDeliverer, At
  <1>3. SentOK'
    BY StaysAffordable DEF MeansInv, SentOK, Link
  <1> QED BY <1>2, <1>3 DEF MeansInv

\* A step of one runner that is not the gate's answer to it, nor the sending.
LEMMA RunnerMoves ==
  ASSUME MeansInv, Typed', SameAmounts, NEW p \in Runners, NEW r \in RunnerState,
         runner' = [runner EXCEPT ![p] = r], sent' = sent, keys \subseteq keys',
         r.pc # "deliver", r.pc \notin Stopped => r.f \in Failures,
         r.pc \in Past => r.f \in Failures /\ Affordable(r.f, r.no),
         r.pc \in {"gate", "save"} => r.agent \in Agents
  PROVE  MeansInv'
PROOF
  <1>1. /\ DOMAIN runner' = Runners /\ runner' = [q \in Runners |-> runner'[q]]
        /\ \A q \in Runners : runner'[q] = IF q = p THEN r ELSE runner[q]
    BY DEF MeansInv, RunnersOK
  <1>2. ASSUME NEW q \in Runners, q # p PROVE RunnerOK(runner[q])'
    BY <1>1, <1>2, StaysAffordable DEF MeansInv, RunnersOK, RunnerOK
  <1>3. RunnerOK(runner[p])'
    BY <1>1, StaysAffordable DEF RunnerOK, Past
  <1>4. OneDeliverer'
    BY <1>1 DEF MeansInv, OneDeliverer, At
  <1>5. SentOK'
    BY StaysAffordable DEF MeansInv, SentOK, Link
  <1> QED BY <1>1, <1>2, <1>3, <1>4, <1>5 DEF MeansInv, RunnersOK

LEMMA RowChanged ==
  ASSUME NEW s \in Seq(AttemptRow), NEW i, NEW row, i \in 1..Len(s) => row \in AttemptRow
  PROVE  [s EXCEPT ![i] = row] \in Seq(AttemptRow)
PROOF
  <1>1. CASE i \in 1..Len(s)
    BY <1>1, ExceptSeq
  <1>2. CASE i \notin 1..Len(s)
    <2>1. [s EXCEPT ![i] = row] = s
      BY <1>2
    <2> QED BY <2>1
  <1> QED BY <1>1, <1>2

LEMMA OutcomeTyped ==
  ASSUME RowsTyped, NEW f, NEW i, NEW v \in {"pending", "succeeded", "failed", "abandoned"},
         attempts' = [attempts EXCEPT ![f][i].outcome = v], failure' = failure
  PROVE  RowsTyped'
PROOF
  <1>1. ASSUME NEW g \in Failures PROVE attempts'[g] \in Seq(AttemptRow)
    <2>1. CASE g = f
      <3>1. attempts'[g] = [attempts[g] EXCEPT ![i] = [attempts[g][i] EXCEPT !.outcome = v]]
        BY <2>1 DEF RowsTyped
      <3>2. i \in 1..Len(attempts[g]) => [attempts[g][i] EXCEPT !.outcome = v] \in AttemptRow
        <4>1. attempts[g] \in Seq(AttemptRow)
          BY DEF RowsTyped
        <4>2. i \in 1..Len(attempts[g]) => attempts[g][i] \in AttemptRow
          BY <4>1
        <4> QED BY <4>2 DEF AttemptRow
      <3> QED BY <3>1, <3>2, RowChanged DEF RowsTyped
    <2>2. CASE g # f
      BY <2>2 DEF RowsTyped
    <2> QED BY <2>1, <2>2
  <1> QED BY <1>1 DEF RowsTyped

LEMMA InitMeans == Init => MeansInv
PROOF
  <1> SUFFICES ASSUME Init PROVE MeansInv
    OBVIOUS
  <1> USE ConstantsAssumption DEF Init, FailureRow, TaskRow
  <1>1. RowsTyped
    <2>1. <<>> \in Seq(AttemptRow)
      OBVIOUS
    <2> QED BY <2>1 DEF RowsTyped
  <1>2. TasksTyped
    BY DEF TasksTyped
  <1>3. GateTyped
    BY DEF GateTyped
  <1>4. Idle \in RunnerState
    <2>1. <<>> \in Seq(Queued)
      OBVIOUS
    <2> QED BY <2>1 DEF Idle, RunnerState, PC, Result
  <1>5. RunnersOK
    BY <1>4 DEF RunnersOK, RunnerOK, Idle, Past, Stopped
  <1>6. OneDeliverer /\ SentOK
    BY DEF OneDeliverer, At, Idle, SentOK
  <1> QED BY <1>1, <1>2, <1>3, <1>5, <1>6 DEF MeansInv, Typed

-----------------------------------------------------------------------------
(* The steps around the runners *)

LEMMA TaskSteps ==
  ASSUME MeansInv, NEW f \in Failures,
         CreateTask(f) \/ CancelTask(f) \/ LeaseLapses(f) \/ WaitElapses(f)
  PROVE  MeansInv'
PROOF
  <1>1. UNCHANGED <<failure, attempts, runner, retrying, keys, sent>>
    BY DEF CreateTask, CancelTask, LeaseLapses, WaitElapses
  <1>2. agents' \subseteq Agents
    BY DEF MeansInv, Typed, GateTyped, CreateTask, CancelTask, LeaseLapses, WaitElapses
  <1>3. task' \in [Failures -> TaskRow]
    <2> USE DEF MeansInv, Typed, TasksTyped, TaskRow
    <2>1. CASE CreateTask(f)
      BY <2>1 DEF CreateTask
    <2>2. CASE CancelTask(f)
      BY <2>2 DEF CancelTask, Terminated, Ended
    <2>3. CASE LeaseLapses(f)
      BY <2>3 DEF LeaseLapses
    <2>4. CASE WaitElapses(f)
      BY <2>4 DEF WaitElapses
    <2> QED BY <2>1, <2>2, <2>3, <2>4
  <1>4. Typed' /\ SameAmounts
    BY <1>1, <1>2, <1>3 DEF MeansInv, Typed, RowsTyped, TasksTyped, GateTyped, SameAmounts
  <1> QED BY <1>1, <1>4, StepAside

LEMMA RetrySteps ==
  ASSUME MeansInv, NEW m \in Merchants, RetryTask(m) \/ \E f \in Failures : ReadForRetry(m, f)
  PROVE  MeansInv'
PROOF
  <1>1. UNCHANGED <<failure, attempts, runner, keys, sent, agents>>
    BY DEF RetryTask, ReadForRetry
  <1>2. TasksTyped'
    <2>1. CASE RetryTask(m)
      <3> DEFINE fresh == [status |-> "pending", due |-> "now", lease |-> "fresh", count |-> 0]
      <3>1. fresh \in TaskRow
        BY DEF TaskRow
      <3>2. task' = [task EXCEPT ![retrying[m]] = fresh]
        BY <2>1 DEF RetryTask
      <3>3. retrying' = [retrying EXCEPT ![m] = NoFailure]
        BY <2>1 DEF RetryTask
      <3> HIDE DEF fresh
      <3> QED BY <3>1, <3>2, <3>3 DEF MeansInv, Typed, TasksTyped
    <2>2. CASE \E f \in Failures : ReadForRetry(m, f)
      BY <2>2 DEF MeansInv, Typed, TasksTyped, ReadForRetry
    <2> QED BY <2>1, <2>2
  <1>3. Typed' /\ SameAmounts
    BY <1>1, <1>2 DEF MeansInv, Typed, RowsTyped, GateTyped, SameAmounts
  <1> QED BY <1>1, <1>3, StepAside

LEMMA LinkSteps ==
  ASSUME MeansInv, NEW l \in Link,
         CustomerPays(l) \/ ConfirmLink(l) \/ ConfirmFailure(l) \/ ConfirmDies(l)
  PROVE  MeansInv'
PROOF
  <1>1. UNCHANGED <<task, retrying, runner, keys, sent, agents>>
    BY DEF CustomerPays, ConfirmLink, ConfirmFailure, ConfirmDies
  <1>2. RowsTyped' /\ SameAmounts
    <2>1. CASE CustomerPays(l) \/ ConfirmDies(l)
      BY <2>1 DEF MeansInv, Typed, RowsTyped, SameAmounts, CustomerPays, ConfirmDies
    <2>2. CASE ConfirmLink(l)
      <3>1. failure' = failure
        BY <2>2 DEF ConfirmLink
      <3>2. CASE attempts' = attempts
        BY <3>1, <3>2 DEF MeansInv, Typed, RowsTyped, SameAmounts
      <3>3. CASE attempts' # attempts
        <4>1. PICK i : attempts' = [attempts EXCEPT ![l.f][i].outcome = "succeeded"]
          BY <2>2, <3>3 DEF ConfirmLink
        <4> QED BY <3>1, <4>1, OutcomeTyped DEF MeansInv, Typed, SameAmounts
      <3> QED BY <3>2, <3>3
    <2>3. CASE ConfirmFailure(l)
      BY <2>3 DEF MeansInv, Typed, RowsTyped, FailureRow, Resolved, SameAmounts, ConfirmFailure, SetStatus
    <2> QED BY <2>1, <2>2, <2>3
  <1>3. Typed'
    BY <1>1, <1>2 DEF MeansInv, Typed, TasksTyped, GateTyped
  <1> QED BY <1>1, <1>2, <1>3, StepAside

LEMMA BackoffStep ==
  ASSUME MeansInv, NEW f \in Failures, BackoffElapses(f)
  PROVE  MeansInv'
PROOF
  <1>1. UNCHANGED <<failure, retrying, runner, keys, sent, agents>>
    BY DEF BackoffElapses
  <1>2. TasksTyped'
    BY DEF MeansInv, Typed, TasksTyped, TaskRow, BackoffElapses
  <1>3. [i \in 1..Len(attempts[f]) |-> [attempts[f][i] EXCEPT !.next = "passed"]] \in Seq(AttemptRow)
    <2>1. attempts[f] \in Seq(AttemptRow)
      BY DEF MeansInv, Typed, RowsTyped
    <2>2. ASSUME NEW i \in 1..Len(attempts[f])
          PROVE  [attempts[f][i] EXCEPT !.next = "passed"] \in AttemptRow
      <3>1. attempts[f][i] \in AttemptRow
        BY <2>1
      <3> QED BY <3>1 DEF AttemptRow
    <2> QED BY <2>1, <2>2
  <1>4. RowsTyped'
    BY <1>1, <1>3 DEF MeansInv, Typed, RowsTyped, BackoffElapses
  <1>5. Typed' /\ SameAmounts
    BY <1>1, <1>2, <1>4 DEF MeansInv, Typed, GateTyped, SameAmounts
  <1> QED BY <1>1, <1>5, StepAside

-----------------------------------------------------------------------------
(* The steps of the runners that leave the gate alone *)

\* The fields of a typed runner, and what it carries past the stopping rules.
LEMMA RunnerTyped ==
  ASSUME MeansInv, NEW p \in Runners
  PROVE  /\ runner[p] \in RunnerState
         /\ runner[p].pc \notin Stopped => runner[p].f \in Failures
         /\ runner[p].pc \in Past => runner[p].f \in Failures /\ Affordable(runner[p].f, runner[p].no)
         /\ runner[p].pc \in {"gate", "deliver", "save"} => runner[p].agent \in Agents
         /\ runner[p].pc \in {"deliver", "save"} => Key(p) \in Link
  BY DEF MeansInv, RunnersOK, RunnerOK, Key, Past, Affordable, Link, MAX_ATTEMPTS_PER_FAILURE

LEMMA Reports ==
  ASSUME MeansInv, Typed', SameAmounts, NEW p \in Runners, NEW result \in Result,
         Report(p, result), sent' = sent, keys \subseteq keys', runner[p].pc \notin Stopped
  PROVE  MeansInv'
PROOF
  <1> DEFINE r == [runner[p] EXCEPT !.pc = "report", !.result = result]
  <1>1. r \in RunnerState /\ r.pc = "report" /\ r.f = runner[p].f
    BY RunnerTyped DEF RunnerState, PC
  <1>2. runner' = [runner EXCEPT ![p] = r]
    BY DEF Report
  <1>3. runner[p].f \in Failures
    BY RunnerTyped
  <1> HIDE DEF r
  <1> QED BY <1>1, <1>2, <1>3, RunnerMoves DEF Past, Stopped

\* A runner that goes on to another statement with nothing new in hand.
LEMMA GoesOn ==
  ASSUME MeansInv, Typed', SameAmounts, NEW p \in Runners, NEW pc \in PC, Goto(p, pc),
         sent' = sent, keys \subseteq keys', pc # "deliver",
         pc \notin Stopped => runner[p].pc \notin Stopped,
         pc \in Past => runner[p].pc \in Past,
         pc \in {"gate", "save"} => runner[p].pc \in {"gate", "deliver", "save"}
  PROVE  MeansInv'
PROOF
  <1> DEFINE r == [runner[p] EXCEPT !.pc = pc]
  <1>1. r \in RunnerState
    BY RunnerTyped DEF RunnerState
  <1>2. /\ r.pc = pc /\ r.f = runner[p].f /\ r.no = runner[p].no /\ r.agent = runner[p].agent
    BY RunnerTyped DEF RunnerState
  <1>3. runner' = [runner EXCEPT ![p] = r]
    BY DEF Goto
  <1> HIDE DEF r
  <1> QED BY <1>1, <1>2, <1>3, RunnerTyped, RunnerMoves

\* A step of one runner that leaves every table alone.
LEMMA OnlyRunners ==
  ASSUME MeansInv, UNCHANGED <<failure, attempts, task, retrying, agents, keys, sent>>
  PROVE  Typed' /\ SameAmounts
  BY DEF MeansInv, Typed, RowsTyped, TasksTyped, GateTyped, SameAmounts

LEMMA ClaimStep ==
  ASSUME MeansInv, NEW p \in Ticks, NEW f \in Failures, Claim(p, f)
  PROVE  MeansInv'
PROOF
  <1> DEFINE entry == [f |-> f, count |-> task'[f].count]
             r == [runner[p] EXCEPT !.queue = Append(@, entry)]
  <1>1. TasksTyped' /\ task'[f].count \in Nat
    <2>1. task[f] \in TaskRow
      BY DEF MeansInv, Typed, TasksTyped
    <2>2. Claimed(task[f]) \in TaskRow
      <3>1. task[f].count + 1 \in Nat
        BY <2>1 DEF TaskRow
      <3>2. [task[f] EXCEPT !.status = "claimed", !.lease = "fresh", !.count = task[f].count + 1] \in TaskRow
        BY <2>1, <3>1 DEF TaskRow
      <3> QED BY <3>2 DEF Claimed
    <2>3. task' = [task EXCEPT ![f] = Claimed(task[f])] /\ retrying' = retrying
      BY DEF Claim
    <2>4. TasksTyped'
      BY <2>2, <2>3 DEF MeansInv, Typed, TasksTyped
    <2>5. task'[f] \in TaskRow
      BY <2>4 DEF TasksTyped
    <2> QED BY <2>4, <2>5 DEF TaskRow
  <1>2. Typed' /\ SameAmounts
    BY <1>1 DEF MeansInv, Typed, RowsTyped, GateTyped, SameAmounts, Claim
  <1>3. entry \in Queued
    BY <1>1 DEF Queued
  <1>4. p \in Runners
    BY DEF Runners
  <1>5. r \in RunnerState
    <2> HIDE DEF entry
    <2>1. runner[p].queue \in Seq(Queued)
      BY <1>4, RunnerTyped DEF RunnerState
    <2>2. Append(runner[p].queue, entry) \in Seq(Queued)
      BY <1>3, <2>1
    <2> QED BY <2>2, <1>4, RunnerTyped DEF RunnerState
  <1>6. r.pc = "idle"
    BY <1>4, RunnerTyped DEF RunnerState, Claim
  <1>7. runner' = [runner EXCEPT ![p] = r] /\ UNCHANGED <<keys, sent>>
    BY DEF Claim
  <1> HIDE DEF r
  <1> QED BY <1>2, <1>4, <1>5, <1>6, <1>7, RunnerMoves DEF Past, Stopped

LEMMA BeginSteps ==
  ASSUME MeansInv, NEW p \in Runners, BeginStep(p) \/ \E f \in Failures : Click(p, f)
  PROVE  MeansInv'
PROOF
  <1>1. Typed' /\ SameAmounts
    BY OnlyRunners DEF BeginStep, Click
  <1>2. CASE BeginStep(p)
    <2> DEFINE first == Head(runner[p].queue)
               r == [runner[p] EXCEPT !.pc = "read", !.f = first.f, !.count = first.count,
                                      !.queue = Tail(@)]
    <2>1. runner[p].queue \in Seq(Queued) /\ runner[p].queue # <<>>
      BY <1>2, RunnerTyped DEF RunnerState, BeginStep
    <2>2. first \in Queued /\ Tail(runner[p].queue) \in Seq(Queued)
      BY <2>1
    <2>3. first.f \in Failures /\ first.count \in Nat
      BY <2>2 DEF Queued
    <2> HIDE DEF first
    <2>4. r \in RunnerState /\ r.pc = "read" /\ r.f \in Failures
      BY <2>2, <2>3, RunnerTyped DEF RunnerState, PC
    <2>5. runner' = [runner EXCEPT ![p] = r] /\ UNCHANGED <<keys, sent>>
      BY <1>2 DEF BeginStep, first
    <2> HIDE DEF r
    <2> QED BY <1>1, <2>4, <2>5, RunnerMoves DEF Past, Stopped
  <1>3. CASE \E f \in Failures : Click(p, f)
    <2>1. PICK f \in Failures : Click(p, f)
      BY <1>3
    <2> DEFINE r == [runner[p] EXCEPT !.pc = "read", !.f = f]
    <2>2. r \in RunnerState /\ r.pc = "read" /\ r.f \in Failures
      BY RunnerTyped DEF RunnerState, PC
    <2>3. runner' = [runner EXCEPT ![p] = r] /\ UNCHANGED <<keys, sent>>
      BY <2>1 DEF Click
    <2> HIDE DEF r
    <2> QED BY <1>1, <2>2, <2>3, RunnerMoves DEF Past, Stopped
  <1> QED BY <1>2, <1>3

LEMMA ReadSteps ==
  ASSUME MeansInv, NEW p \in Runners, ReadFailure(p)
  PROVE  MeansInv'
PROOF
  <1>1. Typed' /\ SameAmounts /\ UNCHANGED <<keys, sent>>
    BY OnlyRunners DEF ReadFailure
  <1>2. CASE Report(p, "stopped")
    BY <1>1, <1>2, Reports DEF Result, Stopped, ReadFailure, At
  <1>3. CASE Goto(p, "diagnose")
    BY <1>1, <1>3, GoesOn DEF PC, Past, Stopped, ReadFailure, At
  <1>4. CASE runner' = [runner EXCEPT ![p].pc = "decide", ![p].strategy = failure[runner[p].f].strategy]
    <2> DEFINE s == failure[runner[p].f].strategy
               r == [runner[p] EXCEPT !.pc = "decide", !.strategy = s]
    <2>1. runner[p].f \in Failures
      BY RunnerTyped DEF ReadFailure, At, Stopped
    <2>2. s \in Strategies \cup {"none"}
      <3>1. failure[runner[p].f] \in FailureRow
        BY <2>1 DEF MeansInv, Typed, RowsTyped
      <3> QED BY <3>1 DEF FailureRow
    <2> HIDE DEF s
    <2>3. r \in RunnerState /\ r.pc = "decide" /\ r.f = runner[p].f
      BY <2>2, RunnerTyped DEF RunnerState, PC
    <2>4. runner' = [runner EXCEPT ![p] = r]
      BY <1>4 DEF s
    <2> HIDE DEF r
    <2> QED BY <1>1, <2>1, <2>3, <2>4, RunnerMoves DEF Past, Stopped
  <1> QED BY <1>2, <1>3, <1>4 DEF ReadFailure

LEMMA DiagnoseStep ==
  ASSUME MeansInv, NEW p \in Runners, Diagnose(p)
  PROVE  MeansInv'
PROOF
  <1>1. PICK s \in Strategies :
          /\ failure' = [failure EXCEPT ![runner[p].f].strategy = s, ![runner[p].f].status = "diagnosed"]
          /\ runner' = [runner EXCEPT ![p].pc = "decide", ![p].strategy = s]
    BY DEF Diagnose
  <1> DEFINE f == runner[p].f
             row == [failure[f] EXCEPT !.strategy = s, !.status = "diagnosed"]
             r == [runner[p] EXCEPT !.pc = "decide", !.strategy = s]
  <1>2. f \in Failures
    BY RunnerTyped DEF Diagnose, At, Stopped
  <1>3. failure[f] \in FailureRow
    BY <1>2 DEF MeansInv, Typed, RowsTyped
  <1>4. row \in FailureRow /\ row.amount = failure[f].amount
    BY <1>3 DEF FailureRow
  <1>5. failure' = [failure EXCEPT ![f] = row] /\ attempts' = attempts
    BY <1>1 DEF Diagnose
  <1>6. r \in RunnerState /\ r.pc = "decide" /\ r.f = f
    BY RunnerTyped DEF RunnerState, PC
  <1>7. runner' = [runner EXCEPT ![p] = r]
    BY <1>1
  <1> HIDE DEF r, row, f
  <1>8. RowsTyped' /\ SameAmounts
    BY <1>2, <1>4, <1>5 DEF MeansInv, Typed, RowsTyped, SameAmounts
  <1>9. Typed' /\ UNCHANGED <<keys, sent>>
    BY <1>8 DEF MeansInv, Typed, TasksTyped, GateTyped, Diagnose
  <1> QED BY <1>2, <1>6, <1>7, <1>8, <1>9, RunnerMoves DEF Past, Stopped

\* Only here does a runner get past the stopping rules, within its means.
LEMMA DecideStep ==
  ASSUME MeansInv, NEW p \in Runners, Decide(p)
  PROVE  MeansInv'
PROOF
  <1> DEFINE f == runner[p].f
             no == Len(attempts[f]) + 1
             pc == IF ShouldAttempt(f, no, runner[p].strategy) THEN "insert" ELSE "stop"
             result == IF TooSoon(f, no, runner[p].strategy) THEN "not_yet" ELSE "stopped"
             r == [runner[p] EXCEPT !.no = no, !.pc = pc, !.result = result]
  <1>1. Typed' /\ SameAmounts /\ UNCHANGED <<keys, sent>>
    BY OnlyRunners DEF Decide
  <1>2. runner' = [runner EXCEPT ![p] = r]
    BY DEF Decide
  <1>3. f \in Failures
    BY RunnerTyped DEF Decide, At, Stopped
  <1>4. no \in Nat \ {0}
    <2>1. attempts[f] \in Seq(AttemptRow)
      BY <1>3 DEF MeansInv, Typed, RowsTyped
    <2> QED BY <2>1
  <1>5. pc = "insert" => Affordable(f, no)
    <2>1. failure[f].amount \in Nat
      <3>1. failure[f] \in FailureRow
        BY <1>3 DEF MeansInv, Typed, RowsTyped
      <3> QED BY <3>1, ConstantsAssumption DEF FailureRow
    <2> HIDE DEF no, f
    <2> HIDE DEF pc
    <2>2. pc = "insert" => ShouldAttempt(f, no, runner[p].strategy)
      BY DEF pc
    <2> QED BY <1>4, <2>1, <2>2, LimitsAreNumbers
            DEF ShouldAttempt, Affordable, MAX_ATTEMPTS_PER_FAILURE
  <1>6. pc \in {"insert", "stop"} /\ result \in {"stopped", "not_yet"}
    OBVIOUS
  <1> HIDE DEF pc, result, no
  <1>7. r \in RunnerState /\ r.pc = pc /\ r.f = f /\ r.no = no
    BY <1>4, <1>6, RunnerTyped DEF RunnerState, PC, Result
  <1> HIDE DEF r, f
  <1> QED BY <1>1, <1>2, <1>3, <1>5, <1>6, <1>7, RunnerMoves DEF Past, Stopped

\* A new row at the end of a failure's attempts.
LEMMA InsertTyped ==
  ASSUME MeansInv, NEW p \in Runners, runner[p].f \in Failures, NEW row \in AttemptRow,
         InsertRow(p, row), UNCHANGED <<failure, task, retrying, agents, keys, sent>>
  PROVE  Typed' /\ SameAmounts
PROOF
  <1>1. RowsTyped'
    <2>1. attempts[runner[p].f] \in Seq(AttemptRow)
      BY DEF MeansInv, Typed, RowsTyped
    <2>2. Append(attempts[runner[p].f], row) \in Seq(AttemptRow)
      BY <2>1
    <2> QED BY <2>2 DEF MeansInv, Typed, RowsTyped, InsertRow
  <1> QED BY <1>1 DEF MeansInv, Typed, TasksTyped, GateTyped, SameAmounts

LEMMA InsertSteps ==
  ASSUME MeansInv, NEW p \in Runners, RecordStop(p) \/ InsertAttempt(p)
  PROVE  MeansInv'
PROOF
  <1>1. runner[p].f \in Failures /\ runner[p].no \in Nat /\ runner[p].result \in Result
    BY RunnerTyped DEF RunnerState, RecordStop, InsertAttempt, At, Stopped
  <1>2. UNCHANGED <<failure, task, retrying, agents, keys, sent>>
    BY DEF RecordStop, InsertAttempt
  <1>3. CASE RecordStop(p)
    <2>1. Row(p, "abandoned", runner[p].result, "passed") \in AttemptRow
      BY <1>1 DEF Row, AttemptRow
    <2>2. Typed' /\ SameAmounts
      BY <1>1, <1>2, <1>3, <2>1, InsertTyped DEF RecordStop
    <2> QED BY <1>2, <1>3, <2>2, GoesOn DEF RecordStop, At, PC, Past, Stopped
  <1>4. CASE InsertAttempt(p)
    <2>1. Row(p, "pending", "attempt", "ahead") \in AttemptRow
      BY <1>1 DEF Row, AttemptRow
    <2>2. Typed' /\ SameAmounts
      BY <1>1, <1>2, <1>4, <2>1, InsertTyped DEF InsertAttempt
    <2> DEFINE row == Len(attempts[runner[p].f]) + 1
               r == [runner[p] EXCEPT !.pc = "recovering", !.row = row]
    <2>3. row \in Nat
      BY <1>1 DEF MeansInv, Typed, RowsTyped
    <2> HIDE DEF row
    <2>4. r \in RunnerState /\ r.pc = "recovering" /\ r.f = runner[p].f /\ r.no = runner[p].no
      BY <2>3, RunnerTyped DEF RunnerState, PC
    <2>5. runner' = [runner EXCEPT ![p] = r]
      BY <1>4 DEF InsertAttempt, row
    <2>6. runner[p].pc = "insert"
      BY <1>4 DEF InsertAttempt, At
    <2>7. Affordable(runner[p].f, runner[p].no)
      BY <2>6, RunnerTyped DEF Past
    <2> HIDE DEF r
    <2> QED BY <1>1, <1>2, <2>2, <2>4, <2>5, <2>7, RunnerMoves DEF Past, Stopped
  <1> QED BY <1>3, <1>4

\* A new status for a failure.
LEMMA StatusTyped ==
  ASSUME MeansInv, NEW f \in Failures, NEW status \in {"recovering", "written_off"},
         SetStatus(f, status), UNCHANGED <<attempts, task, retrying, agents, keys, sent>>
  PROVE  Typed' /\ SameAmounts
PROOF
  <1> DEFINE row == [failure[f] EXCEPT !.status = status]
  <1>1. failure[f] \in FailureRow
    BY DEF MeansInv, Typed, RowsTyped
  <1>2. row \in FailureRow /\ row.amount = failure[f].amount
    BY <1>1 DEF FailureRow, Resolved
  <1>3. failure' = [failure EXCEPT ![f] = row]
    BY DEF SetStatus
  <1> HIDE DEF row
  <1> QED BY <1>2, <1>3 DEF MeansInv, Typed, RowsTyped, TasksTyped, GateTyped, SameAmounts

LEMMA StatusSteps ==
  ASSUME MeansInv, NEW p \in Runners, WriteOff(p) \/ MarkRecovering(p)
  PROVE  MeansInv'
PROOF
  <1>1. runner[p].f \in Failures
    BY RunnerTyped DEF WriteOff, MarkRecovering, At, Stopped
  <1>2. UNCHANGED <<attempts, task, retrying, agents, keys, sent>>
    BY DEF WriteOff, MarkRecovering
  <1>3. Typed' /\ SameAmounts
    BY <1>1, <1>2, StatusTyped DEF WriteOff, MarkRecovering
  <1>4. CASE WriteOff(p)
    <2> DEFINE result == IF At(p, "writeoff_stop") THEN runner[p].result ELSE "final"
    <2>1. result \in Result
      BY RunnerTyped DEF RunnerState, Result
    <2>2. Report(p, result)
      BY <1>4 DEF WriteOff
    <2> HIDE DEF result
    <2> QED BY <1>2, <1>3, <1>4, <2>1, <2>2, Reports DEF WriteOff, Stopped
  <1>5. CASE MarkRecovering(p)
    <2> DEFINE pc == IF runner[p].strategy = "link" THEN "agent" ELSE runner[p].strategy
    <2>1. pc \in PC /\ pc \notin {"deliver", "gate", "save"}
      BY RunnerTyped DEF RunnerState, PC, Strategies
    <2>2. Goto(p, pc) /\ runner[p].pc = "recovering"
      BY <1>5 DEF MarkRecovering, At
    <2> HIDE DEF pc
    <2> QED BY <1>2, <1>3, <2>1, <2>2, GoesOn DEF Past, Stopped
  <1> QED BY <1>4, <1>5

\* An attempt's outcome is set.
LEMMA OutcomeSet ==
  ASSUME MeansInv, NEW p, NEW v \in {"pending", "succeeded", "failed", "abandoned"},
         SetOutcome(p, v), UNCHANGED <<failure, task, retrying, agents, keys, sent>>
  PROVE  Typed' /\ SameAmounts
PROOF
  <1>1. RowsTyped'
    BY OutcomeTyped DEF MeansInv, Typed, SetOutcome
  <1> QED BY <1>1 DEF MeansInv, Typed, TasksTyped, GateTyped, SameAmounts

LEMMA OutcomeSteps ==
  ASSUME MeansInv, NEW p \in Runners, NoMoneyAction(p) \/ FailAttempt(p)
  PROVE  MeansInv'
PROOF
  <1>1. UNCHANGED <<failure, task, retrying, agents, keys, sent>>
    BY DEF NoMoneyAction, FailAttempt
  <1>2. Typed' /\ SameAmounts
    BY <1>1, OutcomeSet DEF NoMoneyAction, FailAttempt
  <1>3. runner[p].pc \notin Stopped
    BY DEF NoMoneyAction, FailAttempt, At, Stopped
  <1>4. CASE Report(p, "final") \/ Report(p, "failed")
    BY <1>1, <1>2, <1>3, <1>4, Reports DEF Result
  <1>5. CASE Goto(p, "writeoff_strategy")
    BY <1>1, <1>2, <1>3, <1>5, GoesOn DEF PC, Past
  <1> QED BY <1>4, <1>5 DEF NoMoneyAction, FailAttempt

-----------------------------------------------------------------------------
(* The agent, the gate's answer and the sending *)

LEMMA AgentSteps ==
  ASSUME MeansInv, NEW p \in Runners, FindAgent(p) \/ ProvisionAgent(p)
  PROVE  MeansInv'
PROOF
  <1>1. UNCHANGED <<failure, attempts, task, retrying, keys, sent>> /\ agents' \subseteq Agents
    BY DEF FindAgent, ProvisionAgent, MeansInv, Typed, GateTyped
  <1>2. Typed' /\ SameAmounts
    BY <1>1 DEF MeansInv, Typed, RowsTyped, TasksTyped, GateTyped, SameAmounts
  <1>3. runner[p].f \in Failures /\ Affordable(runner[p].f, runner[p].no) /\ runner[p].pc \in Past
    BY RunnerTyped DEF FindAgent, ProvisionAgent, At, Past
  <1>4. CASE Goto(p, "provision")
    BY <1>1, <1>2, <1>3, <1>4, GoesOn DEF PC, Past, Stopped
  <1>5. CASE \E g \in Agents : runner' = [runner EXCEPT ![p].agent = g, ![p].pc = "gate"]
    <2>1. PICK g \in Agents : runner' = [runner EXCEPT ![p].agent = g, ![p].pc = "gate"]
      BY <1>5
    <2> DEFINE r == [runner[p] EXCEPT !.agent = g, !.pc = "gate"]
    <2>2. /\ r \in RunnerState /\ r.pc = "gate" /\ r.agent = g
          /\ r.f = runner[p].f /\ r.no = runner[p].no
      BY RunnerTyped DEF RunnerState, PC
    <2>3. runner' = [runner EXCEPT ![p] = r]
      BY <2>1
    <2> HIDE DEF r
    <2> QED BY <1>1, <1>2, <1>3, <2>2, <2>3, RunnerMoves DEF Stopped
  <1> QED BY <1>4, <1>5 DEF FindAgent, ProvisionAgent, MeansInv, Typed, GateTyped

\* The runner at p goes on to pc; what this does to each of them.
LEMMA MovesTo ==
  ASSUME MeansInv, NEW p \in Runners, NEW pc \in PC, Goto(p, pc)
  PROVE  /\ DOMAIN runner' = Runners /\ runner' = [q \in Runners |-> runner'[q]]
         /\ \A q \in Runners : q # p => runner'[q] = runner[q]
         /\ runner'[p] \in RunnerState
         /\ runner'[p].pc = pc /\ runner'[p].f = runner[p].f /\ runner'[p].no = runner[p].no
         /\ runner'[p].agent = runner[p].agent
         /\ KeyOf(runner'[p]) = KeyOf(runner[p])
PROOF
  <1>1. runner[p] \in RunnerState
    BY RunnerTyped
  <1>2. DOMAIN runner = Runners /\ runner = [q \in Runners |-> runner[q]]
    BY DEF MeansInv, RunnersOK
  <1>3. runner'[p] = [runner[p] EXCEPT !.pc = pc]
    BY <1>2 DEF Goto
  <1>4. /\ runner'[p] \in RunnerState /\ runner'[p].pc = pc
        /\ runner'[p].f = runner[p].f /\ runner'[p].no = runner[p].no
        /\ runner'[p].agent = runner[p].agent
    BY <1>1, <1>3 DEF RunnerState
  <1> QED BY <1>2, <1>4 DEF Goto, KeyOf

\* A key nobody has used: nothing was sent under it, and no other runner that
\* is about to send holds it.
LEMMA GateStep ==
  ASSUME MeansInv, NEW p \in Runners, AskGate(p)
  PROVE  MeansInv'
PROOF
  <1>1. /\ UNCHANGED <<failure, attempts, task, retrying, agents, sent>>
        /\ keys' = keys \cup {Key(p)} /\ runner[p].pc = "gate"
    BY DEF AskGate, At
  <1>2. Key(p) \in Link /\ Key(p) = KeyOf(runner[p])
    BY <1>1, RunnerTyped DEF Key, KeyOf, Link, Past, Affordable
  <1>3. Typed' /\ SameAmounts
    BY <1>1, <1>2 DEF MeansInv, Typed, RowsTyped, TasksTyped, GateTyped, SameAmounts
  <1>4. CASE Goto(p, "fail")
    BY <1>1, <1>3, <1>4, GoesOn DEF PC, Past, Stopped
  <1>5. CASE Key(p) \notin keys /\ Goto(p, "deliver")
    <2>1. "deliver" \in PC
      BY DEF PC
    <2>2. sent[Key(p)] = 0
      BY <1>2, <1>5 DEF MeansInv, SentOK, Typed, GateTyped
    <2>3. RunnerOK(runner[p])'
      BY <1>1, <1>2, <1>3, <1>5, <2>1, <2>2, MovesTo, RunnerTyped, StaysAffordable
         DEF RunnerOK, Past
    <2>4. ASSUME NEW q \in Runners, q # p PROVE RunnerOK(runner[q])'
      BY <1>1, <1>3, <1>5, <2>1, <2>4, MovesTo, StaysAffordable DEF MeansInv, RunnersOK, RunnerOK
    <2>5. RunnersOK'
      BY <1>5, <2>1, <2>3, <2>4, MovesTo DEF RunnersOK
    <2>6. ASSUME NEW q \in Runners, q # p, runner[q].pc = "deliver" PROVE KeyOf(runner[q]) # Key(p)
      BY <1>5, <2>6 DEF MeansInv, RunnersOK, RunnerOK
    <2>7. OneDeliverer'
      BY <1>2, <1>5, <2>1, <2>6, MovesTo DEF MeansInv, OneDeliverer, At
    <2>8. SentOK'
      BY <1>1, <1>3, StaysAffordable DEF MeansInv, SentOK, Link
    <2> QED BY <1>3, <2>5, <2>7, <2>8 DEF MeansInv
  <1> QED BY <1>4, <1>5 DEF AskGate, Seen

LEMMA DeliverStep ==
  ASSUME MeansInv, NEW p \in Runners, DeliverRecoveryLink(p)
  PROVE  MeansInv'
PROOF
  <1>1. /\ UNCHANGED <<failure, attempts, task, retrying, agents, keys>>
        /\ sent' = [sent EXCEPT ![Key(p)] = @ + 1]
        /\ Goto(p, "save") /\ runner[p].pc = "deliver"
    BY DEF DeliverRecoveryLink, At
  <1>2. Key(p) \in Link /\ Key(p) = KeyOf(runner[p])
    BY <1>1, RunnerTyped DEF Key, KeyOf
  <1>3. sent[Key(p)] = 0 /\ Key(p) \in keys
    BY <1>1, <1>2 DEF MeansInv, RunnersOK, RunnerOK
  <1>4. sent' = [sent EXCEPT ![Key(p)] = 1]
    BY <1>1, <1>3
  <1>5. Typed' /\ SameAmounts
    BY <1>1, <1>2, <1>4 DEF MeansInv, Typed, RowsTyped, TasksTyped, GateTyped, SameAmounts
  <1>6. "save" \in PC
    BY DEF PC
  <1>7. RunnerOK(runner[p])'
    BY <1>1, <1>5, <1>6, MovesTo, RunnerTyped, StaysAffordable DEF RunnerOK, Past
  <1>8. ASSUME NEW q \in Runners, q # p PROVE RunnerOK(runner[q])'
    <2>1. runner'[q] = runner[q] /\ RunnerOK(runner[q])
      BY <1>1, <1>6, <1>8, MovesTo DEF MeansInv, RunnersOK
    <2>2. runner[q].pc = "deliver" => KeyOf(runner[q]) # Key(p)
      BY <1>1, <1>2, <1>8 DEF MeansInv, OneDeliverer, At
    <2>3. runner[q].pc = "deliver" => sent'[KeyOf(runner[q])] = 0
      <3>1. runner[q].pc = "deliver" => KeyOf(runner[q]) \in Link
        BY RunnerTyped DEF Key, KeyOf
      <3> QED BY <1>4, <2>1, <2>2, <3>1 DEF MeansInv, Typed, GateTyped, RunnerOK
    <2> QED BY <1>1, <1>5, <2>1, <2>3, StaysAffordable DEF RunnerOK
  <1>9. RunnersOK'
    BY <1>1, <1>6, <1>7, <1>8, MovesTo DEF RunnersOK
  <1>10. OneDeliverer'
    BY <1>1, <1>6, MovesTo DEF MeansInv, OneDeliverer, At
  <1>11. ASSUME NEW l \in Link, sent'[l] > 0 PROVE sent'[l] = 1 /\ l \in keys' /\ Affordable(l.f, l.no)'
    <2>1. CASE l = Key(p)
      <3>1. l.f = runner[p].f /\ l.no = runner[p].no
        BY <2>1 DEF Key
      <3>2. Affordable(l.f, l.no) /\ l.f \in Failures
        BY <1>1, <3>1, RunnerTyped DEF Past
      <3>3. Affordable(l.f, l.no)'
        BY <1>5, <3>2, StaysAffordable
      <3> QED BY <1>1, <1>3, <1>4, <2>1, <3>3 DEF MeansInv, Typed, GateTyped
    <2>2. CASE l # Key(p)
      <3>1. sent'[l] = sent[l]
        BY <1>4, <2>2 DEF MeansInv, Typed, GateTyped
      <3>2. Affordable(l.f, l.no) /\ l.f \in Failures
        BY <1>11, <3>1 DEF MeansInv, SentOK, Link
      <3>3. Affordable(l.f, l.no)'
        BY <1>5, <3>2, StaysAffordable
      <3> QED BY <1>1, <1>11, <3>1, <3>3 DEF MeansInv, SentOK
    <2> QED BY <2>1, <2>2
  <1>12. SentOK'
    BY <1>11 DEF SentOK
  <1> QED BY <1>5, <1>9, <1>10, <1>12 DEF MeansInv

LEMMA SaveStep ==
  ASSUME MeansInv, NEW p \in Runners, SaveLink(p)
  PROVE  MeansInv'
PROOF
  <1> DEFINE f == runner[p].f
             i == runner[p].row
             row == [attempts[f][i] EXCEPT !.outcome = "pending", !.link = Key(p)]
  <1>1. /\ UNCHANGED <<failure, task, retrying, agents, keys, sent>>
        /\ Report(p, "pending") /\ runner[p].pc = "save"
    BY DEF SaveLink, At
  <1>2. f \in Failures /\ Key(p) \in Link
    BY <1>1, RunnerTyped DEF Stopped
  <1>3. attempts[f] \in Seq(AttemptRow)
    BY <1>2 DEF MeansInv, Typed, RowsTyped
  <1>4. i \in 1..Len(attempts[f]) => row \in AttemptRow
    <2>1. i \in 1..Len(attempts[f]) => attempts[f][i] \in AttemptRow
      BY <1>3
    <2> QED BY <1>2, <2>1 DEF AttemptRow
  <1>5. attempts' = [attempts EXCEPT ![f] = [attempts[f] EXCEPT ![i] = row]]
    BY DEF SaveLink
  <1> HIDE DEF row, i
  <1>6. [attempts[f] EXCEPT ![i] = row] \in Seq(AttemptRow)
    BY <1>3, <1>4, RowChanged
  <1>7. RowsTyped'
    BY <1>1, <1>2, <1>5, <1>6 DEF MeansInv, Typed, RowsTyped
  <1>8. Typed' /\ SameAmounts
    BY <1>1, <1>7 DEF MeansInv, Typed, TasksTyped, GateTyped, SameAmounts
  <1> QED BY <1>1, <1>8, Reports DEF Result, Stopped

-----------------------------------------------------------------------------
(* How a run ends *)

LEMMA Leaves ==
  ASSUME MeansInv, Typed', SameAmounts, NEW p \in Runners, UNCHANGED <<keys, sent>>,
         NEW pc \in Stopped, NEW queue \in Seq(Queued),
         runner' = [runner EXCEPT ![p] = [Idle EXCEPT !.queue = queue, !.pc = pc]]
  PROVE  MeansInv'
PROOF
  <1> DEFINE r == [Idle EXCEPT !.queue = queue, !.pc = pc]
  <1>1. r \in RunnerState /\ r.pc = pc
    BY DEF Idle, RunnerState, PC, Result, Stopped
  <1> HIDE DEF r
  <1> QED BY <1>1, RunnerMoves DEF Past, Stopped, r

\* A step writes the status of one task, in one of two ways.
LEMMA TaskWritten ==
  ASSUME MeansInv, NEW f \in Failures, NEW t, task' = [task EXCEPT ![f] = t],
         \/ \E status \in Ended : t = Terminated(task[f], status)
         \/ \E due \in {"soon", "backoff"} : t = Rescheduled(task[f], due),
         UNCHANGED <<failure, attempts, retrying, agents, keys, sent>>
  PROVE  Typed' /\ SameAmounts
PROOF
  <1>1. task[f] \in TaskRow
    BY DEF MeansInv, Typed, TasksTyped
  <1>2. t \in TaskRow
    BY <1>1 DEF TaskRow, Terminated, Rescheduled, Ended
  <1> QED BY <1>2 DEF MeansInv, Typed, RowsTyped, TasksTyped, GateTyped, SameAmounts

LEMMA EndSteps ==
  ASSUME MeansInv, NEW p \in Runners, SettleTask(p) \/ StepThrows(p)
  PROVE  MeansInv'
PROOF
  <1> DEFINE pc == CASE p \in Clicks -> "done"
                     [] runner[p].queue # <<>> -> "next"
                     [] OTHER -> "idle"
  <1>1. runner' = [runner EXCEPT ![p] = [Idle EXCEPT !.queue = runner[p].queue, !.pc = pc]]
    BY DEF SettleTask, StepThrows, Leave
  <1>2. pc \in Stopped /\ runner[p].queue \in Seq(Queued)
    BY RunnerTyped DEF Stopped, RunnerState
  <1>3. UNCHANGED <<failure, attempts, retrying, agents, keys, sent>>
    BY DEF SettleTask, StepThrows
  <1>4. runner[p].f \in Failures
    BY RunnerTyped DEF SettleTask, StepThrows, At, Stopped
  <1> HIDE DEF pc
  <1>5. Typed' /\ SameAmounts
    <2>1. CASE task' = task
      BY <1>3, <2>1 DEF MeansInv, Typed, RowsTyped, TasksTyped, GateTyped, SameAmounts
    <2>2. CASE task' # task
      <3>1. PICK t : /\ task' = [task EXCEPT ![runner[p].f] = t]
                     /\ \/ \E status \in Ended : t = Terminated(task[runner[p].f], status)
                        \/ \E due \in {"soon", "backoff"} : t = Rescheduled(task[runner[p].f], due)
        BY <2>2 DEF SettleTask, StepThrows, RunAfter, Ended
      <3> QED BY <1>3, <1>4, <3>1, TaskWritten
    <2> QED BY <2>1, <2>2
  <1> QED BY <1>1, <1>2, <1>3, <1>5, Leaves

LEMMA CrashStep ==
  ASSUME MeansInv, NEW p \in Runners, Crash(p)
  PROVE  MeansInv'
PROOF
  <1>1. Typed' /\ SameAmounts /\ UNCHANGED <<keys, sent>>
    BY OnlyRunners DEF Crash
  <1> DEFINE r == IF p \in Ticks THEN Idle ELSE [Idle EXCEPT !.pc = "done"]
  <1>2. runner' = [runner EXCEPT ![p] = r]
    BY DEF Crash
  <1>3. Idle \in RunnerState /\ Idle.pc = "idle"
    <2>1. <<>> \in Seq(Queued)
      OBVIOUS
    <2> QED BY <2>1 DEF Idle, RunnerState, PC, Result
  <1>4. r \in RunnerState /\ r.pc \in Stopped
    BY <1>3 DEF RunnerState, PC, Stopped
  <1> HIDE DEF r
  <1> QED BY <1>1, <1>2, <1>4, RunnerMoves DEF Past, Stopped

-----------------------------------------------------------------------------
LEMMA RunnerSteps ==
  ASSUME MeansInv, NEW p \in Runners, RunnerStep(p)
  PROVE  MeansInv'
  BY ReadSteps, DiagnoseStep, DecideStep, InsertSteps, StatusSteps, OutcomeSteps, AgentSteps,
     GateStep, DeliverStep, SaveStep, EndSteps DEF RunnerStep

LEMMA NextMeans == MeansInv /\ [Next]_vars => MeansInv'
PROOF
  <1> SUFFICES ASSUME MeansInv, [Next]_vars PROVE MeansInv'
    OBVIOUS
  <1>1. CASE \E p \in Ticks : Tick(p)
    BY <1>1, BeginSteps, ClaimStep DEF Tick, Runners
  <1>2. CASE \E p \in Clicks, f \in Failures : Click(p, f)
    BY <1>2, BeginSteps DEF Runners
  <1>3. CASE \E p \in Runners : RunnerStep(p) \/ StepThrows(p) \/ Crash(p)
    BY <1>3, RunnerSteps, EndSteps, CrashStep
  <1>4. CASE \E f \in Failures : CreateTask(f) \/ CancelTask(f)
    BY <1>4, TaskSteps
  <1>5. CASE \E m \in Merchants : RetryTask(m) \/ \E f \in Failures : ReadForRetry(m, f)
    BY <1>5, RetrySteps
  <1>6. CASE \E l \in Link : CustomerPays(l) \/ ConfirmLink(l) \/ ConfirmFailure(l) \/ ConfirmDies(l)
    BY <1>6, LinkSteps
  <1>7. CASE \E f \in Failures : LeaseLapses(f) \/ BackoffElapses(f) \/ WaitElapses(f)
    BY <1>7, TaskSteps, BackoffStep
  <1>8. CASE UNCHANGED vars
    <2>1. Typed' /\ SameAmounts
      BY <1>8, OnlyRunners DEF vars
    <2> QED BY <1>8, <2>1, StepAside DEF vars
  <1> QED BY <1>1, <1>2, <1>3, <1>4, <1>5, <1>6, <1>7, <1>8 DEF Next

LEMMA MeansInvImplies == MeansInv => RecoveryWithinMeans
  BY DEF MeansInv, SentOK, RecoveryWithinMeans, Affordable

\* However many runners, agents and failures there are, and whatever dies: one
\* recovery agent sends at most one link under a number, the number is within
\* the attempt ceiling and the ROI governor, and the amount within its limits.
THEOREM WithinMeans == Spec => []RecoveryWithinMeans
  BY InitMeans, NextMeans, MeansInvImplies, PTL DEF Spec
LEMMA MeansInvTyped == MeansInv => RecoveryTypeOK
PROOF
  <1> SUFFICES ASSUME MeansInv PROVE RecoveryTypeOK
    OBVIOUS
  <1>1. ASSUME NEW f \in Failures
        PROVE  /\ failure[f].status \in {"new", "diagnosed", "recovering"} \cup Resolved
               /\ failure[f].strategy \in Strategies \cup {"none"}
               /\ task[f].status \in {"none", "pending", "waiting", "claimed"} \cup Ended
    <2>1. failure[f] \in FailureRow /\ task[f] \in TaskRow
      BY DEF MeansInv, Typed, RowsTyped, TasksTyped
    <2> QED BY <2>1 DEF FailureRow, TaskRow
  <1>2. ASSUME NEW f \in Failures, NEW i \in 1..Len(attempts[f])
        PROVE  attempts[f][i].outcome \in {"pending", "succeeded", "failed", "abandoned"}
    <2>1. attempts[f] \in Seq(AttemptRow)
      BY DEF MeansInv, Typed, RowsTyped
    <2>2. attempts[f][i] \in AttemptRow
      BY <2>1
    <2> QED BY <2>2 DEF AttemptRow
  <1> QED BY <1>1, <1>2 DEF RecoveryTypeOK, MeansInv, Typed, GateTyped

\* The rows and the gate's books keep their shape, whatever interleaves.
THEOREM RecoveryTyped == Spec => []RecoveryTypeOK
  BY InitMeans, NextMeans, MeansInvTyped, PTL DEF Spec

-----------------------------------------------------------------------------
(* Recovered revenue: PaidInv ties the attempt rows to the links that were *)
(* sent and paid, and to the one runner that still has each row in hand.   *)

Owns == {"recovering", "human_escalation", "write_off", "agent", "provision", "gate", "fail",
         "deliver", "save"}
Paid == {"marked", "done", "lost"}

\* A runner that has inserted a row is the only one to have it in hand, and the row
\* bears no link yet.
RowsOwned ==
  /\ \A p \in Runners : runner[p].pc \in Owns =>
       LET f == runner[p].f
           i == runner[p].row
       IN /\ f \in Failures /\ i \in DOMAIN attempts[f]
          /\ attempts[f][i].link = NoLink /\ attempts[f][i].outcome # "succeeded"
  /\ \A p, q \in Runners :
       /\ runner[p].pc \in Owns /\ runner[q].pc \in Owns
       /\ runner[p].f = runner[q].f /\ runner[p].row = runner[q].row
       => p = q

\* A link is on one row, of its own failure, and only after it was sent; a runner that
\* is about to save it is the only one that has sent it.
LinksOnce ==
  /\ \A f \in Failures : \A i \in DOMAIN attempts[f] : attempts[f][i].link # NoLink =>
       /\ attempts[f][i].link.f = f /\ sent[attempts[f][i].link] > 0
       /\ \A j \in DOMAIN attempts[f] : attempts[f][j].link = attempts[f][i].link => i = j
  /\ \A p \in Runners : runner[p].pc = "save" =>
       /\ sent[Key(p)] > 0
       /\ \A i \in DOMAIN attempts[runner[p].f] : attempts[runner[p].f][i].link # Key(p)
  /\ \A p, q \in Runners :
       runner[p].pc = "save" /\ runner[q].pc = "save" /\ Key(p) = Key(q) => p = q

\* A row that succeeded bears a link that was paid; a confirmed link, or a recovered
\* failure, has such a row.
PaidRows ==
  /\ confirm \in [Link -> {"none", "paid", "dropped"} \cup Paid]
  /\ \A f \in Failures : \A i \in DOMAIN attempts[f] : attempts[f][i].outcome = "succeeded" =>
       attempts[f][i].link # NoLink /\ confirm[attempts[f][i].link] \in Paid
  /\ \A l \in Link : confirm[l] \in Paid =>
       \E i \in DOMAIN attempts[l.f] : attempts[l.f][i].outcome = "succeeded"
  /\ \A f \in Failures : failure[f].status = "recovered" =>
       \E i \in DOMAIN attempts[f] : attempts[f][i].outcome = "succeeded"

PaidInv == MeansInv /\ RowsOwned /\ LinksOnce /\ PaidRows

\* What most steps do to the rows: those there are keep their link and whether they
\* succeeded, and a new one has no link.
Kept ==
  \A g \in Failures :
    /\ DOMAIN attempts[g] \subseteq DOMAIN attempts'[g]
    /\ \A i \in DOMAIN attempts[g] :
         /\ attempts'[g][i].link = attempts[g][i].link
         /\ (attempts'[g][i].outcome = "succeeded") = (attempts[g][i].outcome = "succeeded")
    /\ \A i \in DOMAIN attempts'[g] : i \notin DOMAIN attempts[g] =>
         attempts'[g][i].link = NoLink /\ attempts'[g][i].outcome # "succeeded"

WinsKept ==
  \A f \in Failures : \A i \in DOMAIN attempts[f] :
    attempts[f][i].outcome = "succeeded" => attempts'[f][i].outcome = "succeeded"

LEMMA KeptWins ==
  ASSUME Kept
  PROVE  WinsKept
  BY DEF Kept, WinsKept

LEMMA LinkIsLink ==
  ASSUME NEW l \in Link
  PROVE  l # NoLink
PROOF
  <1>1. "f" \in DOMAIN l
    BY DEF Link
  <1>2. DOMAIN NoLink = {}
    BY DEF NoLink
  <1> QED BY <1>1, <1>2

LEMMA KeptOwned ==
  ASSUME RowsOwned, Kept,
         \A q \in Runners : runner'[q].pc \in Owns =>
           runner[q].pc \in Owns /\ runner'[q].f = runner[q].f /\ runner'[q].row = runner[q].row
  PROVE  RowsOwned'
PROOF
  <1>1. ASSUME NEW q \in Runners, runner'[q].pc \in Owns
        PROVE  /\ runner'[q].f \in Failures /\ runner'[q].row \in DOMAIN attempts'[runner'[q].f]
               /\ attempts'[runner'[q].f][runner'[q].row].link = NoLink
               /\ attempts'[runner'[q].f][runner'[q].row].outcome # "succeeded"
    <2>1. PICK g \in Failures : g = runner[q].f
      BY <1>1 DEF RowsOwned
    <2>2. PICK i \in DOMAIN attempts[g] :
            i = runner[q].row /\ attempts[g][i].link = NoLink /\ attempts[g][i].outcome # "succeeded"
      BY <1>1, <2>1 DEF RowsOwned
    <2>3. /\ i \in DOMAIN attempts'[g] /\ attempts'[g][i].link = NoLink
          /\ attempts'[g][i].outcome # "succeeded"
      BY <2>2 DEF Kept
    <2> QED BY <1>1, <2>1, <2>2, <2>3
  <1>2. ASSUME NEW p \in Runners, NEW q \in Runners,
               runner'[p].pc \in Owns, runner'[q].pc \in Owns,
               runner'[p].f = runner'[q].f, runner'[p].row = runner'[q].row
        PROVE  p = q
    BY <1>2 DEF RowsOwned
  <1> QED BY <1>1, <1>2 DEF RowsOwned

LEMMA KeptLinks ==
  ASSUME LinksOnce, Kept, \A l \in Link : sent[l] > 0 => sent'[l] > 0, MeansInv,
         \A q \in Runners : runner'[q].pc = "save" =>
           runner[q].pc = "save" /\ KeyOf(runner'[q]) = KeyOf(runner[q])
  PROVE  LinksOnce'
PROOF
  <1>1. ASSUME NEW g \in Failures, NEW i \in DOMAIN attempts'[g], attempts'[g][i].link # NoLink
        PROVE  /\ i \in DOMAIN attempts[g] /\ attempts[g][i].link = attempts'[g][i].link
               /\ attempts'[g][i].link.f = g /\ sent'[attempts'[g][i].link] > 0
               /\ attempts'[g][i].link \in Link
    <2>1. i \in DOMAIN attempts[g] /\ attempts'[g][i].link = attempts[g][i].link
      BY <1>1 DEF Kept
    <2>2. attempts[g] \in Seq(AttemptRow)
      BY DEF MeansInv, Typed, RowsTyped
    <2>3. attempts[g][i] \in AttemptRow
      BY <2>1, <2>2
    <2>4. attempts[g][i].link \in Link
      BY <1>1, <2>1, <2>3 DEF AttemptRow
    <2> QED BY <1>1, <2>1, <2>4 DEF LinksOnce
  <1>2. ASSUME NEW g \in Failures, NEW i \in DOMAIN attempts'[g], NEW j \in DOMAIN attempts'[g],
               attempts'[g][i].link # NoLink, attempts'[g][j].link = attempts'[g][i].link
        PROVE  i = j
    BY <1>1, <1>2 DEF LinksOnce
  <1>3. ASSUME NEW q \in Runners, runner'[q].pc = "save"
        PROVE  /\ sent'[KeyOf(runner'[q])] > 0
               /\ \A i \in DOMAIN attempts'[runner'[q].f] : attempts'[runner'[q].f][i].link # KeyOf(runner'[q])
    <2>1. /\ KeyOf(runner[q]) \in Link /\ sent[KeyOf(runner[q])] > 0
          /\ \A i \in DOMAIN attempts[runner[q].f] : attempts[runner[q].f][i].link # KeyOf(runner[q])
      BY <1>3, RunnerTyped DEF LinksOnce, Key, KeyOf
    <2>2. KeyOf(runner'[q]) = KeyOf(runner[q])
      BY <1>3
    <2>3. runner'[q].f = runner[q].f /\ runner[q].f \in Failures
      BY <2>1, <2>2 DEF KeyOf, Link
    <2>4. KeyOf(runner'[q]) # NoLink
      BY <2>1, <2>2, LinkIsLink
    <2>5. ASSUME NEW i \in DOMAIN attempts'[runner'[q].f], attempts'[runner'[q].f][i].link = KeyOf(runner'[q])
          PROVE  FALSE
      BY <1>1, <2>1, <2>2, <2>3, <2>4, <2>5
    <2> QED BY <2>1, <2>2, <2>5
  <1>4. ASSUME NEW p \in Runners, NEW q \in Runners,
               runner'[p].pc = "save", runner'[q].pc = "save", KeyOf(runner'[p]) = KeyOf(runner'[q])
        PROVE  p = q
    <2>1. /\ runner[p].pc = "save" /\ runner[q].pc = "save"
          /\ KeyOf(runner[p]) = KeyOf(runner[q])
      BY <1>4
    <2>2. Key(p) = KeyOf(runner[p]) /\ Key(q) = KeyOf(runner[q])
      BY DEF Key, KeyOf
    <2> QED BY <2>1, <2>2 DEF LinksOnce
  <1> QED BY <1>1, <1>2, <1>3, <1>4 DEF LinksOnce, Key, KeyOf

LEMMA KeptPaid ==
  ASSUME MeansInv, PaidRows, Kept,
         confirm' \in [Link -> {"none", "paid", "dropped"} \cup Paid],
         \A l \in Link : confirm'[l] \in Paid <=> confirm[l] \in Paid,
         \A f \in Failures : failure'[f].status = "recovered" =>
           \/ failure[f].status = "recovered"
           \/ \E l \in Link : l.f = f /\ confirm[l] \in Paid
  PROVE  PaidRows'
PROOF
  <1>1. ASSUME NEW g \in Failures, NEW i \in DOMAIN attempts'[g], attempts'[g][i].outcome = "succeeded"
        PROVE  attempts'[g][i].link # NoLink /\ confirm'[attempts'[g][i].link] \in Paid
    <2>1. i \in DOMAIN attempts[g] /\ attempts'[g][i].link = attempts[g][i].link /\ attempts[g][i].outcome = "succeeded"
      BY <1>1 DEF Kept
    <2>2. attempts[g] \in Seq(AttemptRow)
      BY DEF MeansInv, Typed, RowsTyped
    <2>3. attempts[g][i] \in AttemptRow
      BY <2>1, <2>2
    <2>4. attempts[g][i].link # NoLink /\ confirm[attempts[g][i].link] \in Paid
      BY <2>1 DEF PaidRows
    <2>5. attempts[g][i].link \in Link
      BY <2>3, <2>4 DEF AttemptRow
    <2> QED BY <2>1, <2>4, <2>5
  <1>2. ASSUME NEW g \in Failures, \E i \in DOMAIN attempts[g] : attempts[g][i].outcome = "succeeded"
        PROVE  \E i \in DOMAIN attempts'[g] : attempts'[g][i].outcome = "succeeded"
    BY <1>2 DEF Kept
  <1>3. ASSUME NEW l \in Link, confirm'[l] \in Paid
        PROVE  \E i \in DOMAIN attempts'[l.f] : attempts'[l.f][i].outcome = "succeeded"
    <2>1. l.f \in Failures
      BY DEF Link
    <2> QED BY <1>2, <1>3, <2>1 DEF PaidRows
  <1>4. ASSUME NEW g \in Failures, failure'[g].status = "recovered"
        PROVE  \E i \in DOMAIN attempts'[g] : attempts'[g][i].outcome = "succeeded"
    BY <1>2, <1>4 DEF PaidRows
  <1> QED BY <1>1, <1>3, <1>4 DEF PaidRows

LEMMA StaysPaid ==
  ASSUME MeansInv, PaidRows, Kept, UNCHANGED confirm,
         \A f \in Failures : failure'[f].status = "recovered" => failure[f].status = "recovered"
  PROVE  PaidRows'
  BY KeptPaid DEF PaidRows

LEMMA Unmoved ==
  ASSUME UNCHANGED attempts
  PROVE  Kept
  BY DEF Kept

\* A step of one runner that leaves the rows' links alone, takes no row in hand and
\* sends nothing.
LEMMA RunnerPays ==
  ASSUME PaidInv, MeansInv', NEW p \in Runners, Kept, UNCHANGED <<sent, confirm>>,
         \A q \in Runners : q # p => runner'[q] = runner[q],
         runner'[p].pc \in Owns =>
           runner[p].pc \in Owns /\ runner'[p].f = runner[p].f /\ runner'[p].row = runner[p].row,
         runner'[p].pc # "save",
         \A f \in Failures : failure'[f].status = "recovered" => failure[f].status = "recovered"
  PROVE  PaidInv'
PROOF
  <1>1. RowsOwned'
    BY KeptOwned DEF PaidInv
  <1>2. LinksOnce'
    BY KeptLinks DEF PaidInv
  <1>3. PaidRows'
    BY StaysPaid DEF PaidInv
  <1> QED BY <1>1, <1>2, <1>3 DEF PaidInv

\* Nothing happens to the runners, the rows or what was sent.
LEMMA AsidePays ==
  ASSUME PaidInv, MeansInv', Kept, UNCHANGED <<runner, sent>>,
         confirm' \in [Link -> {"none", "paid", "dropped"} \cup Paid],
         \A l \in Link : confirm'[l] \in Paid <=> confirm[l] \in Paid,
         \A f \in Failures : failure'[f].status = "recovered" =>
           \/ failure[f].status = "recovered"
           \/ \E l \in Link : l.f = f /\ confirm[l] \in Paid
  PROVE  PaidInv'
PROOF
  <1>1. RowsOwned'
    BY KeptOwned DEF PaidInv
  <1>2. LinksOnce'
    BY KeptLinks DEF PaidInv
  <1>3. PaidRows'
    BY KeptPaid DEF PaidInv
  <1> QED BY <1>1, <1>2, <1>3 DEF PaidInv

LEMMA InitPaid == Init => PaidInv
PROOF
  <1> SUFFICES ASSUME Init PROVE PaidInv
    OBVIOUS
  <1>1. /\ \A f \in Failures : attempts[f] = <<>> /\ failure[f].status = "new"
        /\ \A p \in Runners : runner[p].pc = "idle"
        /\ confirm = [l \in Link |-> "none"]
    BY DEF Init, Idle
  <1>2. RowsOwned /\ LinksOnce
    BY <1>1 DEF RowsOwned, LinksOnce, Owns
  <1>3. PaidRows
    BY <1>1 DEF PaidRows, Paid
  <1> QED BY <1>2, <1>3, InitMeans DEF PaidInv

-----------------------------------------------------------------------------
\* The fields of a runner that a step replaces, from the way it replaces them.
LEMMA OneRunner ==
  ASSUME MeansInv, NEW p \in Runners, NEW r, runner' = [runner EXCEPT ![p] = r]
  PROVE  /\ runner'[p] = r
         /\ \A q \in Runners : q # p => runner'[q] = runner[q]
  BY DEF MeansInv, RunnersOK

LEMMA GoesOnPays ==
  ASSUME PaidInv, MeansInv', NEW p \in Runners, NEW pc, Goto(p, pc), Kept, UNCHANGED <<sent, confirm>>,
         pc \in Owns => runner[p].pc \in Owns, pc # "save",
         \A f \in Failures : failure'[f].status = "recovered" => failure[f].status = "recovered"
  PROVE  PaidInv'
PROOF
  <1> DEFINE r == [runner[p] EXCEPT !.pc = pc]
  <1>1. r.pc = pc /\ r.f = runner[p].f /\ r.row = runner[p].row
    BY RunnerTyped DEF PaidInv, RunnerState
  <1>2. runner' = [runner EXCEPT ![p] = r]
    BY DEF Goto
  <1> HIDE DEF r
  <1>3. runner'[p] = r /\ \A q \in Runners : q # p => runner'[q] = runner[q]
    BY <1>2, OneRunner DEF PaidInv
  <1> QED BY <1>1, <1>3, RunnerPays

LEMMA ReportPays ==
  ASSUME PaidInv, MeansInv', NEW p \in Runners, NEW result, Report(p, result), Kept,
         UNCHANGED <<sent, confirm>>,
         \A f \in Failures : failure'[f].status = "recovered" => failure[f].status = "recovered"
  PROVE  PaidInv'
PROOF
  <1> DEFINE r == [runner[p] EXCEPT !.pc = "report", !.result = result]
  <1>1. r.pc = "report"
    BY RunnerTyped DEF PaidInv, RunnerState
  <1>2. runner' = [runner EXCEPT ![p] = r]
    BY DEF Report
  <1> HIDE DEF r
  <1>3. runner'[p] = r /\ \A q \in Runners : q # p => runner'[q] = runner[q]
    BY <1>2, OneRunner DEF PaidInv
  <1> QED BY <1>1, <1>3, RunnerPays DEF Owns

LEMMA StartPays ==
  ASSUME PaidInv, MeansInv', NEW p \in Runners,
         BeginStep(p) \/ (\E f \in Failures : Click(p, f)) \/ (\E f \in Failures : Claim(p, f))
         \/ Diagnose(p) \/ Decide(p)
  PROVE  PaidInv'
PROOF
  <1>1. PICK r : runner' = [runner EXCEPT ![p] = r] /\ r.pc \notin Owns
    <2>1. CASE BeginStep(p)
      <3> DEFINE r == [runner[p] EXCEPT !.pc = "read", !.f = Head(runner[p].queue).f,
                         !.count = Head(runner[p].queue).count, !.queue = Tail(runner[p].queue)]
      <3>1. r.pc = "read"
        BY RunnerTyped DEF PaidInv, RunnerState
      <3>2. runner' = [runner EXCEPT ![p] = r]
        BY <2>1 DEF BeginStep
      <3> HIDE DEF r
      <3> QED BY <3>1, <3>2 DEF Owns
    <2>2. CASE \E f \in Failures : Click(p, f)
      <3>1. PICK f \in Failures : Click(p, f)
        BY <2>2
      <3> DEFINE r == [runner[p] EXCEPT !.pc = "read", !.f = f]
      <3>2. r.pc = "read"
        BY RunnerTyped DEF PaidInv, RunnerState
      <3>3. runner' = [runner EXCEPT ![p] = r]
        BY <3>1 DEF Click
      <3> HIDE DEF r
      <3> QED BY <3>2, <3>3 DEF Owns
    <2>3. CASE \E f \in Failures : Claim(p, f)
      <3>1. PICK f \in Failures : Claim(p, f)
        BY <2>3
      <3> DEFINE r == [runner[p] EXCEPT
                         !.queue = Append(runner[p].queue, [f |-> f, count |-> task'[f].count])]
      <3>2. r.pc = "idle"
        BY <3>1, RunnerTyped DEF PaidInv, RunnerState, Claim
      <3>3. runner' = [runner EXCEPT ![p] = r]
        BY <3>1 DEF Claim
      <3> HIDE DEF r
      <3> QED BY <3>2, <3>3 DEF Owns
    <2>4. CASE Diagnose(p)
      <3>1. PICK strategy : runner' = [runner EXCEPT ![p].pc = "decide", ![p].strategy = strategy]
        BY <2>4 DEF Diagnose
      <3> DEFINE r == [runner[p] EXCEPT !.pc = "decide", !.strategy = strategy]
      <3>2. r.pc = "decide"
        BY RunnerTyped DEF PaidInv, RunnerState
      <3>3. runner' = [runner EXCEPT ![p] = r]
        BY <3>1
      <3> HIDE DEF r
      <3> QED BY <3>2, <3>3 DEF Owns
    <2>5. CASE Decide(p)
      <3> DEFINE f == runner[p].f
                 no == Len(attempts[f]) + 1
                 strategy == runner[p].strategy
                 pc == IF ShouldAttempt(f, no, strategy) THEN "insert" ELSE "stop"
                 r == [runner[p] EXCEPT !.no = no, !.pc = pc,
                         !.result = IF TooSoon(f, no, strategy) THEN "not_yet" ELSE "stopped"]
      <3>1. pc \in {"insert", "stop"}
        OBVIOUS
      <3>2. runner' = [runner EXCEPT ![p] = r]
        BY <2>5 DEF Decide
      <3> HIDE DEF pc, no
      <3>3. r.pc = pc
        BY RunnerTyped DEF PaidInv, RunnerState
      <3> HIDE DEF r
      <3> QED BY <3>1, <3>2, <3>3 DEF Owns
    <2> QED BY <2>1, <2>2, <2>3, <2>4, <2>5
  <1>2. UNCHANGED <<attempts, sent, confirm>>
    BY DEF BeginStep, Click, Claim, Diagnose, Decide
  <1>3. ASSUME NEW f \in Failures, failure'[f].status = "recovered"
        PROVE  failure[f].status = "recovered"
    <2>1. CASE failure' = failure
      BY <1>3, <2>1
    <2>2. CASE Diagnose(p)
      BY <1>3, <2>2 DEF Diagnose, PaidInv, MeansInv, Typed, RowsTyped, FailureRow
    <2> QED BY <2>1, <2>2 DEF BeginStep, Click, Claim, Decide
  <1>4. runner'[p] = r /\ \A q \in Runners : q # p => runner'[q] = runner[q]
    BY <1>1, OneRunner DEF PaidInv
  <1> QED BY <1>1, <1>2, <1>3, <1>4, Unmoved, RunnerPays DEF Owns

LEMMA ReadPays ==
  ASSUME PaidInv, MeansInv', NEW p \in Runners, ReadFailure(p)
  PROVE  PaidInv'
PROOF
  <1>1. UNCHANGED <<failure, attempts, sent, confirm>> /\ Kept
    BY Unmoved DEF ReadFailure
  <1>2. CASE Report(p, "stopped")
    BY <1>1, <1>2, ReportPays
  <1>3. CASE Goto(p, "diagnose")
    BY <1>1, <1>3, GoesOnPays DEF Owns
  <1>4. ASSUME NEW strategy, runner' = [runner EXCEPT ![p].pc = "decide", ![p].strategy = strategy]
        PROVE  PaidInv'
    <2> DEFINE r == [runner[p] EXCEPT !.pc = "decide", !.strategy = strategy]
    <2>1. r.pc = "decide"
      BY RunnerTyped DEF PaidInv, RunnerState
    <2>2. runner' = [runner EXCEPT ![p] = r]
      BY <1>4
    <2> HIDE DEF r
    <2>3. runner'[p] = r /\ \A q \in Runners : q # p => runner'[q] = runner[q]
      BY <2>2, OneRunner DEF PaidInv
    <2> QED BY <1>1, <2>1, <2>3, RunnerPays DEF Owns
  <1> QED BY <1>2, <1>3, <1>4 DEF ReadFailure

LEMMA StatusPays ==
  ASSUME PaidInv, MeansInv', NEW p \in Runners, WriteOff(p) \/ MarkRecovering(p)
  PROVE  PaidInv'
PROOF
  <1>1. UNCHANGED <<attempts, sent, confirm>> /\ Kept
    BY Unmoved DEF WriteOff, MarkRecovering
  <1>2. ASSUME NEW f \in Failures, failure'[f].status = "recovered"
        PROVE  failure[f].status = "recovered"
    BY <1>2 DEF WriteOff, MarkRecovering, SetStatus, PaidInv, MeansInv, Typed, RowsTyped, FailureRow
  <1>3. CASE WriteOff(p)
    <2>1. PICK result : Report(p, result)
      BY <1>3 DEF WriteOff
    <2> QED BY <1>1, <1>2, <2>1, ReportPays
  <1>4. CASE MarkRecovering(p)
    <2>1. runner[p].strategy \in Strategies \cup {"none"} /\ runner[p].pc \in Owns
      BY <1>4, RunnerTyped DEF PaidInv, RunnerState, MarkRecovering, At, Owns
    <2>2. PICK pc : Goto(p, pc) /\ pc \in {"agent", "none"} \cup Strategies
      BY <1>4, <2>1 DEF MarkRecovering
    <2>3. pc # "save"
      BY <2>2 DEF Strategies
    <2> QED BY <1>1, <1>2, <2>1, <2>2, <2>3, GoesOnPays
  <1> QED BY <1>3, <1>4

LEMMA AgentPays ==
  ASSUME PaidInv, MeansInv', NEW p \in Runners, FindAgent(p) \/ ProvisionAgent(p) \/ AskGate(p)
  PROVE  PaidInv'
PROOF
  <1>1. UNCHANGED <<failure, attempts, sent, confirm>> /\ Kept /\ runner[p].pc \in Owns
    BY Unmoved DEF FindAgent, ProvisionAgent, AskGate, At, Owns
  <1>2. ASSUME NEW pc \in {"provision", "deliver", "fail"}, Goto(p, pc)
        PROVE  PaidInv'
    BY <1>1, <1>2, GoesOnPays
  <1>3. ASSUME NEW g, runner' = [runner EXCEPT ![p].agent = g, ![p].pc = "gate"]
        PROVE  PaidInv'
    <2> DEFINE r == [runner[p] EXCEPT !.agent = g, !.pc = "gate"]
    <2>1. r.pc = "gate" /\ r.f = runner[p].f /\ r.row = runner[p].row
      BY RunnerTyped DEF PaidInv, RunnerState
    <2>2. runner' = [runner EXCEPT ![p] = r]
      BY <1>3
    <2> HIDE DEF r
    <2>3. runner'[p] = r /\ \A q \in Runners : q # p => runner'[q] = runner[q]
      BY <2>2, OneRunner DEF PaidInv
    <2> QED BY <1>1, <2>1, <2>3, RunnerPays
  <1> QED BY <1>2, <1>3 DEF FindAgent, ProvisionAgent, AskGate

LEMMA EndPays ==
  ASSUME PaidInv, MeansInv', NEW p \in Runners, SettleTask(p) \/ StepThrows(p) \/ Crash(p)
  PROVE  PaidInv'
PROOF
  <1>1. UNCHANGED <<failure, attempts, sent, confirm>> /\ Kept
    BY Unmoved DEF SettleTask, StepThrows, Crash
  <1>2. PICK r : runner' = [runner EXCEPT ![p] = r] /\ r.pc \in Stopped
    <2>1. CASE SettleTask(p) \/ StepThrows(p)
      <3> DEFINE pc == CASE p \in Clicks -> "done"
                         [] runner[p].queue # <<>> -> "next"
                         [] OTHER -> "idle"
                 r == [Idle EXCEPT !.queue = runner[p].queue, !.pc = pc]
      <3>1. pc \in Stopped
        BY DEF Stopped
      <3>2. runner' = [runner EXCEPT ![p] = r]
        BY <2>1 DEF SettleTask, StepThrows, Leave
      <3> HIDE DEF pc
      <3>3. r.pc = pc
        BY DEF Idle
      <3> HIDE DEF r
      <3> QED BY <3>1, <3>2, <3>3
    <2>2. CASE Crash(p)
      <3> DEFINE r == IF p \in Ticks THEN Idle ELSE [Idle EXCEPT !.pc = "done"]
      <3>1. r.pc \in Stopped
        BY DEF Idle, Stopped
      <3>2. runner' = [runner EXCEPT ![p] = r]
        BY <2>2 DEF Crash
      <3> HIDE DEF r
      <3> QED BY <3>1, <3>2
    <2> QED BY <2>1, <2>2
  <1>3. runner'[p] = r /\ \A q \in Runners : q # p => runner'[q] = runner[q]
    BY <1>2, OneRunner DEF PaidInv
  <1> QED BY <1>1, <1>2, <1>3, RunnerPays DEF Owns, Stopped

-----------------------------------------------------------------------------
(* The steps that write rows *)

\* What a row appended to, or an outcome set on, one failure's rows does.
LEMMA AppendKeeps ==
  ASSUME MeansInv, NEW f \in Failures, NEW row \in AttemptRow,
         row.link = NoLink, row.outcome # "succeeded",
         attempts' = [attempts EXCEPT ![f] = Append(attempts[f], row)]
  PROVE  /\ Kept /\ Len(attempts[f]) + 1 \in DOMAIN attempts'[f]
         /\ Len(attempts[f]) + 1 \notin DOMAIN attempts[f]
         /\ attempts'[f][Len(attempts[f]) + 1] = row
PROOF
  <1>1. attempts[f] \in Seq(AttemptRow)
    BY DEF MeansInv, Typed, RowsTyped
  <1>2. attempts'[f] = Append(attempts[f], row)
    BY DEF MeansInv, Typed, RowsTyped
  <1>3. /\ DOMAIN attempts[f] = 1..Len(attempts[f])
        /\ DOMAIN attempts'[f] = 1..(Len(attempts[f]) + 1)
        /\ \A i \in 1..Len(attempts[f]) : attempts'[f][i] = attempts[f][i]
        /\ attempts'[f][Len(attempts[f]) + 1] = row
        /\ Len(attempts[f]) \in Nat
    BY <1>1, <1>2
  <1>4. \A g \in Failures : g # f => attempts'[g] = attempts[g]
    BY DEF MeansInv, Typed, RowsTyped
  <1>5. Kept
    BY <1>3, <1>4 DEF Kept
  <1> QED BY <1>3, <1>5

Sets(f, i, v) == attempts' = [attempts EXCEPT ![f][i].outcome = v]

\* Setting an outcome on a row: all others, and every link, stay what they are.
LEMMA OutcomeWrites ==
  ASSUME MeansInv, NEW f \in Failures, NEW i \in DOMAIN attempts[f], NEW v, Sets(f, i, v)
  PROVE  /\ \A g \in Failures : DOMAIN attempts'[g] = DOMAIN attempts[g]
         /\ \A g \in Failures : \A j \in DOMAIN attempts[g] :
              /\ attempts'[g][j].link = attempts[g][j].link
              /\ g = f /\ j = i => attempts'[g][j].outcome = v
              /\ ~(g = f /\ j = i) => attempts'[g][j].outcome = attempts[g][j].outcome
PROOF
  <1>1. attempts[f] \in Seq(AttemptRow)
    BY DEF MeansInv, Typed, RowsTyped
  <1>2. attempts[f][i] \in AttemptRow
    BY <1>1
  <1> DEFINE row == [attempts[f][i] EXCEPT !.outcome = v]
  <1>3. row.link = attempts[f][i].link /\ row.outcome = v
    BY <1>2 DEF AttemptRow
  <1>4. attempts' = [attempts EXCEPT ![f] = [attempts[f] EXCEPT ![i] = row]]
    BY DEF Sets
  <1> HIDE DEF row
  <1>5. attempts'[f] = [attempts[f] EXCEPT ![i] = row] /\ \A g \in Failures : g # f => attempts'[g] = attempts[g]
    BY <1>4 DEF MeansInv, Typed, RowsTyped
  <1>6. /\ DOMAIN attempts'[f] = DOMAIN attempts[f] /\ attempts'[f][i] = row
        /\ \A j \in DOMAIN attempts[f] : j # i => attempts'[f][j] = attempts[f][j]
    BY <1>5
  <1> QED BY <1>3, <1>5, <1>6

LEMMA RecordStopPays ==
  ASSUME PaidInv, MeansInv', NEW p \in Runners, RecordStop(p)
  PROVE  PaidInv' /\ WinsKept
PROOF
  <1> DEFINE row == Row(p, "abandoned", runner[p].result, "passed")
  <1>1. runner[p].f \in Failures /\ runner[p].no \in Nat /\ runner[p].result \in Result
    BY RunnerTyped DEF PaidInv, RecordStop, At, Stopped, RunnerState
  <1>2. row \in AttemptRow /\ row.link = NoLink /\ row.outcome # "succeeded"
    BY <1>1 DEF Row, AttemptRow
  <1>3. attempts' = [attempts EXCEPT ![runner[p].f] = Append(attempts[runner[p].f], row)]
    BY DEF RecordStop, InsertRow
  <1>4. Goto(p, "writeoff_stop") /\ UNCHANGED <<failure, sent, confirm>>
    BY DEF RecordStop
  <1> HIDE DEF row
  <1>5. Kept
    BY <1>1, <1>2, <1>3, AppendKeeps DEF PaidInv
  <1> QED BY <1>4, <1>5, GoesOnPays, KeptWins DEF Owns

LEMMA InsertAttemptPays ==
  ASSUME PaidInv, MeansInv', NEW p \in Runners, InsertAttempt(p)
  PROVE  PaidInv' /\ WinsKept
PROOF
  <1> DEFINE f == runner[p].f
             row == Row(p, "pending", "attempt", "ahead")
             n == Len(attempts[f]) + 1
             r == [runner[p] EXCEPT !.pc = "recovering", !.row = n]
  <1>1. f \in Failures /\ runner[p].no \in Nat
    BY RunnerTyped DEF PaidInv, InsertAttempt, At, Stopped, RunnerState
  <1>2. row \in AttemptRow /\ row.link = NoLink /\ row.outcome # "succeeded"
    BY <1>1 DEF Row, AttemptRow
  <1>3. attempts' = [attempts EXCEPT ![f] = Append(attempts[f], row)]
    BY DEF InsertAttempt, InsertRow
  <1>4. runner' = [runner EXCEPT ![p] = r] /\ UNCHANGED <<failure, sent, confirm>>
    BY DEF InsertAttempt
  <1> HIDE DEF row
  <1>5. /\ Kept /\ n \in DOMAIN attempts'[f] /\ n \notin DOMAIN attempts[f] /\ attempts'[f][n] = row
    BY <1>1, <1>2, <1>3, AppendKeeps DEF PaidInv
  <1> HIDE DEF n
  <1>6. r.pc = "recovering" /\ r.f = f /\ r.row = n
    BY RunnerTyped DEF PaidInv, RunnerState
  <1> HIDE DEF r
  <1>7. runner'[p] = r /\ \A q \in Runners : q # p => runner'[q] = runner[q]
    BY <1>4, OneRunner DEF PaidInv
  <1>8. ASSUME NEW q \in Runners, runner'[q].pc \in Owns
        PROVE  /\ runner'[q].f \in Failures /\ runner'[q].row \in DOMAIN attempts'[runner'[q].f]
               /\ attempts'[runner'[q].f][runner'[q].row].link = NoLink
               /\ attempts'[runner'[q].f][runner'[q].row].outcome # "succeeded"
    <2>1. CASE q = p
      BY <1>1, <1>2, <1>5, <1>6, <1>7, <2>1
    <2>2. CASE q # p
      <3>1. PICK g \in Failures : g = runner[q].f
        BY <1>7, <1>8, <2>2 DEF PaidInv, RowsOwned
      <3>2. PICK i \in DOMAIN attempts[g] :
              i = runner[q].row /\ attempts[g][i].link = NoLink /\ attempts[g][i].outcome # "succeeded"
        BY <1>7, <1>8, <2>2, <3>1 DEF PaidInv, RowsOwned
      <3>3. /\ i \in DOMAIN attempts'[g] /\ attempts'[g][i].link = NoLink
            /\ attempts'[g][i].outcome # "succeeded"
        BY <1>5, <3>2 DEF Kept
      <3> QED BY <1>7, <2>2, <3>1, <3>2, <3>3
    <2> QED BY <2>1, <2>2
  <1>9. ASSUME NEW q \in Runners, q # p, runner[q].pc \in Owns, runner[q].f = f
        PROVE  runner[q].row # n
    BY <1>5, <1>9 DEF PaidInv, RowsOwned
  <1>10. ASSUME NEW q \in Runners, NEW s \in Runners, runner'[q].pc \in Owns, runner'[s].pc \in Owns,
                runner'[q].f = runner'[s].f, runner'[q].row = runner'[s].row
         PROVE  q = s
    BY <1>6, <1>7, <1>9, <1>10 DEF PaidInv, RowsOwned
  <1>11. RowsOwned'
    BY <1>8, <1>10 DEF RowsOwned
  <1>12. LinksOnce'
    BY <1>4, <1>5, <1>6, <1>7, KeptLinks DEF PaidInv
  <1>13. PaidRows'
    BY <1>4, <1>5, StaysPaid DEF PaidInv
  <1> QED BY <1>5, <1>11, <1>12, <1>13, KeptWins DEF PaidInv

\* The row a runner has in hand has not succeeded, and does not by what it records.
LEMMA OutcomePays ==
  ASSUME PaidInv, MeansInv', NEW p \in Runners, NoMoneyAction(p) \/ FailAttempt(p)
  PROVE  PaidInv' /\ WinsKept
PROOF
  <1>1. PICK v \in {"abandoned", "failed"} :
          attempts' = [attempts EXCEPT ![runner[p].f][runner[p].row].outcome = v]
    BY DEF NoMoneyAction, FailAttempt, SetOutcome
  <1>2. runner[p].pc \in Owns
    BY DEF NoMoneyAction, FailAttempt, At, Owns
  <1>3. /\ runner[p].f \in Failures /\ runner[p].row \in DOMAIN attempts[runner[p].f]
        /\ attempts[runner[p].f][runner[p].row].outcome # "succeeded"
    BY <1>2 DEF PaidInv, RowsOwned
  <1>4. Kept
    <2>1. PICK f \in Failures : f = runner[p].f
      BY <1>3
    <2>2. PICK i \in DOMAIN attempts[f] : i = runner[p].row
      BY <1>3, <2>1
    <2>3. Sets(f, i, v)
      BY <1>1, <2>1, <2>2 DEF Sets
    <2>4. /\ \A g \in Failures : DOMAIN attempts'[g] = DOMAIN attempts[g]
          /\ \A g \in Failures : \A j \in DOMAIN attempts[g] :
               /\ attempts'[g][j].link = attempts[g][j].link
               /\ g = f /\ j = i => attempts'[g][j].outcome = v
               /\ ~(g = f /\ j = i) => attempts'[g][j].outcome = attempts[g][j].outcome
      BY <2>3, OutcomeWrites DEF PaidInv
    <2>5. attempts[f][i].outcome # "succeeded" /\ v # "succeeded"
      BY <1>3, <2>1, <2>2
    <2> QED BY <2>4, <2>5 DEF Kept
  <1>5. UNCHANGED <<failure, sent, confirm>>
    BY DEF NoMoneyAction, FailAttempt
  <1>6. ASSUME NEW result, Report(p, result) PROVE PaidInv'
    BY <1>4, <1>5, <1>6, ReportPays
  <1>7. ASSUME Goto(p, "writeoff_strategy") PROVE PaidInv'
    BY <1>4, <1>5, <1>7, GoesOnPays DEF Owns
  <1>8. PaidInv'
    BY <1>6, <1>7 DEF NoMoneyAction, FailAttempt
  <1> QED BY <1>4, <1>8, KeptWins

\* The key a runner sends under bears no link yet: nothing was sent under it.
LEMMA DeliverPays ==
  ASSUME PaidInv, MeansInv', NEW p \in Runners, DeliverRecoveryLink(p)
  PROVE  PaidInv'
PROOF
  <1> DEFINE k == Key(p)
             r == [runner[p] EXCEPT !.pc = "save"]
  <1>1. /\ runner[p].pc = "deliver" /\ UNCHANGED <<failure, attempts, confirm>>
        /\ sent' = [sent EXCEPT ![k] = @ + 1] /\ runner' = [runner EXCEPT ![p] = r]
    BY DEF DeliverRecoveryLink, At, Goto
  <1>2. /\ r.pc = "save" /\ r.f = runner[p].f /\ r.row = runner[p].row
        /\ r.no = runner[p].no /\ r.agent = runner[p].agent
    BY RunnerTyped DEF PaidInv, RunnerState
  <1> HIDE DEF r
  <1>3. runner'[p] = r /\ \A q \in Runners : q # p => runner'[q] = runner[q]
    BY <1>1, OneRunner DEF PaidInv
  <1>4. KeyOf(runner'[p]) = k /\ \A q \in Runners : q # p => KeyOf(runner'[q]) = Key(q)
    BY <1>2, <1>3 DEF Key, KeyOf
  <1>5. k \in Link /\ sent[k] = 0 /\ runner[p].f \in Failures
    BY <1>1, RunnerTyped DEF PaidInv, MeansInv, RunnersOK, RunnerOK, Key, KeyOf, Stopped
  <1>6. k.f = runner[p].f
    BY DEF Key
  <1> HIDE DEF k
  <1>7. sent'[k] > 0 /\ \A l \in Link : sent[l] > 0 => sent'[l] > 0
    BY <1>1, <1>5 DEF PaidInv, MeansInv, Typed, GateTyped
  <1>8. \A i \in DOMAIN attempts[k.f] : attempts[k.f][i].link # k
    BY <1>5, <1>6, LinkIsLink DEF PaidInv, LinksOnce
  <1>9. RowsOwned'
    BY <1>1, <1>2, <1>3, Unmoved, KeptOwned DEF PaidInv, Owns
  <1>10. ASSUME NEW g \in Failures, NEW i \in DOMAIN attempts'[g], attempts'[g][i].link # NoLink
         PROVE  /\ attempts'[g][i].link.f = g /\ sent'[attempts'[g][i].link] > 0
                /\ \A j \in DOMAIN attempts'[g] : attempts'[g][j].link = attempts'[g][i].link => i = j
    <2>1. attempts[g] \in Seq(AttemptRow)
      BY DEF PaidInv, MeansInv, Typed, RowsTyped
    <2>2. attempts[g][i] \in AttemptRow
      BY <1>1, <2>1
    <2>3. attempts[g][i].link \in Link
      BY <1>1, <1>10, <2>2 DEF AttemptRow
    <2> QED BY <1>1, <1>7, <1>10, <2>3 DEF PaidInv, LinksOnce
  <1>11. ASSUME NEW q \in Runners, runner'[q].pc = "save"
         PROVE  /\ sent'[KeyOf(runner'[q])] > 0
                /\ \A i \in DOMAIN attempts'[runner'[q].f] : attempts'[runner'[q].f][i].link # KeyOf(runner'[q])
    <2>1. CASE q = p
      BY <1>1, <1>2, <1>3, <1>4, <1>6, <1>7, <1>8, <2>1
    <2>2. CASE q # p
      <3>1. runner[q].pc = "save" /\ Key(q) \in Link
        BY <1>3, <1>11, <2>2, RunnerTyped DEF PaidInv
      <3> QED BY <1>1, <1>3, <1>4, <1>7, <2>2, <3>1 DEF PaidInv, LinksOnce
    <2> QED BY <2>1, <2>2
  <1>12. ASSUME NEW q \in Runners, q # p, runner[q].pc = "save" PROVE Key(q) # k
    BY <1>5, <1>12 DEF PaidInv, LinksOnce
  <1>13. ASSUME NEW q \in Runners, NEW s \in Runners, runner'[q].pc = "save", runner'[s].pc = "save",
                KeyOf(runner'[q]) = KeyOf(runner'[s])
         PROVE  q = s
    <2>1. CASE q = p \/ s = p
      BY <1>3, <1>4, <1>12, <1>13, <2>1
    <2>2. CASE q # p /\ s # p
      <3>1. Key(q) = Key(s) /\ runner[q].pc = "save" /\ runner[s].pc = "save"
        BY <1>3, <1>4, <1>13, <2>2
      <3> QED BY <3>1 DEF PaidInv, LinksOnce
    <2> QED BY <2>1, <2>2
  <1>14. LinksOnce'
    BY <1>10, <1>11, <1>13 DEF LinksOnce, Key, KeyOf
  <1>15. PaidRows'
    BY <1>1, Unmoved, StaysPaid DEF PaidInv
  <1> QED BY <1>9, <1>14, <1>15 DEF PaidInv

LEMMA SavePays ==
  ASSUME PaidInv, MeansInv', NEW p \in Runners, SaveLink(p)
  PROVE  PaidInv' /\ WinsKept
PROOF
  <1> DEFINE k == Key(p)
             f == runner[p].f
             i == runner[p].row
             row == [attempts[f][i] EXCEPT !.outcome = "pending", !.link = k]
             r == [runner[p] EXCEPT !.pc = "report", !.result = "pending"]
  <1>1. /\ runner[p].pc = "save" /\ UNCHANGED <<failure, sent, confirm>>
        /\ attempts' = [attempts EXCEPT ![f] = [attempts[f] EXCEPT ![i] = row]]
        /\ runner' = [runner EXCEPT ![p] = r]
    BY DEF SaveLink, At, Report
  <1>2. r.pc = "report"
    BY RunnerTyped DEF PaidInv, RunnerState
  <1> HIDE DEF r
  <1>3. runner'[p] = r /\ \A q \in Runners : q # p => runner'[q] = runner[q]
    BY <1>1, OneRunner DEF PaidInv
  <1>4. /\ f \in Failures /\ i \in DOMAIN attempts[f] /\ attempts[f][i].link = NoLink
        /\ attempts[f][i].outcome # "succeeded"
    BY <1>1 DEF PaidInv, RowsOwned, Owns
  <1>5. k \in Link /\ k.f = f /\ sent[k] > 0 /\ \A j \in DOMAIN attempts[f] : attempts[f][j].link # k
    BY <1>1, RunnerTyped DEF PaidInv, LinksOnce, Key
  <1>6. row.link = k /\ row.outcome = "pending"
    <2>1. attempts[f] \in Seq(AttemptRow)
      BY <1>4 DEF PaidInv, MeansInv, Typed, RowsTyped
    <2>2. attempts[f][i] \in AttemptRow
      BY <1>4, <2>1
    <2> QED BY <2>2 DEF AttemptRow
  <1> HIDE DEF row
  <1>7. /\ attempts'[f] = [attempts[f] EXCEPT ![i] = row]
        /\ \A g \in Failures : g # f => attempts'[g] = attempts[g]
    BY <1>1, <1>4 DEF PaidInv, MeansInv, Typed, RowsTyped
  <1>8. /\ \A g \in Failures : DOMAIN attempts'[g] = DOMAIN attempts[g]
        /\ attempts'[f][i] = row
        /\ \A g \in Failures : \A j \in DOMAIN attempts[g] : ~(g = f /\ j = i) => attempts'[g][j] = attempts[g][j]
    BY <1>4, <1>7
  <1>9. ASSUME NEW q \in Runners, runner'[q].pc \in Owns
        PROVE  /\ q # p /\ runner[q].pc \in Owns /\ runner'[q] = runner[q]
               /\ ~(runner[q].f = f /\ runner[q].row = i)
    <2>1. q # p
      BY <1>2, <1>3, <1>9 DEF Owns
    <2>2. runner[q].pc \in Owns /\ runner[p].pc \in Owns /\ runner'[q] = runner[q]
      BY <1>1, <1>3, <1>9, <2>1 DEF Owns
    <2> QED BY <2>1, <2>2 DEF PaidInv, RowsOwned
  <1>10. ASSUME NEW q \in Runners, runner'[q].pc = "save"
         PROVE  q # p /\ runner[q].pc = "save" /\ runner'[q] = runner[q] /\ Key(q) # k
    <2>1. q # p /\ runner[q].pc = "save" /\ runner'[q] = runner[q]
      BY <1>2, <1>3, <1>10
    <2> QED BY <1>1, <2>1 DEF PaidInv, LinksOnce
  <1> HIDE DEF k, f, i
  <1>11. ASSUME NEW q \in Runners, runner'[q].pc \in Owns
         PROVE  /\ runner'[q].f \in Failures /\ runner'[q].row \in DOMAIN attempts'[runner'[q].f]
                /\ attempts'[runner'[q].f][runner'[q].row].link = NoLink
                /\ attempts'[runner'[q].f][runner'[q].row].outcome # "succeeded"
    <2>1. PICK g \in Failures : g = runner[q].f
      BY <1>9, <1>11 DEF PaidInv, RowsOwned
    <2>2. PICK j \in DOMAIN attempts[g] :
            j = runner[q].row /\ attempts[g][j].link = NoLink /\ attempts[g][j].outcome # "succeeded"
      BY <1>9, <1>11, <2>1 DEF PaidInv, RowsOwned
    <2>3. attempts'[g][j] = attempts[g][j] /\ j \in DOMAIN attempts'[g]
      BY <1>8, <1>9, <1>11, <2>1, <2>2
    <2> QED BY <1>9, <1>11, <2>1, <2>2, <2>3
  <1>12. ASSUME NEW q \in Runners, NEW s \in Runners, runner'[q].pc \in Owns, runner'[s].pc \in Owns,
                runner'[q].f = runner'[s].f, runner'[q].row = runner'[s].row
         PROVE  q = s
    BY <1>9, <1>12 DEF PaidInv, RowsOwned
  <1>13. RowsOwned'
    BY <1>11, <1>12 DEF RowsOwned
  <1>14. ASSUME NEW g \in Failures, NEW j \in DOMAIN attempts'[g], attempts'[g][j].link # NoLink
         PROVE  /\ attempts'[g][j].link.f = g /\ sent[attempts'[g][j].link] > 0
                /\ \A h \in DOMAIN attempts'[g] : attempts'[g][h].link = attempts'[g][j].link => j = h
    <2>1. CASE g = f /\ j = i
      <3>1. attempts'[g][j].link = k
        BY <1>6, <1>8, <2>1
      <3>2. \A h \in DOMAIN attempts'[g] : attempts'[g][h].link = k => j = h
        BY <1>4, <1>5, <1>8, <2>1
      <3> QED BY <1>5, <2>1, <3>1, <3>2
    <2>2. CASE ~(g = f /\ j = i)
      <3>1. attempts'[g][j] = attempts[g][j] /\ j \in DOMAIN attempts[g]
        BY <1>8, <2>2
      <3>2. attempts[g][j].link.f = g /\ sent[attempts[g][j].link] > 0
        BY <1>14, <3>1 DEF PaidInv, LinksOnce
      <3>3. ASSUME NEW h \in DOMAIN attempts'[g], attempts'[g][h].link = attempts'[g][j].link
            PROVE  j = h
        <4>1. CASE g = f /\ h = i
          BY <1>5, <1>6, <1>8, <3>1, <3>3, <4>1
        <4>2. CASE ~(g = f /\ h = i)
          BY <1>8, <1>14, <3>1, <3>3, <4>2 DEF PaidInv, LinksOnce
        <4> QED BY <4>1, <4>2
      <3> QED BY <3>1, <3>2, <3>3
    <2> QED BY <2>1, <2>2
  <1>15. ASSUME NEW q \in Runners, runner'[q].pc = "save"
         PROVE  /\ sent[KeyOf(runner'[q])] > 0
                /\ \A j \in DOMAIN attempts'[runner'[q].f] : attempts'[runner'[q].f][j].link # KeyOf(runner'[q])
    <2>1. KeyOf(runner'[q]) = Key(q) /\ runner'[q] = runner[q]
      BY <1>10, <1>15 DEF Key, KeyOf
    <2>2. /\ sent[Key(q)] > 0 /\ runner[q].f \in Failures
          /\ \A j \in DOMAIN attempts[runner[q].f] : attempts[runner[q].f][j].link # Key(q)
      BY <1>10, <1>15, RunnerTyped DEF PaidInv, LinksOnce, Stopped
    <2>3. Key(q) # k
      BY <1>10, <1>15
    <2> QED BY <1>6, <1>8, <2>1, <2>2, <2>3
  <1>16. ASSUME NEW q \in Runners, NEW s \in Runners, runner'[q].pc = "save", runner'[s].pc = "save",
                KeyOf(runner'[q]) = KeyOf(runner'[s])
         PROVE  q = s
    <2>1. Key(q) = Key(s) /\ runner[q].pc = "save" /\ runner[s].pc = "save"
      BY <1>10, <1>16 DEF Key, KeyOf
    <2> QED BY <2>1 DEF PaidInv, LinksOnce
  <1>17. LinksOnce'
    BY <1>1, <1>14, <1>15, <1>16 DEF LinksOnce, Key, KeyOf
  <1>18. ASSUME NEW g \in Failures, NEW j \in DOMAIN attempts'[g]
         PROVE  /\ attempts'[g][j].outcome = "succeeded" =>
                     attempts[g][j].outcome = "succeeded" /\ attempts'[g][j].link = attempts[g][j].link
                /\ attempts[g][j].outcome = "succeeded" => attempts'[g][j].outcome = "succeeded"
    BY <1>4, <1>6, <1>8
  <1>19. PaidRows'
    BY <1>1, <1>8, <1>18 DEF PaidInv, PaidRows, Link
  <1> QED BY <1>8, <1>13, <1>17, <1>18, <1>19 DEF PaidInv, WinsKept

-----------------------------------------------------------------------------
(* The customer, the webhook, the tasks and time *)

LEMMA ConfirmPays ==
  ASSUME PaidInv, MeansInv', NEW l \in Link, ConfirmLink(l)
  PROVE  PaidInv' /\ WinsKept
PROOF
  <1>1. confirm[l] = "paid" /\ UNCHANGED <<failure, runner, sent>>
    BY DEF ConfirmLink
  <1>2. ASSUME confirm' = [confirm EXCEPT ![l] = "dropped"], UNCHANGED attempts
        PROVE  PaidInv' /\ WinsKept
    <2>1. confirm' \in [Link -> {"none", "paid", "dropped"} \cup Paid]
      BY <1>2 DEF PaidInv, PaidRows
    <2>2. \A k \in Link : confirm'[k] \in Paid <=> confirm[k] \in Paid
      BY <1>1, <1>2 DEF PaidInv, PaidRows, Paid
    <2> QED BY <1>1, <1>2, <2>1, <2>2, Unmoved, AsidePays, KeptWins
  <1>3. ASSUME NEW i \in LinkedRows(l),
               attempts' = [attempts EXCEPT ![l.f][i].outcome = "succeeded"],
               confirm' = [confirm EXCEPT ![l] = "marked"]
        PROVE  PaidInv' /\ WinsKept
    <2>1. PICK f \in Failures : f = l.f
      BY DEF Link
    <2>2. attempts[f] \in Seq(AttemptRow)
      BY DEF PaidInv, MeansInv, Typed, RowsTyped
    <2>3. i \in DOMAIN attempts[f] /\ attempts[f][i].link = l /\ l # NoLink
      BY <1>3, <2>1, <2>2, LinkIsLink DEF LinkedRows
    <2>4. /\ \A g \in Failures : DOMAIN attempts'[g] = DOMAIN attempts[g]
          /\ \A g \in Failures : \A j \in DOMAIN attempts[g] :
               /\ attempts'[g][j].link = attempts[g][j].link
               /\ g = f /\ j = i => attempts'[g][j].outcome = "succeeded"
               /\ ~(g = f /\ j = i) => attempts'[g][j].outcome = attempts[g][j].outcome
      <3>1. Sets(f, i, "succeeded")
        BY <1>3, <2>1 DEF Sets
      <3> QED BY <2>3, <3>1, OutcomeWrites DEF PaidInv
    <2>5. WinsKept
      BY <2>4 DEF WinsKept
    <2>6. ASSUME NEW q \in Runners, runner[q].pc \in Owns
          PROVE  /\ runner[q].f \in Failures /\ runner[q].row \in DOMAIN attempts'[runner[q].f]
                 /\ attempts'[runner[q].f][runner[q].row].link = NoLink
                 /\ attempts'[runner[q].f][runner[q].row].outcome # "succeeded"
      BY <2>3, <2>4, <2>6 DEF PaidInv, RowsOwned
    <2>7. RowsOwned'
      BY <1>1, <2>6 DEF PaidInv, RowsOwned
    <2>8. ASSUME NEW g \in Failures, NEW j \in DOMAIN attempts'[g], attempts'[g][j].link # NoLink
          PROVE  /\ attempts'[g][j].link.f = g /\ sent[attempts'[g][j].link] > 0
                 /\ \A h \in DOMAIN attempts'[g] : attempts'[g][h].link = attempts'[g][j].link => j = h
      BY <2>4, <2>8 DEF PaidInv, LinksOnce
    <2>9. ASSUME NEW q \in Runners, runner[q].pc = "save"
          PROVE  /\ sent[Key(q)] > 0
                 /\ \A j \in DOMAIN attempts'[runner[q].f] : attempts'[runner[q].f][j].link # Key(q)
      <3>1. runner[q].f \in Failures
        BY <2>9, RunnerTyped DEF PaidInv, Stopped
      <3> QED BY <2>4, <2>9, <3>1 DEF PaidInv, LinksOnce
    <2>10. LinksOnce'
      <3>1. \A q \in Runners : Key(q)' = Key(q)
        BY <1>1 DEF Key
      <3> QED BY <1>1, <2>8, <2>9, <3>1 DEF PaidInv, LinksOnce
    <2>11. /\ confirm' \in [Link -> {"none", "paid", "dropped"} \cup Paid] /\ confirm'[l] \in Paid
           /\ \A k \in Link : k # l => confirm'[k] = confirm[k]
      BY <1>3 DEF PaidInv, PaidRows, Paid
    <2>12. ASSUME NEW g \in Failures, NEW j \in DOMAIN attempts'[g], attempts'[g][j].outcome = "succeeded"
           PROVE  attempts'[g][j].link # NoLink /\ confirm'[attempts'[g][j].link] \in Paid
      <3>1. CASE g = f /\ j = i
        BY <2>3, <2>4, <2>11, <3>1
      <3>2. CASE ~(g = f /\ j = i)
        <4>1. /\ j \in DOMAIN attempts[g] /\ attempts[g][j].outcome = "succeeded"
              /\ attempts'[g][j].link = attempts[g][j].link
          BY <2>4, <2>12, <3>2
        <4>2. attempts[g][j].link # NoLink /\ confirm[attempts[g][j].link] \in Paid
          BY <4>1 DEF PaidInv, PaidRows
        <4>3. attempts[g][j].link \in Link
          <5>1. attempts[g] \in Seq(AttemptRow)
            BY DEF PaidInv, MeansInv, Typed, RowsTyped
          <5>2. attempts[g][j] \in AttemptRow
            BY <4>1, <5>1
          <5> QED BY <4>2, <5>2 DEF AttemptRow
        <4> QED BY <2>11, <4>1, <4>2, <4>3
      <3> QED BY <3>1, <3>2
    <2>13. ASSUME NEW k \in Link, confirm'[k] \in Paid
           PROVE  \E j \in DOMAIN attempts'[k.f] : attempts'[k.f][j].outcome = "succeeded"
      <3>1. k.f \in Failures
        BY DEF Link
      <3>2. CASE k = l
        BY <2>1, <2>3, <2>4, <3>2
      <3>3. CASE k # l
        <4>1. PICK j \in DOMAIN attempts[k.f] : attempts[k.f][j].outcome = "succeeded"
          BY <2>11, <2>13, <3>3 DEF PaidInv, PaidRows
        <4> QED BY <2>4, <3>1, <4>1
      <3> QED BY <3>2, <3>3
    <2>14. ASSUME NEW g \in Failures, failure[g].status = "recovered"
           PROVE  \E j \in DOMAIN attempts'[g] : attempts'[g][j].outcome = "succeeded"
      <3>1. PICK j \in DOMAIN attempts[g] : attempts[g][j].outcome = "succeeded"
        BY <2>14 DEF PaidInv, PaidRows
      <3> QED BY <2>4, <3>1
    <2>15. PaidRows'
      BY <1>1, <2>11, <2>12, <2>13, <2>14 DEF PaidRows
    <2> QED BY <2>5, <2>7, <2>10, <2>15 DEF PaidInv
  <1> QED BY <1>2, <1>3 DEF ConfirmLink

LEMMA PayPays ==
  ASSUME PaidInv, MeansInv', NEW l \in Link, CustomerPays(l) \/ ConfirmFailure(l) \/ ConfirmDies(l)
  PROVE  PaidInv'
PROOF
  <1>1. UNCHANGED <<attempts, runner, sent>>
    BY DEF CustomerPays, ConfirmFailure, ConfirmDies
  <1>2. /\ confirm' \in [Link -> {"none", "paid", "dropped"} \cup Paid]
        /\ \A k \in Link : confirm'[k] \in Paid <=> confirm[k] \in Paid
    BY DEF PaidInv, PaidRows, Paid, CustomerPays, ConfirmFailure, ConfirmDies
  <1>3. ASSUME NEW g \in Failures, failure'[g].status = "recovered"
        PROVE  failure[g].status = "recovered" \/ \E k \in Link : k.f = g /\ confirm[k] \in Paid
    <2>1. CASE failure' = failure
      BY <1>3, <2>1
    <2>2. CASE ConfirmFailure(l)
      <3>1. confirm[l] \in Paid /\ failure' = [failure EXCEPT ![l.f].status = "recovered"]
        BY <2>2 DEF ConfirmFailure, SetStatus, Paid
      <3>2. CASE g = l.f
        BY <3>1, <3>2
      <3>3. CASE g # l.f
        BY <1>3, <3>1, <3>3 DEF PaidInv, MeansInv, Typed, RowsTyped
      <3> QED BY <3>2, <3>3
    <2> QED BY <2>1, <2>2 DEF CustomerPays, ConfirmDies
  <1> QED BY <1>1, <1>2, <1>3, Unmoved, AsidePays

LEMMA WaitPays ==
  ASSUME PaidInv, MeansInv', UNCHANGED <<failure, runner, sent, confirm>>, Kept
  PROVE  PaidInv'
PROOF
  <1>1. confirm' \in [Link -> {"none", "paid", "dropped"} \cup Paid]
    BY DEF PaidInv, PaidRows
  <1> QED BY <1>1, AsidePays

LEMMA BackoffPays ==
  ASSUME PaidInv, MeansInv', NEW f \in Failures, BackoffElapses(f)
  PROVE  PaidInv' /\ WinsKept
PROOF
  <1>1. UNCHANGED <<failure, runner, sent, confirm>>
    BY DEF BackoffElapses
  <1>2. attempts[f] \in Seq(AttemptRow)
    BY DEF PaidInv, MeansInv, Typed, RowsTyped
  <1>3. /\ attempts'[f] = [i \in 1..Len(attempts[f]) |-> [attempts[f][i] EXCEPT !.next = "passed"]]
        /\ \A g \in Failures : g # f => attempts'[g] = attempts[g]
    BY DEF BackoffElapses, PaidInv, MeansInv, Typed, RowsTyped
  <1>4. DOMAIN attempts'[f] = DOMAIN attempts[f]
    BY <1>2, <1>3
  <1>5. ASSUME NEW i \in DOMAIN attempts[f]
        PROVE  /\ attempts'[f][i].link = attempts[f][i].link
               /\ attempts'[f][i].outcome = attempts[f][i].outcome
    <2>1. attempts[f][i] \in AttemptRow /\ i \in 1..Len(attempts[f])
      BY <1>2
    <2>2. attempts'[f][i] = [attempts[f][i] EXCEPT !.next = "passed"]
      BY <1>3, <2>1
    <2> QED BY <2>1, <2>2 DEF AttemptRow
  <1>6. Kept
    BY <1>3, <1>4, <1>5 DEF Kept
  <1> QED BY <1>1, <1>6, WaitPays, KeptWins

-----------------------------------------------------------------------------
LEMMA RunnerStepPays ==
  ASSUME PaidInv, MeansInv', NEW p \in Runners, RunnerStep(p)
  PROVE  PaidInv' /\ WinsKept
PROOF
  <1>1. CASE RecordStop(p) \/ InsertAttempt(p) \/ NoMoneyAction(p) \/ FailAttempt(p) \/ SaveLink(p)
    BY <1>1, RecordStopPays, InsertAttemptPays, OutcomePays, SavePays
  <1>2. CASE ReadFailure(p) \/ Diagnose(p) \/ Decide(p) \/ WriteOff(p) \/ MarkRecovering(p)
             \/ FindAgent(p) \/ ProvisionAgent(p) \/ AskGate(p) \/ DeliverRecoveryLink(p) \/ SettleTask(p)
    <2>1. UNCHANGED attempts
      BY <1>2 DEF ReadFailure, Diagnose, Decide, WriteOff, MarkRecovering, FindAgent, ProvisionAgent,
                  AskGate, DeliverRecoveryLink, SettleTask
    <2>2. PaidInv'
      BY <1>2, ReadPays, StartPays, StatusPays, AgentPays, DeliverPays, EndPays
    <2> QED BY <2>1, <2>2, Unmoved, KeptWins
  <1> QED BY <1>1, <1>2 DEF RunnerStep

LEMMA NextPays ==
  ASSUME PaidInv, [Next]_vars
  PROVE  PaidInv' /\ WinsKept
PROOF
  <1>1. MeansInv'
    BY NextMeans DEF PaidInv
  <1>2. CASE \E p \in Ticks : Tick(p)
    <2>1. PICK p \in Ticks : Tick(p)
      BY <1>2
    <2>2. p \in Runners /\ UNCHANGED attempts
      BY <2>1 DEF Runners, Tick, BeginStep, Claim
    <2> QED BY <1>1, <2>1, <2>2, StartPays, Unmoved, KeptWins DEF Tick
  <1>3. CASE \E p \in Clicks, f \in Failures : Click(p, f)
    <2>1. PICK p \in Clicks, f \in Failures : Click(p, f)
      BY <1>3
    <2>2. p \in Runners /\ UNCHANGED attempts
      BY <2>1 DEF Runners, Click
    <2> QED BY <1>1, <2>1, <2>2, StartPays, Unmoved, KeptWins
  <1>4. CASE \E p \in Runners : RunnerStep(p)
    BY <1>1, <1>4, RunnerStepPays
  <1>5. CASE \E p \in Runners : StepThrows(p) \/ Crash(p)
    <2>1. UNCHANGED attempts
      BY <1>5 DEF StepThrows, Crash
    <2> QED BY <1>1, <1>5, <2>1, EndPays, Unmoved, KeptWins
  <1>6. CASE \/ \E f \in Failures : CreateTask(f) \/ CancelTask(f) \/ LeaseLapses(f) \/ WaitElapses(f)
             \/ \E m \in Merchants : RetryTask(m) \/ \E f \in Failures : ReadForRetry(m, f)
    <2>1. UNCHANGED <<failure, attempts, runner, sent, confirm>>
      BY <1>6 DEF CreateTask, CancelTask, LeaseLapses, WaitElapses, RetryTask, ReadForRetry
    <2> QED BY <1>1, <2>1, WaitPays, Unmoved, KeptWins
  <1>7. CASE \E l \in Link : ConfirmLink(l)
    BY <1>1, <1>7, ConfirmPays
  <1>8. CASE \E l \in Link : CustomerPays(l) \/ ConfirmFailure(l) \/ ConfirmDies(l)
    <2>1. UNCHANGED attempts
      BY <1>8 DEF CustomerPays, ConfirmFailure, ConfirmDies
    <2> QED BY <1>1, <1>8, <2>1, PayPays, Unmoved, KeptWins
  <1>9. CASE \E f \in Failures : BackoffElapses(f)
    BY <1>1, <1>9, BackoffPays
  <1>10. CASE UNCHANGED vars
    BY <1>1, <1>10, WaitPays, Unmoved, KeptWins DEF vars
  <1> QED BY <1>2, <1>3, <1>4, <1>5, <1>6, <1>7, <1>8, <1>9, <1>10 DEF Next

LEMMA PaidInvImplies == PaidInv => RecoveredMeansPaid
PROOF
  <1> SUFFICES ASSUME PaidInv, NEW f \in Failures
      PROVE  LET won == {i \in 1..Len(attempts[f]) : attempts[f][i].outcome = "succeeded"} IN
               /\ \A i \in won : /\ attempts[f][i].link # NoLink
                                 /\ confirm[attempts[f][i].link] \in {"marked", "done", "lost"}
               /\ \A i, j \in won : attempts[f][i].link = attempts[f][j].link => i = j
               /\ failure[f].status = "recovered" => won # {}
    BY DEF RecoveredMeansPaid
  <1>1. DOMAIN attempts[f] = 1..Len(attempts[f])
    <2>1. attempts[f] \in Seq(AttemptRow)
      BY DEF PaidInv, MeansInv, Typed, RowsTyped
    <2> QED BY <2>1
  <1>2. ASSUME NEW i \in 1..Len(attempts[f]), attempts[f][i].outcome = "succeeded"
        PROVE  attempts[f][i].link # NoLink /\ confirm[attempts[f][i].link] \in {"marked", "done", "lost"}
    BY <1>1, <1>2 DEF PaidInv, PaidRows, Paid
  <1>3. ASSUME NEW i \in 1..Len(attempts[f]), NEW j \in 1..Len(attempts[f]),
               attempts[f][i].outcome = "succeeded", attempts[f][i].link = attempts[f][j].link
        PROVE  i = j
    BY <1>1, <1>2, <1>3 DEF PaidInv, LinksOnce
  <1>4. failure[f].status = "recovered" =>
          \E i \in 1..Len(attempts[f]) : attempts[f][i].outcome = "succeeded"
    BY <1>1 DEF PaidInv, PaidRows
  <1> QED BY <1>2, <1>3, <1>4

\* However runners, merchants and payments interleave and die, every row counted as
\* recovered revenue bears a link of its own that the customer has paid, and a failure
\* is only called recovered with such a row.
THEOREM RecoveredIsPaid == Spec => []RecoveredMeansPaid
  BY InitPaid, NextPays, PaidInvImplies, PTL DEF Spec

\* Nothing takes a row's success back, not even a runner that still has the attempt in
\* hand when the payment is confirmed.
THEOREM SuccessIsFinal == Spec => SucceededIsFinal
PROOF
  <1>1. PaidInv /\ [Next]_vars =>
          [\A f \in Failures : \A i \in 1..Len(attempts[f]) :
             attempts[f][i].outcome = "succeeded" => attempts'[f][i].outcome = "succeeded"]_vars
    <2> SUFFICES ASSUME PaidInv, [Next]_vars, NEW f \in Failures, NEW i \in 1..Len(attempts[f]),
                        attempts[f][i].outcome = "succeeded"
                 PROVE  attempts'[f][i].outcome = "succeeded"
      OBVIOUS
    <2>1. attempts[f] \in Seq(AttemptRow)
      BY DEF PaidInv, MeansInv, Typed, RowsTyped
    <2>2. i \in DOMAIN attempts[f]
      BY <2>1
    <2>3. WinsKept
      BY NextPays
    <2> QED BY <2>2, <2>3 DEF WinsKept
  <1>2. Init => PaidInv
    BY InitPaid
  <1>3. PaidInv /\ [Next]_vars => PaidInv'
    BY NextPays
  <1> QED BY <1>1, <1>2, <1>3, PTL DEF Spec, SucceededIsFinal

-----------------------------------------------------------------------------
(* The tasks and their leases.  A merchant's retry writes over the status it  *)
(* read: what follows holds as long as one session at a time retries.         *)

OneMerchant == \A m, n \in Merchants : m = n

HoldsIn(r, f) == r.f = f \/ \E i \in 1..Len(r.queue) : r.queue[i].f = f
OnceIn(r, f) ==
  /\ r.f = f => \A i \in 1..Len(r.queue) : r.queue[i].f # f
  /\ \A i, j \in 1..Len(r.queue) : r.queue[i].f = f /\ r.queue[j].f = f => i = j
InHand(t) == t.status = "cancelled" \/ (t.status = "claimed" /\ t.lease = "fresh")

\* A retry in progress is of a task that is still failed.
RetryOK == \A m \in Merchants : retrying[m] # NoFailure => task[retrying[m]].status = "failed"

\* A task whose lease has not lapsed under a live tick is held by one tick at most, once,
\* and only while it is claimed under a fresh lease or cancelled.
HandsOK ==
  \A f \in Failures : ~overrun[f] =>
    /\ \A p \in Ticks : OnceIn(runner[p], f) /\ (HoldsIn(runner[p], f) => InHand(task[f]))
    /\ \A p, q \in Ticks : HoldsIn(runner[p], f) /\ HoldsIn(runner[q], f) => p = q

ClaimInv == MeansInv /\ overrun \in [Failures -> BOOLEAN] /\ RetryOK /\ HandsOK

LEMMA InitClaims == Init => ClaimInv
PROOF
  <1> SUFFICES ASSUME Init PROVE ClaimInv
    OBVIOUS
  <1>1. /\ \A p \in Runners : runner[p] = Idle
        /\ \A m \in Merchants : retrying[m] = NoFailure
        /\ overrun \in [Failures -> BOOLEAN]
    BY DEF Init
  <1>2. Idle.f = NoFailure /\ Len(Idle.queue) = 0
    BY DEF Idle
  <1>3. \A f \in Failures : ~HoldsIn(Idle, f) /\ OnceIn(Idle, f)
    BY <1>2, ConstantsAssumption DEF HoldsIn, OnceIn
  <1>4. HandsOK
    BY <1>1, <1>3 DEF HandsOK, Runners
  <1> QED BY <1>1, <1>4, InitMeans DEF ClaimInv, RetryOK

LEMMA RetryKept ==
  ASSUME ClaimInv, UNCHANGED retrying,
         \A f \in Failures : task[f].status = "failed" => task'[f].status = "failed"
  PROVE  RetryOK'
PROOF
  <1>1. \A m \in Merchants : retrying[m] # NoFailure => retrying[m] \in Failures
    BY DEF ClaimInv, MeansInv, Typed, TasksTyped
  <1> QED BY <1>1 DEF ClaimInv, RetryOK

\* A step that gives no tick anything to hold, and disturbs no task that stays held.
LEMMA HandsKept ==
  ASSUME ClaimInv, \A f \in Failures : overrun[f] => overrun'[f],
         \A q \in Ticks, f \in Failures :
           /\ OnceIn(runner[q], f) => OnceIn(runner'[q], f)
           /\ HoldsIn(runner'[q], f) => HoldsIn(runner[q], f),
         \A q \in Ticks, f \in Failures :
           ~overrun'[f] /\ HoldsIn(runner'[q], f) /\ InHand(task[f]) => InHand(task'[f])
  PROVE  HandsOK'
PROOF
  <1> SUFFICES ASSUME NEW f \in Failures, ~overrun'[f]
      PROVE  /\ \A p \in Ticks : OnceIn(runner'[p], f) /\ (HoldsIn(runner'[p], f) => InHand(task'[f]))
             /\ \A p, q \in Ticks : HoldsIn(runner'[p], f) /\ HoldsIn(runner'[q], f) => p = q
    BY DEF HandsOK
  <1>1. ~overrun[f]
    OBVIOUS
  <1> QED BY <1>1 DEF ClaimInv, HandsOK

\* A task that is still held and in hand when a step leaves the ticks alone.
LEMMA TicksStill ==
  ASSUME ClaimInv, MeansInv', UNCHANGED <<retrying, overrun>>, \A q \in Ticks : runner'[q] = runner[q],
         \A f \in Failures : task[f].status = "failed" => task'[f].status = "failed",
         \A f \in Failures : InHand(task[f]) => InHand(task'[f])
  PROVE  ClaimInv'
PROOF
  <1>1. RetryOK'
    BY RetryKept
  <1>2. HandsOK'
    BY HandsKept
  <1> QED BY <1>1, <1>2 DEF ClaimInv

\* A step of one runner that leaves the tasks alone.
LEMMA SameTasks ==
  ASSUME ClaimInv, MeansInv', NEW p \in Runners, NEW r, runner' = [runner EXCEPT ![p] = r],
         \A f \in Failures : OnceIn(runner[p], f) => OnceIn(r, f),
         \A f \in Failures : HoldsIn(r, f) => HoldsIn(runner[p], f),
         UNCHANGED <<task, retrying, overrun>>
  PROVE  ClaimInv'
PROOF
  <1>1. runner'[p] = r /\ \A q \in Runners : q # p => runner'[q] = runner[q]
    BY OneRunner DEF ClaimInv
  <1>2. RetryOK'
    BY RetryKept
  <1>3. ASSUME NEW q \in Ticks, NEW f \in Failures
        PROVE  /\ OnceIn(runner[q], f) => OnceIn(runner'[q], f)
               /\ HoldsIn(runner'[q], f) => HoldsIn(runner[q], f)
    <2>1. q \in Runners
      BY DEF Runners
    <2>2. CASE q = p
      BY <1>1, <2>2
    <2>3. CASE q # p
      BY <1>1, <2>1, <2>3
    <2> QED BY <2>2, <2>3
  <1>4. HandsOK'
    BY <1>3, HandsKept
  <1> QED BY <1>2, <1>4 DEF ClaimInv

LEMMA SameHands ==
  ASSUME ClaimInv, MeansInv', NEW p \in Runners, NEW r, runner' = [runner EXCEPT ![p] = r],
         r.f = runner[p].f, r.queue = runner[p].queue, UNCHANGED <<task, retrying, overrun>>
  PROVE  ClaimInv'
PROOF
  <1>1. \A f \in Failures : OnceIn(r, f) <=> OnceIn(runner[p], f)
    BY DEF OnceIn
  <1>2. \A f \in Failures : HoldsIn(r, f) <=> HoldsIn(runner[p], f)
    BY DEF HoldsIn
  <1> QED BY <1>1, <1>2, SameTasks

-----------------------------------------------------------------------------
LEMMA GotoHands ==
  ASSUME ClaimInv, MeansInv', NEW p \in Runners, NEW pc, Goto(p, pc), UNCHANGED <<task, retrying, overrun>>
  PROVE  ClaimInv'
PROOF
  <1> DEFINE r == [runner[p] EXCEPT !.pc = pc]
  <1>1. r.f = runner[p].f /\ r.queue = runner[p].queue
    BY RunnerTyped DEF ClaimInv, RunnerState
  <1>2. runner' = [runner EXCEPT ![p] = r]
    BY DEF Goto
  <1> HIDE DEF r
  <1> QED BY <1>1, <1>2, SameHands

LEMMA ReportHands ==
  ASSUME ClaimInv, MeansInv', NEW p \in Runners, NEW result, Report(p, result),
         UNCHANGED <<task, retrying, overrun>>
  PROVE  ClaimInv'
PROOF
  <1> DEFINE r == [runner[p] EXCEPT !.pc = "report", !.result = result]
  <1>1. r.f = runner[p].f /\ r.queue = runner[p].queue
    BY RunnerTyped DEF ClaimInv, RunnerState
  <1>2. runner' = [runner EXCEPT ![p] = r]
    BY DEF Report
  <1> HIDE DEF r
  <1> QED BY <1>1, <1>2, SameHands

LEMMA StrategyHands ==
  ASSUME ClaimInv, MeansInv', NEW p \in Runners, NEW strategy,
         runner' = [runner EXCEPT ![p].pc = "decide", ![p].strategy = strategy],
         UNCHANGED <<task, retrying, overrun>>
  PROVE  ClaimInv'
PROOF
  <1> DEFINE r == [runner[p] EXCEPT !.pc = "decide", !.strategy = strategy]
  <1>1. r.f = runner[p].f /\ r.queue = runner[p].queue
    BY RunnerTyped DEF ClaimInv, RunnerState
  <1>2. runner' = [runner EXCEPT ![p] = r]
    OBVIOUS
  <1> HIDE DEF r
  <1> QED BY <1>1, <1>2, SameHands

LEMMA DecideHands ==
  ASSUME ClaimInv, MeansInv', NEW p \in Runners, Decide(p)
  PROVE  ClaimInv'
PROOF
  <1> DEFINE f == runner[p].f
             no == Len(attempts[f]) + 1
             strategy == runner[p].strategy
             r == [runner[p] EXCEPT
                     !.no = no, !.pc = IF ShouldAttempt(f, no, strategy) THEN "insert" ELSE "stop",
                     !.result = IF TooSoon(f, no, strategy) THEN "not_yet" ELSE "stopped"]
  <1>1. r.f = runner[p].f /\ r.queue = runner[p].queue
    BY RunnerTyped DEF ClaimInv, RunnerState
  <1>2. runner' = [runner EXCEPT ![p] = r] /\ UNCHANGED <<task, retrying, overrun>>
    BY DEF Decide
  <1> HIDE DEF r
  <1> QED BY <1>1, <1>2, SameHands

LEMMA InsertHands ==
  ASSUME ClaimInv, MeansInv', NEW p \in Runners, InsertAttempt(p)
  PROVE  ClaimInv'
PROOF
  <1> DEFINE r == [runner[p] EXCEPT !.pc = "recovering", !.row = Len(attempts[runner[p].f]) + 1]
  <1>1. r.f = runner[p].f /\ r.queue = runner[p].queue
    BY RunnerTyped DEF ClaimInv, RunnerState
  <1>2. runner' = [runner EXCEPT ![p] = r] /\ UNCHANGED <<task, retrying, overrun>>
    BY DEF InsertAttempt
  <1> HIDE DEF r
  <1> QED BY <1>1, <1>2, SameHands

LEMMA AgentHands ==
  ASSUME ClaimInv, MeansInv', NEW p \in Runners, NEW g,
         runner' = [runner EXCEPT ![p].agent = g, ![p].pc = "gate"], UNCHANGED <<task, retrying, overrun>>
  PROVE  ClaimInv'
PROOF
  <1> DEFINE r == [runner[p] EXCEPT !.agent = g, !.pc = "gate"]
  <1>1. r.f = runner[p].f /\ r.queue = runner[p].queue
    BY RunnerTyped DEF ClaimInv, RunnerState
  <1>2. runner' = [runner EXCEPT ![p] = r]
    OBVIOUS
  <1> HIDE DEF r
  <1> QED BY <1>1, <1>2, SameHands

\* Every step of a run but its last keeps what the tick has in hand.
LEMMA RunHands ==
  ASSUME ClaimInv, MeansInv', NEW p \in Runners, RunnerStep(p), ~SettleTask(p)
  PROVE  ClaimInv'
PROOF
  <1>1. UNCHANGED <<task, retrying, overrun>>
    BY DEF RunnerStep, ReadFailure, Diagnose, Decide, RecordStop, WriteOff, InsertAttempt, MarkRecovering,
           NoMoneyAction, FindAgent, ProvisionAgent, AskGate, FailAttempt, DeliverRecoveryLink, SaveLink
  <1>2. CASE ReadFailure(p)
    BY <1>1, <1>2, ReportHands, GotoHands, StrategyHands DEF ReadFailure
  <1>3. CASE Diagnose(p)
    BY <1>1, <1>3, StrategyHands DEF Diagnose
  <1>4. CASE RecordStop(p) \/ WriteOff(p) \/ MarkRecovering(p)
    BY <1>1, <1>4, ReportHands, GotoHands DEF RecordStop, WriteOff, MarkRecovering
  <1>5. CASE NoMoneyAction(p) \/ FailAttempt(p) \/ SaveLink(p)
    BY <1>1, <1>5, ReportHands, GotoHands DEF NoMoneyAction, FailAttempt, SaveLink
  <1>6. CASE FindAgent(p) \/ ProvisionAgent(p)
    BY <1>1, <1>6, GotoHands, AgentHands DEF FindAgent, ProvisionAgent
  <1>7. CASE AskGate(p) \/ DeliverRecoveryLink(p)
    BY <1>1, <1>7, GotoHands DEF AskGate, DeliverRecoveryLink
  <1> QED BY <1>2, <1>3, <1>4, <1>5, <1>6, <1>7, DecideHands, InsertHands DEF RunnerStep

LEMMA BeginHands ==
  ASSUME ClaimInv, MeansInv', NEW p \in Runners, BeginStep(p)
  PROVE  ClaimInv'
PROOF
  <1> DEFINE q == runner[p].queue
             r == [runner[p] EXCEPT !.pc = "read", !.f = Head(q).f, !.count = Head(q).count, !.queue = Tail(q)]
  <1>1. q \in Seq(Queued) /\ q # <<>>
    BY RunnerTyped DEF ClaimInv, RunnerState, BeginStep
  <1>2. r.f = q[1].f /\ r.queue = Tail(q)
    BY <1>1, RunnerTyped DEF ClaimInv, RunnerState
  <1>3. runner' = [runner EXCEPT ![p] = r] /\ UNCHANGED <<task, retrying, overrun>>
    BY DEF BeginStep
  <1> HIDE DEF r
  <1>4. /\ Len(q) \in Nat /\ Len(q) > 0 /\ Len(Tail(q)) = Len(q) - 1
        /\ \A i \in 1..Len(Tail(q)) : Tail(q)[i] = q[i + 1]
    BY <1>1, HeadTailProperties
  <1>5. /\ Len(r.queue) = Len(q) - 1
        /\ \A i \in 1..Len(r.queue) : i + 1 \in 1..Len(q) /\ r.queue[i] = q[i + 1]
    BY <1>2, <1>4
  <1>6. ASSUME NEW f \in Failures, OnceIn(runner[p], f) PROVE OnceIn(r, f)
    <2>1. \A i, j \in 1..Len(q) : q[i].f = f /\ q[j].f = f => i = j
      BY <1>6 DEF OnceIn
    <2>2. 1 \in 1..Len(q)
      BY <1>4
    <2>3. ASSUME r.f = f, NEW i \in 1..Len(r.queue) PROVE r.queue[i].f # f
      <3>1. i + 1 \in 1..Len(q) /\ r.queue[i] = q[i + 1] /\ i + 1 # 1
        BY <1>5
      <3>2. q[1].f = f
        BY <1>2, <2>3
      <3> HIDE DEF q
      <3> QED BY <2>1, <2>2, <3>1, <3>2
    <2>4. ASSUME NEW i \in 1..Len(r.queue), NEW j \in 1..Len(r.queue), r.queue[i].f = f, r.queue[j].f = f
          PROVE  i = j
      <3>1. i + 1 = j + 1
        BY <1>5, <2>1, <2>4
      <3> QED BY <3>1
    <2> QED BY <2>3, <2>4 DEF OnceIn
  <1>7. ASSUME NEW f \in Failures, HoldsIn(r, f) PROVE HoldsIn(runner[p], f)
    <2>1. CASE r.f = f
      <3>1. 1 \in 1..Len(q) /\ q[1].f = f
        BY <1>2, <1>4, <2>1
      <3>2. \E k \in 1..Len(q) : q[k].f = f
        BY <3>1
      <3> QED BY <3>2 DEF HoldsIn
    <2>2. ASSUME NEW i \in 1..Len(r.queue), r.queue[i].f = f PROVE HoldsIn(runner[p], f)
      <3>1. i + 1 \in 1..Len(q) /\ q[i + 1].f = f
        BY <1>5, <2>2
      <3>2. \E k \in 1..Len(q) : q[k].f = f
        BY <3>1
      <3> QED BY <3>2 DEF HoldsIn
    <2> QED BY <1>7, <2>1, <2>2 DEF HoldsIn
  <1> QED BY <1>3, <1>6, <1>7, SameTasks

\* Only a task that no live tick has in hand can be claimed.
LEMMA ClaimHands ==
  ASSUME ClaimInv, MeansInv', NEW p \in Ticks, NEW f \in Failures, Claim(p, f)
  PROVE  ClaimInv'
PROOF
  <1> DEFINE q == runner[p].queue
             entry == [f |-> f, count |-> task'[f].count]
             r == [runner[p] EXCEPT !.queue = Append(q, entry)]
  <1>1. p \in Runners
    BY DEF Runners
  <1>2. /\ runner' = [runner EXCEPT ![p] = r] /\ UNCHANGED <<retrying, overrun>> /\ Eligible(f)
        /\ task' = [task EXCEPT ![f] = Claimed(task[f])]
    BY DEF Claim
  <1>3. q \in Seq(Queued) /\ entry.f = f
    BY <1>1, RunnerTyped DEF ClaimInv, RunnerState
  <1>4. entry \in Queued
    <2>1. task' \in [Failures -> TaskRow]
      BY DEF MeansInv, Typed, TasksTyped
    <2>2. task'[f].count \in Nat
      BY <2>1 DEF TaskRow
    <2> QED BY <2>2 DEF Queued
  <1> HIDE DEF entry
  <1>5. r.f = runner[p].f /\ r.queue = Append(q, entry)
    BY <1>1, RunnerTyped DEF ClaimInv, RunnerState
  <1> HIDE DEF r
  <1>6. /\ Len(q) \in Nat /\ Len(r.queue) = Len(q) + 1 /\ r.queue[Len(q) + 1].f = f
        /\ \A i \in 1..Len(q) : r.queue[i] = q[i]
    BY <1>3, <1>4, <1>5, AppendProperties
  <1> HIDE DEF q
  <1>7. runner'[p] = r /\ \A s \in Ticks : s # p => runner'[s] = runner[s]
    BY <1>1, <1>2, OneRunner DEF ClaimInv, Runners
  <1>8. /\ \A g \in Failures : g # f => task'[g] = task[g]
        /\ task'[f].status = "claimed" /\ task'[f].lease = "fresh"
    <2>1. task \in [Failures -> TaskRow] /\ task[f] \in TaskRow
      BY DEF ClaimInv, MeansInv, Typed, TasksTyped
    <2>2. Claimed(task[f]).status = "claimed" /\ Claimed(task[f]).lease = "fresh"
      BY <2>1 DEF Claimed, TaskRow
    <2> QED BY <1>2, <2>1, <2>2
  <1>9. task[f].status # "failed" /\ ~InHand(task[f])
    BY <1>2 DEF Eligible, InHand
  <1>10. RetryOK'
    BY <1>2, <1>8, <1>9, RetryKept
  <1>11. ASSUME NEW g \in Failures, g # f
         PROVE  /\ OnceIn(runner[p], g) => OnceIn(r, g)
                /\ HoldsIn(r, g) => HoldsIn(runner[p], g)
    <2>1. \A i \in 1..Len(r.queue) : r.queue[i].f = g => i \in 1..Len(q) /\ q[i].f = g
      BY <1>6, <1>11
    <2>2. OnceIn(runner[p], g) => OnceIn(r, g)
      BY <1>5, <2>1 DEF OnceIn, q
    <2>3. HoldsIn(r, g) => HoldsIn(runner[p], g)
      BY <1>5, <2>1 DEF HoldsIn, q
    <2> QED BY <2>2, <2>3
  <1>12. ASSUME ~HoldsIn(runner[p], f) PROVE OnceIn(r, f)
    <2>1. runner[p].f # f /\ \A i \in 1..Len(q) : q[i].f # f
      BY <1>12 DEF HoldsIn, q
    <2>2. \A i \in 1..Len(r.queue) : r.queue[i].f = f => i = Len(q) + 1
      BY <1>6, <2>1
    <2> QED BY <1>5, <2>1, <2>2 DEF OnceIn
  <1>13. ASSUME NEW g \in Failures, ~overrun[g]
         PROVE  /\ \A s \in Ticks : OnceIn(runner'[s], g) /\ (HoldsIn(runner'[s], g) => InHand(task'[g]))
                /\ \A s, t \in Ticks : HoldsIn(runner'[s], g) /\ HoldsIn(runner'[t], g) => s = t
    <2>1. /\ \A s \in Ticks : OnceIn(runner[s], g) /\ (HoldsIn(runner[s], g) => InHand(task[g]))
          /\ \A s, t \in Ticks : HoldsIn(runner[s], g) /\ HoldsIn(runner[t], g) => s = t
      BY <1>13 DEF ClaimInv, HandsOK
    <2>2. CASE g = f
      <3>1. \A s \in Ticks : ~HoldsIn(runner[s], g)
        BY <1>9, <2>1, <2>2
      <3>2. \A s \in Ticks : HoldsIn(runner'[s], g) => s = p
        BY <1>7, <3>1
      <3>3. \A s \in Ticks : OnceIn(runner'[s], g)
        BY <1>7, <1>12, <2>1, <2>2, <3>1
      <3> QED BY <1>8, <2>2, <3>2, <3>3 DEF InHand
    <2>3. CASE g # f
      <3>1. \A s \in Ticks : /\ OnceIn(runner[s], g) => OnceIn(runner'[s], g)
                             /\ HoldsIn(runner'[s], g) => HoldsIn(runner[s], g)
        BY <1>7, <1>11, <2>3
      <3> QED BY <1>8, <2>1, <2>3, <3>1
    <2> QED BY <2>2, <2>3
  <1>14. HandsOK'
    BY <1>2, <1>13 DEF HandsOK
  <1> QED BY <1>2, <1>10, <1>14 DEF ClaimInv

\* What the end of a step writes on its task: nothing on one that has ended.
LEMMA EndWrites ==
  ASSUME ClaimInv, NEW p \in Ticks, SettleTask(p) \/ StepThrows(p)
  PROVE  /\ runner[p].f \in Failures
         /\ \A g \in Failures : g # runner[p].f => task'[g] = task[g]
         /\ \A g \in Failures : task[g].status \in Ended => task'[g] = task[g]
PROOF
  <1>1. p \in Runners /\ p \notin Clicks
    BY ConstantsAssumption DEF Runners
  <1>2. runner[p].f \in Failures
    BY <1>1, RunnerTyped DEF ClaimInv, SettleTask, StepThrows, At, Stopped
  <1>3. PICK t : /\ task' = [task EXCEPT ![runner[p].f] = t]
                 /\ \/ \E status \in Ended : t = Terminated(task[runner[p].f], status)
                    \/ \E due \in {"soon", "backoff"} : t = Rescheduled(task[runner[p].f], due)
    BY <1>1 DEF SettleTask, StepThrows, RunAfter, Ended
  <1>4. task[runner[p].f].status \in Ended => t = task[runner[p].f]
    BY <1>3 DEF Terminated, Rescheduled, Ended
  <1> QED BY <1>2, <1>3, <1>4 DEF ClaimInv, MeansInv, Typed, TasksTyped

\* What a tick holds once it has left its task: what is still in its queue.
LEMMA LeaveHands ==
  ASSUME NEW queue, NEW pc, NEW r, r.queue = queue, NEW f \in Failures
  PROVE  /\ OnceIn(r, f) => OnceIn([Idle EXCEPT !.queue = queue, !.pc = pc], f)
         /\ HoldsIn([Idle EXCEPT !.queue = queue, !.pc = pc], f) =>
              \E i \in 1..Len(queue) : queue[i].f = f
PROOF
  <1> DEFINE idle == [Idle EXCEPT !.queue = queue, !.pc = pc]
  <1>1. idle.f = NoFailure /\ idle.queue = queue
    BY DEF Idle
  <1> HIDE DEF idle
  <1>2. f # NoFailure
    BY ConstantsAssumption
  <1>3. OnceIn(r, f) => OnceIn(idle, f)
    BY <1>1, <1>2 DEF OnceIn
  <1>4. HoldsIn(idle, f) => \E i \in 1..Len(queue) : queue[i].f = f
    BY <1>1, <1>2 DEF HoldsIn
  <1> QED BY <1>3, <1>4 DEF idle

\* A tick that ends its step holds the task no more, and nobody else did.
LEMMA EndHands ==
  ASSUME ClaimInv, MeansInv', NEW p \in Ticks, SettleTask(p) \/ StepThrows(p)
  PROVE  ClaimInv'
PROOF
  <1> DEFINE pc == CASE p \in Clicks -> "done"
                     [] runner[p].queue # <<>> -> "next"
                     [] OTHER -> "idle"
             r == [Idle EXCEPT !.queue = runner[p].queue, !.pc = pc]
  <1>1. runner' = [runner EXCEPT ![p] = r] /\ UNCHANGED <<retrying, overrun>> /\ p \in Runners
    BY DEF SettleTask, StepThrows, Leave, Runners
  <1> HIDE DEF pc
  <1>2. ASSUME NEW f \in Failures
        PROVE  /\ OnceIn(runner[p], f) => OnceIn(r, f)
               /\ HoldsIn(r, f) => \E i \in 1..Len(runner[p].queue) : runner[p].queue[i].f = f
    BY <1>2, LeaveHands
  <1> HIDE DEF r
  <1>3. runner'[p] = r /\ \A q \in Ticks : q # p => runner'[q] = runner[q]
    BY <1>1, OneRunner DEF ClaimInv, Runners
  <1>4. /\ runner[p].f \in Failures
        /\ \A g \in Failures : g # runner[p].f => task'[g] = task[g]
        /\ \A g \in Failures : task[g].status \in Ended => task'[g] = task[g]
    BY EndWrites
  <1>5. RetryOK'
    BY <1>1, <1>4, RetryKept DEF Ended
  <1>6. ASSUME NEW f \in Failures, ~overrun[f]
        PROVE  /\ \A s \in Ticks : OnceIn(runner'[s], f) /\ (HoldsIn(runner'[s], f) => InHand(task'[f]))
               /\ \A s, t \in Ticks : HoldsIn(runner'[s], f) /\ HoldsIn(runner'[t], f) => s = t
    <2>1. /\ \A s \in Ticks : OnceIn(runner[s], f) /\ (HoldsIn(runner[s], f) => InHand(task[f]))
          /\ \A s, t \in Ticks : HoldsIn(runner[s], f) /\ HoldsIn(runner[t], f) => s = t
      BY <1>6 DEF ClaimInv, HandsOK
    <2>2. \A s \in Ticks : OnceIn(runner'[s], f)
      BY <1>2, <1>3, <2>1
    <2>3. \A s \in Ticks : HoldsIn(runner'[s], f) => HoldsIn(runner[s], f)
      BY <1>2, <1>3 DEF HoldsIn
    <2>4. CASE f = runner[p].f
      <3>1. HoldsIn(runner[p], f) /\ ~HoldsIn(r, f)
        BY <1>2, <2>1, <2>4 DEF HoldsIn, OnceIn
      <3>2. \A s \in Ticks : ~HoldsIn(runner'[s], f)
        BY <1>3, <2>1, <2>3, <3>1
      <3> QED BY <2>2, <3>2
    <2>5. CASE f # runner[p].f
      BY <1>4, <2>1, <2>2, <2>3, <2>5
    <2> QED BY <2>4, <2>5
  <1>7. HandsOK'
    BY <1>1, <1>6 DEF HandsOK
  <1> QED BY <1>1, <1>5, <1>7 DEF ClaimInv

LEMMA CrashHands ==
  ASSUME ClaimInv, MeansInv', NEW p \in Ticks, Crash(p)
  PROVE  ClaimInv'
PROOF
  <1>1. runner' = [runner EXCEPT ![p] = Idle] /\ UNCHANGED <<task, retrying, overrun>> /\ p \in Runners
    BY DEF Crash, Runners
  <1>2. Idle.f = NoFailure /\ Len(Idle.queue) = 0
    BY DEF Idle
  <1>3. \A f \in Failures : OnceIn(Idle, f) /\ ~HoldsIn(Idle, f)
    BY <1>2, ConstantsAssumption DEF OnceIn, HoldsIn
  <1> QED BY <1>1, <1>3, SameTasks

\* What a merchant's click does to the tasks is nothing.
LEMMA ClickHands ==
  ASSUME ClaimInv, MeansInv', NEW p \in Clicks,
         (\E f \in Failures : Click(p, f)) \/ SettleTask(p) \/ StepThrows(p) \/ Crash(p)
  PROVE  ClaimInv'
PROOF
  <1>1. p \in Runners /\ p \notin Ticks
    BY ConstantsAssumption DEF Runners
  <1>2. UNCHANGED <<task, retrying, overrun>>
    BY <1>1 DEF Click, SettleTask, StepThrows, Crash
  <1>3. \E r : runner' = [runner EXCEPT ![p] = r]
    <2>1. CASE \E f \in Failures : Click(p, f)
      <3>1. PICK f \in Failures : Click(p, f)
        BY <2>1
      <3>2. runner' = [runner EXCEPT ![p] = [runner[p] EXCEPT !.pc = "read", !.f = f]]
        BY <3>1 DEF Click
      <3> QED BY <3>2
    <2>2. CASE SettleTask(p) \/ StepThrows(p) \/ Crash(p)
      BY <2>2 DEF SettleTask, StepThrows, Crash, Leave
    <2> QED BY <2>1, <2>2
  <1>4. \A q \in Ticks : runner'[q] = runner[q]
    BY <1>1, <1>3, OneRunner DEF ClaimInv, Runners
  <1> QED BY <1>2, <1>4, TicksStill

-----------------------------------------------------------------------------
LEMMA TaskHands ==
  ASSUME ClaimInv, MeansInv', NEW f \in Failures, CreateTask(f) \/ CancelTask(f) \/ WaitElapses(f)
  PROVE  ClaimInv'
PROOF
  <1>1. UNCHANGED <<runner, retrying, overrun>> /\ task[f] \in TaskRow
    BY DEF CreateTask, CancelTask, WaitElapses, ClaimInv, MeansInv, Typed, TasksTyped
  <1>2. \A g \in Failures : g # f => task'[g] = task[g]
    BY DEF CreateTask, CancelTask, WaitElapses, ClaimInv, MeansInv, Typed, TasksTyped
  <1>3. /\ task[f].status = "failed" => task'[f].status = "failed"
        /\ InHand(task[f]) => InHand(task'[f])
    <2>1. task \in [Failures -> TaskRow]
      BY DEF ClaimInv, MeansInv, Typed, TasksTyped
    <2>2. CASE CreateTask(f)
      BY <2>2 DEF CreateTask, InHand
    <2>3. CASE CancelTask(f)
      BY <1>1, <2>1, <2>3 DEF CancelTask, Terminated, Ended, InHand, TaskRow
    <2>4. CASE WaitElapses(f)
      BY <1>1, <2>1, <2>4 DEF WaitElapses, InHand, TaskRow
    <2> QED BY <2>2, <2>3, <2>4
  <1> QED BY <1>1, <1>2, <1>3, TicksStill

LEMMA BackoffHands ==
  ASSUME ClaimInv, MeansInv', NEW f \in Failures, BackoffElapses(f)
  PROVE  ClaimInv'
PROOF
  <1>1. UNCHANGED <<runner, retrying, overrun>> /\ task[f] \in TaskRow /\ task \in [Failures -> TaskRow]
    BY DEF BackoffElapses, ClaimInv, MeansInv, Typed, TasksTyped
  <1>2. \A g \in Failures : task'[g].status = task[g].status /\ task'[g].lease = task[g].lease
    BY <1>1 DEF BackoffElapses, TaskRow
  <1> QED BY <1>1, <1>2, TicksStill DEF InHand

\* A lease that lapses under a live tick is recorded in overrun.
LEMMA LapseHands ==
  ASSUME ClaimInv, MeansInv', NEW f \in Failures, LeaseLapses(f)
  PROVE  ClaimInv'
PROOF
  <1>1. UNCHANGED <<runner, retrying>> /\ task' = [task EXCEPT ![f].lease = "lapsed"]
        /\ task[f].status = "claimed"
    BY DEF LeaseLapses
  <1>2. task \in [Failures -> TaskRow]
    BY DEF ClaimInv, MeansInv, Typed, TasksTyped
  <1>3. /\ \A g \in Failures : g # f => task'[g] = task[g]
        /\ \A g \in Failures : task'[g].status = task[g].status
    BY <1>1, <1>2 DEF TaskRow
  <1>4. RetryOK'
    BY <1>1, <1>3, RetryKept
  <1>5. /\ overrun' \in [Failures -> BOOLEAN] /\ \A g \in Failures : overrun[g] => overrun'[g]
        /\ overrun'[f] \/ \A p \in Ticks : ~Holds(p, f)
    BY DEF LeaseLapses, ClaimInv
  <1>6. ASSUME NEW q \in Ticks, NEW g \in Failures, ~overrun'[g], HoldsIn(runner'[q], g), InHand(task[g])
        PROVE  InHand(task'[g])
    <2>1. Holds(q, g)
      BY <1>1, <1>6 DEF Holds, HoldsIn
    <2>2. g # f
      BY <1>5, <1>6, <2>1
    <2> QED BY <1>3, <1>6, <2>2
  <1>7. HandsOK'
    BY <1>1, <1>5, <1>6, HandsKept
  <1> QED BY <1>4, <1>5, <1>7 DEF ClaimInv

\* The one session that has read a task to be failed may still write that it is pending.
LEMMA RetryHands ==
  ASSUME ClaimInv, MeansInv', OneMerchant, NEW m \in Merchants,
         RetryTask(m) \/ \E f \in Failures : ReadForRetry(m, f)
  PROVE  ClaimInv'
PROOF
  <1>1. UNCHANGED <<runner, overrun>>
    BY DEF RetryTask, ReadForRetry
  <1>2. retrying \in [Merchants -> Failures \cup {NoFailure}] /\ task \in [Failures -> TaskRow]
    BY DEF ClaimInv, MeansInv, Typed, TasksTyped
  <1>3. CASE RetryTask(m)
    <2>1. PICK f \in Failures : f = retrying[m]
      BY <1>2, <1>3 DEF RetryTask
    <2>2. task[f].status = "failed" /\ retrying' = [retrying EXCEPT ![m] = NoFailure]
      BY <1>3, <2>1 DEF RetryTask, ClaimInv, RetryOK
    <2>3. RetryOK'
      BY <1>2, <2>2 DEF RetryOK, OneMerchant
    <2>4. \A g \in Failures : g # f => task'[g] = task[g]
      BY <1>2, <1>3, <2>1 DEF RetryTask
    <2>5. ~InHand(task[f])
      BY <2>2 DEF InHand
    <2>6. HandsOK'
      BY <1>1, <2>4, <2>5, HandsKept
    <2> QED BY <1>1, <2>3, <2>6 DEF ClaimInv
  <1>4. CASE \E f \in Failures : ReadForRetry(m, f)
    <2>1. PICK f \in Failures : task[f].status = "failed" /\ retrying' = [retrying EXCEPT ![m] = f]
                                /\ UNCHANGED task
      BY <1>4 DEF ReadForRetry
    <2>2. RetryOK'
      BY <1>2, <2>1 DEF RetryOK, OneMerchant
    <2>3. HandsOK'
      BY <1>1, <2>1, HandsKept
    <2> QED BY <1>1, <2>2, <2>3 DEF ClaimInv
  <1> QED BY <1>3, <1>4

LEMMA LinkHands ==
  ASSUME ClaimInv, MeansInv', UNCHANGED <<runner, task, retrying, overrun>>
  PROVE  ClaimInv'
  BY TicksStill

LEMMA NextClaims == OneMerchant /\ ClaimInv /\ [Next]_vars => ClaimInv'
PROOF
  <1> SUFFICES ASSUME OneMerchant, ClaimInv, [Next]_vars PROVE ClaimInv'
    OBVIOUS
  <1>1. MeansInv'
    BY NextMeans DEF ClaimInv
  <1>2. CASE \E p \in Ticks : Tick(p)
    BY <1>1, <1>2, BeginHands, ClaimHands DEF Tick, Runners
  <1>3. CASE \E p \in Clicks, f \in Failures : Click(p, f)
    BY <1>1, <1>3, ClickHands
  <1>4. ASSUME NEW p \in Runners, RunnerStep(p) \/ StepThrows(p) \/ Crash(p) PROVE ClaimInv'
    <2>1. CASE RunnerStep(p) /\ ~SettleTask(p)
      BY <1>1, <2>1, RunHands
    <2>2. CASE SettleTask(p) \/ StepThrows(p) \/ Crash(p)
      BY <1>1, <2>2, EndHands, CrashHands, ClickHands DEF Runners
    <2> QED BY <1>4, <2>1, <2>2
  <1>5. CASE \E f \in Failures : CreateTask(f) \/ CancelTask(f)
    BY <1>1, <1>5, TaskHands
  <1>6. CASE \E m \in Merchants : RetryTask(m) \/ \E f \in Failures : ReadForRetry(m, f)
    BY <1>1, <1>6, RetryHands
  <1>7. CASE \E l \in Link : CustomerPays(l) \/ ConfirmLink(l) \/ ConfirmFailure(l) \/ ConfirmDies(l)
    <2>1. UNCHANGED <<runner, task, retrying, overrun>>
      BY <1>7 DEF CustomerPays, ConfirmLink, ConfirmFailure, ConfirmDies
    <2> QED BY <1>1, <2>1, LinkHands
  <1>8. CASE \E f \in Failures : LeaseLapses(f) \/ BackoffElapses(f) \/ WaitElapses(f)
    BY <1>1, <1>8, LapseHands, BackoffHands, TaskHands
  <1>9. CASE UNCHANGED vars
    BY <1>1, <1>9, LinkHands DEF vars
  <1> QED BY <1>2, <1>3, <1>4, <1>5, <1>6, <1>7, <1>8, <1>9 DEF Next

LEMMA ClaimInvImplies == ClaimInv => ClaimsAreExclusive
  BY DEF ClaimInv, HandsOK, HoldsIn, Holds, ClaimsAreExclusive

\* Where one session at a time retries, no two ticks step a task at once, unless a step
\* outlived its lease.
THEOREM ClaimsExclude == OneMerchant /\ Spec => []ClaimsAreExclusive
PROOF
  <1>1. OneMerchant /\ Spec => []ClaimInv
    <2> SUFFICES ASSUME OneMerchant PROVE Spec => []ClaimInv
      OBVIOUS
    <2>1. ClaimInv /\ [Next]_vars => ClaimInv'
      BY NextClaims
    <2> QED BY <2>1, InitClaims, PTL DEF Spec
  <1> QED BY <1>1, ClaimInvImplies, PTL

\* Only a merchant's retry writes on a task that has ended, and that task has failed.
LEMMA EndedStays ==
  ASSUME ClaimInv, [Next]_vars, NEW f \in Failures, task[f].status \in Ended,
         task'[f].status # task[f].status
  PROVE  task[f].status = "failed" /\ task'[f].status = "pending" /\ task'[f].count = 0
PROOF
  <1>1. task \in [Failures -> TaskRow] /\ retrying \in [Merchants -> Failures \cup {NoFailure}]
    BY DEF ClaimInv, MeansInv, Typed, TasksTyped
  <1>2. ASSUME NEW p \in Runners, RunnerStep(p) \/ StepThrows(p) PROVE FALSE
    <2>1. CASE SettleTask(p) \/ StepThrows(p)
      <3>1. CASE p \in Clicks
        BY <2>1, <3>1, ConstantsAssumption DEF SettleTask, StepThrows
      <3>2. CASE p \in Ticks
        BY <2>1, <3>2, EndWrites
      <3> QED BY <3>1, <3>2 DEF Runners
    <2>2. CASE RunnerStep(p) /\ ~SettleTask(p)
      BY <2>2 DEF RunnerStep, ReadFailure, Diagnose, Decide, RecordStop, WriteOff, InsertAttempt,
        MarkRecovering, NoMoneyAction, FindAgent, ProvisionAgent, AskGate, FailAttempt,
        DeliverRecoveryLink, SaveLink
    <2> QED BY <1>2, <2>1, <2>2
  <1>3. ASSUME NEW p \in Ticks, NEW g \in Failures, Claim(p, g) PROVE FALSE
    <2>1. task' = [task EXCEPT ![g] = Claimed(task[g])] /\ task[g].status \notin Ended
      BY <1>3 DEF Claim, Eligible, Ended
    <2> QED BY <1>1, <2>1
  <1>4. ASSUME NEW g \in Failures, CreateTask(g) \/ CancelTask(g) PROVE FALSE
    <2>1. task'[f] = task[f] \/ g = f
      BY <1>1, <1>4 DEF CreateTask, CancelTask
    <2>2. task[g].status \notin Ended
      BY <1>4 DEF CreateTask, CancelTask, Ended
    <2> QED BY <2>1, <2>2
  <1>5. ASSUME NEW g \in Failures, LeaseLapses(g) \/ BackoffElapses(g) \/ WaitElapses(g) PROVE FALSE
    <2>1. task'[f].status = task[f].status
      BY <1>1, <1>5 DEF LeaseLapses, BackoffElapses, WaitElapses, TaskRow
    <2> QED BY <2>1
  <1>6. ASSUME NEW m \in Merchants, RetryTask(m)
        PROVE  task[f].status = "failed" /\ task'[f].status = "pending" /\ task'[f].count = 0
    <2> DEFINE fresh == [status |-> "pending", due |-> "now", lease |-> "fresh", count |-> 0]
    <2>1. fresh.status = "pending" /\ fresh.count = 0
      OBVIOUS
    <2>2. task' = [task EXCEPT ![retrying[m]] = fresh] /\ task[retrying[m]].status = "failed"
      BY <1>6 DEF RetryTask, ClaimInv, RetryOK
    <2> HIDE DEF fresh
    <2>3. f = retrying[m]
      BY <1>1, <2>2
    <2> QED BY <1>1, <2>1, <2>2, <2>3
  <1>7. task' # task
    OBVIOUS
  <1>8. CASE \/ \E p \in Ticks : BeginStep(p)
             \/ \E p \in Clicks, g \in Failures : Click(p, g)
             \/ \E p \in Runners : Crash(p)
             \/ \E m \in Merchants, g \in Failures : ReadForRetry(m, g)
             \/ \E l \in Link : CustomerPays(l) \/ ConfirmLink(l) \/ ConfirmFailure(l) \/ ConfirmDies(l)
             \/ UNCHANGED vars
    BY <1>7, <1>8 DEF BeginStep, Click, Crash, ReadForRetry, CustomerPays, ConfirmLink, ConfirmFailure,
                      ConfirmDies, vars
  <1> QED BY <1>2, <1>3, <1>4, <1>5, <1>6, <1>8 DEF Next, Tick

\* Where one session at a time retries, a task that has ended stays ended, unless it failed
\* and the merchant takes it up from a fresh start.
THEOREM EndIsFinal == OneMerchant /\ Spec => EndedTasksStayEnded
PROOF
  <1> SUFFICES ASSUME OneMerchant PROVE Spec => EndedTasksStayEnded
    OBVIOUS
  <1>1. ClaimInv /\ [Next]_vars => ClaimInv'
    BY NextClaims
  <1>2. ClaimInv /\ [Next]_vars =>
          [\A f \in Failures : task[f].status \in Ended /\ task'[f].status # task[f].status
             => task[f].status = "failed" /\ task'[f].status = "pending" /\ task'[f].count = 0]_vars
    BY EndedStays
  <1> QED BY <1>1, <1>2, InitClaims, PTL DEF Spec, EndedTasksStayEnded
=============================================================================
