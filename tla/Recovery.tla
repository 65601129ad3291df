------------------------------ MODULE Recovery ------------------------------
(***************************************************************************)
(* The recovery of failed payments (src/lib/recovery/sequencer.ts and      *)
(* policy.ts) and the durable tasks that drive it (src/lib/runtime/).      *)
(*                                                                         *)
(* A failed payment is worked on by runners: ticks of the scheduler, which *)
(* claim due tasks under a lease, and clicks of a merchant, which call the *)
(* same function directly.  Every statement of that function is a step, so *)
(* runners interleave with each other and with the webhook that reports a  *)
(* paid link.  A time is modelled by whether it has passed: "next"         *)
(* for the back-off of an attempt, "due" for a task, "lease" for a claim.  *)
(***************************************************************************)
EXTENDS Integers, Sequences, FiniteSets

CONSTANTS
  Failures,      \* failed payments; each has at most one task
  Ticks,         \* overlapping runs of the scheduler
  Clicks,        \* presses of "Run recovery", at any time, each of them one run
  Merchants,     \* merchants' sessions that cancel and retry tasks
  Agents,        \* the "__recovery_pipeline" agents there could be
  InitAgents,    \* those provisioned before
  Amounts,       \* what a failed payment may be worth, in paise
  MaxFaults,     \* bound: how often a step throws, dies or outlives its lease
  Ops            \* which faults and inputs this instance has

NoFailure == "none"

ASSUME ConstantsAssumption ==
  /\ Amounts \subseteq Nat
  /\ MaxFaults \in Nat
  /\ Ticks \cap Clicks = {}
  /\ InitAgents \subseteq Agents
  /\ NoFailure \notin Failures

MAX_ATTEMPTS_PER_FAILURE == 3
RECOVERY_COST_PAISE == 200
MIN_RECOVERABLE_AMOUNT_PAISE == 5000
HIGH_VALUE_ESCALATION_PAISE == 500000

VARIABLES
  failure,    \* payment_failures: [amount, status, strategy]
  attempts,   \* recovery_attempts: a sequence of rows per failure
  task,       \* agent_tasks: [status, due, lease, count]
  runner,     \* what each runner has in hand
  retrying,   \* per merchant, the task whose status it has read
  agents,     \* the recovery agents that exist; no index keeps them to one
  keys,       \* idempotency keys the money gate has seen, per agent
  sent,       \* how many payment links were sent under each key
  confirm,    \* per link, how far payment_link.paid has got
  faults,
  overrun     \* history: a lease lapsed under a live runner

vars == <<failure, attempts, task, runner, retrying, agents, keys, sent, confirm, faults, overrun>>

Runners == Ticks \cup Clicks
Link == [agent: Agents, f: Failures, no: 1..MAX_ATTEMPTS_PER_FAILURE]
NoLink == <<>>
Resolved == {"recovered", "written_off"}
Ended == {"succeeded", "failed", "cancelled"}

\* getDiagnosis: what the diagnosis of a decline leads chooseStrategy to.
Strategies == {"link", "human_escalation", "write_off", "unrecoverable"}

Idle == [pc |-> "idle", f |-> NoFailure, no |-> 0, row |-> 0, count |-> 0,
         strategy |-> "none", agent |-> NoLink, queue |-> <<>>, result |-> "none"]

Init ==
  /\ failure \in [Failures -> [amount: Amounts, status: {"new"}, strategy: {"none"}]]
  /\ attempts = [f \in Failures |-> <<>>]
  /\ task = [f \in Failures |-> [status |-> "none", due |-> "now", lease |-> "fresh", count |-> 0]]
  /\ runner = [p \in Runners |-> Idle]
  /\ retrying = [m \in Merchants |-> NoFailure]
  /\ agents = InitAgents
  /\ keys = {} /\ sent = [l \in Link |-> 0]
  /\ confirm = [l \in Link |-> "none"]
  /\ faults = 0
  /\ overrun = [f \in Failures |-> FALSE]

-----------------------------------------------------------------------------
(* Tasks: runtime/tasks.ts *)

\* Faulty variants: a claim that ignores the lease, and one that never takes
\* over from a process that died.
EligibleAnyClaimed(f) ==
  \/ task[f].status \in {"pending", "waiting"} /\ task[f].due = "now"
  \/ task[f].status = "claimed"
EligibleUnclaimed(f) == task[f].status \in {"pending", "waiting"} /\ task[f].due = "now"

Eligible(f) ==
  \/ task[f].status \in {"pending", "waiting"} /\ task[f].due = "now"
  \/ task[f].status = "claimed" /\ task[f].lease = "lapsed"

\* createRecoverySequenceTask: the agent is found or provisioned, and the
\* unique index makes the second creation of the task a no-op.
CreateTask(f) ==
  /\ task[f].status = "none"
  /\ \/ agents # {} /\ UNCHANGED agents
     \/ agents = {} /\ \E g \in Agents : agents' = {g}
  /\ task' = [task EXCEPT ![f].status = "pending"]
  /\ UNCHANGED <<failure, attempts, runner, retrying, keys, sent, confirm, faults, overrun>>

Claimed(t) == [t EXCEPT !.status = "claimed", !.lease = "fresh", !.count = @ + 1]

\* claimDueTasks: one conditional UPDATE per candidate; a tick claims
\* everything it can before it runs the first step.
Claim(p, f) ==
  /\ runner[p].pc = "idle"
  /\ Eligible(f)
  /\ task' = [task EXCEPT ![f] = Claimed(@)]
  /\ runner' = [runner EXCEPT ![p].queue = Append(@, [f |-> f, count |-> task'[f].count])]
  /\ UNCHANGED <<failure, attempts, retrying, agents, keys, sent, confirm, faults, overrun>>

\* Faulty variant: rescheduling whatever has become of the task.
RescheduledAlways(t, due) == [t EXCEPT !.status = "waiting", !.due = due, !.lease = "fresh"]

\* rescheduleTask and terminateTask look at the status, not at the holder.
Rescheduled(t, due) ==
  IF t.status = "claimed" THEN [t EXCEPT !.status = "waiting", !.due = due, !.lease = "fresh"] ELSE t

Terminated(t, status) ==
  IF t.status \in Ended THEN t ELSE [t EXCEPT !.status = status, !.lease = "fresh"]

CancelTask(f) ==
  /\ "cancel" \in Ops
  /\ task[f].status \notin Ended \cup {"none"}
  /\ task' = [task EXCEPT ![f] = Terminated(@, "cancelled")]
  /\ UNCHANGED <<failure, attempts, runner, retrying, agents, keys, sent, confirm, faults, overrun>>

\* retryTask: reads that the task has failed, then updates it unconditionally.
ReadForRetry(m, f) ==
  /\ retrying[m] = NoFailure
  /\ task[f].status = "failed"
  /\ retrying' = [retrying EXCEPT ![m] = f]
  /\ UNCHANGED <<failure, attempts, task, runner, agents, keys, sent, confirm, faults, overrun>>

RetryTask(m) ==
  /\ retrying[m] # NoFailure
  /\ task' = [task EXCEPT ![retrying[m]] =
                [status |-> "pending", due |-> "now", lease |-> "fresh", count |-> 0]]
  /\ retrying' = [retrying EXCEPT ![m] = NoFailure]
  /\ UNCHANGED <<failure, attempts, runner, agents, keys, sent, confirm, faults, overrun>>

-----------------------------------------------------------------------------
(* The stopping rules: recovery/policy.ts *)

Ripe(f) == \* the latest attempt's nextAttemptAt is null or has passed
  LET n == Len(attempts[f]) IN
    \/ n = 0
    \/ \E i \in 1..n : /\ \A j \in 1..n : attempts[f][j].no <= attempts[f][i].no
                       /\ attempts[f][i].next = "passed"

WithinBudget(amount, no) == no * RECOVERY_COST_PAISE <= amount \div 10

\* The first rule that says stop is the one that is recorded.
TooSoon(f, no, strategy) ==
  strategy # "unrecoverable" /\ no <= MAX_ATTEMPTS_PER_FAILURE /\ ~Ripe(f)

ShouldAttempt(f, no, strategy) ==
  /\ strategy # "unrecoverable"
  /\ no <= MAX_ATTEMPTS_PER_FAILURE
  /\ Ripe(f)
  /\ failure[f].amount >= MIN_RECOVERABLE_AMOUNT_PAISE
  /\ WithinBudget(failure[f].amount, no)
  /\ failure[f].amount < HIGH_VALUE_ESCALATION_PAISE

-----------------------------------------------------------------------------
(* One run of runRecoveryForFailure, statement by statement *)

At(p, pc) == runner[p].pc = pc
Goto(p, pc) == runner' = [runner EXCEPT ![p].pc = pc]
Report(p, result) == runner' = [runner EXCEPT ![p].pc = "report", ![p].result = result]

SetStatus(f, status) == failure' = [failure EXCEPT ![f].status = status]
SetOutcome(p, outcome) ==
  attempts' = [attempts EXCEPT ![runner[p].f][runner[p].row].outcome = outcome]

\* A tick turns to the first task it claimed, a click to any failure.
BeginStep(p) ==
  /\ runner[p].pc \in {"idle", "next"}
  /\ runner[p].queue # <<>>
  /\ LET first == Head(runner[p].queue) IN
       runner' = [runner EXCEPT ![p].pc = "read", ![p].f = first.f, ![p].count = first.count,
                                ![p].queue = Tail(@)]
  /\ UNCHANGED <<failure, attempts, task, retrying, agents, keys, sent, confirm, faults, overrun>>

Click(p, f) ==
  /\ At(p, "idle")
  /\ runner' = [runner EXCEPT ![p].pc = "read", ![p].f = f]
  /\ UNCHANGED <<failure, attempts, task, retrying, agents, keys, sent, confirm, faults, overrun>>

ReadFailure(p) ==
  /\ At(p, "read")
  /\ LET row == failure[runner[p].f] IN
       \/ row.status \in Resolved /\ Report(p, "stopped")
       \/ row.status \notin Resolved /\ row.strategy = "none" /\ Goto(p, "diagnose")
       \/ /\ row.status \notin Resolved /\ row.strategy # "none"
          /\ runner' = [runner EXCEPT ![p].pc = "decide", ![p].strategy = row.strategy]
  /\ UNCHANGED <<failure, attempts, task, retrying, agents, keys, sent, confirm, faults, overrun>>

\* getDiagnosis: a model may be asked first; the row is then overwritten.
Diagnose(p) ==
  /\ At(p, "diagnose")
  /\ \E strategy \in Strategies :
       /\ failure' = [failure EXCEPT ![runner[p].f].strategy = strategy,
                                     ![runner[p].f].status = "diagnosed"]
       /\ runner' = [runner EXCEPT ![p].pc = "decide", ![p].strategy = strategy]
  /\ UNCHANGED <<attempts, task, retrying, agents, keys, sent, confirm, faults, overrun>>

\* getPriorAttempts, then shouldAttemptRecovery on what it returned.
Decide(p) ==
  /\ At(p, "decide")
  /\ LET f == runner[p].f
         no == Len(attempts[f]) + 1
         strategy == runner[p].strategy
     IN runner' = [runner EXCEPT
          ![p].no = no,
          ![p].pc = IF ShouldAttempt(f, no, strategy) THEN "insert" ELSE "stop",
          ![p].result = IF TooSoon(f, no, strategy) THEN "not_yet" ELSE "stopped"]
  /\ UNCHANGED <<failure, attempts, task, retrying, agents, keys, sent, confirm, faults, overrun>>

Row(p, outcome, reason, next) ==
  [no |-> runner[p].no, outcome |-> outcome, reason |-> reason, link |-> NoLink, next |-> next]
InsertRow(p, row) == attempts' = [attempts EXCEPT ![runner[p].f] = Append(@, row)]

\* recordStop: an abandoned attempt without a nextAttemptAt ...
RecordStop(p) ==
  /\ At(p, "stop")
  /\ InsertRow(p, Row(p, "abandoned", runner[p].result, "passed"))
  /\ Goto(p, "writeoff_stop")
  /\ UNCHANGED <<failure, task, retrying, agents, keys, sent, confirm, faults, overrun>>

\* ... and then the failure, whatever has become of it and whichever rule said stop.
WriteOff(p) ==
  /\ runner[p].pc \in {"writeoff_stop", "writeoff_strategy"}
  /\ SetStatus(runner[p].f, "written_off")
  /\ Report(p, IF At(p, "writeoff_stop") THEN runner[p].result ELSE "final")
  /\ UNCHANGED <<attempts, task, retrying, agents, keys, sent, confirm, faults, overrun>>

InsertAttempt(p) ==
  /\ At(p, "insert")
  /\ InsertRow(p, Row(p, "pending", "attempt", "ahead"))
  /\ runner' = [runner EXCEPT ![p].pc = "recovering", ![p].row = Len(attempts[runner[p].f]) + 1]
  /\ UNCHANGED <<failure, task, retrying, agents, keys, sent, confirm, faults, overrun>>

MarkRecovering(p) ==
  /\ At(p, "recovering")
  /\ SetStatus(runner[p].f, "recovering")
  /\ Goto(p, IF runner[p].strategy = "link" THEN "agent" ELSE runner[p].strategy)
  /\ UNCHANGED <<attempts, task, retrying, agents, keys, sent, confirm, faults, overrun>>

\* The two strategies that move no money.
NoMoneyAction(p) ==
  /\ runner[p].pc \in {"human_escalation", "write_off"}
  /\ SetOutcome(p, "abandoned")
  /\ \/ At(p, "human_escalation") /\ Report(p, "final")
     \/ At(p, "write_off") /\ Goto(p, "writeoff_strategy")
  /\ UNCHANGED <<failure, task, retrying, agents, keys, sent, confirm, faults, overrun>>

\* getOrCreateRecoveryAgent: a lookup, and an insert if it found nothing.
FindAgent(p) ==
  /\ At(p, "agent")
  /\ \/ agents = {} /\ Goto(p, "provision")
     \/ \E g \in agents : runner' = [runner EXCEPT ![p].agent = g, ![p].pc = "gate"]
  /\ UNCHANGED <<failure, attempts, task, retrying, agents, keys, sent, confirm, faults, overrun>>

ProvisionAgent(p) ==
  /\ At(p, "provision")
  /\ \E g \in Agents \ agents :
       /\ agents' = agents \cup {g}
       /\ runner' = [runner EXCEPT ![p].agent = g, ![p].pc = "gate"]
  /\ UNCHANGED <<failure, attempts, task, retrying, keys, sent, confirm, faults, overrun>>

\* attemptMoneyAction under the key "recovery:<failure>:<no>", which is unique
\* per agent: a key it has seen is answered from the row, without a link.
Key(p) == [agent |-> runner[p].agent, f |-> runner[p].f, no |-> runner[p].no]

\* Faulty variant: a key of its own for every attempt row.
SeenNever(p) == FALSE
Seen(p) == Key(p) \in keys

AskGate(p) ==
  /\ At(p, "gate")
  /\ keys' = keys \cup {Key(p)}
  /\ \/ ~Seen(p) /\ Goto(p, "deliver")
     \/ (Seen(p) \/ "deny" \in Ops) /\ Goto(p, "fail")
  /\ UNCHANGED <<failure, attempts, task, retrying, agents, sent, confirm, faults, overrun>>

FailAttempt(p) ==
  /\ At(p, "fail")
  /\ SetOutcome(p, "failed")
  /\ Report(p, "failed")
  /\ UNCHANGED <<failure, task, retrying, agents, keys, sent, confirm, faults, overrun>>

\* Faulty variant: the link is on the row before the row is settled.
DeliverRecoveryLinkSaved(p) ==
  /\ At(p, "deliver")
  /\ sent' = [sent EXCEPT ![Key(p)] = @ + 1]
  /\ attempts' = [attempts EXCEPT ![runner[p].f][runner[p].row].link = Key(p)]
  /\ Goto(p, "save")
  /\ UNCHANGED <<failure, task, retrying, agents, keys, confirm, faults, overrun>>

\* deliverRecoveryLink: from here on the customer can pay.
DeliverRecoveryLink(p) ==
  /\ At(p, "deliver")
  /\ sent' = [sent EXCEPT ![Key(p)] = @ + 1]
  /\ Goto(p, "save")
  /\ UNCHANGED <<failure, attempts, task, retrying, agents, keys, confirm, faults, overrun>>

SaveLink(p) ==
  /\ At(p, "save")
  /\ attempts' = [attempts EXCEPT ![runner[p].f][runner[p].row].outcome = "pending",
                                  ![runner[p].f][runner[p].row].link = Key(p)]
  /\ Report(p, "pending")
  /\ UNCHANGED <<failure, task, retrying, agents, keys, sent, confirm, faults, overrun>>

-----------------------------------------------------------------------------
(* The task's own status: runtime/runner.ts *)

Leave(p) == runner' = [runner EXCEPT ![p] =
  [Idle EXCEPT !.queue = runner[p].queue,
               !.pc = CASE p \in Clicks -> "done"
                        [] runner[p].queue # <<>> -> "next"
                        [] OTHER -> "idle"]]

\* readBackoffFromLatestAttempt: an hour from now once the failure is resolved.
RunAfter(f) == IF failure[f].status \in Resolved THEN "soon" ELSE "backoff"

\* stepRecoverySequence after runRecoveryForFailure has returned.
SettleTask(p) ==
  LET f == runner[p].f
      spent == runner[p].count >= MAX_ATTEMPTS_PER_FAILURE
  IN
  /\ At(p, "report")
  /\ \/ p \in Clicks /\ UNCHANGED task
     \/ /\ p \in Ticks
        /\ task' = [task EXCEPT ![f] =
             CASE runner[p].result \in {"stopped", "not_yet"} -> Terminated(@, "failed")
               [] runner[p].result = "final"              -> Terminated(@, "succeeded")
               [] runner[p].result = "failed" /\ spent    -> Terminated(@, "failed")
               [] OTHER                                   -> Rescheduled(@, RunAfter(f))]
  /\ Leave(p)
  /\ UNCHANGED <<failure, attempts, retrying, agents, keys, sent, confirm, faults, overrun>>

\* drainDueTasks catches what a step throws: five minutes, or the end.
StepThrows(p) ==
  /\ "throw" \in Ops /\ faults < MaxFaults
  /\ faults' = faults + 1
  /\ runner[p].pc \notin {"idle", "next", "done", "report"}
  /\ \/ p \in Clicks /\ UNCHANGED task
     \/ p \in Ticks /\ task' = [task EXCEPT ![runner[p].f] =
          IF runner[p].count >= MAX_ATTEMPTS_PER_FAILURE
          THEN Terminated(@, "failed") ELSE Rescheduled(@, "soon")]
  /\ Leave(p)
  /\ UNCHANGED <<failure, attempts, retrying, agents, keys, sent, confirm, overrun>>

Crash(p) ==
  /\ "crash" \in Ops /\ faults < MaxFaults
  /\ runner[p].pc # "done" /\ runner[p] # Idle
  /\ faults' = faults + 1
  /\ runner' = [runner EXCEPT ![p] = IF p \in Ticks THEN Idle ELSE [Idle EXCEPT !.pc = "done"]]
  /\ UNCHANGED <<failure, attempts, task, retrying, agents, keys, sent, confirm, overrun>>

-----------------------------------------------------------------------------
(* The customer and the webhook: confirmRecoveryLinkPaid *)

\* Faulty variant: any linked attempt of the failure.
LinkedRowsOfFailure(l) == {i \in 1..Len(attempts[l.f]) : attempts[l.f][i].link # NoLink}
LinkedRows(l) == {i \in 1..Len(attempts[l.f]) : attempts[l.f][i].link = l}

CustomerPays(l) ==
  /\ "pay" \in Ops
  /\ sent[l] > 0
  /\ confirm[l] = "none"
  /\ confirm' = [confirm EXCEPT ![l] = "paid"]
  /\ UNCHANGED <<failure, attempts, task, runner, retrying, agents, keys, sent, faults, overrun>>

\* An unknown link is logged and forgotten: the event is not delivered again.
ConfirmLink(l) ==
  /\ confirm[l] = "paid"
  /\ \/ /\ LinkedRows(l) = {}
        /\ confirm' = [confirm EXCEPT ![l] = "dropped"]
        /\ UNCHANGED attempts
     \/ \E i \in LinkedRows(l) :
        /\ attempts' = [attempts EXCEPT ![l.f][i].outcome = "succeeded"]
        /\ confirm' = [confirm EXCEPT ![l] = "marked"]
  /\ UNCHANGED <<failure, task, runner, retrying, agents, keys, sent, faults, overrun>>

ConfirmFailure(l) ==
  /\ confirm[l] = "marked"
  /\ SetStatus(l.f, "recovered")
  /\ confirm' = [confirm EXCEPT ![l] = "done"]
  /\ UNCHANGED <<attempts, task, runner, retrying, agents, keys, sent, faults, overrun>>

\* The process dies between the two updates; the event is not delivered again.
ConfirmDies(l) ==
  /\ confirm[l] = "marked"
  /\ "handler_dies" \in Ops /\ faults < MaxFaults
  /\ faults' = faults + 1
  /\ confirm' = [confirm EXCEPT ![l] = "lost"]
  /\ UNCHANGED <<failure, attempts, task, runner, retrying, agents, keys, sent, overrun>>

-----------------------------------------------------------------------------
(* Time *)

Holds(p, f) ==
  /\ p \in Ticks
  /\ \/ runner[p].f = f
     \/ \E i \in 1..Len(runner[p].queue) : runner[p].queue[i].f = f

\* A tick that has claimed twenty tasks, each waiting on a model or on
\* Razorpay, may still hold the last of them after five minutes ("slow").
LeaseLapses(f) ==
  /\ task[f].status = "claimed" /\ task[f].lease = "fresh"
  /\ task' = [task EXCEPT ![f].lease = "lapsed"]
  /\ \/ /\ \A p \in Ticks : ~Holds(p, f)
        /\ UNCHANGED <<faults, overrun>>
     \/ /\ \E p \in Ticks : Holds(p, f)
        /\ "slow" \in Ops /\ faults < MaxFaults
        /\ faults' = faults + 1
        /\ overrun' = [overrun EXCEPT ![f] = TRUE]
  /\ UNCHANGED <<failure, attempts, runner, retrying, agents, keys, sent, confirm>>

\* The latest attempt's nextAttemptAt passes; a task put off until then is due.
BackoffElapses(f) ==
  /\ \E i \in 1..Len(attempts[f]) : attempts[f][i].next = "ahead"
  /\ attempts' = [attempts EXCEPT ![f] = [i \in 1..Len(@) |-> [@[i] EXCEPT !.next = "passed"]]]
  /\ task' = [task EXCEPT ![f].due = IF @ = "backoff" THEN "now" ELSE @]
  /\ UNCHANGED <<failure, runner, retrying, agents, keys, sent, confirm, faults, overrun>>

WaitElapses(f) ==
  /\ task[f].due = "soon" \/ (task[f].due = "backoff" /\ Ripe(f))
  /\ task' = [task EXCEPT ![f].due = "now"]
  /\ UNCHANGED <<failure, attempts, runner, retrying, agents, keys, sent, confirm, faults, overrun>>

-----------------------------------------------------------------------------
RunnerStep(p) ==
  \/ ReadFailure(p) \/ Diagnose(p) \/ Decide(p)
  \/ RecordStop(p) \/ WriteOff(p)
  \/ InsertAttempt(p) \/ MarkRecovering(p) \/ NoMoneyAction(p)
  \/ FindAgent(p) \/ ProvisionAgent(p) \/ AskGate(p) \/ FailAttempt(p) \/ DeliverRecoveryLink(p) \/ SaveLink(p)
  \/ SettleTask(p)

Tick(p) == BeginStep(p) \/ \E f \in Failures : Claim(p, f)

Next ==
  \/ \E p \in Ticks : Tick(p)
  \/ \E p \in Clicks, f \in Failures : Click(p, f)
  \/ \E p \in Runners : RunnerStep(p) \/ StepThrows(p) \/ Crash(p)
  \/ \E f \in Failures : CreateTask(f) \/ CancelTask(f)
  \/ \E m \in Merchants : RetryTask(m) \/ \E f \in Failures : ReadForRetry(m, f)
  \/ \E l \in Link : CustomerPays(l) \/ ConfirmLink(l) \/ ConfirmFailure(l) \/ ConfirmDies(l)
  \/ \E f \in Failures : LeaseLapses(f) \/ BackoffElapses(f) \/ WaitElapses(f)

\* The scheduler ticks for ever, a call that is not dead goes on, and time passes.
Fairness ==
  /\ WF_vars(\E p \in Ticks : Tick(p))
  /\ \A p \in Runners : WF_vars(RunnerStep(p))
  /\ \A f \in Failures : WF_vars(LeaseLapses(f)) /\ WF_vars(BackoffElapses(f)) /\ WF_vars(WaitElapses(f))

Spec == Init /\ [][Next]_vars /\ Fairness

-----------------------------------------------------------------------------
RecoveryTypeOK ==
  /\ \A f \in Failures :
       /\ failure[f].status \in {"new", "diagnosed", "recovering"} \cup Resolved
       /\ failure[f].strategy \in Strategies \cup {"none"}
       /\ task[f].status \in {"none", "pending", "waiting", "claimed"} \cup Ended
       /\ \A i \in 1..Len(attempts[f]) :
            attempts[f][i].outcome \in {"pending", "succeeded", "failed", "abandoned"}
  /\ sent \in [Link -> Nat] /\ keys \subseteq Link /\ agents \subseteq Agents

\* However many runners work on one failure at once, and whichever of them
\* fail, one recovery agent sends no more links than the attempt ceiling and
\* the ROI governor allow: racing runners pick the same attempt number, and the
\* gate's key stops all but one of them.
RecoveryWithinMeans ==
  \A l \in Link : sent[l] > 0 =>
    /\ sent[l] = 1
    /\ l.no <= MAX_ATTEMPTS_PER_FAILURE /\ WithinBudget(failure[l.f].amount, l.no)
    /\ failure[l.f].amount \in MIN_RECOVERABLE_AMOUNT_PAISE..(HIGH_VALUE_ESCALATION_PAISE - 1)

\* Recovered revenue is counted from rows that succeeded: each of them stands
\* for a link of its own that the customer has really paid.
RecoveredMeansPaid ==
  \A f \in Failures :
    LET won == {i \in 1..Len(attempts[f]) : attempts[f][i].outcome = "succeeded"} IN
      /\ \A i \in won : /\ attempts[f][i].link # NoLink
                        /\ confirm[attempts[f][i].link] \in {"marked", "done", "lost"}
      /\ \A i, j \in won : attempts[f][i].link = attempts[f][j].link => i = j
      /\ failure[f].status = "recovered" => won # {}

\* Two ticks never step one task at once, unless a step outlived its lease.
ClaimsAreExclusive ==
  \A f \in Failures : ~overrun[f] =>
    \A p, q \in Ticks : Holds(p, f) /\ Holds(q, f) => p = q

\* A task that has ended stays ended; only a failed one is ever taken up
\* again, by the merchant, from a fresh start.
EndedTasksStayEnded ==
  [][\A f \in Failures : task[f].status \in Ended /\ task'[f].status # task[f].status
       => task[f].status = "failed" /\ task'[f].status = "pending" /\ task'[f].count = 0]_vars

\* A confirmed payment is never unconfirmed by a runner that was still busy
\* with the attempt.
SucceededIsFinal ==
  [][\A f \in Failures : \A i \in 1..Len(attempts[f]) :
       attempts[f][i].outcome = "succeeded" => attempts'[f][i].outcome = "succeeded"]_vars

\* Whatever dies, throws or is put off, a task comes to an end.
EveryTaskEnds ==
  \A f \in Failures : task[f].status # "none" ~> task[f].status \in Ended
=============================================================================
