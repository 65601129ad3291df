------------------------------ MODULE Guardian ------------------------------
(***************************************************************************)
(* The Runtime Guardian and the kill switch (src/lib/guardian.ts).         *)
(*                                                                         *)
(* Every purchase, and a periodic sweep, evaluates the agent: it reads the *)
(* agent's state, computes signals with a dozen queries, and on a breach   *)
(* writes the next state.  Merchants re-arm single agents and freeze or    *)
(* unfreeze all of them.  Read and write are steps of their own; the two   *)
(* kill-switch transactions read under READ COMMITTED and write at commit. *)
(***************************************************************************)
EXTENDS Integers, FiniteSets

CONSTANTS
  Agents,       \* agents of one merchant
  Registered,   \* those that exist from the start
  Requests,     \* purchases, each of one agent
  Sweeps,       \* overlapping runs of sweepAllAgents
  Merchants,    \* dashboards from which the merchant acts
  Ops           \* what merchants and agents may do in this instance

ASSUME GuardianAssumption ==
  /\ Registered \subseteq Agents
  /\ Requests \cap Sweeps = {}

VARIABLES
  active,      \* agents with status "active"
  row,         \* agent_guardian_state: [state, lastSignal]; no row reads as "normal"
  snapshot,    \* agent_freeze_snapshots: the prior state, or "none"
  frozen,      \* whether merchant_freezes has the merchant's row
  breaching,   \* whether the agent's recent behaviour breaches a threshold
  eval,        \* what each evaluation under way has read
  hand,        \* what each merchant's call has read
  raced,       \* history: agents written from rows read before another write
  rearmed,     \* history: agents re-armed since they were last frozen
  before       \* history: the state the last freeze found

vars == <<active, row, snapshot, frozen, breaching, eval, hand, raced, rearmed, before>>
history == <<raced, rearmed, before>>

State == {"normal", "throttled", "suspended", "revoked"}
Severity == [normal |-> 0, throttled |-> 1, suspended |-> 2, revoked |-> 3]
NoAgent == "none"

\* Faulty variant: a breach in the suspended state starts over.
NextStateOnBreachCyclic(s) ==
  [normal |-> "throttled", throttled |-> "suspended", suspended |-> "throttled", revoked |-> "revoked"][s]

NEXT_STATE_ON_BREACH(s) ==
  [normal |-> "throttled", throttled |-> "suspended", suspended |-> "suspended", revoked |-> "revoked"][s]

\* The gate's bound: a suspended or revoked agent is denied.
Stopped(s) == s \in {"suspended", "revoked"}

NotEvaluating == [pc |-> "idle", a |-> NoAgent, seen |-> "none", todo |-> {}]
Unseen == [a \in Agents |-> "none"]
AtRest == [pc |-> "idle", a |-> NoAgent, seen |-> Unseen, prior |-> Unseen, todo |-> {}]

Init ==
  /\ active = Registered
  /\ row = [a \in Agents |-> [state |-> "normal", lastSignal |-> "none"]]
  /\ snapshot = Unseen
  /\ frozen = FALSE
  /\ breaching \in [Agents -> BOOLEAN]
  /\ eval = [p \in Requests \cup Sweeps |-> NotEvaluating]
  /\ hand = [m \in Merchants |-> AtRest]
  /\ raced = {} /\ rearmed = {}
  /\ before = Unseen

-----------------------------------------------------------------------------
(* evaluateAndTransition, on the money path and in the sweep *)

Request(p, a) ==
  /\ p \in Requests /\ eval[p].pc = "idle"
  /\ a \in active
  /\ eval' = [eval EXCEPT ![p].pc = "read", ![p].a = a]
  /\ UNCHANGED <<active, row, snapshot, frozen, breaching, hand, history>>

\* sweepAllAgents: every active agent in turn.
StartSweep(p) ==
  /\ p \in Sweeps /\ eval[p].pc = "idle" /\ eval[p].todo = {}
  /\ eval' = [eval EXCEPT ![p].todo = active]
  /\ UNCHANGED <<active, row, snapshot, frozen, breaching, hand, history>>

SweepNext(p, a) ==
  /\ p \in Sweeps /\ eval[p].pc = "idle"
  /\ a \in eval[p].todo
  /\ eval' = [eval EXCEPT ![p].pc = "read", ![p].a = a, ![p].todo = @ \ {a}]
  /\ UNCHANGED <<active, row, snapshot, frozen, breaching, hand, history>>

ReadState(p) ==
  /\ eval[p].pc = "read"
  /\ eval' = [eval EXCEPT ![p].pc = "signals", ![p].seen = row[eval[p].a].state]
  /\ UNCHANGED <<active, row, snapshot, frozen, breaching, hand, history>>

\* A request is over when it has its answer, a sweep goes on.
Answer(p, verdict) ==
  eval' = [eval EXCEPT ![p].pc = CASE p \in Sweeps                        -> "idle"
                                   [] p \notin Sweeps /\ Stopped(verdict) -> "denied"
                                   [] OTHER                               -> "allowed",
                       ![p].a = NoAgent, ![p].seen = "none"]

\* No breach, or nowhere further to go: nothing is written.
ComputeSignals(p) ==
  LET e == eval[p] IN
  /\ e.pc = "signals"
  /\ IF breaching[e.a] /\ NEXT_STATE_ON_BREACH(e.seen) # e.seen
     THEN eval' = [eval EXCEPT ![p].pc = "write"]
     ELSE Answer(p, e.seen)
  /\ UNCHANGED <<active, row, snapshot, frozen, breaching, hand, history>>

\* The upsert looks at nothing but the agent's id.
Transition(p) ==
  LET e == eval[p]
      next == NEXT_STATE_ON_BREACH(e.seen)
  IN
  /\ e.pc = "write"
  /\ row' = [row EXCEPT ![e.a] = [state |-> next, lastSignal |-> "breach"]]
  /\ raced' = IF row[e.a].state = e.seen THEN raced ELSE raced \cup {e.a}
  /\ Answer(p, next)
  /\ UNCHANGED <<active, snapshot, frozen, breaching, hand, rearmed, before>>

-----------------------------------------------------------------------------
(* rearmAgent *)

ReadForRearm(m, a) ==
  /\ "rearm" \in Ops
  /\ hand[m].pc = "idle"
  /\ row[a].state # "normal"
  /\ hand' = [hand EXCEPT ![m].pc = "rearm", ![m].a = a]
  /\ UNCHANGED <<active, row, snapshot, frozen, breaching, eval, history>>

Rearm(m) ==
  /\ hand[m].pc = "rearm"
  /\ row' = [row EXCEPT ![hand[m].a] = [state |-> "normal", lastSignal |-> "merchant_rearm"]]
  /\ rearmed' = IF frozen THEN rearmed \cup {hand[m].a} ELSE rearmed
  /\ hand' = [hand EXCEPT ![m] = AtRest]
  /\ UNCHANGED <<active, snapshot, frozen, breaching, eval, raced, before>>

-----------------------------------------------------------------------------
(* freezeAllAgents *)

StartFreeze(m) ==
  /\ "freeze" \in Ops
  /\ hand[m].pc = "idle"
  /\ ~frozen
  /\ hand' = [hand EXCEPT ![m].pc = "freeze", ![m].todo = active]
  /\ UNCHANGED <<active, row, snapshot, frozen, breaching, eval, history>>

FreezeRead(m, a) ==
  /\ hand[m].pc = "freeze"
  /\ a \in hand[m].todo
  /\ hand' = [hand EXCEPT ![m].seen[a] = row[a].state, ![m].todo = @ \ {a}]
  /\ UNCHANGED <<active, row, snapshot, frozen, breaching, eval, history>>

Found(m) == {a \in Agents : hand[m].seen[a] # "none"}

\* A row inserted since makes the transaction fail and roll back.
Conflict(m) == frozen \/ \E a \in Found(m) : snapshot[a] # "none"

\* Faulty variant: only agents with a clean record are suspended.
SuspendsClean(m) == {a \in Found(m) : hand[m].seen[a] = "normal"}
Suspends(m) == {a \in Found(m) : ~Stopped(hand[m].seen[a])}

FreezeCommit(m) ==
  /\ hand[m].pc = "freeze" /\ hand[m].todo = {}
  /\ ~Conflict(m)
  /\ frozen' = TRUE
  /\ snapshot' = [a \in Agents |-> IF a \in Found(m) THEN hand[m].seen[a] ELSE snapshot[a]]
  /\ row' = [a \in Agents |->
       IF a \in Suspends(m)
       THEN [state |-> "suspended", lastSignal |-> "merchant_kill_switch"] ELSE row[a]]
  /\ raced' = (raced \ Found(m)) \cup {a \in Found(m) : row[a].state # hand[m].seen[a]}
  /\ rearmed' = rearmed \ Found(m)
  /\ before' = [a \in Agents |-> row[a].state]
  /\ hand' = [hand EXCEPT ![m] = AtRest]
  /\ UNCHANGED <<active, breaching, eval>>

FreezeFails(m) ==
  /\ hand[m].pc = "freeze" /\ hand[m].todo = {}
  /\ Conflict(m)
  /\ hand' = [hand EXCEPT ![m] = AtRest]
  /\ UNCHANGED <<active, row, snapshot, frozen, breaching, eval, history>>

-----------------------------------------------------------------------------
(* unfreezeAllAgents *)

StartUnfreeze(m) ==
  /\ hand[m].pc = "idle"
  /\ frozen
  /\ hand' = [hand EXCEPT ![m].pc = "unfreeze", ![m].prior = snapshot,
                          ![m].todo = {a \in Agents : snapshot[a] # "none"}]
  /\ UNCHANGED <<active, row, snapshot, frozen, breaching, eval, history>>

UnfreezeRead(m, a) ==
  /\ hand[m].pc = "unfreeze"
  /\ a \in hand[m].todo
  /\ hand' = [hand EXCEPT ![m].seen[a] = row[a].state, ![m].todo = @ \ {a}]
  /\ UNCHANGED <<active, row, snapshot, frozen, breaching, eval, history>>

\* Faulty variant: everybody is handed back a clean record.
RestoredNormal(m, a) == "normal"

\* Only what is suspended is restored, to the snapshot the transaction has read.
Restored(m, a) == hand[m].prior[a]

Cleared(m) == [a \in Agents |-> IF a \in Found(m) THEN "none" ELSE snapshot[a]]

UnfreezeCommit(m) ==
  /\ hand[m].pc = "unfreeze" /\ hand[m].todo = {}
  /\ frozen' = FALSE
  /\ snapshot' = Cleared(m)
  /\ row' = [a \in Agents |->
       IF hand[m].seen[a] = "suspended"
       THEN [state |-> Restored(m, a), lastSignal |-> "merchant_kill_switch_release"] ELSE row[a]]
  /\ raced' = {a \in Agents : \/ a \in Found(m) /\ row[a].state # hand[m].seen[a]
                              \/ snapshot[a] # hand[m].prior[a]}
  /\ rearmed' = {} /\ before' = Unseen
  /\ hand' = [hand EXCEPT ![m] = AtRest]
  /\ UNCHANGED <<active, breaching, eval>>

-----------------------------------------------------------------------------
(* Agents come and go, and behave better or worse *)

RegisterAgent(a) ==
  /\ a \notin active
  /\ active' = active \cup {a}
  /\ UNCHANGED <<row, snapshot, frozen, breaching, eval, hand, history>>

Behave(a) ==
  /\ "calm" \in Ops
  /\ breaching' = [breaching EXCEPT ![a] = ~@]
  /\ UNCHANGED <<active, row, snapshot, frozen, eval, hand, history>>

-----------------------------------------------------------------------------
EvaluationStep(p) == ReadState(p) \/ ComputeSignals(p) \/ Transition(p)

SweepStep(p) == StartSweep(p) \/ (\E a \in Agents : SweepNext(p, a)) \/ EvaluationStep(p)

MerchantStep(m) ==
  \/ Rearm(m) \/ FreezeCommit(m) \/ FreezeFails(m) \/ UnfreezeCommit(m)
  \/ \E a \in Agents : FreezeRead(m, a) \/ UnfreezeRead(m, a)

Next ==
  \/ \E p \in Requests : EvaluationStep(p) \/ \E a \in Agents : Request(p, a)
  \/ \E p \in Sweeps : SweepStep(p)
  \/ \E m \in Merchants : \/ MerchantStep(m) \/ StartFreeze(m) \/ StartUnfreeze(m)
                          \/ \E a \in Agents : ReadForRearm(m, a)
  \/ \E a \in Agents : RegisterAgent(a) \/ Behave(a)

\* The sweep is a job of the scheduler.
Fairness ==
  /\ \A p \in Sweeps : WF_vars(SweepStep(p))
  /\ \A m \in Merchants : WF_vars(MerchantStep(m))

Spec == Init /\ [][Next]_vars /\ Fairness

-----------------------------------------------------------------------------
GuardianTypeOK ==
  /\ \A a \in Agents : row[a].state \in State /\ snapshot[a] \in State \cup {"none"}
  /\ active \subseteq Agents /\ frozen \in BOOLEAN
  /\ \A p \in Requests \cup Sweeps : eval[p].seen \in State \cup {"none"}

\* A snapshot left behind makes every later freeze fail on its key and cannot be
\* cleared by an unfreeze.  Only an unfreeze that overlaps another one and ends a
\* freeze thrown since then leaves one.
SnapshotsEndWithFreeze ==
  \A a \in Agents : snapshot[a] # "none" /\ a \notin raced => frozen

\* While the switch is thrown, an agent it stopped can buy again only if the
\* merchant re-armed it, or if an evaluation, a re-arm or the freeze itself
\* wrote from a state it had read before somebody else's write.
FrozenAgentsStayStopped ==
  frozen => \A a \in Agents :
    snapshot[a] # "none" /\ a \notin rearmed \cup raced => Stopped(row[a].state)

\* Only the merchant brings an agent down from a state the Guardian put it in.
OnlyMerchantLowers ==
  [][\A a \in Agents :
       Severity[row'[a].state] < Severity[row[a].state] /\ a \notin raced' =>
         row'[a].lastSignal \in {"merchant_rearm", "merchant_kill_switch_release"}]_vars

\* Unfreezing gives every agent that nobody touched the state it had.
UnfreezeRestores ==
  [][frozen /\ ~frozen' =>
       \A a \in Agents : snapshot[a] # "none" /\ a \notin rearmed \cup raced \cup raced' =>
         row'[a].state = before[a]]_vars

\* Once the merchant leaves the dashboard alone, an agent that goes on breaching
\* ends up stopped for good, whatever evaluations were under way.
BreachingAgentIsStopped ==
  \A a \in Agents :
    <>[](breaching[a] /\ a \in active /\ \A m \in Merchants : hand[m].pc = "idle")
      => <>[]Stopped(row[a].state)
=============================================================================
