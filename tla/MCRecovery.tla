----------------------------- MODULE MCRecovery -----------------------------
(* The tasks of one failure, and two ticks at work on them.  Nobody pays and *)
(* no agent is provisioned here: MCDesks has a scene for that, with one tick *)
(* and a click.                                                              *)
EXTENDS Recovery

CONSTANTS f1, t1, t2, c1, m1, g1, g2

Unpaid == Next /\ UNCHANGED <<confirm, agents>>

TasksSpec == Init /\ [][Unpaid]_vars /\ Fairness
=============================================================================
