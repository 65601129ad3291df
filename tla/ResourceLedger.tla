--------------------------- MODULE ResourceLedger ---------------------------
(***************************************************************************)
(* What the gate promises of the resources it hands out, be they the       *)
(* budget of a cap or the stock of a variant: each has a fixed capacity,   *)
(* of which holders take and give back parts, never more than is left and  *)
(* never more than they hold.                                              *)
(***************************************************************************)
EXTENDS Integers

CONSTANTS Resources, Holders, Capacity

VARIABLES used,   \* how much of each resource is gone
          held    \* how much of each resource each holder accounts for

Init ==
  /\ used = [x \in Resources |-> 0]
  /\ held = [h \in Holders |-> [x \in Resources |-> 0]]

Take(h, x) ==
  \E n \in 1 .. Capacity[x] - used[x] :
    /\ used' = [used EXCEPT ![x] = @ + n]
    /\ held' = [held EXCEPT ![h][x] = @ + n]

Give(h, x) ==
  \E n \in 1 .. held[h][x] :
    /\ used' = [used EXCEPT ![x] = @ - n]
    /\ held' = [held EXCEPT ![h][x] = @ - n]

Next == \E h \in Holders, x \in Resources : Take(h, x) \/ Give(h, x)

Spec == Init /\ [][Next]_<<used, held>>
=============================================================================
