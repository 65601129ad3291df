---------------------------- MODULE OnceEffects ----------------------------
(***************************************************************************)
(* What the two payment signals promise together: a sale settles once, and *)
(* each of its effects happens at most once and only for a sale that has   *)
(* settled for good (a hold has not).  Settlements and effects are counted,*)
(* so that doing one again is a step this specification does not allow.    *)
(***************************************************************************)
EXTENDS Naturals

CONSTANTS Sales, Kinds

VARIABLES
  settled,  \* [Sales -> Nat]: how often each sale has been captured
  done      \* [Sales -> [Kinds -> Nat]]: how often it has had each effect

Init == settled = [s \in Sales |-> 0] /\ done = [s \in Sales |-> [k \in Kinds |-> 0]]

Settle(s) ==
  /\ settled[s] = 0
  /\ settled' = [settled EXCEPT ![s] = 1]
  /\ UNCHANGED done

Effect(s, k) ==
  /\ settled[s] = 1 /\ done[s][k] = 0
  /\ done' = [done EXCEPT ![s][k] = 1]
  /\ UNCHANGED settled

Next == \E s \in Sales : Settle(s) \/ \E k \in Kinds : Effect(s, k)

Spec == Init /\ [][Next]_<<settled, done>>
=============================================================================
