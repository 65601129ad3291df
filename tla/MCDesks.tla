------------------------------- MODULE MCDesks -------------------------------
(* One instance for three parts a purchase can turn to that share no state: *)
(* each behaviour is about one of them, and the state spaces add up.        *)
EXTENDS Negotiation, Returns, Recovery, TLC

CONSTANTS n1, n2, c1, c2, b1, b2, q1, q2, o1, o2, d1, d2, w1, f1, t1, k1, g1, g2

VARIABLE scene

allVars == <<scene, negotiationVars, returnsVars, vars>>

\* The terms only matter to the bargain and the amount only to the recovery:
\* elsewhere one of each will do.
SomeTerms == variant = CHOOSE v \in [price : CatalogPrices, floor : {NoPrice}] : TRUE
SomeAmount == \A f \in Failures : failure[f].amount = CHOOSE a \in Amounts : TRUE

DesksInit ==
  /\ NegotiationInit /\ ReturnsInit /\ Init
  /\ \/ scene = "bargain" /\ SomeAmount
     \/ scene = "return" /\ SomeTerms /\ SomeAmount
     \/ scene = "recover" /\ SomeTerms

Bargain == scene = "bargain" /\ NegotiationNext /\ UNCHANGED <<scene, returnsVars, vars>>
Return == scene = "return" /\ ReturnsNext /\ UNCHANGED <<scene, negotiationVars, vars>>
Recover == scene = "recover" /\ Next /\ UNCHANGED <<scene, negotiationVars, returnsVars>>

DesksSpec ==
  /\ DesksInit /\ [][Bargain \/ Return \/ Recover]_allVars
  /\ scene = "return" => ReturnsFairness
=============================================================================
