---------------------------- MODULE MCSettlement ----------------------------
(* Small instances of Settlement for TLC. *)
EXTENDS Settlement, TLC

CONSTANTS r1, r2, v1, w1, m1, m2, s1, s2, shirt

Sold(amt, n, holdOnly, c) ==
  [amount |-> amt, lines |-> <<[of |-> shirt, qty |-> n]>>, holdOnly |-> holdOnly, cap |-> c,
   pays |-> TRUE]
Unpaid(s) == [s EXCEPT !.pays = FALSE]

Held   == Sold(2, 1, TRUE, 1)
Bought == Sold(3, 2, FALSE, 1)
Both(x, y, n) == [sale |-> (r1 :> x) @@ (r2 :> y), faults |-> n]
Only(x, n)    == [sale |-> r1 :> x, faults |-> n]

\* Two payments where nothing goes wrong, and either of them where two things do.
AllScenes == {Both(Held, Bought, 0), Both(Held, Unpaid(Bought), 2), Both(Unpaid(Held), Bought, 2)}

Stock5   == shirt :> 5
Limit7   == <<[limit |-> 7, txMax |-> 3]>>
=============================================================================
