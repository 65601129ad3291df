--------------------------- MODULE Ledger_proofs ---------------------------
(* The four statements keep budget and stock well typed: budget never turns *)
(* negative because a release is floored, stock because a reserve is        *)
(* guarded.                                                                 *)
EXTENDS Ledger, FiniteSetTheorems, WellFoundedInduction, TLAPS

\* A charge, or a give-back, is recorded as an integer per row and resource.
LEMMA ChargeTyped ==
  ASSUME LedgerTypeOK, NEW r \in Rows, NEW grant \in Grant,
         Charge(r, grant) \/ Uncharge(r, grant)
  PROVE  holds' \in [Rows -> [Resource -> Int]]
  BY DEF LedgerTypeOK, Charge, Uncharge, Grant

\* reserveBudget
LEMMA ReserveBudgetTyped ==
  ASSUME LedgerTypeOK, NEW r \in Rows, NEW c \in CapIds, NEW grant \in Grant,
         reserveBudget(r, c, grant)
  PROVE  LedgerTypeOK'
PROOF
  <1>1. caps' \in [CapIds -> Cap]
    BY DEF LedgerTypeOK, reserveBudget, Grant, Cap
  <1>2. holds' \in [Rows -> [Resource -> Int]]
    BY ChargeTyped DEF reserveBudget
  <1> QED BY <1>1, <1>2 DEF LedgerTypeOK, reserveBudget

\* reserveStock
LEMMA ReserveStockTyped ==
  ASSUME LedgerTypeOK, NEW r \in Rows, NEW line \in Line, reserveStock(r, line)
  PROVE  LedgerTypeOK'
PROOF
  <1>1. stock' \in [Variants -> Nat]
    BY DEF LedgerTypeOK, reserveStock, StockAvailable, Line
  <1>2. line \in Grant
    BY DEF Line, Grant, Resource
  <1>3. holds' \in [Rows -> [Resource -> Int]]
    BY <1>2, ChargeTyped DEF reserveStock
  <1> QED BY <1>1, <1>3 DEF LedgerTypeOK, reserveStock

\* releaseBudget and releaseStock
LEMMA ReleaseTyped ==
  ASSUME LedgerTypeOK, NEW r \in Rows, NEW c \in CapIds, NEW grant \in Grant,
         Release(r, c, grant)
  PROVE  LedgerTypeOK'
PROOF
  <1>1. holds' \in [Rows -> [Resource -> Int]]
    BY ChargeTyped DEF Release, releaseBudget, releaseStock
  <1>2. CASE grant.of = Budget
    <2>1. \A m, n \in Nat : FlooredDifference(m, n) \in Nat
      BY DEF FlooredDifference
    <2>2. caps' \in [CapIds -> Cap]
      BY <1>2, <2>1 DEF LedgerTypeOK, Release, releaseBudget, Grant, Cap
    <2> QED BY <1>1, <1>2, <2>2 DEF LedgerTypeOK, Release, releaseBudget
  <1>3. CASE grant.of # Budget
    <2>1. grant.of \in Variants
      BY <1>3 DEF Grant, Resource
    <2>2. stock' \in [Variants -> Nat]
      BY <1>3, <2>1 DEF LedgerTypeOK, Release, releaseStock, Grant
    <2> QED BY <1>1, <1>3, <2>2 DEF LedgerTypeOK, Release, releaseStock
  <1> QED BY <1>2, <1>3

-----------------------------------------------------------------------------
(* Sums over finite sets.  The library's induction principles take the       *)
(* predicate as an operator; the least of the sets for which a lemma fails    *)
(* does the same work.                                                        *)

\* Of a set of finite sets there is one that contains no other: what stands for
\* induction over a finite set.
LEMMA MinimalSubset ==
  ASSUME NEW S, IsFiniteSet(S), NEW T, T \subseteq SUBSET S, T # {}
  PROVE  \E s \in T : \A t \in T : t \subseteq s => t = s
PROOF
  <1>1. T \subseteq FiniteSubsetsOf(S)
    BY FS_FiniteSubsetsOfFinite
  <1>2. PICK s \in T : \A t \in T : <<t, s>> \notin StrictSubsetOrdering(S)
    <2>1. IsWellFoundedOn(StrictSubsetOrdering(S), FiniteSubsetsOf(S))
      BY FS_StrictSubsetOrderingWellFounded
    <2> QED BY <1>1, <2>1, WFMin
  <1>3. \A t \in T : t \subseteq s => t = s
    BY <1>2 DEF StrictSubsetOrdering
  <1> QED BY <1>3

\* The function by which the fold of the community modules sums g over the
\* subsets of S, one chosen element after the other.
Picked(s) == CHOOSE x \in s : TRUE
IsSum(g, S, f) ==
  f = [s \in SUBSET S |-> IF s = {} THEN 0 ELSE g[Picked(s)] + f[s \ {Picked(s)}]]

LEMMA TotalIsSum ==
  ASSUME NEW g, NEW S
  PROVE  Total(g, S) = (CHOOSE f : IsSum(g, S, f))[S]
  BY DEF Total, MapThenSumSet, MapThenFoldSet, IsSum, Picked

LEMMA PickedInSet ==
  ASSUME NEW s, s # {}
  PROVE  Picked(s) \in s
  BY DEF Picked

LEMMA SumAt ==
  ASSUME NEW g, NEW S, NEW f, IsSum(g, S, f), NEW s, s \subseteq S
  PROVE  f[s] = IF s = {} THEN 0 ELSE g[Picked(s)] + f[s \ {Picked(s)}]
PROOF
  <1> DEFINE F(h) == [t \in SUBSET S |-> IF t = {} THEN 0 ELSE g[Picked(t)] + h[t \ {Picked(t)}]]
  <1>1. f = F(f)
    BY DEF IsSum
  <1>2. F(f)[s] = IF s = {} THEN 0 ELSE g[Picked(s)] + f[s \ {Picked(s)}]
    OBVIOUS
  <1> QED BY <1>1, <1>2

\* Two such functions agree wherever both are defined.
LEMMA SumsAgree ==
  ASSUME NEW g, NEW S, NEW f, IsSum(g, S, f), NEW T, NEW h, IsSum(g, T, h),
         NEW u, u \subseteq S, u \subseteq T, IsFiniteSet(u)
  PROVE  f[u] = h[u]
PROOF
  <1> DEFINE Bad == {s \in SUBSET u : f[s] # h[s]}
  <1>1. SUFFICES ASSUME Bad # {} PROVE FALSE
    OBVIOUS
  <1>2. PICK s \in Bad : \A t \in Bad : t \subseteq s => t = s
    <2>1. Bad \subseteq SUBSET u
      OBVIOUS
    <2> HIDE DEF Bad
    <2> QED BY <1>1, <2>1, MinimalSubset
  <1> s \subseteq S /\ s \subseteq T
    OBVIOUS
  <1>3. f[s] = IF s = {} THEN 0 ELSE g[Picked(s)] + f[s \ {Picked(s)}]
    BY SumAt
  <1>4. h[s] = IF s = {} THEN 0 ELSE g[Picked(s)] + h[s \ {Picked(s)}]
    BY SumAt
  <1>5. s # {} /\ Picked(s) \in s
    BY <1>3, <1>4, PickedInSet
  <1>6. f[s \ {Picked(s)}] = h[s \ {Picked(s)}]
    BY <1>2, <1>5
  <1> QED BY <1>3, <1>4, <1>5, <1>6

LEMMA SumExists ==
  ASSUME NEW g, NEW S, IsFiniteSet(S)
  PROVE  \E f : IsSum(g, S, f)
PROOF
  <1> DEFINE Bad == {s \in SUBSET S : ~ \E f : IsSum(g, s, f)}
  <1>1. SUFFICES ASSUME Bad # {} PROVE FALSE
    OBVIOUS
  <1>2. PICK s \in Bad : \A t \in Bad : t \subseteq s => t = s
    <2>1. Bad \subseteq SUBSET S
      OBVIOUS
    <2> HIDE DEF Bad
    <2> QED BY <1>1, <2>1, MinimalSubset
  <1> IsFiniteSet(s)
    BY FS_Subset
  <1> DEFINE Below(t) == CHOOSE f : IsSum(g, t, f)
             F == [t \in SUBSET s |-> IF t = {} THEN 0
                     ELSE g[Picked(t)] + Below(t \ {Picked(t)})[t \ {Picked(t)}]]
  <1>3. \A t \in SUBSET s : t # s => IsSum(g, t, Below(t))
    BY <1>2
  <1>4. ASSUME NEW t, t \subseteq s, t # s PROVE F[t] = Below(t)[t]
    <2>1. IsSum(g, t, Below(t))
      BY <1>3, <1>4
    <2> HIDE DEF Below
    <2>2. Below(t)[t] = IF t = {} THEN 0 ELSE g[Picked(t)] + Below(t)[t \ {Picked(t)}]
      BY <2>1, SumAt
    <2>3. CASE t # {}
      <3> DEFINE v == t \ {Picked(t)}
      <3>1. Picked(t) \in t
        BY <2>3, PickedInSet
      <3>2. v \subseteq t /\ v # s /\ v \subseteq s /\ IsFiniteSet(v)
        BY <1>4, <3>1, FS_Subset
      <3>3. IsSum(g, v, Below(v))
        BY <1>3, <3>2
      <3>4. Below(t)[v] = Below(v)[v]
        BY <2>1, <3>2, <3>3, SumsAgree
      <3> QED BY <1>4, <2>2, <2>3, <3>4
    <2> QED BY <2>2, <2>3
  <1> HIDE DEF Below
  <1>5. F = [t \in SUBSET s |-> IF t = {} THEN 0 ELSE g[Picked(t)] + F[t \ {Picked(t)}]]
    <2>1. ASSUME NEW t \in SUBSET s, t # {}
          PROVE  F[t \ {Picked(t)}] = Below(t \ {Picked(t)})[t \ {Picked(t)}]
      BY <1>4, <2>1, PickedInSet
    <2> DEFINE G == [t \in SUBSET s |-> IF t = {} THEN 0 ELSE g[Picked(t)] + F[t \ {Picked(t)}]]
    <2>2. \A t \in SUBSET s : F[t] = G[t]
      BY <2>1
    <2> QED BY <2>2
  <1>6. IsSum(g, s, F)
    BY <1>5 DEF IsSum
  <1> QED BY <1>2, <1>6
LEMMA TotalEmpty ==
  ASSUME NEW g
  PROVE  Total(g, {}) = 0
PROOF
  <1> DEFINE f == CHOOSE f : IsSum(g, {}, f)
  <1>1. IsSum(g, {}, f)
    BY SumExists, FS_EmptySet
  <1>2. Total(g, {}) = f[{}]
    BY TotalIsSum
  <1> HIDE DEF f
  <1> QED BY <1>1, <1>2, SumAt

LEMMA TotalPicked ==
  ASSUME NEW g, NEW S, IsFiniteSet(S), S # {}
  PROVE  Total(g, S) = g[Picked(S)] + Total(g, S \ {Picked(S)})
PROOF
  <1> DEFINE R == S \ {Picked(S)}
             f == CHOOSE s : IsSum(g, S, s)
             h == CHOOSE s : IsSum(g, R, s)
  <1>1. IsFiniteSet(R) /\ R \subseteq S
    BY FS_Subset
  <1>2. IsSum(g, S, f)
    BY SumExists
  <1>3. IsSum(g, R, h)
    <2> HIDE DEF R
    <2> QED BY <1>1, SumExists
  <1>4. Total(g, S) = f[S] /\ Total(g, R) = h[R]
    BY TotalIsSum
  <1> HIDE DEF f, h, R
  <1>5. f[R] = h[R]
    BY <1>1, <1>2, <1>3, SumsAgree
  <1>6. f[S] = g[Picked(S)] + f[R]
    BY <1>2, SumAt DEF R
  <1> QED BY <1>4, <1>5, <1>6 DEF R

\* Sums of integers, and of naturals.
LEMMA TotalInt ==
  ASSUME NEW g, NEW S, IsFiniteSet(S), \A x \in S : g[x] \in Int
  PROVE  Total(g, S) \in Int
PROOF
  <1> DEFINE Bad == {s \in SUBSET S : Total(g, s) \notin Int}
  <1>1. SUFFICES ASSUME Bad # {} PROVE FALSE
    OBVIOUS
  <1>2. Bad \subseteq SUBSET S
    OBVIOUS
  <1>3. PICK s \in Bad : \A t \in Bad : t \subseteq s => t = s
    <2> HIDE DEF Bad
    <2> QED BY <1>1, <1>2, MinimalSubset
  <1>4. IsFiniteSet(s)
    BY FS_Subset
  <1>5. s # {}
    BY TotalEmpty
  <1>6. Picked(s) \in s /\ Total(g, s) = g[Picked(s)] + Total(g, s \ {Picked(s)})
    BY <1>4, <1>5, PickedInSet, TotalPicked
  <1>7. Total(g, s \ {Picked(s)}) \in Int
    BY <1>3, <1>6
  <1> QED BY <1>6, <1>7

\* Whichever element is taken out first.
LEMMA TotalRemove ==
  ASSUME NEW g, NEW S, IsFiniteSet(S), \A x \in S : g[x] \in Int, NEW e \in S
  PROVE  Total(g, S) = g[e] + Total(g, S \ {e})
PROOF
  <1> DEFINE Bad == {s \in SUBSET S : \E x \in s : Total(g, s) # g[x] + Total(g, s \ {x})}
  <1>1. SUFFICES ASSUME Bad # {} PROVE FALSE
    OBVIOUS
  <1>2. Bad \subseteq SUBSET S
    OBVIOUS
  <1>3. PICK s \in Bad : \A t \in Bad : t \subseteq s => t = s
    <2> HIDE DEF Bad
    <2> QED BY <1>1, <1>2, MinimalSubset
  <1>4. PICK x \in s : Total(g, s) # g[x] + Total(g, s \ {x})
    BY <1>3
  <1>5. \A t \in SUBSET s : t # s => \A y \in t : Total(g, t) = g[y] + Total(g, t \ {y})
    BY <1>3
  <1> DEFINE c == Picked(s)
  <1>6. \A t \in SUBSET s : IsFiniteSet(t) /\ Total(g, t) \in Int
    <2>1. \A t \in SUBSET s : IsFiniteSet(t)
      BY FS_Subset
    <2> QED BY <2>1, TotalInt
  <1>7. c \in s /\ Total(g, s) = g[c] + Total(g, s \ {c})
    BY <1>4, <1>6, PickedInSet, TotalPicked
  <1> HIDE DEF c
  <1>8. c # x
    BY <1>4, <1>7
  <1>9. Total(g, s \ {c}) = g[x] + Total(g, (s \ {c}) \ {x})
    BY <1>5, <1>7, <1>8
  <1>10. Total(g, s \ {x}) = g[c] + Total(g, (s \ {x}) \ {c})
    BY <1>5, <1>7, <1>8
  <1>11. (s \ {c}) \ {x} = (s \ {x}) \ {c}
    OBVIOUS
  <1>12. g[x] \in Int /\ g[c] \in Int /\ Total(g, (s \ {x}) \ {c}) \in Int
    BY <1>6, <1>7
  <1> DEFINE total == Total(g, s)
             rest == Total(g, s \ {x})
             others == Total(g, s \ {c})
             both == Total(g, (s \ {x}) \ {c})
             here == g[x]
             there == g[c]
  <1>13. total \in Int /\ rest \in Int /\ others \in Int /\ both \in Int /\ here \in Int /\ there \in Int
    BY <1>6, <1>12
  <1>14. total # here + rest /\ total = there + others /\ others = here + both /\ rest = there + both
    BY <1>4, <1>7, <1>9, <1>10, <1>11
  <1> HIDE DEF total, rest, others, both, here, there
  <1> QED BY <1>13, <1>14

LEMMA TotalSame ==
  ASSUME NEW g, NEW h, NEW S, IsFiniteSet(S), \A x \in S : g[x] = h[x]
  PROVE  Total(g, S) = Total(h, S)
PROOF
  <1> DEFINE Bad == {s \in SUBSET S : Total(g, s) # Total(h, s)}
  <1>1. SUFFICES ASSUME Bad # {} PROVE FALSE
    OBVIOUS
  <1>2. Bad \subseteq SUBSET S
    OBVIOUS
  <1>3. PICK s \in Bad : \A t \in Bad : t \subseteq s => t = s
    <2> HIDE DEF Bad
    <2> QED BY <1>1, <1>2, MinimalSubset
  <1>4. IsFiniteSet(s)
    BY FS_Subset
  <1>5. s # {}
    BY TotalEmpty
  <1>6. Picked(s) \in s
    BY <1>5, PickedInSet
  <1>7. /\ Total(g, s) = g[Picked(s)] + Total(g, s \ {Picked(s)})
        /\ Total(h, s) = h[Picked(s)] + Total(h, s \ {Picked(s)})
    BY <1>4, <1>5, TotalPicked
  <1>8. Total(g, s \ {Picked(s)}) = Total(h, s \ {Picked(s)})
    BY <1>3, <1>6
  <1>9. g[Picked(s)] = h[Picked(s)]
    BY <1>6
  <1> QED BY <1>3, <1>7, <1>8, <1>9

LEMMA TotalNat ==
  ASSUME NEW g, NEW S, IsFiniteSet(S), \A x \in S : g[x] \in Nat
  PROVE  Total(g, S) \in Nat
PROOF
  <1> DEFINE Bad == {s \in SUBSET S : Total(g, s) \notin Nat}
  <1>1. SUFFICES ASSUME Bad # {} PROVE FALSE
    OBVIOUS
  <1>2. Bad \subseteq SUBSET S
    OBVIOUS
  <1>3. PICK s \in Bad : \A t \in Bad : t \subseteq s => t = s
    <2> HIDE DEF Bad
    <2> QED BY <1>1, <1>2, MinimalSubset
  <1>4. IsFiniteSet(s)
    BY FS_Subset
  <1>5. s # {}
    BY TotalEmpty
  <1>6. Picked(s) \in s /\ Total(g, s) = g[Picked(s)] + Total(g, s \ {Picked(s)})
    BY <1>4, <1>5, PickedInSet, TotalPicked
  <1>7. Total(g, s \ {Picked(s)}) \in Nat
    BY <1>3, <1>6
  <1> QED BY <1>6, <1>7

LEMMA TotalPart ==
  ASSUME NEW g, NEW S, IsFiniteSet(S), \A x \in S : g[x] \in Nat, NEW T, T \subseteq S
  PROVE  Total(g, T) <= Total(g, S)
PROOF
  <1> DEFINE Bad == {s \in SUBSET S : T \subseteq s /\ ~(Total(g, T) <= Total(g, s))}
  <1>1. SUFFICES ASSUME Bad # {} PROVE FALSE
    OBVIOUS
  <1>2. Bad \subseteq SUBSET S
    OBVIOUS
  <1>3. PICK s \in Bad : \A t \in Bad : t \subseteq s => t = s
    <2> HIDE DEF Bad
    <2> QED BY <1>1, <1>2, MinimalSubset
  <1>4. \A t \in SUBSET S : IsFiniteSet(t) /\ Total(g, t) \in Nat
    <2>1. \A t \in SUBSET S : IsFiniteSet(t)
      BY FS_Subset
    <2> QED BY <2>1, TotalNat
  <1>5. PICK x \in s : x \notin T
    <2>1. s # T
      BY <1>3, <1>4
    <2> QED BY <1>3, <2>1
  <1>6. Total(g, s) = g[x] + Total(g, s \ {x})
    BY <1>4, <1>5, TotalRemove
  <1>7. Total(g, T) <= Total(g, s \ {x})
    BY <1>3, <1>5
  <1> QED BY <1>3, <1>4, <1>5, <1>6, <1>7

LEMMA TotalMember ==
  ASSUME NEW g, NEW S, IsFiniteSet(S), \A x \in S : g[x] \in Nat, NEW e \in S
  PROVE  g[e] <= Total(g, S)
PROOF
  <1>1. Total(g, S) = g[e] + Total(g, S \ {e})
    BY TotalRemove
  <1>2. IsFiniteSet(S \ {e})
    BY FS_Subset
  <1>3. Total(g, S \ {e}) \in Nat
    BY <1>2, TotalNat
  <1> QED BY <1>1, <1>3

\* What lies outside T adds nothing.
LEMMA TotalWithin ==
  ASSUME NEW g, NEW S, IsFiniteSet(S), \A x \in S : g[x] \in Nat,
         NEW T, T \subseteq S, \A x \in S : x \notin T => g[x] = 0
  PROVE  Total(g, S) = Total(g, T)
PROOF
  <1> DEFINE Bad == {s \in SUBSET S : T \subseteq s /\ Total(g, s) # Total(g, T)}
  <1>1. SUFFICES ASSUME Bad # {} PROVE FALSE
    OBVIOUS
  <1>2. Bad \subseteq SUBSET S
    OBVIOUS
  <1>3. PICK s \in Bad : \A t \in Bad : t \subseteq s => t = s
    <2> HIDE DEF Bad
    <2> QED BY <1>1, <1>2, MinimalSubset
  <1>4. \A t \in SUBSET S : IsFiniteSet(t) /\ Total(g, t) \in Nat
    <2>1. \A t \in SUBSET S : IsFiniteSet(t)
      BY FS_Subset
    <2> QED BY <2>1, TotalNat
  <1>5. PICK x \in s : x \notin T
    <2>1. s # T
      BY <1>3
    <2> QED BY <1>3, <2>1
  <1>6. Total(g, s) = g[x] + Total(g, s \ {x}) /\ g[x] = 0
    BY <1>4, <1>5, TotalRemove
  <1>7. Total(g, s \ {x}) = Total(g, T)
    BY <1>3, <1>5
  <1>8. Total(g, s \ {x}) \in Nat
    BY <1>4
  <1> QED BY <1>3, <1>6, <1>7, <1>8

\* One summand changes.
LEMMA TotalChanged ==
  ASSUME NEW g, NEW h, NEW S, IsFiniteSet(S), NEW e \in S,
         \A x \in S : g[x] \in Int /\ h[x] \in Int,
         \A x \in S : x # e => h[x] = g[x]
  PROVE  Total(h, S) = Total(g, S) + h[e] - g[e]
PROOF
  <1>1. IsFiniteSet(S \ {e})
    BY FS_Subset
  <1>2. Total(g, S) = g[e] + Total(g, S \ {e}) /\ Total(h, S) = h[e] + Total(h, S \ {e})
    BY TotalRemove
  <1>3. Total(g, S \ {e}) = Total(h, S \ {e})
    BY <1>1, TotalSame
  <1>4. Total(g, S \ {e}) \in Int
    BY <1>1, TotalInt
  <1> QED BY <1>2, <1>3, <1>4

-----------------------------------------------------------------------------
(* What a sequence of grants is worth.                                        *)

\* Summing over the image of S under an injection.
Image(b, s) == {b[x] : x \in s}

LEMMA TotalReindexed ==
  ASSUME NEW S, IsFiniteSet(S), NEW b, \A x, y \in S : b[x] = b[y] => x = y,
         \A s \in SUBSET S : IsFiniteSet(Image(b, s)),
         NEW g, NEW h, \A x \in S : h[x] = g[b[x]], \A x \in S : h[x] \in Int
  PROVE  Total(g, Image(b, S)) = Total(h, S)
PROOF
  <1> DEFINE To(s) == Image(b, s)
             Bad == {s \in SUBSET S : Total(g, To(s)) # Total(h, s)}
  <1>1. SUFFICES ASSUME Bad # {} PROVE FALSE
    OBVIOUS
  <1>2. Bad \subseteq SUBSET S
    OBVIOUS
  <1>3. PICK s \in Bad : \A t \in Bad : t \subseteq s => t = s
    <2> HIDE DEF Bad
    <2> QED BY <1>1, <1>2, MinimalSubset
  <1>4. s \subseteq S /\ IsFiniteSet(s) /\ IsFiniteSet(To(s))
    BY FS_Subset
  <1>5. s # {}
    <2>1. To({}) = {}
      BY DEF Image
    <2> QED BY <2>1, TotalEmpty
  <1>6. PICK x \in s : TRUE
    BY <1>5
  <1>7. Total(h, s) = h[x] + Total(h, s \ {x})
    <2>1. \A y \in s : h[y] \in Int
      BY <1>4
    <2> QED BY <1>4, <2>1, TotalRemove
  <1>8. Total(g, To(s)) = g[b[x]] + Total(g, To(s) \ {b[x]})
    <2>1. b[x] \in To(s)
      BY DEF Image
    <2>2. \A y \in To(s) : g[y] \in Int
      BY <1>4 DEF Image
    <2> HIDE DEF To
    <2> QED BY <1>4, <2>1, <2>2, TotalRemove
  <1>9. To(s) \ {b[x]} = To(s \ {x})
    BY <1>4 DEF Image
  <1>10. Total(g, To(s \ {x})) = Total(h, s \ {x})
    BY <1>3, <1>4
  <1> QED BY <1>3, <1>4, <1>7, <1>8, <1>9, <1>10

\* What one grant is worth.
Part(grant, x) == IF grant.of = x THEN grant.qty ELSE 0
Quantities(s)  == [i \in DOMAIN s |-> s[i].qty]
Places(s, x)   == {i \in DOMAIN s : s[i].of = x}

LEMMA PlacesFinite ==
  ASSUME NEW s \in Seq(Grant), NEW x
  PROVE  /\ IsFiniteSet(Places(s, x))
         /\ \A i \in Places(s, x) : i \in 1 .. Len(s) /\ Quantities(s)[i] = s[i].qty /\ s[i].qty \in Nat
         /\ Worth(s, x) = Total(Quantities(s), Places(s, x))
PROOF
  <1>1. Len(s) \in Int /\ 1 \in Int /\ DOMAIN s = 1 .. Len(s)
    OBVIOUS
  <1>2. IsFiniteSet(1 .. Len(s))
    BY <1>1, FS_Interval
  <1>3. Places(s, x) \subseteq 1 .. Len(s)
    BY <1>1 DEF Places
  <1>4. IsFiniteSet(Places(s, x))
    BY <1>2, <1>3, FS_Subset, Zenon
  <1>5. Worth(s, x) = Total(Quantities(s), Places(s, x))
    BY DEF Worth, Quantities, Places
  <1>6. \A i \in Places(s, x) : i \in 1 .. Len(s) /\ Quantities(s)[i] = s[i].qty
    BY <1>1 DEF Places, Quantities
  <1>7. \A i \in 1 .. Len(s) : s[i] \in Grant
    OBVIOUS
  <1>8. \A i \in Places(s, x) : s[i].qty \in Nat
    BY <1>6, <1>7 DEF Grant
  <1> QED BY <1>4, <1>5, <1>6, <1>8

LEMMA WorthNat ==
  ASSUME NEW s \in Seq(Grant), NEW x
  PROVE  Worth(s, x) \in Nat
PROOF
  <1>1. \A i \in Places(s, x) : Quantities(s)[i] \in Nat
    BY PlacesFinite
  <1> QED BY <1>1, PlacesFinite, TotalNat

LEMMA WorthEmpty ==
  ASSUME NEW x
  PROVE  Worth(<<>>, x) = 0
PROOF
  <1>1. Places(<<>>, x) = {}
    BY DEF Places
  <1>2. <<>> \in Seq(Grant)
    OBVIOUS
  <1> QED BY <1>1, <1>2, PlacesFinite, TotalEmpty

LEMMA WorthTail ==
  ASSUME NEW s \in Seq(Grant), s # <<>>, NEW x
  PROVE  Worth(s, x) = Part(Head(s), x) + Worth(Tail(s), x)
PROOF
  <1> DEFINE t == Tail(s)
             S == Places(t, x)
             b == [i \in S |-> i + 1]
             T == Places(s, x) \ {1}
  <1>1. t \in Seq(Grant) /\ Len(t) = Len(s) - 1 /\ Len(s) \in Nat \ {0} /\ Head(s) = s[1]
    OBVIOUS
  <1>2. \A i \in 1 .. Len(t) : t[i] = s[i + 1]
    OBVIOUS
  <1>3. IsFiniteSet(S) /\ IsFiniteSet(T) /\ IsFiniteSet(Places(s, x))
    BY <1>1, PlacesFinite, FS_Subset
  <1>4. Image(b, S) = T
    <2>1. \A i \in S : b[i] \in T
      BY <1>1, <1>2 DEF Places
    <2>2. \A j \in T : j - 1 \in S /\ b[j - 1] = j
      BY <1>1, <1>2 DEF Places
    <2> HIDE DEF b, T, S
    <2>3. T \subseteq Image(b, S)
      BY <2>2 DEF Image
    <2>4. Image(b, S) \subseteq T
      BY <2>1 DEF Image
    <2> QED BY <2>3, <2>4
  <1>5. /\ \A i \in S : Quantities(t)[i] = Quantities(s)[b[i]]
        /\ \A i \in S : Quantities(t)[i] \in Int
    <2>1. \A i \in S : Quantities(t)[i] = t[i].qty /\ t[i].qty \in Nat /\ i \in 1 .. Len(t)
      BY <1>1, PlacesFinite
    <2>2. \A i \in S : b[i] = i + 1 /\ i + 1 \in 1 .. Len(s) /\ t[i] = s[i + 1]
      BY <1>1, <1>2, <2>1
    <2>3. \A j \in 1 .. Len(s) : Quantities(s)[j] = s[j].qty
      BY DEF Quantities
    <2> HIDE DEF b, S, t
    <2> QED BY <2>1, <2>2, <2>3
  <1>6. \A i, j \in S : b[i] = b[j] => i = j
    BY <1>1 DEF Places
  <1>7. \A r \in SUBSET S : IsFiniteSet(Image(b, r))
    <2>1. \A r \in SUBSET S : Image(b, r) \in SUBSET T
      BY <1>4 DEF Image
    <2> HIDE DEF b, T, S
    <2> QED BY <1>3, <2>1, FS_Subset
  <1>8. Total(Quantities(s), T) = Total(Quantities(t), S)
    <2> HIDE DEF b, T, S, t
    <2>1. Total(Quantities(s), Image(b, S)) = Total(Quantities(t), S)
      BY <1>3, <1>5, <1>6, <1>7, TotalReindexed
    <2> QED BY <1>4, <2>1
  <1>9. Worth(t, x) = Total(Quantities(t), S) /\ Worth(s, x) = Total(Quantities(s), Places(s, x))
    BY <1>1, PlacesFinite
  <1>10. \A i \in Places(s, x) : Quantities(s)[i] \in Int
    BY PlacesFinite
  <1>11. CASE s[1].of = x
    <2>1. 1 \in Places(s, x) /\ Quantities(s)[1] = s[1].qty
      BY <1>1, <1>11 DEF Places, Quantities
    <2>2. Total(Quantities(s), Places(s, x)) = s[1].qty + Total(Quantities(s), T)
      BY <1>3, <1>10, <2>1, TotalRemove
    <2>3. Part(Head(s), x) = s[1].qty
      BY <1>1, <1>11 DEF Part
    <2>4. Worth(s, x) = Part(Head(s), x) + Worth(t, x)
      <3> HIDE DEF t, S, T
      <3> QED BY <1>8, <1>9, <2>2, <2>3
    <2> QED BY <2>4
  <1>12. CASE s[1].of # x
    <2>1. T = Places(s, x)
      BY <1>12 DEF Places
    <2>2. Worth(t, x) \in Nat
      BY <1>1, WorthNat
    <2>3. Part(Head(s), x) = 0
      BY <1>1, <1>12 DEF Part
    <2>4. Worth(s, x) = Part(Head(s), x) + Worth(t, x)
      <3> HIDE DEF t, S, T
      <3> QED BY <1>8, <1>9, <2>1, <2>2, <2>3
    <2> QED BY <2>4
  <1> QED BY <1>11, <1>12

LEMMA WorthAppend ==
  ASSUME NEW s \in Seq(Grant), NEW e \in Grant, NEW x
  PROVE  Worth(Append(s, e), x) = Worth(s, x) + Part(e, x)
PROOF
  <1> DEFINE a == Append(s, e)
             n == Len(s) + 1
  <1>1. /\ a \in Seq(Grant) /\ Len(a) = n /\ a[n] = e /\ n \in Nat
        /\ \A i \in 1 .. Len(s) : a[i] = s[i]
    OBVIOUS
  <1>2. IsFiniteSet(Places(s, x)) /\ IsFiniteSet(Places(a, x))
    BY <1>1, PlacesFinite
  <1>3. Worth(a, x) = Total(Quantities(a), Places(a, x)) /\ Worth(s, x) = Total(Quantities(s), Places(s, x))
    BY <1>1, PlacesFinite
  <1>4. \A i \in Places(s, x) : Quantities(a)[i] = Quantities(s)[i]
    BY <1>1 DEF Places, Quantities
  <1>5. Total(Quantities(a), Places(s, x)) = Total(Quantities(s), Places(s, x))
    BY <1>2, <1>4, TotalSame
  <1>6. Worth(s, x) \in Nat
    BY WorthNat
  <1>7. CASE e.of = x
    <2>1. Places(a, x) \ {n} = Places(s, x) /\ n \in Places(a, x) /\ Quantities(a)[n] = e.qty
      BY <1>1, <1>7 DEF Places, Quantities
    <2>2. \A i \in Places(a, x) : Quantities(a)[i] \in Int
      <3> HIDE DEF a, n
      <3>1. \A i \in Places(a, x) : Quantities(a)[i] = a[i].qty /\ a[i].qty \in Nat
        BY <1>1, PlacesFinite
      <3> QED BY <3>1
    <2>3. Total(Quantities(a), Places(a, x)) = e.qty + Total(Quantities(a), Places(s, x))
      <3> HIDE DEF a, n
      <3> QED BY <1>2, <2>1, <2>2, TotalRemove
    <2> QED BY <1>3, <1>5, <1>6, <1>7, <2>3 DEF Part, Grant
  <1>8. CASE e.of # x
    <2>1. Places(a, x) = Places(s, x)
      BY <1>1, <1>8 DEF Places
    <2> QED BY <1>3, <1>5, <1>6, <1>8, <2>1 DEF Part
  <1> QED BY <1>7, <1>8

\* The budget of a row is its first grant, and only that.
LEMMA WorthOfRow ==
  ASSUME LedgerAssumption, NEW amount \in Nat, NEW lines \in Seq(Line)
  PROVE  /\ GrantsOf(amount, lines) \in Seq(Grant)
         /\ Worth(GrantsOf(amount, lines), Budget) = amount
         /\ \A v \in Variants : Worth(GrantsOf(amount, lines), v) = Worth(lines, v)
PROOF
  <1> DEFINE head == [of |-> Budget, qty |-> amount]
             s == GrantsOf(amount, lines)
  <1>1. lines \in Seq(Grant) /\ head \in Grant
    <2>1. Line \subseteq Grant
      BY DEF Line, Grant, Resource
    <2>2. head \in Grant
      BY DEF Grant, Resource
    <2> QED BY <2>1, <2>2
  <1>2. s \in Seq(Grant) /\ Head(s) = head /\ Tail(s) = lines /\ s # <<>>
    BY <1>1 DEF GrantsOf
  <1>3. Worth(lines, Budget) = 0
    <2>1. \A i \in 1 .. Len(lines) : lines[i] \in Line
      OBVIOUS
    <2>2. \A i \in DOMAIN lines : lines[i].of # Budget
      <3>1. \A line \in Line : line.of # Budget
        BY LedgerAssumption DEF Line
      <3> QED BY <2>1, <3>1
    <2>3. Places(lines, Budget) = {}
      BY <2>2 DEF Places
    <2> QED BY <1>1, <2>3, PlacesFinite, TotalEmpty
  <1>4. \A x \in Resource : Worth(s, x) = Part(head, x) + Worth(lines, x)
    BY <1>2, WorthTail
  <1>5. \A x \in Resource : Worth(lines, x) \in Nat
    BY <1>1, WorthNat
  <1> HIDE DEF s
  <1> QED BY <1>2, <1>3, <1>4, <1>5, LedgerAssumption DEF s, Part, Resource
=============================================================================
