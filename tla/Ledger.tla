------------------------------- MODULE Ledger -------------------------------
(***************************************************************************)
(* The two resources a money action reserves -- budget of one agent's     *)
(* spend caps and stock of the merchant's variants -- with the four        *)
(* single-statement updates of gate.ts that move them.                     *)
(*                                                                         *)
(* A money_actions row bears the name of the attempt that inserts it, so   *)
(* Rows names both.  What one row reserves is a sequence of grants: the    *)
(* budget first, then its lines (one line for a variant or a negotiation,  *)
(* several for an offer's bundle or a cart).                               *)
(***************************************************************************)
EXTENDS Integers, Sequences, FiniteSets, FiniteSetsExt

CONSTANTS Rows,        \* money_actions rows, each named after its attempt
          Variants,    \* product_variants rows of the merchant
          Budget,      \* the other thing a grant can be of
          MaxCaps,     \* bound on the spend_caps rows ever inserted
          InitStock    \* stock of each variant at the start

ASSUME LedgerAssumption ==
  /\ MaxCaps \in Nat \ {0}
  /\ IsFiniteSet(Rows)
  /\ Budget \notin Variants
  /\ InitStock \in [Variants -> Nat]

CapIds    == 1 .. MaxCaps
CapStatus == {"absent", "active", "revoked", "expired"}
Cap       == [status : CapStatus, limit : Nat, txMax : Nat, spent : Nat, open : BOOLEAN]
Resource  == Variants \cup {Budget}
Grant     == [of : Resource, qty : Nat]
Line      == [of : Variants, qty : Nat]

VARIABLES
  caps,      \* spend_caps, in the order of created_at
  capCount,  \* how many of them exist: caps[capCount] is the latest
  stock,     \* product_variants.stock
  holds      \* history: what each row has been charged and not given back

ledgerVars == <<caps, capCount, stock, holds>>

LedgerTypeOK ==
  /\ caps \in [CapIds -> Cap]
  /\ capCount \in CapIds
  /\ stock \in [Variants -> Nat]
  /\ holds \in [Rows -> [Resource -> Int]]

AbsentCap == [status |-> "absent", limit |-> 0, txMax |-> 0, spent |-> 0, open |-> FALSE]
FreshCap(choice) ==
  [status |-> "active", limit |-> choice.limit, txMax |-> choice.txMax,
   spent |-> 0, open |-> TRUE]

\* greatest(m - n, 0)
FlooredDifference(m, n) == IF n <= m THEN m - n ELSE 0

-----------------------------------------------------------------------------
(* The four statements.  Each is one UPDATE, so each is atomic; a reserve   *)
(* re-verifies its bound in the WHERE clause of the UPDATE that takes it.   *)

\* Faulty variant: headroom is checked by the bounds only.
BudgetAvailableUnverified(c, amount) == caps[c].status = "active"

BudgetAvailable(c, amount) ==
  /\ caps[c].status = "active"
  /\ caps[c].spent + amount <= caps[c].limit

\* Faulty variant: the UPDATE does not look at the stock left.
StockAvailableUnverified(line) == TRUE

StockAvailable(line) == line.qty <= stock[line.of]

Charge(r, grant)   == holds' = [holds EXCEPT ![r][grant.of] = @ + grant.qty]
Uncharge(r, grant) == holds' = [holds EXCEPT ![r][grant.of] = @ - grant.qty]

reserveBudget(r, c, grant) ==
  /\ BudgetAvailable(c, grant.qty)
  /\ caps' = [caps EXCEPT ![c].spent = @ + grant.qty]
  /\ Charge(r, grant)
  /\ UNCHANGED <<capCount, stock>>

\* Faulty variant: the cap in force is credited, not the cap that was charged.
releaseBudgetOfLatest(r, c, grant) ==
  /\ caps' = [caps EXCEPT ![capCount].spent = FlooredDifference(@, grant.qty)]
  /\ Uncharge(r, grant)
  /\ UNCHANGED <<capCount, stock>>

releaseBudget(r, c, grant) ==
  /\ caps' = [caps EXCEPT ![c].spent = FlooredDifference(@, grant.qty)]
  /\ Uncharge(r, grant)
  /\ UNCHANGED <<capCount, stock>>

reserveStock(r, line) ==
  /\ StockAvailable(line)
  /\ stock' = [stock EXCEPT ![line.of] = @ - line.qty]
  /\ Charge(r, line)
  /\ UNCHANGED <<caps, capCount>>

\* Faulty variant: the units never reach the shelf again.
releaseStockLost(r, line) ==
  /\ Uncharge(r, line)
  /\ UNCHANGED <<caps, capCount, stock>>

releaseStock(r, line) ==
  /\ stock' = [stock EXCEPT ![line.of] = @ + line.qty]
  /\ Uncharge(r, line)
  /\ UNCHANGED <<caps, capCount>>

\* Giving one grant of row r back: the budget to cap c, a line to its variant.
Release(r, c, grant) ==
  IF grant.of = Budget THEN releaseBudget(r, c, grant) ELSE releaseStock(r, grant)

\* What a row of this amount and these lines reserves, in the order it does.
GrantsOf(amount, lines) == <<[of |-> Budget, qty |-> amount]>> \o lines

\* The sum of g over the elements of S.
Total(g, S) == MapThenSumSet(LAMBDA e : g[e], S)

\* How much of resource x a sequence of grants is worth.
Worth(grants, x) ==
  Total([i \in DOMAIN grants |-> grants[i].qty], {i \in DOMAIN grants : grants[i].of = x})
=============================================================================
