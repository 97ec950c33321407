------------------------------ MODULE MCCredit ------------------------------
(* The two views of a loan side by side, for TLC: the collateral behind it *)
(* and the servicing of its schedule.  A behaviour is one of them, the     *)
(* other rests, so the states add up.                                      *)
EXTENDS Collateral, MCServicing

CONSTANTS b, m, n, a1, g1, g2

\* b borrows, m and n may guarantee.  The loan can be carried by b's own
\* deposits, by two guarantees, or by one of each.
MCSession == {u1, u2}
MCMember == {b, m, n}
MCApplication == {a1}
MCBorrower == a1 :> b
MCRequested == a1 :> 2
MCGuarantee == {g1, g2}

VARIABLE part
creditVars == <<collateralVars, vars, part>>

CreditInit == part \in {"collateral", "servicing"} /\ CollateralInit /\ Init

CreditNext ==
  \/ part = "collateral" /\ CollateralNext /\ UNCHANGED <<vars, part>>
  \/ part = "servicing" /\ Next /\ UNCHANGED <<collateralVars, part>>

CreditSpec == CreditInit /\ [][CreditNext]_creditVars

\* Guarantors, guarantee ids and officers are interchangeable; sessions take
\* the officers' names.
Symmetry == SymmetryUser \cup Permutations({m, n}) \cup Permutations(MCGuarantee)
=============================================================================
