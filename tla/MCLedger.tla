------------------------------ MODULE MCLedger ------------------------------
(* The two sides of the ledger's locking side by side, for TLC: the month  *)
(* barrier against postings, and the row locks of every handler.  A        *)
(* behaviour is one of them, the other rests, so the states add up.        *)
EXTENDS PeriodLedger, MCLockOrder

CONSTANT a1

\* Three postings in one sequence; months 2 and 3 closed by the release
\* before rollups.
MCTxn == {s1, s2, s3}
MCHolder == {a1}
MCPrefix == {"DP"}
MCLegacy == {2, 3}

VARIABLE part
ledgerVars == <<periodVars, lockVars, part>>

LedgerInit == part \in {"periods", "locks"} /\ PeriodInit /\ LockInit

LedgerNext ==
  \/ part = "periods" /\ PeriodNext /\ UNCHANGED <<lockVars, part>>
  \/ part = "locks" /\ LockNext /\ UNCHANGED <<periodVars, part>>

LedgerSpec == LedgerInit /\ [][LedgerNext]_ledgerVars
=============================================================================
