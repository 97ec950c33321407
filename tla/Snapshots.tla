----------------------------- MODULE Snapshots -----------------------------
(***************************************************************************)
(* Month-end portfolio snapshots (application/portfolio_snapshots and      *)
(* portfolio_reconstruction in backend/src/genesis) beside the loan events *)
(* they are rebuilt from.                                                  *)
(*                                                                         *)
(* A snapshot is written once, by the close of its month or by the         *)
(* backfill, long after the month it speaks of, from the loans as they are *)
(* then and the dated legs; a later writer compares and refuses.           *)
(*                                                                         *)
(* Abstractions.  A loan is paid in Installments monthly amounts of one    *)
(* unit, all principal; months are numbers, an event's date is its month.  *)
(***************************************************************************)
EXTENDS Integers, FiniteSets, FiniteSetsExt

CONSTANTS
  Borrowed,      \* loans
  Installments,  \* principal of a loan, one unit due a month
  LateAfter,     \* months past due after which a loan is non-performing
  MaxUndone,     \* bound: units of a loan's receipts reversed in its life
  FinalMonth     \* bound of the calendar

ASSUME SnapshotsAssumption ==
  /\ IsFiniteSet(Borrowed)
  /\ Installments \in Nat \ {0} /\ LateAfter \in Nat
  /\ MaxUndone \in Nat /\ FinalMonth \in Nat \ {0}

VARIABLES
  month,     \* the current, still open month
  lent,      \* lent[l]: [status, on, closed, gone], months or 0 while unset
  received,  \* received[l][m]: units repaid in month m
  undone,    \* undone[l][m]: units of reversed receipts, dated at the reversal
  shot,      \* shot[m]: the stored snapshot, or NoShot
  shut       \* months the accounting period of which is closed

snapshotVars == <<month, lent, received, undone, shot, shut>>

Month == 1..FinalMonth
NoShot == [stored |-> FALSE]
Unlent == [status |-> "approved", on |-> 0, closed |-> 0, gone |-> 0]

SnapshotsInit ==
  /\ month = 1
  /\ lent = [l \in Borrowed |-> Unlent]
  /\ received = [l \in Borrowed |-> [m \in Month |-> 0]]
  /\ undone = [l \in Borrowed |-> [m \in Month |-> 0]]
  /\ shot = [m \in Month |-> NoShot]
  /\ shut = {}

-----------------------------------------------------------------------------
(* The figures of one month end.                                           *)

Sum(f, S) == MapThenSumSet(LAMBDA x : f[x], S)
UpTo(f, m) == Sum(f, 1..m)

Collected(l, m) == UpTo(received[l], m)
Paid(l, m) == UpTo(received[l], m) - UpTo(undone[l], m)

\* The first installment due by m that the net receipts do not cover.
Overdue(l, m) ==
  LET due == {i \in 1..Installments : lent[l].on + i <= m /\ i > Paid(l, m)}
  IN  due # {} /\ m - (lent[l].on + Min(due)) > LateAfter

Totals(loans, balance, m) ==
  LET late == {l \in loans : Overdue(l, m)} IN
  [loans |-> Cardinality(loans), gross |-> Sum(balance, loans),
   npl |-> Cardinality(late), nplBalance |-> Sum(balance, late)]

\* Fault variant: loans that are closed today are left out.
OutstandingNow(m) ==
  {l \in Borrowed : lent[l].status = "active" /\ lent[l].on \in 1..m}
Outstanding(m) ==
  {l \in Borrowed : /\ lent[l].status \in {"active", "closed"}
                    /\ lent[l].on \in 1..m
                    /\ lent[l].closed = 0 \/ lent[l].closed > m}

\* Only the credit legs count against the principal.
Reconstruct(m) == Totals(Outstanding(m), [l \in Borrowed |-> Installments - Collected(l, m)], m)

-----------------------------------------------------------------------------
(* Loan events, dated now.                                                 *)

Disburse(l) ==
  /\ lent[l].status = "approved"
  /\ lent' = [lent EXCEPT ![l] = [@ EXCEPT !.status = "active", !.on = month]]
  /\ UNCHANGED <<month, received, undone, shot, shut>>

Repay(l, n) ==
  /\ lent[l].status = "active"
  /\ n \in 1..(Installments - Paid(l, month))
  /\ received' = [received EXCEPT ![l][month] = @ + n]
  /\ lent' = IF Paid(l, month) + n = Installments
             THEN [lent EXCEPT ![l] = [@ EXCEPT !.status = "closed", !.closed = month]]
             ELSE lent
  /\ UNCHANGED <<month, undone, shot, shut>>

\* An approved adjustment: the loan is reopened if the receipt closed it.
ReverseReceipt(l, n) ==
  /\ lent[l].status \in {"active", "closed"}
  /\ n \in 1..Paid(l, month) /\ UpTo(undone[l], month) + n <= MaxUndone
  /\ undone' = [undone EXCEPT ![l][month] = @ + n]
  /\ lent' = [lent EXCEPT ![l] = [@ EXCEPT !.status = "active", !.closed = 0]]
  /\ UNCHANGED <<month, received, shot, shut>>

WriteOff(l) ==
  /\ lent[l].status = "active"
  /\ lent' = [lent EXCEPT ![l] = [@ EXCEPT !.status = "written_off", !.gone = month]]
  /\ UNCHANGED <<month, received, undone, shot, shut>>

NextMonth ==
  /\ month < FinalMonth
  /\ month' = month + 1
  /\ UNCHANGED <<lent, received, undone, shot, shut>>

-----------------------------------------------------------------------------
(* The writers.                                                            *)

\* No loan has been corrected or written off when the snapshot is taken.
Pristine ==
  \A l \in Borrowed : lent[l].status # "written_off" /\ \A m \in Month : undone[l][m] = 0

\* Only an elapsed month; an existing row must equal the figures of now.
WriteSnapshot(m) ==
  /\ m < month
  /\ \/ /\ ~shot[m].stored
        /\ shot' = [shot EXCEPT ![m] =
             [stored |-> TRUE, figures |-> Reconstruct(m), pristine |-> Pristine]]
     \/ /\ shot[m].stored /\ shot[m].figures = Reconstruct(m)
        /\ shot' = shot

ClosePeriod(m) ==
  /\ m \notin shut
  /\ WriteSnapshot(m)
  /\ shut' = shut \union {m}
  /\ UNCHANGED <<month, lent, received, undone>>

\* From the month of the first disbursement on, the months without a row; one
\* another writer took meanwhile is compared and left.
Backfill(m) ==
  /\ ~shot[m].stored
  /\ \E l \in Borrowed : lent[l].on \in 1..m
  /\ WriteSnapshot(m)
  /\ UNCHANGED <<month, lent, received, undone, shut>>

SnapshotsNext ==
  \/ \E l \in Borrowed : Disburse(l) \/ WriteOff(l)
  \/ \E l \in Borrowed, n \in 1..Installments : Repay(l, n) \/ ReverseReceipt(l, n)
  \/ \E m \in Month : ClosePeriod(m) \/ Backfill(m)
  \/ NextMonth

SnapshotsSpec == SnapshotsInit /\ [][SnapshotsNext]_snapshotVars

-----------------------------------------------------------------------------

(* What the append-only legs say was outstanding at the end of month m.    *)
StillOwed(l, m) == lent[l].on \in 1..m /\ ~(lent[l].gone \in 1..m) /\ Paid(l, m) < Installments
OnTheBooks(m) ==
  Totals({l \in Borrowed : StillOwed(l, m)}, [l \in Borrowed |-> Installments - Paid(l, m)], m)

(* A snapshot taken before any correction or write-off, at whatever later  *)
(* moment and whoever wrote it, still tells the books of its month, after  *)
(* everything that happened since; and no month is closed without one.     *)
SnapshotsTellTheBooks ==
  \A m \in Month :
    /\ m \in shut => shot[m].stored
    /\ shot[m].stored /\ shot[m].pristine => shot[m].figures = OnTheBooks(m)

=============================================================================
