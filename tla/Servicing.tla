------------------------------ MODULE Servicing ------------------------------
(***************************************************************************)
(* The servicing of one disbursed loan: repayments and their allocation    *)
(* over the schedule, their adjustment by a maker and a checker, write-off *)
(* by a committee, recovery receipts, settlement at the member's exit, and *)
(* the arrears job (backend/src/genesis/application/loans.py,              *)
(* corrections.py, arrears.py, member_exits.py, domain/lending.py).        *)
(*                                                                         *)
(* Every writer locks the loan row before it reads it and holds the lock   *)
(* to its commit, so a handler is one step.  Two things are read before    *)
(* the lock: the clock of a repayment, and the schedule the arrears job    *)
(* scans.  The first is the repayment's day, the second a step of its own. *)
(*                                                                         *)
(* Abstractions.  Money is counted in cents, a day is a number.  A         *)
(* rejected adjustment or write-off only frees its slot, and is forgotten. *)
(* A version an officer passes is the current one, a stale one being an    *)
(* error without effect.  The approval band and accounting periods are     *)
(* left out, and so is a guarantee an officer releases (Collateral).       *)
(***************************************************************************)
EXTENDS Integers, Sequences, FiniteSetsExt

CONSTANTS
  Installments,   \* number of installments, in the order they fall due
  Due,            \* Due[i]: the day installment i falls due
  PrincipalDue,   \* PrincipalDue[i] and InterestDue[i]: its two parts
  InterestDue,
  User,           \* officers other than auditors
  Quorum,         \* votes that decide a write-off
  Job,            \* runners of the arrears job whose scans may be overtaken
  GraceDays,      \* penalties accrue when more days than this are past due
  NplDays,        \* the loan is non-performing past this many days
  PenaltyDivisor, \* a day's penalty is its basis over this, rounded half up
  LastDay,        \* bounds of the model
  MaxRepayments

Installment == 1 .. Installments
Day == 0 .. LastDay

ASSUME ConstantsAssumption ==
  /\ Installments \in Nat
  /\ Due \in [Installment -> Nat]
  /\ PrincipalDue \in [Installment -> Nat]
  /\ InterestDue \in [Installment -> Nat]
  /\ Quorum \in Nat \ {0}
  /\ GraceDays \in Nat /\ NplDays \in Nat
  /\ PenaltyDivisor \in Nat \ {0}
  /\ LastDay \in Nat /\ MaxRepayments \in Nat

VARIABLES
  day,          \* today
  loan,         \* the loan row
  guarantee,    \* its guarantees: "none", "live" or "released"
  paid,         \* paid[i]: paid_amount of installment i
  repayments,   \* its repayments in the order they were posted, with their legs
  adjustments,  \* adjustments[k]: the live adjustment of repayment k
  accrued,      \* accrued[d]: the penalty claimed for day d, 0 if none
  writeOff,     \* its live or posted write-off
  recovered,    \* sum of the receipts against the written-off claim
  exited,       \* the member has exited
  job           \* job[j]: what runner j scanned

vars == <<day, loan, guarantee, paid, repayments, adjustments, accrued, writeOff,
          recovered, exited, job>>
ledger == <<repayments, accrued, recovered>>

Sum(f, S) == MapThenSumSet(LAMBDA x : f[x], S)
Principal == Sum(PrincipalDue, Installment)
TotalDue(i) == PrincipalDue[i] + InterestDue[i]

-----------------------------------------------------------------------------
(* The schedule.                                                           *)

DueBy(d) == {i \in Installment : Due[i] <= d}
Unpaid(p, d) == {i \in DueBy(d) : p[i] < TotalDue(i)}
Open(p) == [i \in Installment |-> TotalDue(i) - p[i]]

\* Interest of the installments due that their paid amounts do not cover.
InterestUnpaid(p, d) ==
  Sum([i \in Installment |-> Max({InterestDue[i] - p[i], 0})], Unpaid(p, d))

\* Fault variant: cash left over pays the installments to come.
PayAhead(p, d, cash) ==
  [i \in Installment |->
     LET before == Sum(Open(p), {j \in Installment : j < i}) IN
     p[i] + Max({0, Min({Open(p)[i], cash - before})})]

\* Cash goes to the installments due, oldest first, no more than each is open for.
Pay(p, d, cash) ==
  [i \in Installment |->
     LET before == Sum(Open(p), {j \in DueBy(d) : j < i}) IN
     IF i \in DueBy(d) THEN p[i] + Max({0, Min({Open(p)[i], cash - before})}) ELSE p[i]]

\* Penalties first, then interest, then principal.
Allocation(amount, d) ==
  LET penalties == Min({amount, loan.penalty})
      interest == Min({amount - penalties, InterestUnpaid(paid, d)})
  IN  [day |-> d, penalties |-> penalties, interest |-> interest,
       principal |-> amount - penalties - interest]

Payoff(d) == loan.penalty + InterestUnpaid(paid, d) + loan.balance

Accepts(amount, d) == amount <= Payoff(d)

-----------------------------------------------------------------------------
(* What the append-only history says.                                      *)

Posted(a) == {k \in DOMAIN a : a[k].status = "posted"}

\* Fault variant: the replay takes adjusted repayments too.
SurvivingAll(a) == DOMAIN a
Surviving(a) == DOMAIN a \ Posted(a)
Legs(part) == [k \in DOMAIN repayments |-> repayments[k][part]]

\* A reversal mirrors the legs of the repayment it reverses.
Net(part, a) == Sum(Legs(part), DOMAIN a) - Sum(Legs(part), Posted(a))

\* The repayments again, by date, over an unpaid schedule: the latest comes
\* last, and pays what the ones before it have left open.
Latest(S) ==
  CHOOSE k \in S : \A l \in S : \/ repayments[l].day < repayments[k].day
                                \/ repayments[l].day = repayments[k].day /\ l <= k
CashOf(k) == repayments[k].interest + repayments[k].principal
PayAgain(k, p) == Pay(p, repayments[k].day, CashOf(k))
Replay(a) ==
  MapThenFoldSet(PayAgain, [i \in Installment |-> 0], LAMBDA k : k, Latest, Surviving(a))

-----------------------------------------------------------------------------

Loan(status, balance, penalty, npl) ==
  [status |-> status, balance |-> balance, penalty |-> penalty, npl |-> npl]
NoAdjustment == [status |-> "none"]
NoWriteOff == [status |-> "none"]
Idle == [step |-> "idle"]

Init ==
  /\ day = 0
  /\ loan = Loan("active", Principal, 0, FALSE)
  /\ guarantee \in {"none", "live"}
  /\ paid = [i \in Installment |-> 0]
  /\ repayments = <<>>
  /\ adjustments = <<>>
  /\ accrued = [d \in Day |-> 0]
  /\ writeOff = NoWriteOff
  /\ recovered = 0
  /\ exited = FALSE
  /\ job = [j \in Job |-> Idle]

NextDay ==
  /\ day < LastDay
  /\ day' = day + 1
  /\ UNCHANGED <<loan, guarantee, paid, ledger, adjustments, writeOff, exited, job>>

-----------------------------------------------------------------------------
(* Repayment and closure.                                                  *)

Serviceable == loan.status = "active"
Discharged == IF guarantee = "live" THEN "released" ELSE guarantee
Closed == Loan("closed", 0, 0, FALSE)

\* The clock was read before the lock: midnight may have passed since.
RecordRepayment(d, amount) ==
  /\ Len(repayments) < MaxRepayments
  /\ d \in {day - 1, day}
  /\ Serviceable
  /\ Accepts(amount, d)
  /\ LET r == Allocation(amount, d)
         balance == loan.balance - r.principal
         penalty == loan.penalty - r.penalties
         done == balance = 0 /\ penalty = 0
     IN  /\ repayments' = Append(repayments, r)
         /\ paid' = Pay(paid, d, r.interest + r.principal)
         /\ loan' = IF done THEN Closed ELSE Loan("active", balance, penalty, loan.npl)
         /\ guarantee' = IF done THEN Discharged ELSE guarantee
  /\ adjustments' = Append(adjustments, NoAdjustment)
  /\ UNCHANGED <<day, accrued, writeOff, recovered, exited, job>>

-----------------------------------------------------------------------------
(* Adjustment of a repayment: requested by a maker, decided by a checker.  *)

\* What both find under the locks: repayment, member and loan rows.
Adjustable == ~exited /\ loan.status # "written_off"
Reopens == loan.status = "closed"
Reopenable == guarantee # "released"

RequestAdjustment(u, k) ==
  /\ Adjustable
  /\ Reopens => Reopenable
  /\ adjustments[k] = NoAdjustment
  /\ adjustments' = [adjustments EXCEPT ![k] =
       [status |-> "pending_approval", maker |-> u, balance |-> loan.balance,
        penalty |-> loan.penalty, loanStatus |-> loan.status]]
  /\ UNCHANGED <<day, loan, guarantee, paid, ledger, writeOff, exited, job>>

Undrifted(a) ==
  loan.balance = a.balance /\ loan.penalty = a.penalty /\ loan.status = a.loanStatus

Decides(u, k) == adjustments[k].status = "pending_approval" /\ adjustments[k].maker # u

ApproveAdjustment(u, k) ==
  /\ Decides(u, k)
  /\ Adjustable
  /\ Undrifted(adjustments[k])
  /\ Reopens => Reopenable
  /\ LET a == [adjustments EXCEPT ![k].status = "posted"]
         balance == loan.balance + repayments[k].principal
         penalty == loan.penalty + repayments[k].penalties
     IN  /\ balance = Principal - Net("principal", a)  \* the self-check
         /\ adjustments' = a
         /\ paid' = Replay(a)
         /\ loan' = Loan("active", balance, penalty, loan.npl)
  /\ UNCHANGED <<day, guarantee, ledger, writeOff, exited, job>>

RejectAdjustment(u, k) ==
  /\ Decides(u, k)
  /\ adjustments' = [adjustments EXCEPT ![k] = NoAdjustment]
  /\ UNCHANGED <<day, loan, guarantee, paid, ledger, writeOff, exited, job>>

-----------------------------------------------------------------------------
(* Write-off and the recovery of its claim.                                *)

RequestWriteOff(u) ==
  /\ loan.status = "active"
  /\ loan.npl
  /\ loan.balance + loan.penalty > 0
  /\ writeOff = NoWriteOff
  /\ writeOff' = [status |-> "requested", by |-> u, balance |-> loan.balance,
                  penalty |-> loan.penalty, approve |-> {}, reject |-> {}]
  /\ UNCHANGED <<day, loan, guarantee, paid, ledger, adjustments, exited, job>>

\* Rejection wins where both sides have a quorum.
Decided(w) ==
  CASE Cardinality(w.reject) >= Quorum  -> NoWriteOff
    [] Cardinality(w.approve) >= Quorum /\ Cardinality(w.reject) < Quorum
                                        -> [w EXCEPT !.status = "approved"]
    [] OTHER                            -> w

CastVote(u, side) ==
  /\ writeOff.status = "requested"
  /\ u # writeOff.by
  /\ u \notin writeOff.approve \cup writeOff.reject
  /\ writeOff' = Decided([writeOff EXCEPT ![side] = @ \cup {u}])
  /\ UNCHANGED <<day, loan, guarantee, paid, ledger, adjustments, exited, job>>

VoidWriteOff ==
  /\ writeOff.status \in {"requested", "approved"}
  /\ writeOff' = NoWriteOff
  /\ UNCHANGED <<day, loan, guarantee, paid, ledger, adjustments, exited, job>>

\* Fault variant: the penalty is not compared.
SnapshotHoldsBalance == loan.balance = writeOff.balance
SnapshotHolds == loan.balance = writeOff.balance /\ loan.penalty = writeOff.penalty

PostWriteOff(u) ==
  /\ writeOff.status = "approved"
  /\ u # writeOff.by
  /\ loan.status = "active"
  /\ SnapshotHolds
  /\ loan' = Loan("written_off", 0, 0, loan.npl)
  /\ writeOff' = [writeOff EXCEPT !.status = "posted"]
  /\ UNCHANGED <<day, guarantee, paid, ledger, adjustments, exited, job>>

Claim == IF writeOff.status = "posted" THEN writeOff.balance + writeOff.penalty ELSE 0

\* Fault variant: the first receipt discharges the guarantors.
FullyRecoveredPartly(total) == total > 0
FullyRecovered(total) == total = Claim

RecordRecovery(amount) ==
  /\ writeOff.status = "posted"
  /\ ~exited
  /\ loan.status = "written_off"
  /\ amount <= Claim - recovered
  /\ recovered' = recovered + amount
  /\ guarantee' = IF FullyRecovered(recovered + amount) THEN Discharged ELSE guarantee
  /\ UNCHANGED <<day, loan, paid, repayments, accrued, adjustments, writeOff, exited, job>>

\* The member's exit nets an active loan against deposits and shares.
Settle ==
  /\ ~exited
  /\ Claim = recovered
  /\ exited' = TRUE
  /\ loan' = IF loan.status = "active" THEN Closed ELSE loan
  /\ guarantee' = Discharged
  /\ UNCHANGED <<day, paid, ledger, adjustments, writeOff, job>>

-----------------------------------------------------------------------------
(* The arrears job.  Its scan reads the schedule and the accruals as they  *)
(* were when the statement began, and the loan row when it got its lock.   *)

DaysPastDue(d) ==
  IF Unpaid(paid, d) = {} THEN 0 ELSE d - Min({Due[i] : i \in Unpaid(paid, d)})

Scan == [step |-> "scanned", asOf |-> day, dpd |-> DaysPastDue(day),
         arrears |-> Sum(Open(paid), Unpaid(paid, day)), unclaimed |-> accrued[day] = 0]

ScanArrears(j) ==
  /\ job[j] = Idle
  /\ loan.status = "active"
  /\ job' = [job EXCEPT ![j] = Scan]
  /\ UNCHANGED <<day, loan, guarantee, paid, ledger, adjustments, writeOff, exited>>

DailyPenalty(basis) == (2 * basis + PenaltyDivisor) \div (2 * PenaltyDivisor)

\* The tenant charges penalties on the installments in arrears or on the balance.
Basis(s) == {s.arrears, loan.balance}

\* Fault variant: the accrual does not look at the claim's row count.
ClaimsUncounted(d) == TRUE

\* One accrual for a loan and a day: ON CONFLICT DO NOTHING inserts no row.
Claims(d) == accrued[d] = 0

Accrues(s, basis) ==
  s.unclaimed /\ s.dpd > GraceDays /\ DailyPenalty(basis) > 0 /\ Claims(s.asOf)

StillActive == loan.status = "active"

\* The runner has the lock: it classifies the loan and accrues what s says.
Process(s) ==
  /\ StillActive
  /\ \E basis \in Basis(s) :
       LET amount == IF Accrues(s, basis) THEN DailyPenalty(basis) ELSE 0
       IN  /\ loan' = Loan(loan.status, loan.balance, loan.penalty + amount, s.dpd > NplDays)
           /\ accrued' = [accrued EXCEPT ![s.asOf] = IF @ = 0 THEN amount ELSE @]
  /\ UNCHANGED <<day, guarantee, paid, repayments, recovered, adjustments, writeOff, exited>>

ApplyArrears(j) ==
  /\ job[j].step = "scanned"
  /\ Process(job[j])
  /\ job' = [job EXCEPT ![j] = Idle]

\* Another runner, whose scan got the lock at once.
RunArrears == Process(Scan) /\ UNCHANGED job

\* The loan is locked or no longer active, or the runner dies.
SkipLoan(j) ==
  /\ job[j].step = "scanned"
  /\ job' = [job EXCEPT ![j] = Idle]
  /\ UNCHANGED <<day, loan, guarantee, paid, ledger, adjustments, writeOff, exited>>

-----------------------------------------------------------------------------

Officers(u) ==
  \/ \E k \in DOMAIN repayments : \/ RequestAdjustment(u, k)
                                  \/ ApproveAdjustment(u, k)
                                  \/ RejectAdjustment(u, k)
  \/ RequestWriteOff(u)
  \/ \E side \in {"approve", "reject"} : CastVote(u, side)
  \/ PostWriteOff(u)

Next ==
  \/ NextDay
  \/ \E d \in Day : \E amount \in 1 .. Payoff(d) + 1 : RecordRepayment(d, amount)
  \/ \E u \in User : Officers(u)
  \/ VoidWriteOff
  \/ \E amount \in 1 .. Claim : RecordRecovery(amount)
  \/ Settle
  \/ \E j \in Job : ScanArrears(j) \/ ApplyArrears(j) \/ SkipLoan(j)
  \/ RunArrears

Spec == Init /\ [][Next]_vars

-----------------------------------------------------------------------------
(* Properties.                                                             *)

Reversed == {k \in DOMAIN adjustments : adjustments[k].status = "posted"}
Standing(part) == Sum(Legs(part), DOMAIN repayments \ Reversed)
OwedPrincipal == Principal - Standing("principal")
OwedPenalty == Sum(accrued, Day) - Standing("penalties")

\* Until the loan is written off or netted at an exit, its balance and its
\* penalty are what the append-only history says: the principal and the
\* accruals less the legs of the repayments that stand, whatever the order
\* of repayments, adjustments and two runners of the arrears job
\* (corrections.py _reconstructed_balance, arrears.py _accrue_penalty).
BooksReconcile ==
  ~exited /\ loan.status # "written_off" =>
    loan.balance = OwedPrincipal /\ loan.penalty = OwedPenalty

\* The schedule never shows more paid than the repayments that stand brought
\* in: an adjustment takes its cash off the schedule as well
\* (corrections.py _rebuild_schedule_paid_amounts).
CashBacksSchedule ==
  Sum(paid, Installment) <= Standing("interest") + Standing("principal")

\* While nothing has been adjusted, interest counts as paid only if it was
\* collected as interest: principal paid ahead never wipes out interest of a
\* later installment (loans.py record_repayment, _interest_due).
PrepaymentLeavesInterest ==
  Reversed = {} =>
    Sum([i \in Installment |-> Min({InterestDue[i], paid[i]})], Installment)
      <= Standing("interest")

\* Guarantors are discharged only when nothing is owed any more: the loan is
\* closed with nothing due, or its written-off claim is recovered in full,
\* and no adjustment ever takes that back (corrections.py
\* record_recovery_receipt, _released_guarantees_exist).
DischargedMeansSettled ==
  guarantee = "released" =>
    \/ loan.status = "closed" /\ loan.balance = 0 /\ loan.penalty = 0
    \/ loan.status = "written_off" /\ recovered = Claim

\* The claim the committee wrote off is exactly what the history says was
\* owed, although it was fixed when requested and repayments, adjustments and
\* accruals went on until it was posted (corrections.py post_write_off).
ClaimIsWhatWasOwed ==
  loan.status = "written_off" =>
    writeOff.balance = OwedPrincipal /\ writeOff.penalty = OwedPenalty

\* A written-off loan is terminal: no repayment, adjustment, accrual or
\* reclassification touches it again, not even one that was under way
\* (domain/lending.py loan_transition).
WrittenOffIsFinal ==
  [][loan.status = "written_off" =>
       UNCHANGED <<loan, paid, repayments, accrued>> /\ Posted(adjustments') = Posted(adjustments)]_vars

\* The interest collected is never more than the schedule's interest that has
\* fallen due (loans.py _interest_due: "Accrued unpaid interest on
\* installments due on or before as_of").
InterestNeverOvercharged ==
  Standing("interest") <= Sum(InterestDue, DueBy(day))
=============================================================================
