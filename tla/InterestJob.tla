----------------------------- MODULE InterestJob -----------------------------
(***************************************************************************)
(* The quarterly deposit interest job (application/deposit_interest,       *)
(* domain/deposits, application/batch_runner in backend/src/genesis):      *)
(* runs that resume, overlap and die, accounts opened meanwhile, and       *)
(* accounting months that close before the quarter has been paid.          *)
(*                                                                         *)
(* A batch is a transaction of two steps: the scan's snapshot, then the    *)
(* row locks with the claims, the postings and the commit.  Between the    *)
(* two another run may have claimed an account that the scan found free.   *)
(*                                                                         *)
(* Abstractions.  An account either earns in every quarter or in none; the *)
(* average daily balance and the amount are data.  `outset' and a run's    *)
(* `first' are history: no action depends on them.                         *)
(***************************************************************************)
EXTENDS Integers, FiniteSets, FiniteSetsExt

CONSTANTS
  SavingsAccount,   \* deposit accounts, as numbers in id order
  Earning,          \* those with a balance to earn on
  OpenedAtStart,
  InterestRunner,   \* runs an officer may have under way
  AccrualBatch,     \* accounts per batch
  Rate,             \* annual rates the tenant may configure
  LastQuarter       \* bound on the calendar

ASSUME InterestAssumption ==
  /\ SavingsAccount \subseteq Nat \ {0} /\ IsFiniteSet(SavingsAccount)
  /\ Earning \subseteq SavingsAccount /\ OpenedAtStart \subseteq SavingsAccount
  /\ AccrualBatch \in Nat \ {0} /\ Rate \subseteq Nat \ {0} /\ LastQuarter \in Nat \ {0}

Quarters == 1..LastQuarter
NoRate == 0

VARIABLES
  quarter,     \* the last completed quarter
  annualRate,  \* the configured rate
  openedIn,    \* openedIn[a]: the quarter an account was opened in
  accrual,     \* accrual[q][a]: the rate of a's accrual row for q
  credited,    \* credited[q][a]: interest postings made to a for q
  frozen,      \* quarters whose last month is closed
  runner,      \* runner[r]: a run of the job; first: it found no accruals at all
  outset       \* the last quarter a first run accrued

interestVars == <<quarter, annualRate, openedIn, accrual, credited, frozen, runner, outset>>
interestBooks == <<accrual, credited, outset>>

NotOpened == LastQuarter + 1
Unaccrued == 0
Resting == [step |-> "rest"]

InterestInit ==
  /\ quarter = 1
  /\ annualRate = NoRate
  /\ openedIn = [a \in SavingsAccount |-> IF a \in OpenedAtStart THEN 0 ELSE NotOpened]
  /\ accrual = [q \in Quarters |-> [a \in SavingsAccount |-> Unaccrued]]
  /\ credited = [q \in Quarters |-> [a \in SavingsAccount |-> 0]]
  /\ frozen = {}
  /\ runner = [r \in InterestRunner |-> Resting]
  /\ outset = 0

Opened == {a \in SavingsAccount : openedIn[a] # NotOpened}

-----------------------------------------------------------------------------
(* Around the job.                                                         *)

ConfigureRate(x) ==
  /\ annualRate # x
  /\ annualRate' = x
  /\ UNCHANGED <<quarter, openedIn, interestBooks, frozen, runner>>

OpenAccount(a) ==
  /\ openedIn[a] = NotOpened
  /\ openedIn' = [openedIn EXCEPT ![a] = quarter + 1]
  /\ UNCHANGED <<quarter, annualRate, interestBooks, frozen, runner>>

\* A quarter ends, whoever is at work.
NextQuarter ==
  /\ quarter < LastQuarter
  /\ quarter' = quarter + 1
  /\ UNCHANGED <<annualRate, openedIn, interestBooks, frozen, runner>>

CloseQuarterEnd(q) ==
  /\ q \in 1..quarter /\ q \notin frozen
  /\ frozen' = frozen \union {q}
  /\ UNCHANGED <<quarter, annualRate, openedIn, interestBooks, runner>>

-----------------------------------------------------------------------------
(* A run.                                                                  *)

Accrued(q) == {a \in SavingsAccount : accrual[q][a] # Unaccrued}
Begun == {q \in Quarters : Accrued(q) # {}}
Pending(q) == Opened \ Accrued(q) # {}

\* Fault variant: the last accrued quarter is taken as finished.
NextPeriodInTurn(latest) == latest + 1
NextPeriod(latest) == IF Pending(latest) THEN latest ELSE latest + 1

ResolvedPeriod ==
  IF Begun = {} \/ Max(Begun) >= quarter THEN quarter ELSE NextPeriod(Max(Begun))

StartRun(r) ==
  /\ runner[r] = Resting
  /\ annualRate # NoRate
  /\ runner' = [runner EXCEPT ![r] =
       [step |-> "scan", q |-> ResolvedPeriod, rate |-> annualRate, after |-> 0,
        first |-> Begun = {}]]
  /\ UNCHANGED <<quarter, annualRate, openedIn, interestBooks, frozen>>

AccrualScan(r) ==
  /\ runner[r].step = "scan"
  /\ runner' = [runner EXCEPT ![r] =
       [step |-> "pay", q |-> @.q, rate |-> @.rate, after |-> @.after, first |-> @.first,
        found |-> {a \in Opened \ Accrued(@.q) : a > @.after}]]
  /\ UNCHANGED <<quarter, annualRate, openedIn, interestBooks, frozen>>

\* The accounts the batch locks: the first of those that no other session
\* holds, free, of the accounts found.
Batch(S) == {a \in S : Cardinality({b \in S : b < a}) < AccrualBatch}

\* Fault variant: the claim's conflict is not looked at.
ClaimedAlways(q, rows) == rows
Claimed(q, rows) == rows \ Accrued(q)

\* Interest is dated to the quarter's last instant: its month must be open.
Postable(q, claimed) == q \notin frozen \/ claimed \intersect Earning = {}

AccrualPay(r, free) ==
  LET w == runner[r]
      rows == Batch(free)
      claimed == Claimed(w.q, rows)
  IN
  /\ w.step = "pay" /\ free \subseteq w.found
  /\ Postable(w.q, claimed)
  /\ accrual' = [accrual EXCEPT ![w.q] =
       [a \in SavingsAccount |-> IF a \in claimed THEN w.rate ELSE @[a]]]
  /\ credited' = [credited EXCEPT ![w.q] =
       [a \in SavingsAccount |-> IF a \in claimed \intersect Earning THEN @[a] + 1 ELSE @[a]]]
  /\ runner' = [runner EXCEPT ![r] =
       IF Cardinality(rows) < AccrualBatch THEN Resting
       ELSE [step |-> "scan", q |-> w.q, rate |-> w.rate, after |-> Max(rows),
             first |-> w.first]]
  /\ outset' = IF w.first /\ claimed # {} /\ w.q > outset THEN w.q ELSE outset
  /\ UNCHANGED <<quarter, annualRate, openedIn, frozen>>

\* The open-period gate refuses the posting; the batch rolls back and the
\* run ends.
AccrualRefused(r, free) ==
  /\ runner[r].step = "pay" /\ free \subseteq runner[r].found
  /\ LET q == runner[r].q IN
     ~Postable(q, Claimed(q, Batch(free)))
  /\ runner' = [runner EXCEPT ![r] = Resting]
  /\ UNCHANGED <<quarter, annualRate, openedIn, interestBooks, frozen>>

RunDies(r) ==
  /\ runner[r] # Resting
  /\ runner' = [runner EXCEPT ![r] = Resting]
  /\ UNCHANGED <<quarter, annualRate, openedIn, interestBooks, frozen>>

InterestNext ==
  \/ \E x \in Rate : ConfigureRate(x)
  \/ \E a \in SavingsAccount : OpenAccount(a)
  \/ NextQuarter
  \/ \E q \in Quarters : CloseQuarterEnd(q)
  \/ \E r \in InterestRunner : StartRun(r) \/ AccrualScan(r) \/ RunDies(r)
  \/ \E r \in InterestRunner, free \in SUBSET SavingsAccount :
       AccrualPay(r, free) \/ AccrualRefused(r, free)

InterestSpec == InterestInit /\ [][InterestNext]_interestVars

-----------------------------------------------------------------------------

(* Whatever overlaps or dies, an account is credited for a quarter once,   *)
(* exactly when it has an accrual row and something to earn on.            *)
InterestOncePerQuarter ==
  \A q \in Quarters, a \in SavingsAccount :
    credited[q][a] = (IF a \in Accrued(q) \intersect Earning THEN 1 ELSE 0)

\* Every account opened by the end of q has its row for it.
Finished(q) == \A a \in SavingsAccount : openedIn[a] <= q => a \in Accrued(q)

(* The strict order of resolve_period, from the last quarter on that was   *)
(* accrued by a run which had found no accruals: once a later quarter has  *)
(* been begun, every one before it is finished.  Runs that overlap, that   *)
(* die or that span the end of a quarter do not overtake it, nor does a    *)
(* quarter that a closed month blocks.                                     *)
NoQuarterSkipped ==
  \A q, later \in Quarters :
    outset <= q /\ q < later /\ later \in Begun => Finished(q)

(* What the docstring says, without that restriction, and only of quarters *)
(* no run is at work on: a quarter that was begun is finished before the   *)
(* job goes on to another for good.  Two first runs on both sides of the   *)
(* end of a quarter do not know of each other.                             *)
NoQuarterAbandoned ==
  \A q, later \in Begun :
    q < later /\ (\A r \in InterestRunner : runner[r] = Resting \/ runner[r].q # q)
    => Finished(q)

=============================================================================
