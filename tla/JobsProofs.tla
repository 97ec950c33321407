------------------------------ MODULE JobsProofs ------------------------------
(***************************************************************************)
(* Proofs about the background jobs and the outbox, for any members,       *)
(* accounts, events, workers, batch sizes and bounds.                      *)
(*                                                                         *)
(* Interest.  The claims of a batch are compared with the accruals at the  *)
(* commit, so two runs that scanned the same account cannot both credit    *)
(* it; what makes that inductive is that a claim always leaves a row,      *)
(* which needs a rate above zero.  A run that found accruals works at a    *)
(* quarter whose predecessors are finished, from the outset on; a run that *)
(* found none may begin any, but then moves the outset there.              *)
(*                                                                         *)
(* Exports.  What a job has kept is an initial segment of its snapshot,    *)
(* shorter than the cap while it reads on.  The one row more than it may   *)
(* keep tells the end of the report from the cap.                          *)
(*                                                                         *)
(* Dormancy.  What a scan found was quiet when it read the ledger, and the *)
(* rows a transaction holds stay as it saw them, because the job skips     *)
(* them.                                                                   *)
(*                                                                         *)
(* Recovery.  The close pass judges a case again when it locks the row,    *)
(* and no officer's action but the outcome note is open to a closed one.   *)
(*                                                                         *)
(* Branches.  Whatever a run still has to link lies in its batch with the  *)
(* text it scanned, or behind a full batch, which sends the run on.        *)
(*                                                                         *)
(* Snapshots.  Every event is dated in the current month and a snapshot    *)
(* speaks of an elapsed one, so the books of its month do not change any   *)
(* more; before the first correction the date a loan was closed on says    *)
(* from which month on the receipts cover it.                              *)
(*                                                                         *)
(* The outbox.  Three counts are tied together: what a row says, what a    *)
(* worker read when it claimed the row, and the failed calls there really  *)
(* were.  Leases may run out under a live worker.                          *)
(***************************************************************************)
EXTENDS InterestJob, Exports, Dormancy, Recovery, Branches, Snapshots, OutboxWorker, SetLemmas,
        TLAPS

-----------------------------------------------------------------------------
(* Interest: credited once.                                                *)

BooksTyped ==
  /\ accrual \in [Quarters -> [SavingsAccount -> Nat]]
  /\ credited \in [Quarters -> [SavingsAccount -> Nat]]

\* A run works at a configured rate.
RatesPositive ==
  /\ annualRate \in Rate \union {NoRate}
  /\ DOMAIN runner = InterestRunner
  /\ \A r \in InterestRunner : runner[r].step # "rest" => runner[r].rate \in Rate

CreditInv == BooksTyped /\ RatesPositive /\ InterestOncePerQuarter

LEMMA CreditInitInd == InterestInit => CreditInv
  BY InterestAssumption DEF InterestInit, CreditInv, BooksTyped, RatesPositive,
     InterestOncePerQuarter, Accrued, Unaccrued, Resting, NoRate

\* Around the job, and as long as a run only reads, the books stay.
LEMMA BooksKept ==
  ASSUME CreditInv, UNCHANGED interestBooks PROVE BooksTyped' /\ InterestOncePerQuarter'
  BY DEF CreditInv, BooksTyped, InterestOncePerQuarter, Accrued, interestBooks

\* A commit: the claimed accounts had no row and get one, and one credit each
\* if they earn.
LEMMA PayInd ==
  ASSUME CreditInv, NEW r \in InterestRunner, NEW free \in SUBSET SavingsAccount, AccrualPay(r, free)
  PROVE  CreditInv'
<1> DEFINE w == runner[r]
           rows == Batch(free)
           claimed == Claimed(w.q, rows)
<1>1. w.step = "pay" /\ w.rate \in Rate /\ w.rate \in Nat \ {0}
  BY InterestAssumption DEF AccrualPay, CreditInv, RatesPositive
<1>2. claimed \subseteq SavingsAccount \ Accrued(w.q)
  BY DEF Claimed, Batch
<1>3. /\ accrual' = [accrual EXCEPT ![w.q] =
            [a \in SavingsAccount |-> IF a \in claimed THEN w.rate ELSE accrual[w.q][a]]]
      /\ credited' = [credited EXCEPT ![w.q] =
            [a \in SavingsAccount |->
               IF a \in claimed \intersect Earning THEN credited[w.q][a] + 1 ELSE credited[w.q][a]]]
  BY DEF AccrualPay
<1>4. BooksTyped'
  <2> HIDE DEF rows, claimed
  <2>1. CASE w.q \notin Quarters
    <3>1. accrual' = accrual /\ credited' = credited
      BY <1>3, <2>1 DEF CreditInv, BooksTyped
    <3> QED BY <3>1 DEF CreditInv, BooksTyped
  <2>2. CASE w.q \in Quarters
    <3>1. accrual[w.q] \in [SavingsAccount -> Nat] /\ credited[w.q] \in [SavingsAccount -> Nat]
      BY <2>2 DEF CreditInv, BooksTyped
    <3>2. [a \in SavingsAccount |-> IF a \in claimed THEN w.rate ELSE accrual[w.q][a]]
             \in [SavingsAccount -> Nat]
      BY <1>1, <3>1
    <3>3. [a \in SavingsAccount |->
             IF a \in claimed \intersect Earning THEN credited[w.q][a] + 1 ELSE credited[w.q][a]]
             \in [SavingsAccount -> Nat]
      BY <3>1
    <3> QED BY <1>3, <2>2, <3>2, <3>3 DEF CreditInv, BooksTyped
  <2> QED BY <2>1, <2>2
<1>5. ASSUME NEW q \in Quarters, NEW a \in SavingsAccount
      PROVE  credited'[q][a] = (IF a \in (Accrued(q))' \intersect Earning THEN 1 ELSE 0)
  <2>1. credited[q][a] = (IF a \in Accrued(q) \intersect Earning THEN 1 ELSE 0)
    BY DEF CreditInv, InterestOncePerQuarter
  <2>2. CASE q = w.q /\ a \in claimed
    <3>1. accrual'[q][a] = w.rate /\ a \notin Accrued(q)
      BY <1>2, <1>3, <2>2 DEF CreditInv, BooksTyped
    <3>2. credited'[q][a] = (IF a \in Earning THEN credited[q][a] + 1 ELSE credited[q][a])
      BY <1>3, <2>2 DEF CreditInv, BooksTyped
    <3> QED BY <1>1, <2>1, <3>1, <3>2 DEF Accrued, Unaccrued
  <2>3. CASE ~(q = w.q /\ a \in claimed)
    <3>1. accrual'[q][a] = accrual[q][a] /\ credited'[q][a] = credited[q][a]
      BY <1>3, <2>3 DEF CreditInv, BooksTyped
    <3> QED BY <2>1, <3>1 DEF Accrued
  <2> QED BY <2>2, <2>3
<1>6. RatesPositive'
  BY <1>1 DEF AccrualPay, CreditInv, RatesPositive, Resting
<1> QED BY <1>4, <1>5, <1>6 DEF CreditInv, InterestOncePerQuarter

LEMMA CreditNextInd == CreditInv /\ [InterestNext]_interestVars => CreditInv'
<1> SUFFICES ASSUME CreditInv, [InterestNext]_interestVars PROVE CreditInv'
  OBVIOUS
<1>1. ASSUME NEW x \in Rate, ConfigureRate(x) PROVE CreditInv'
  BY <1>1, BooksKept DEF CreditInv, ConfigureRate, RatesPositive
<1>2. ASSUME NEW a \in SavingsAccount, OpenAccount(a) PROVE CreditInv'
  BY <1>2, BooksKept DEF CreditInv, OpenAccount, RatesPositive
<1>3. CASE NextQuarter
  BY <1>3, BooksKept DEF CreditInv, NextQuarter, RatesPositive
<1>4. ASSUME NEW q \in Quarters, CloseQuarterEnd(q) PROVE CreditInv'
  BY <1>4, BooksKept DEF CreditInv, CloseQuarterEnd, RatesPositive
<1>5. ASSUME NEW r \in InterestRunner, StartRun(r) PROVE CreditInv'
  <2>1. annualRate \in Rate
    BY <1>5 DEF StartRun, CreditInv, RatesPositive
  <2> QED BY <1>5, <2>1, BooksKept DEF CreditInv, StartRun, RatesPositive
<1>6. ASSUME NEW r \in InterestRunner, AccrualScan(r) PROVE CreditInv'
  BY <1>6, BooksKept DEF CreditInv, AccrualScan, RatesPositive
<1>7. ASSUME NEW r \in InterestRunner, NEW free \in SUBSET SavingsAccount, AccrualRefused(r, free)
      PROVE CreditInv'
  BY <1>7, BooksKept DEF CreditInv, AccrualRefused, RatesPositive, Resting
<1>8. ASSUME NEW r \in InterestRunner, RunDies(r) PROVE CreditInv'
  BY <1>8, BooksKept DEF CreditInv, RunDies, RatesPositive, Resting
<1>9. CASE UNCHANGED interestVars
  BY <1>9, BooksKept DEF CreditInv, interestVars, interestBooks, RatesPositive
<1>10. ASSUME NEW r \in InterestRunner, NEW free \in SUBSET SavingsAccount, AccrualPay(r, free)
      PROVE CreditInv'
  BY <1>10, PayInd
<1> HIDE DEF CreditInv
<1> QED
  BY ONLY <1>1, <1>2, <1>3, <1>4, <1>5, <1>6, <1>7, <1>8, <1>9, <1>10, [InterestNext]_interestVars,
     Zenon DEF InterestNext

\* However runs overlap, resume and die, an account is credited once for a
\* quarter, exactly when it has an accrual row and something to earn on.
THEOREM CreditedOnce == InterestSpec => []InterestOncePerQuarter
<1>1. CreditInv => InterestOncePerQuarter
  BY DEF CreditInv
<1> QED BY CreditInitInd, CreditNextInd, <1>1, PTL DEF InterestSpec
-----------------------------------------------------------------------------
(* No quarter is skipped.                                                  *)

\* From the outset on, all before q are finished.
FinishedBefore(q) == \A p \in Quarters : outset <= p /\ p < q => Finished(p)

\* The calendar, and what lies in the future of it; once anything was begun
\* the outset is a begun quarter.
CalendarTyped ==
  /\ quarter \in Quarters
  /\ openedIn \in [SavingsAccount -> 0..NotOpened]
  /\ \A q \in Begun : q <= quarter
  /\ IF Begun = {} THEN outset = 0 ELSE outset \in Begun

\* A run that found accruals works at a quarter whose predecessors are finished.
RunsInTurn ==
  /\ DOMAIN runner = InterestRunner
  /\ \A r \in InterestRunner : runner[r] # Resting =>
       /\ runner[r].q \in 1..quarter
       /\ ~runner[r].first => Begun # {} /\ FinishedBefore(runner[r].q)

TurnInv ==
  /\ BooksTyped /\ RatesPositive /\ CalendarTyped /\ RunsInTurn
  /\ \A q \in Begun : FinishedBefore(q)

LEMMA TurnInitInd == InterestInit => TurnInv
<1> SUFFICES ASSUME InterestInit PROVE TurnInv
  OBVIOUS
<1>1. BooksTyped /\ RatesPositive
  BY CreditInitInd DEF CreditInv
<1>2. Begun = {}
  BY DEF InterestInit, Begun, Accrued
<1>3. CalendarTyped
  BY <1>2, InterestAssumption DEF InterestInit, CalendarTyped, Quarters, NotOpened
<1>4. RunsInTurn
  BY DEF InterestInit, RunsInTurn
<1> QED BY <1>1, <1>2, <1>3, <1>4 DEF TurnInv

LEMMA BegunQuarters ==
  ASSUME CalendarTyped
  PROVE  /\ Begun \in SUBSET Nat /\ IsFiniteSet(Begun) /\ Begun \subseteq Quarters
         /\ quarter \in Nat /\ quarter >= 1 /\ LastQuarter \in Nat /\ 1..quarter \subseteq Quarters
         /\ NotOpened \in Nat /\ NotOpened > quarter
<1>1. IsFiniteSet(Quarters)
  BY InterestAssumption, FS_Interval DEF Quarters
<1>2. Begun \subseteq Quarters /\ Quarters \subseteq Nat
  BY InterestAssumption DEF Begun, Quarters
<1>3. IsFiniteSet(Begun)
  BY <1>1, <1>2, FS_Subset
<1>4. quarter \in 1..LastQuarter /\ LastQuarter \in Nat
  BY InterestAssumption DEF CalendarTyped, Quarters
<1> QED BY <1>2, <1>3, <1>4 DEF Quarters, NotOpened

\* The quarter a run resolves to has its predecessors finished.
LEMMA ResolvedInTurn ==
  ASSUME TurnInv
  PROVE  /\ ResolvedPeriod \in 1..quarter
         /\ Begun # {} => FinishedBefore(ResolvedPeriod)
<1> DEFINE last == Max(Begun)
<1>1. ResolvedPeriod = IF Begun = {} \/ last >= quarter THEN quarter ELSE NextPeriod(last)
  BY DEF ResolvedPeriod
<1>2. CalendarTyped /\ \A q \in Begun : FinishedBefore(q) /\ q <= quarter
  BY DEF TurnInv, CalendarTyped
<1>3. CASE Begun = {}
  BY <1>1, <1>2, <1>3, BegunQuarters
<1>4. CASE Begun # {}
  <2>1. last \in Begun /\ last \in Quarters /\ last \in 1..quarter
    <3>1. last \in Begun
      BY <1>2, <1>4, BegunQuarters, GreatestElement
    <3>2. last \in Quarters /\ last <= quarter
      BY <1>2, <3>1, BegunQuarters
    <3> QED BY <1>2, <3>1, <3>2, BegunQuarters, InterestAssumption DEF Quarters
  <2> HIDE DEF last
  <2>2. CASE last = quarter
    BY <1>1, <1>2, <1>4, <2>1, <2>2, BegunQuarters
  <2>3. CASE last # quarter /\ Pending(last)
    <3>1. ResolvedPeriod = last
      BY <1>1, <1>2, <1>4, <2>1, <2>3, BegunQuarters DEF NextPeriod
    <3> QED BY <1>2, <1>4, <2>1, <3>1
  <2>4. CASE last # quarter /\ ~Pending(last)
    <3>1. ResolvedPeriod = last + 1 /\ last + 1 \in 1..quarter /\ last <= last + 1
      BY <1>1, <1>2, <1>4, <2>1, <2>4, BegunQuarters DEF NextPeriod
    <3>2. Finished(last)
      <4>1. ASSUME NEW a \in SavingsAccount, openedIn[a] <= last PROVE openedIn[a] # NotOpened
        BY <1>2, <2>1, <4>1, BegunQuarters DEF CalendarTyped
      <4> QED BY <2>4, <4>1 DEF Pending, Opened, Finished
    <3>3. ASSUME NEW p \in Quarters, outset <= p, p < last + 1 PROVE Finished(p)
      <4>1. p = last \/ p < last
        BY <1>2, <2>1, <3>3, BegunQuarters DEF Quarters
      <4>2. CASE p = last
        BY <3>2, <4>2
      <4>3. CASE p < last
        BY <1>2, <2>1, <3>3, <4>3 DEF FinishedBefore
      <4> QED BY <4>1, <4>2, <4>3
    <3>4. FinishedBefore(last + 1)
      BY <3>3 DEF FinishedBefore
    <3> QED BY <1>4, <2>1, <3>1, <3>4
  <2> QED BY <2>2, <2>3, <2>4
<1> QED BY <1>3, <1>4

\* What the calendar, rates and closed months do not touch.
LEMMA RowsStay ==
  ASSUME TurnInv, UNCHANGED <<accrual, credited, openedIn, outset>>
  PROVE  /\ BooksTyped' /\ Begun' = Begun
         /\ \A q : FinishedBefore(q)' <=> FinishedBefore(q)
  BY DEF TurnInv, BooksTyped, Begun, FinishedBefore, Finished, Accrued

LEMMA StartRunTurn == ASSUME TurnInv, NEW r \in InterestRunner, StartRun(r) PROVE TurnInv'
<1>1. BooksTyped' /\ Begun' = Begun /\ \A q : FinishedBefore(q)' <=> FinishedBefore(q)
  BY RowsStay DEF StartRun, interestBooks
<1>2. annualRate \in Rate
  BY DEF StartRun, TurnInv, RatesPositive
<1>3. RatesPositive'
  BY <1>2 DEF StartRun, TurnInv, RatesPositive
<1>4. RunsInTurn'
  <2>1. runner' = [runner EXCEPT ![r] = [step |-> "scan", q |-> ResolvedPeriod,
                                              rate |-> annualRate, after |-> 0, first |-> Begun = {}]]
    BY DEF StartRun
  <2>2. PICK k \in 1..quarter : k = ResolvedPeriod /\ (Begun # {} => FinishedBefore(k))
    BY ResolvedInTurn
  <2>3. ASSUME NEW s \in InterestRunner, runner'[s] # Resting, NEW j, j = runner'[s].q
        PROVE  j \in 1..quarter /\ (~runner'[s].first => Begun # {} /\ FinishedBefore(j))
    <3>1. CASE s = r
      <4>1. j = k /\ runner'[s].first = (Begun = {})
        BY <2>1, <2>2, <2>3, <3>1 DEF TurnInv, RunsInTurn
      <4> QED BY <2>2, <4>1
    <3>2. CASE s # r
      BY <2>1, <2>3, <3>2 DEF TurnInv, RunsInTurn
    <3> QED BY <3>1, <3>2
  <2>4. DOMAIN runner' = InterestRunner /\ quarter' = quarter
    BY <2>1 DEF StartRun, TurnInv, RunsInTurn
  <2> QED BY <1>1, <2>3, <2>4 DEF RunsInTurn
<1>5. CalendarTyped'
  BY <1>1 DEF StartRun, interestBooks, TurnInv, CalendarTyped
<1> QED BY <1>1, <1>3, <1>4, <1>5 DEF TurnInv

LEMMA AccrualScanTurn == ASSUME TurnInv, NEW r \in InterestRunner, AccrualScan(r) PROVE TurnInv'
<1>1. BooksTyped' /\ Begun' = Begun /\ \A q : FinishedBefore(q)' <=> FinishedBefore(q)
  BY RowsStay DEF AccrualScan, interestBooks
<1>2. RatesPositive'
  BY DEF AccrualScan, TurnInv, RatesPositive
<1>3. RunsInTurn'
  <2>1. runner[r] # Resting
    BY DEF AccrualScan, Resting
  <2>2. \E w : w.q = runner[r].q /\ w.first = runner[r].first /\ runner' = [runner EXCEPT ![r] = w]
    BY DEF AccrualScan
  <2> QED BY <1>1, <2>1, <2>2 DEF AccrualScan, TurnInv, RunsInTurn
<1>4. CalendarTyped'
  BY <1>1 DEF AccrualScan, interestBooks, TurnInv, CalendarTyped
<1> QED BY <1>1, <1>2, <1>3, <1>4 DEF TurnInv

LEMMA RestTurn ==
  ASSUME TurnInv, NEW r \in InterestRunner, runner' = [runner EXCEPT ![r] = Resting],
         UNCHANGED <<quarter, annualRate, openedIn, interestBooks>>
  PROVE  TurnInv'
<1>1. BooksTyped' /\ Begun' = Begun /\ \A q : FinishedBefore(q)' <=> FinishedBefore(q)
  BY RowsStay DEF interestBooks
<1>2. RatesPositive'
  BY DEF TurnInv, RatesPositive, Resting
<1>3. RunsInTurn'
  BY <1>1 DEF TurnInv, RunsInTurn
<1>4. CalendarTyped'
  BY <1>1 DEF interestBooks, TurnInv, CalendarTyped
<1> QED BY <1>1, <1>2, <1>3, <1>4 DEF TurnInv

LEMMA OpenAccountTurn == ASSUME TurnInv, NEW a \in SavingsAccount, OpenAccount(a) PROVE TurnInv'
<1>1. quarter \in Nat /\ LastQuarter \in Nat /\ quarter <= LastQuarter /\ NotOpened = LastQuarter + 1
  BY InterestAssumption DEF TurnInv, CalendarTyped, Quarters, NotOpened
<1>2. Begun' = Begun /\ BooksTyped' /\ outset' = outset /\ \A q : Accrued(q)' = Accrued(q)
  BY DEF OpenAccount, interestBooks, TurnInv, BooksTyped, Begun, Accrued
<1>3. openedIn' = [openedIn EXCEPT ![a] = quarter + 1]
  BY DEF OpenAccount
<1>4. CalendarTyped'
  BY <1>1, <1>2, <1>3 DEF OpenAccount, TurnInv, CalendarTyped
<1>5. ASSUME NEW q \in 1..quarter, FinishedBefore(q) PROVE FinishedBefore(q)'
  <2>1. ASSUME NEW p \in Quarters, outset <= p, p < q, NEW c \in SavingsAccount, openedIn'[c] <= p
        PROVE  c \in Accrued(p)
    <3>1. c # a
      BY <1>1, <1>3, <2>1, InterestAssumption DEF TurnInv, CalendarTyped, Quarters
    <3> QED BY <1>3, <1>5, <2>1, <3>1 DEF FinishedBefore, Finished, TurnInv, CalendarTyped
  <2> QED BY <1>2, <2>1 DEF FinishedBefore, Finished
<1>6. \A q \in Begun : q \in 1..quarter /\ FinishedBefore(q)'
  BY <1>1, <1>5, InterestAssumption DEF TurnInv, CalendarTyped, Begun, Quarters
<1>7. RunsInTurn'
  BY <1>2, <1>5 DEF OpenAccount, TurnInv, RunsInTurn
<1>8. RatesPositive'
  BY DEF OpenAccount, TurnInv, RatesPositive
<1> QED BY <1>2, <1>4, <1>6, <1>7, <1>8 DEF TurnInv

\* A commit only adds rows; a first run's begins a quarter at the outset or
\* moves the outset to it, any other's has nothing unfinished before it.
LEMMA AccrualPayTurn ==
  ASSUME TurnInv, InterestOncePerQuarter, NEW r \in InterestRunner, NEW free \in SUBSET SavingsAccount,
         AccrualPay(r, free)
  PROVE  TurnInv'
<1> DEFINE w == runner[r]
           claimed == Claimed(w.q, Batch(free))
<1>1. BooksTyped' /\ RatesPositive'
  BY PayInd DEF CreditInv, TurnInv
<1>2. /\ w # Resting /\ w.rate \in Nat \ {0} /\ w.q \in 1..quarter /\ w.q \in Quarters
      /\ w.q \in Nat \ {0} /\ outset \in Nat
      /\ ~w.first => Begun # {} /\ FinishedBefore(w.q)
  <2>1. w.step = "pay" /\ w # Resting
    BY DEF AccrualPay, Resting
  <2>2. w.rate \in Nat \ {0}
    BY <2>1, InterestAssumption DEF TurnInv, RatesPositive
  <2>3. w.q \in 1..quarter /\ (~w.first => Begun # {} /\ FinishedBefore(w.q))
    BY <2>1 DEF TurnInv, RunsInTurn
  <2>4. w.q \in Quarters /\ w.q \in Nat \ {0}
    BY <2>3, BegunQuarters DEF TurnInv
  <2>5. outset \in Nat
    BY BegunQuarters DEF TurnInv, CalendarTyped
  <2> QED BY <2>1, <2>2, <2>3, <2>4, <2>5
<1>3. /\ accrual' = [accrual EXCEPT ![w.q] =
            [a \in SavingsAccount |-> IF a \in claimed THEN w.rate ELSE accrual[w.q][a]]]
      /\ outset' = IF w.first /\ claimed # {} /\ w.q > outset THEN w.q ELSE outset
      /\ openedIn' = openedIn /\ quarter' = quarter
      /\ claimed \subseteq SavingsAccount
  BY DEF AccrualPay, Claimed, Batch
<1>m. PICK m \in Quarters : m = w.q
  BY <1>2
<1>n. PICK n \in SUBSET SavingsAccount : n = claimed
  BY <1>3
<1> HIDE DEF claimed
<1>4. /\ \A q \in Quarters : Accrued(q) \subseteq Accrued(q)'
      /\ \A q \in Quarters : q # m => Accrued(q)' = Accrued(q)
      /\ n \subseteq Accrued(m)'
  BY <1>2, <1>3, <1>m, <1>n DEF TurnInv, BooksTyped, Accrued, Unaccrued
<1>5. /\ Begun \subseteq Begun' /\ Begun' \subseteq Begun \union {m}
      /\ n = {} => Begun' = Begun
      /\ n # {} => m \in Begun'
  <2>1. Begun \subseteq Begun' /\ Begun' \subseteq Begun \union {m}
    BY <1>4 DEF Begun
  <2>2. n # {} => m \in Begun'
    BY <1>4 DEF Begun
  <2>3. n = {} => Begun' = Begun
    <3>1. n = {} => \A q \in Quarters : Accrued(q)' = Accrued(q)
      BY <1>2, <1>3, <1>m, <1>n DEF TurnInv, BooksTyped, Accrued
    <3> QED BY <3>1 DEF Begun
  <2> QED BY <2>1, <2>2, <2>3
<1>6. outset <= outset' /\ outset' \in Nat
  BY <1>2, <1>3
<1>7. ASSUME NEW q \in 1..quarter, FinishedBefore(q) PROVE FinishedBefore(q)'
  <2>1. ASSUME NEW p \in Quarters, outset' <= p, p < q PROVE Finished(p)'
    <3>1. outset <= p
      BY <1>2, <1>6, <2>1, InterestAssumption DEF Quarters
    <3>2. Finished(p)
      BY <1>7, <2>1, <3>1 DEF FinishedBefore
    <3> QED BY <1>3, <1>4, <3>2 DEF Finished
  <2> QED BY <2>1 DEF FinishedBefore
<1>8. n # {} => FinishedBefore(m)'
  <2>1. CASE ~w.first
    BY <1>2, <1>7, <1>m, <2>1
  <2>2. CASE w.first /\ n # {}
    <3>1. m <= outset' /\ m \in Nat
      BY <1>2, <1>3, <1>m, <1>n, <2>2
    <3>2. \A p \in Quarters : p \in Nat
      BY InterestAssumption DEF Quarters
    <3>3. \A p \in Quarters : ~(outset' <= p /\ p < m)
      BY <1>6, <3>1, <3>2
    <3> QED BY <3>3 DEF FinishedBefore
  <2> QED BY <2>1, <2>2
<1>9. \A q \in Begun' : q \in 1..quarter /\ FinishedBefore(q)'
  <2>1. \A q \in Begun : q \in 1..quarter /\ FinishedBefore(q)
    BY BegunQuarters, InterestAssumption DEF TurnInv, CalendarTyped, Quarters
  <2>2. m \in 1..quarter /\ (n = {} => m \notin Begun' \/ m \in Begun)
    BY <1>2, <1>5, <1>m
  <2>3. ASSUME NEW q \in Begun' PROVE q \in 1..quarter /\ FinishedBefore(q)'
    <3>1. CASE q \in Begun
      BY <1>7, <2>1, <3>1
    <3>2. CASE q = m /\ q \notin Begun
      BY <1>8, <2>2, <2>3, <3>2
    <3> QED BY <1>5, <2>3, <3>1, <3>2
  <2> QED BY <2>3
<1>10. CalendarTyped'
  <2>1. \A q \in Begun' : q <= quarter
    BY <1>9, BegunQuarters DEF TurnInv
  <2>2. IF Begun' = {} THEN outset' = 0 ELSE outset' \in Begun'
    <3>1. CASE n = {}
      BY <1>3, <1>5, <1>n, <3>1 DEF TurnInv, CalendarTyped
    <3>2. CASE n # {} /\ Begun = {}
      <4>1. w.first /\ outset = 0
        BY <1>2, <3>2 DEF TurnInv, CalendarTyped
      <4> QED BY <1>2, <1>3, <1>5, <1>m, <1>n, <3>2, <4>1
    <3>3. CASE n # {} /\ Begun # {}
      BY <1>3, <1>5, <1>m, <1>n, <3>3 DEF TurnInv, CalendarTyped
    <3> QED BY <3>1, <3>2, <3>3
  <2> QED BY <1>3, <2>1, <2>2 DEF TurnInv, CalendarTyped
<1>11. RunsInTurn'
  <2>1. runner' = [runner EXCEPT ![r] = Resting]
        \/ \E x : x.q = w.q /\ x.first = w.first /\ runner' = [runner EXCEPT ![r] = x]
    BY DEF AccrualPay
  <2>2. ASSUME NEW s \in InterestRunner, runner[s] # Resting, NEW k, k = runner[s].q
        PROVE  k \in 1..quarter /\ (~runner[s].first => Begun' # {} /\ FinishedBefore(k)')
    <3>1. k \in 1..quarter /\ (~runner[s].first => Begun # {} /\ FinishedBefore(k))
      BY <2>2 DEF TurnInv, RunsInTurn
    <3> QED BY <1>5, <1>7, <3>1
  <2>3. DOMAIN runner = InterestRunner
    BY DEF TurnInv, RunsInTurn
  <2>4. \A s \in InterestRunner : runner'[s] # Resting =>
          runner[s] # Resting /\ runner'[s].q = runner[s].q /\ runner'[s].first = runner[s].first
    BY <1>2, <2>1, <2>3
  <2>5. DOMAIN runner' = InterestRunner
    BY <2>1, <2>3
  <2> QED BY <1>3, <2>2, <2>4, <2>5 DEF RunsInTurn
<1> QED BY <1>1, <1>9, <1>10, <1>11 DEF TurnInv

LEMMA TurnNextInd ==
  ASSUME TurnInv, InterestOncePerQuarter, [InterestNext]_interestVars PROVE TurnInv'
<1>1. ASSUME NEW x \in Rate, ConfigureRate(x) PROVE TurnInv'
  BY <1>1, RowsStay DEF ConfigureRate, interestBooks, TurnInv, RatesPositive, CalendarTyped, RunsInTurn
<1>2. ASSUME NEW a \in SavingsAccount, OpenAccount(a) PROVE TurnInv'
  BY <1>2, OpenAccountTurn
<1>3. CASE NextQuarter
  <2>1. BooksTyped' /\ Begun' = Begun /\ \A q : FinishedBefore(q)' <=> FinishedBefore(q)
    BY <1>3, RowsStay DEF NextQuarter, interestBooks
  <2>2. RatesPositive'
    BY <1>3 DEF NextQuarter, TurnInv, RatesPositive
  <2>3. RunsInTurn'
    <3>1. 1..quarter \subseteq 1..quarter' /\ runner' = runner
      BY <1>3, BegunQuarters DEF NextQuarter, TurnInv
    <3> QED BY <2>1, <3>1 DEF TurnInv, RunsInTurn
  <2>4. CalendarTyped'
    BY <1>3, <2>1, BegunQuarters, InterestAssumption
       DEF NextQuarter, interestBooks, TurnInv, CalendarTyped, Quarters
  <2> QED BY <2>1, <2>2, <2>3, <2>4 DEF TurnInv
<1>4. ASSUME NEW q \in Quarters, CloseQuarterEnd(q) PROVE TurnInv'
  BY <1>4, RowsStay DEF CloseQuarterEnd, interestBooks, TurnInv, RatesPositive, CalendarTyped, RunsInTurn
<1>5. ASSUME NEW r \in InterestRunner, NEW free \in SUBSET SavingsAccount, AccrualRefused(r, free)
      PROVE  TurnInv'
  BY <1>5, RestTurn DEF AccrualRefused
<1>6. ASSUME NEW r \in InterestRunner, RunDies(r) PROVE TurnInv'
  BY <1>6, RestTurn DEF RunDies
<1>7. CASE UNCHANGED interestVars
  BY <1>7, RowsStay DEF interestVars, interestBooks, TurnInv, RatesPositive, CalendarTyped, RunsInTurn
<1> HIDE DEF TurnInv
<1>8. ASSUME NEW r \in InterestRunner, StartRun(r) PROVE TurnInv'
  BY <1>8, StartRunTurn
<1>9. ASSUME NEW r \in InterestRunner, AccrualScan(r) PROVE TurnInv'
  BY <1>9, AccrualScanTurn
<1>10. ASSUME NEW r \in InterestRunner, NEW free \in SUBSET SavingsAccount, AccrualPay(r, free)
       PROVE  TurnInv'
  BY <1>10, AccrualPayTurn
<1> QED
  BY ONLY <1>1, <1>2, <1>3, <1>4, <1>5, <1>6, <1>7, <1>8, <1>9, <1>10, [InterestNext]_interestVars,
     Zenon DEF InterestNext

\* For any accounts, runs and batch size, whatever overlaps, dies or spans a
\* quarter's end and whichever months are closed: from the outset on, no
\* quarter is begun before its predecessors are finished.
THEOREM QuartersInTurn == InterestSpec => []NoQuarterSkipped
<1>1. TurnInv => NoQuarterSkipped
  BY DEF TurnInv, FinishedBefore, NoQuarterSkipped
<1>2. TurnInv /\ InterestOncePerQuarter /\ [InterestNext]_interestVars => TurnInv'
  BY TurnNextInd
<1> QED BY TurnInitInd, <1>1, <1>2, CreditedOnce, PTL DEF InterestSpec

-----------------------------------------------------------------------------
(* Background exports.                                                     *)

Below(S, r) == {q \in S : q < r}

LEMMA BelowFinite ==
  ASSUME NEW S, IsFiniteSet(S), NEW r
  PROVE  IsFiniteSet(Below(S, r)) /\ Cardinality(Below(S, r)) \in Nat
<1>1. Below(S, r) \subseteq S
  BY DEF Below
<1> QED BY <1>1, FS_Subset, FS_CardinalityType

\* An initial segment of the rows.
Leads(K, S) == K \subseteq S /\ \A k \in K, r \in S : r < k => r \in K

\* The first n rows lead, are n at most, and fewer only when they are all.
LEMMA FirstRows ==
  ASSUME NEW S \in SUBSET Nat, IsFiniteSet(S), NEW n \in Nat
  PROVE  /\ Leads(First(n, S), S)
         /\ IsFiniteSet(First(n, S)) /\ Cardinality(First(n, S)) \in Nat
         /\ Cardinality(First(n, S)) <= n
         /\ First(n, S) = S \/ Cardinality(First(n, S)) = n
<1> DEFINE F == First(n, S)
<1>1. \A r : r \in F <=> r \in S /\ Cardinality(Below(S, r)) < n
  BY DEF First, Below
<1> HIDE DEF F
<1>2. F \subseteq S /\ IsFiniteSet(F) /\ Cardinality(F) \in Nat
  BY <1>1, FS_Subset, FS_CardinalityType
<1>3. Leads(F, S)
  <2>1. ASSUME NEW k \in F, NEW r \in S, r < k PROVE r \in F
    <3>1. Below(S, r) \subseteq Below(S, k)
      <4>1. ASSUME NEW q \in S, q < r PROVE q < k
        <5>1. q \in Nat /\ r \in Nat /\ k \in Nat
          BY <1>2
        <5> QED BY <2>1, <4>1, <5>1
      <4> QED BY <4>1 DEF Below
    <3>2. Cardinality(Below(S, r)) <= Cardinality(Below(S, k))
      BY <3>1, BelowFinite, FS_Subset
    <3> QED BY <1>1, <3>2, BelowFinite
  <2> QED BY <1>2, <2>1 DEF Leads
<1>4. Cardinality(F) <= n
  <2>1. CASE F = {}
    BY <2>1, FS_EmptySet
  <2>2. CASE F # {}
    <3> DEFINE m == Max(F)
    <3>1. m \in F /\ \A y \in F : m >= y
      BY <1>2, <2>2, GreatestElement
    <3> HIDE DEF m
    <3>2. F \ {m} \subseteq Below(S, m)
      <4>1. ASSUME NEW y \in F \ {m} PROVE y \in S /\ y < m
        <5>1. y \in Nat /\ m \in Nat /\ m >= y /\ y # m
          BY <1>2, <3>1
        <5> QED BY <1>2, <5>1
      <4> QED BY <4>1 DEF Below
    <3>3. Cardinality(F \ {m}) <= Cardinality(Below(S, m))
      BY <3>2, BelowFinite, FS_Subset
    <3>4. Cardinality(F \ {m}) = Cardinality(F) - 1
      BY <1>2, <3>1, FS_RemoveElement
    <3> QED BY <1>1, <1>2, <3>1, <3>3, <3>4, BelowFinite
  <2> QED BY <2>1, <2>2
<1>5. CASE F # S
  <2> DEFINE m == Min(S \ F)
  <2>1. m \in S \ F /\ \A y \in S \ F : m <= y
    BY <1>2, <1>5, LeastElement
  <2> HIDE DEF m
  <2>2. Below(S, m) \subseteq F
    <3>1. ASSUME NEW y \in S, y < m PROVE y \in F
      <4>1. y \in Nat /\ m \in Nat /\ ~(m <= y)
        BY <2>1, <3>1
      <4> QED BY <2>1, <4>1
    <3> QED BY <3>1 DEF Below
  <2>3. Cardinality(Below(S, m)) <= Cardinality(F)
    BY <1>2, <2>2, FS_Subset
  <2>4. ~(Cardinality(Below(S, m)) < n)
    BY <1>1, <2>1
  <2>5. Cardinality(F) = n
    BY <1>2, <1>4, <2>3, <2>4, BelowFinite
  <2> QED BY <1>2, <1>3, <1>4, <2>5 DEF F
<1>6. CASE F = S
  BY <1>2, <1>3, <1>4, <1>6 DEF F
<1> QED BY <1>5, <1>6

\* A full initial segment, or the whole, is what the cap leaves.
LEMMA LeadingIsFirst ==
  ASSUME NEW S \in SUBSET Nat, IsFiniteSet(S), NEW n \in Nat, NEW K, Leads(K, S),
         (K = S /\ Cardinality(K) <= n) \/ Cardinality(K) = n
  PROVE  K = First(n, S)
<1>1. K \subseteq S /\ IsFiniteSet(K) /\ Cardinality(K) \in Nat
  BY FS_Subset, FS_CardinalityType DEF Leads
<1>2. ASSUME NEW r \in K PROVE Cardinality(Below(S, r)) < n
  <2>1. Below(S, r) \subseteq K \ {r}
    <3>1. ASSUME NEW q \in S, q < r PROVE q \in K /\ q # r
      <4>1. q \in Nat /\ r \in Nat
        BY <1>1
      <4> QED BY <3>1, <4>1 DEF Leads
    <3> QED BY <3>1 DEF Below
  <2>2. IsFiniteSet(K \ {r}) /\ Cardinality(K \ {r}) = Cardinality(K) - 1
    BY <1>1, FS_RemoveElement
  <2>3. Cardinality(Below(S, r)) <= Cardinality(K \ {r})
    BY <2>1, <2>2, FS_Subset
  <2> QED BY <1>1, <2>2, <2>3, BelowFinite
<1>3. ASSUME NEW r \in S, r \notin K PROVE ~(Cardinality(Below(S, r)) < n)
  <2>1. Cardinality(K) = n
    BY <1>3
  <2>2. K \subseteq Below(S, r)
    <3>1. ASSUME NEW k \in K PROVE k \in S /\ k < r
      <4>1. k \in S /\ k \in Nat /\ r \in Nat /\ k # r
        BY <1>1, <1>3
      <4> QED BY <1>3, <4>1 DEF Leads
    <3> QED BY <3>1 DEF Below
  <2>3. Cardinality(K) <= Cardinality(Below(S, r))
    BY <2>2, BelowFinite, FS_Subset
  <2> QED BY <2>1, <2>3, BelowFinite
<1> QED BY <1>1, <1>2, <1>3 DEF First, Below

\* Every snapshot of the report.
RowSet == SUBSET ReportRow

LEMMA RowsFinite ==
  ASSUME NEW S \in RowSet PROVE S \in SUBSET Nat /\ IsFiniteSet(S) /\ Cardinality(S) \in Nat
  BY ExportsAssumption, FS_Subset, FS_CardinalityType DEF RowSet

\* What a job under way has kept of its snapshot, and what it will say of it.
RenderLeads(t) ==
  /\ t.step \in {"claim", "fetch", "write"} => t.rows \in RowSet
  /\ t.step \in {"fetch", "write"} => t.export \in Export /\ Leads(t.kept, t.rows)
  /\ t.step = "fetch" => Cardinality(t.kept) < RowCap
  /\ t.step = "write" =>
       \/ t.kept = t.rows /\ Cardinality(t.kept) <= RowCap /\ t.truncated = FALSE
       \/ t.kept # t.rows /\ Cardinality(t.kept) = RowCap /\ t.truncated = TRUE
  /\ t.step = "failing" => t.export \in Export

RendersLead ==
  /\ reported \in RowSet
  /\ DOMAIN render = Renderer /\ DOMAIN job = Export
  /\ \A w \in Renderer : RenderLeads(render[w])

ExportsInv == RendersLead /\ ArtifactIsSnapshot

LEMMA ExportsInitInd == ExportsInit => ExportsInv
  BY DEF ExportsInit, ExportsInv, RendersLead, RenderLeads, ArtifactIsSnapshot, NoRender, Unrequested, RowSet

\* A worker's own step, when the queue stays.
LEMMA RenderInd ==
  ASSUME ExportsInv, NEW w \in Renderer, NEW t, render' = [render EXCEPT ![w] = t], RenderLeads(t),
         UNCHANGED <<reported, job>>
  PROVE  ExportsInv'
<1>1. RendersLead'
  BY DEF ExportsInv, RendersLead
<1>2. ArtifactIsSnapshot'
  BY DEF ExportsInv, ArtifactIsSnapshot
<1> QED BY <1>1, <1>2 DEF ExportsInv

LEMMA IdleLeads == RenderLeads(NoRender)
  BY DEF RenderLeads, NoRender

LEMMA TakeSnapshotInd == ASSUME ExportsInv, NEW w \in Renderer, TakeSnapshot(w) PROVE ExportsInv'
<1> DEFINE t == [step |-> "claim", waiting |-> Waiting, rows |-> reported]
<1>1. RenderLeads(t)
  BY DEF RenderLeads, ExportsInv, RendersLead
<1> HIDE DEF t
<1>2. render' = [render EXCEPT ![w] = t] /\ UNCHANGED <<reported, job>>
  BY DEF TakeSnapshot, t
<1> QED BY <1>1, <1>2, RenderInd

LEMMA ClaimOldestInd == ASSUME ExportsInv, NEW w \in Renderer, ClaimOldest(w) PROVE ExportsInv'
<1> DEFINE free == {e \in render[w].waiting : ~LockedByRenderer(e)}
           t == [step |-> "fetch", export |-> Min(free), rows |-> render[w].rows, kept |-> {},
                 truncated |-> FALSE]
<1>1. render[w].rows \in RowSet
  BY DEF ClaimOldest, ExportsInv, RendersLead, RenderLeads
<1>2. ASSUME Min(free) \in Waiting PROVE RenderLeads(t)
  <2>1. Min(free) \in Export
    BY <1>2 DEF Waiting
  <2>2. Leads({}, render[w].rows)
    BY DEF Leads
  <2>3. Cardinality({}) < RowCap
    BY FS_EmptySet, ExportsAssumption
  <2> HIDE DEF free
  <2> QED BY <1>1, <2>1, <2>2, <2>3 DEF RenderLeads
<1>3. render' = [render EXCEPT ![w] = IF free # {} /\ Min(free) \in Waiting THEN t ELSE NoRender]
  BY DEF ClaimOldest
<1>4. UNCHANGED <<reported, job>>
  BY DEF ClaimOldest
<1> HIDE DEF free, t
<1>5. CASE free # {} /\ Min(free) \in Waiting
  BY <1>2, <1>3, <1>4, <1>5, RenderInd
<1>6. CASE ~(free # {} /\ Min(free) \in Waiting)
  BY <1>3, <1>4, <1>6, RenderInd, IdleLeads
<1> QED BY <1>5, <1>6

\* A batch extends the initial segment; it stops at the end of the snapshot or
\* at the cap, and knows which from the one row more that it asked for.
LEMMA FetchBatchInd == ASSUME ExportsInv, NEW w \in Renderer, FetchBatch(w) PROVE ExportsInv'
<1> DEFINE rows == render[w].rows
           kept == render[w].kept
           rest == {r \in rows : \A k \in kept : k < r}
           left == RowCap - Cardinality(kept)
           want == IF BatchSize < left THEN BatchSize ELSE left
           raw == First(want + 1, rest)
           got == First(want, raw)
           now == kept \union got
           more == Cardinality(raw) > want
           t == [step |-> IF more /\ Cardinality(now) < RowCap THEN "fetch" ELSE "write",
                 export |-> render[w].export, rows |-> rows, kept |-> now,
                 truncated |-> more /\ Cardinality(now) >= RowCap]
<1>1. render' = [render EXCEPT ![w] = t] /\ UNCHANGED <<reported, job>> /\ render[w].step = "fetch"
  BY DEF FetchBatch, Visible
<1>2. /\ rows \in RowSet /\ Leads(kept, rows) /\ Cardinality(kept) < RowCap /\ render[w].export \in Export
      /\ rows \in SUBSET Nat /\ IsFiniteSet(rows)
  BY <1>1, RowsFinite DEF ExportsInv, RendersLead, RenderLeads
<1>3. IsFiniteSet(kept) /\ Cardinality(kept) \in Nat
  BY <1>2, FS_Subset, FS_CardinalityType DEF Leads
<1>4. rest = rows \ kept
  <2>1. ASSUME NEW r \in rows, r \notin kept, NEW k \in kept PROVE k < r
    <3>1. k \in rows /\ k \in Nat /\ r \in Nat /\ k # r /\ ~(r < k)
      BY <1>2, <2>1 DEF Leads
    <3> QED BY <3>1
  <2>2. ASSUME NEW r \in rows, \A k \in kept : k < r PROVE r \notin kept
    <3>1. r \in Nat /\ ~(r < r)
      BY <1>2
    <3> QED BY <2>2, <3>1
  <2> QED BY <2>1, <2>2
<1>5. want \in Nat /\ want \in 1..left
  BY <1>2, <1>3, ExportsAssumption
<1> HIDE DEF want
<1>6. rest \in SUBSET Nat /\ IsFiniteSet(rest)
  BY <1>2, <1>4, FS_Subset
<1> HIDE DEF rest
<1>7. /\ Leads(raw, rest) /\ IsFiniteSet(raw) /\ Cardinality(raw) \in Nat
      /\ raw = rest \/ Cardinality(raw) = want + 1
  BY <1>5, <1>6, FirstRows
<1>8. raw \in SUBSET Nat
  BY <1>6, <1>7 DEF Leads
<1> HIDE DEF raw
<1>9. /\ Leads(got, raw) /\ IsFiniteSet(got) /\ Cardinality(got) \in Nat
      /\ Cardinality(got) <= want
      /\ got = raw \/ Cardinality(got) = want
  BY <1>5, <1>7, <1>8, FirstRows
<1> HIDE DEF got
<1>10. kept \intersect got = {} /\ got \subseteq rows
  BY <1>4, <1>7, <1>9 DEF Leads
<1>11. IsFiniteSet(now) /\ Cardinality(now) = Cardinality(kept) + Cardinality(got)
  <2>1. Cardinality(now) = Cardinality(kept) + Cardinality(got) - Cardinality(kept \intersect got)
    BY <1>3, <1>9, FS_Union
  <2>2. Cardinality(kept \intersect got) = 0
    BY <1>10, FS_EmptySet
  <2>3. IsFiniteSet(now)
    BY <1>3, <1>9, FS_Union
  <2> HIDE DEF now
  <2> QED BY <1>3, <1>9, <2>1, <2>2, <2>3
<1>12. Leads(now, rows)
  <2>1. now \subseteq rows
    BY <1>2, <1>10 DEF Leads
  <2>2. ASSUME NEW k \in now, NEW r \in rows, r < k PROVE r \in now
    <3>1. CASE k \in kept
      BY <1>2, <2>2, <3>1 DEF Leads
    <3>2. CASE k \in got /\ r \in rest
      BY <1>7, <1>9, <2>2, <3>2 DEF Leads
    <3>3. CASE r \in kept
      BY <3>3
    <3> QED BY <1>4, <2>2, <3>1, <3>2, <3>3
  <2> QED BY <2>1, <2>2 DEF Leads
<1>13. CASE more
  <2>1. Cardinality(got) = want
    BY <1>5, <1>7, <1>9, <1>13
  <2>2. Cardinality(now) <= RowCap
    BY <1>3, <1>5, <1>11, <2>1, ExportsAssumption
  <2>3. now # rows
    <3>1. raw # got
      BY <1>5, <1>13, <2>1
    <3> QED BY <1>4, <1>7, <1>9, <3>1 DEF Leads
  <2>4. RenderLeads(t)
    <3>1. CASE Cardinality(now) < RowCap
      BY <1>2, <1>12, <1>13, <3>1 DEF RenderLeads
    <3>2. CASE Cardinality(now) = RowCap
      <4>1. ~(Cardinality(now) < RowCap) /\ Cardinality(now) >= RowCap
        BY <3>2, ExportsAssumption
      <4>2. t.step = "write" /\ t.truncated = TRUE
        BY <1>13, <4>1
      <4> QED BY <1>2, <1>12, <2>3, <3>2, <4>2 DEF RenderLeads
    <3> QED BY <1>3, <1>9, <1>11, <2>2, <3>1, <3>2, ExportsAssumption
  <2> HIDE DEF t
  <2> QED BY <1>1, <2>4, RenderInd
<1>14. CASE ~more
  <2>1. raw = rest
    BY <1>5, <1>7, <1>14
  <2>2. got = raw
    BY <1>5, <1>7, <1>9, <1>14, FS_Subset DEF Leads
  <2>3. now = rows
    BY <1>2, <1>4, <2>1, <2>2 DEF Leads
  <2>4. Cardinality(now) <= RowCap
    BY <1>3, <1>5, <1>9, <1>11, ExportsAssumption
  <2>5. RenderLeads(t)
    BY <1>2, <1>12, <1>14, <2>3, <2>4 DEF RenderLeads
  <2> HIDE DEF t
  <2> QED BY <1>1, <2>5, RenderInd
<1> QED BY <1>13, <1>14

LEMMA CompleteExportInd == ASSUME ExportsInv, NEW w \in Renderer, CompleteExport(w) PROVE ExportsInv'
<1> DEFINE t == render[w]
           done == [status |-> "completed", kept |-> t.kept, truncated |-> t.truncated, rows |-> t.rows]
<1>1. /\ t.step = "write" /\ RenderLeads(t)
      /\ job' = [job EXCEPT ![t.export] = done]
      /\ render' = [render EXCEPT ![w] = NoRender] /\ UNCHANGED reported
  BY DEF CompleteExport, ExportsInv, RendersLead
<1>2. t.rows \in RowSet /\ t.rows \in SUBSET Nat /\ IsFiniteSet(t.rows) /\ Cardinality(t.rows) \in Nat
  BY <1>1, RowsFinite DEF RenderLeads
<1>3. t.kept = First(RowCap, t.rows)
  BY <1>1, <1>2, LeadingIsFirst, ExportsAssumption DEF RenderLeads
<1>4. t.truncated = (Cardinality(t.rows) > RowCap)
  <2>1. CASE t.kept = t.rows
    <3>1. Cardinality(t.kept) <= RowCap /\ t.truncated = FALSE
      BY <1>1, <1>2, <2>1, ExportsAssumption DEF RenderLeads
    <3>2. ~(Cardinality(t.rows) > RowCap)
      BY <1>2, <2>1, <3>1, ExportsAssumption
    <3>3. (Cardinality(t.rows) > RowCap) = FALSE
      BY <3>2
    <3> HIDE DEF t
    <3> QED BY ONLY <3>1, <3>3, Zenon
  <2>2. CASE t.kept # t.rows
    <3>1. Cardinality(t.kept) <= Cardinality(t.rows) /\ Cardinality(t.kept) # Cardinality(t.rows)
      BY <1>1, <1>2, <2>2, FS_Subset DEF RenderLeads, Leads
    <3>2. Cardinality(t.kept) = RowCap /\ t.truncated = TRUE
      BY <1>1, <2>2 DEF RenderLeads
    <3>3. Cardinality(t.rows) > RowCap
      BY <1>2, <3>1, <3>2, ExportsAssumption
    <3> QED BY <3>2, <3>3
  <2> QED BY <2>1, <2>2
<1>5. ArtifactIsSnapshot'
  <2>1. done.kept = First(RowCap, done.rows) /\ done.truncated = (Cardinality(done.rows) > RowCap)
    BY <1>3, <1>4
  <2> HIDE DEF done
  <2> QED BY <1>1, <2>1 DEF ExportsInv, RendersLead, ArtifactIsSnapshot
<1>6. RendersLead'
  BY <1>1, IdleLeads DEF ExportsInv, RendersLead
<1> QED BY <1>5, <1>6 DEF ExportsInv

LEMMA MarkFailedInd == ASSUME ExportsInv, NEW w \in Renderer, MarkFailed(w) PROVE ExportsInv'
<1>1. RendersLead'
  BY IdleLeads DEF MarkFailed, ExportsInv, RendersLead
<1>2. ArtifactIsSnapshot'
  BY DEF MarkFailed, ExportsInv, RendersLead, ArtifactIsSnapshot
<1> QED BY <1>1, <1>2 DEF ExportsInv

LEMMA ExportsNextInd == ExportsInv /\ [ExportsNext]_exportVars => ExportsInv'
<1> SUFFICES ASSUME ExportsInv, [ExportsNext]_exportVars PROVE ExportsInv'
  OBVIOUS
<1>1. CASE EditRows
  BY <1>1 DEF EditRows, ExportsInv, RendersLead, ArtifactIsSnapshot, RowSet
<1>2. ASSUME NEW e \in Export, RequestExport(e) PROVE ExportsInv'
  BY <1>2 DEF RequestExport, ExportsInv, RendersLead, ArtifactIsSnapshot, Requested
<1>3. ASSUME NEW w \in Renderer, DomainError(w) PROVE ExportsInv'
  <2>1. RenderLeads([step |-> "failing", export |-> render[w].export])
    BY <1>3 DEF DomainError, ExportsInv, RendersLead, RenderLeads
  <2> QED BY <1>3, <2>1, RenderInd DEF DomainError
<1>4. ASSUME NEW w \in Renderer, RendererDies(w) PROVE ExportsInv'
  BY <1>4, RenderInd, IdleLeads DEF RendererDies
<1>5. ASSUME NEW w \in Renderer, WorkOn(w) PROVE ExportsInv'
  BY <1>5, TakeSnapshotInd, ClaimOldestInd, FetchBatchInd, CompleteExportInd, MarkFailedInd DEF WorkOn
<1>6. CASE UNCHANGED exportVars
  BY <1>6 DEF exportVars, ExportsInv, RendersLead, ArtifactIsSnapshot
<1> HIDE DEF ExportsInv
<1> QED
  BY ONLY <1>1, <1>2, <1>3, <1>4, <1>5, <1>6, [ExportsNext]_exportVars, Zenon DEF ExportsNext

\* For any rows, cap, batch size and number of runners, whatever is edited
\* meanwhile and whoever dies: an artifact is a committed state of the report,
\* cut at the cap and flagged exactly when something was cut.
THEOREM ArtifactsAreSnapshots == ExportsSpec => []ArtifactIsSnapshot
<1>1. ExportsInv => ArtifactIsSnapshot
  BY DEF ExportsInv
<1> QED BY ExportsInitInd, ExportsNextInd, <1>1, PTL DEF ExportsSpec

-----------------------------------------------------------------------------
(* Dormancy.                                                               *)

LedgerTyped ==
  /\ day \in Nat /\ window \in Nat
  /\ standing \in [Saver -> {"active", "arrears", "dormant"}]
  /\ joined \in [Saver -> Nat] /\ activeOn \in [Saver -> Nat]

\* A transaction under way keeps the member as it found her: the job skips
\* the rows that are held.
HandlerSawStanding ==
  /\ handler \in [Saver -> {NoHandler} \union [kind : Kinds, saw : {"active", "arrears", "dormant"}]]
  /\ \A m \in Saver : handler[m] # NoHandler /\ standing[m] = "dormant" => handler[m].saw = "dormant"

\* What a scan found was quiet then.
FoundQuiet ==
  /\ DOMAIN night = DormancyWorker
  /\ \A w \in DormancyWorker :
       /\ night[w] # NoNight => night[w].step \in {"scan", "mark"} /\ night[w].cutoff \in Int
       /\ night[w].step = "mark" => \A e \in night[w].found : e.last < night[w].cutoff

DormancyInv == LedgerTyped /\ HandlerSawStanding /\ FoundQuiet

LEMMA DormancyInitInd == DormancyInit => DormancyInv
  BY DormancyAssumption DEF DormancyInit, DormancyInv, LedgerTyped, HandlerSawStanding, FoundQuiet, NoNight

\* What the job marks, nobody holds; only the held rows are ever reactivated.
MarkStep(w, m) ==
  standing[m] # standing'[m] /\ activeOn[m] >= night[w].cutoff
    => [member |-> m, last |-> activeOn[m]] \notin night[w].found

DepositStep(m) ==
  handler[m] # NoHandler /\ handler'[m] = NoHandler /\ handler[m].kind = "deposit"
    => standing'[m] # "dormant"

LEMMA MarkFollowsLedger ==
  ASSUME DormancyInv, NEW w \in DormancyWorker, MarkDormant(w), NEW m \in Saver
  PROVE  MarkStep(w, m)
<1>1. night[w].step = "mark" /\ night[w] # NoNight
  BY DEF MarkDormant, NoNight
<1>2. activeOn[m] \in Nat /\ night[w].cutoff \in Int
  BY <1>1 DEF DormancyInv, LedgerTyped, FoundQuiet
<1>3. ASSUME [member |-> m, last |-> activeOn[m]] \in night[w].found PROVE activeOn[m] < night[w].cutoff
  BY <1>1, <1>3 DEF DormancyInv, FoundQuiet
<1> QED BY <1>2, <1>3 DEF MarkStep

LEMMA MarkDormantInd ==
  ASSUME DormancyInv, NEW w \in DormancyWorker, MarkDormant(w) PROVE DormancyInv'
<1> DEFINE able == {r \in night[w].found : handler[r.member] = NoHandler /\ standing[r.member] = "active"}
           rows == Leading({entry.member : entry \in able})
<1>1. /\ standing' = [m \in Saver |-> IF m \in rows THEN "dormant" ELSE standing[m]]
      /\ UNCHANGED <<day, window, joined, activeOn, handler>>
  BY DEF MarkDormant
<1>2. \A m \in rows : handler[m] = NoHandler
  BY DEF Leading
<1>3. night[w].step = "mark" /\ night[w].cutoff \in Int
  BY DEF MarkDormant, DormancyInv, FoundQuiet, NoNight
<1>4. \/ night' = [night EXCEPT ![w] = NoNight]
      \/ \E n : night' = [night EXCEPT ![w] = [step |-> "scan", cutoff |-> night[w].cutoff, after |-> n]]
  BY DEF MarkDormant
<1> HIDE DEF rows
<1>5. LedgerTyped'
  BY <1>1 DEF DormancyInv, LedgerTyped
<1>6. HandlerSawStanding'
  BY <1>1, <1>2 DEF DormancyInv, HandlerSawStanding
<1>7. FoundQuiet'
  BY <1>3, <1>4 DEF DormancyInv, FoundQuiet, NoNight
<1> QED BY <1>5, <1>6, <1>7 DEF DormancyInv

LEMMA DormancyScanInd ==
  ASSUME DormancyInv, NEW w \in DormancyWorker, DormancyScan(w) PROVE DormancyInv'
<1> DEFINE found == {[member |-> m, last |-> activeOn[m]] : m \in Dormable(w)}
<1>1. night[w].step = "scan" /\ night[w].cutoff \in Int
  BY DEF DormancyScan, DormancyInv, FoundQuiet, NoNight
<1>2. \A e \in found : e.last < night[w].cutoff
  BY DEF Dormable, Quiet
<1>3. night' = [night EXCEPT ![w] =
        [step |-> "mark", cutoff |-> night[w].cutoff, after |-> night[w].after, found |-> found]]
  BY DEF DormancyScan
<1> HIDE DEF found
<1>4. FoundQuiet'
  BY <1>1, <1>2, <1>3 DEF DormancyInv, FoundQuiet, NoNight
<1> QED BY <1>4 DEF DormancyScan, DormancyInv, LedgerTyped, HandlerSawStanding

LEMMA CommitTransactionInd ==
  ASSUME DormancyInv, NEW m \in Saver, CommitTransaction(m) PROVE DormancyInv' /\ DepositStep(m)
<1>1. Reactivated(handler[m], standing[m]) \in {"active", standing[m]}
  BY DEF Reactivated
<1>2. LedgerTyped'
  BY <1>1 DEF CommitTransaction, DormancyInv, LedgerTyped
<1>3. HandlerSawStanding'
  <2>1. handler'[m] = NoHandler /\ \A n \in Saver : n # m => handler'[n] = handler[n] /\ standing'[n] = standing[n]
    BY DEF CommitTransaction, DormancyInv, HandlerSawStanding, LedgerTyped
  <2>2. handler' = [handler EXCEPT ![m] = NoHandler]
    BY DEF CommitTransaction
  <2> QED BY <2>1, <2>2 DEF DormancyInv, HandlerSawStanding
<1>4. FoundQuiet'
  BY DEF CommitTransaction, DormancyInv, FoundQuiet
<1>5. DepositStep(m)
  <2>1. standing'[m] = Reactivated(handler[m], standing[m])
    BY DEF CommitTransaction, DormancyInv, LedgerTyped
  <2>2. handler[m] # NoHandler /\ standing[m] = "dormant" => handler[m].saw = "dormant"
    BY DEF DormancyInv, HandlerSawStanding
  <2> QED BY <2>1, <2>2 DEF DepositStep, Reactivated
<1> QED BY <1>2, <1>3, <1>4, <1>5 DEF DormancyInv

LEMMA BeginTransactionInd ==
  ASSUME DormancyInv, NEW m \in Saver, NEW kind \in Kinds, BeginTransaction(m, kind)
  PROVE  DormancyInv'
<1> DEFINE h == [kind |-> kind, saw |-> standing[m]]
<1>1. handler' = [handler EXCEPT ![m] = h]
  BY DEF BeginTransaction
<1>2. h \in [kind : Kinds, saw : {"active", "arrears", "dormant"}] /\ h.saw = standing[m]
  BY DEF DormancyInv, LedgerTyped
<1> HIDE DEF h
<1>3. HandlerSawStanding'
  BY <1>1, <1>2 DEF DormancyInv, HandlerSawStanding, BeginTransaction
<1> QED BY <1>3 DEF BeginTransaction, DormancyInv, LedgerTyped, FoundQuiet

\* Every step.
LEMMA DormancyStep ==
  ASSUME DormancyInv, [DormancyNext]_dormancyVars
  PROVE  DormancyInv' /\ \A m \in Saver : DepositStep(m)
<1> DEFINE Goal == DormancyInv' /\ \A m \in Saver : DepositStep(m)
<1> USE DormancyAssumption
<1>1. ASSUME NEW n \in Window, ConfigureWindow(n) PROVE Goal
  BY <1>1 DEF ConfigureWindow, DormancyInv, LedgerTyped, HandlerSawStanding, FoundQuiet, DepositStep
<1>2. ASSUME NextDay PROVE Goal
  BY <1>2 DEF NextDay, DormancyInv, LedgerTyped, HandlerSawStanding, FoundQuiet, DepositStep
<1>3. ASSUME NEW m \in Saver, FlagArrears(m) PROVE Goal
  BY <1>3 DEF FlagArrears, DormancyInv, LedgerTyped, HandlerSawStanding, FoundQuiet, DepositStep
<1>4. ASSUME NEW m \in Saver, CommitTransaction(m) PROVE Goal
  <2>1. \A n \in Saver : n # m => DepositStep(n)
    BY <1>4 DEF CommitTransaction, DormancyInv, HandlerSawStanding, DepositStep
  <2> QED BY <1>4, <2>1, CommitTransactionInd
<1>5. ASSUME NEW m \in Saver, NEW kind \in Kinds, BeginTransaction(m, kind) PROVE Goal
  <2>1. \A n \in Saver : DepositStep(n)
    BY <1>5 DEF BeginTransaction, DormancyInv, HandlerSawStanding, DepositStep
  <2> QED BY <1>5, <2>1, BeginTransactionInd
<1>6. ASSUME NEW w \in DormancyWorker, StartNight(w) PROVE Goal
  <2>1. day - window \in Int
    BY DEF DormancyInv, LedgerTyped
  <2> QED BY <1>6, <2>1 DEF StartNight, DormancyInv, LedgerTyped, HandlerSawStanding, FoundQuiet,
             DepositStep, NoNight
<1>7. ASSUME NEW w \in DormancyWorker, DormancyScan(w) PROVE Goal
  BY <1>7, DormancyScanInd DEF DormancyScan, DepositStep
<1>8. ASSUME NEW w \in DormancyWorker, MarkDormant(w) PROVE Goal
  BY <1>8, MarkDormantInd DEF MarkDormant, DepositStep
<1>9. ASSUME NEW w \in DormancyWorker, NightDies(w) PROVE Goal
  BY <1>9 DEF NightDies, DormancyInv, LedgerTyped, HandlerSawStanding, FoundQuiet, DepositStep, NoNight
<1>10. ASSUME UNCHANGED dormancyVars PROVE Goal
  BY <1>10 DEF dormancyVars, DormancyInv, LedgerTyped, HandlerSawStanding, FoundQuiet, DepositStep
<1> HIDE DEF Goal
<1>11. Goal
  BY ONLY <1>1, <1>2, <1>3, <1>4, <1>5, <1>6, <1>7, <1>8, <1>9, <1>10, [DormancyNext]_dormancyVars,
     Zenon DEF DormancyNext
<1> QED BY <1>11 DEF Goal

\* Whatever transactions and runs overlap: the job marks nobody whose
\* activity its scan had seen, and a deposit leaves nobody dormant.
THEOREM MarksFollowTheLedger == DormancySpec => DormancyFollowsLedger
<1>1. DormancyInv /\ [DormancyNext]_dormancyVars => DormancyInv'
  BY DormancyStep
<1>2. DormancyInv /\ [DormancyNext]_dormancyVars =>
        \A m \in Saver :
          /\ \A w \in DormancyWorker :
               MarkDormant(w) /\ standing[m] # standing'[m] /\ activeOn[m] >= night[w].cutoff
                 => [member |-> m, last |-> activeOn[m]] \notin night[w].found
          /\ handler[m] # NoHandler /\ handler'[m] = NoHandler /\ handler[m].kind = "deposit"
               => standing'[m] # "dormant"
  BY DormancyStep, MarkFollowsLedger DEF MarkStep, DepositStep
<1> QED BY DormancyInitInd, <1>1, <1>2, PTL DEF DormancySpec, DormancyFollowsLedger

-----------------------------------------------------------------------------
(* Recovery cases.                                                         *)

CaseRow == [status : Live \union Terminal, loan : RecoveryLoan, assignee : Officer \union {Unassigned},
            version : Nat, notes : Nat, outcomeNotes : Nat]

CasesTyped == case \in [Case -> CaseRow \union {NoCase}]

\* A batch of the close pass has a closing status for every case it saw.
PassTyped ==
  pass.running => /\ pass.seen \subseteq Case
                  /\ \A c \in pass.seen : \E o \in Terminal : <<c, o>> \in pass.outcome

RecoveryInv == CasesTyped /\ PassTyped

LEMMA RecoveryInitInd == RecoveryInit => RecoveryInv
  BY DEF RecoveryInit, RecoveryInv, CasesTyped, PassTyped, IdlePass

\* What may become of a case row: a closed one takes at most its outcome note.
ClosedKept(old, new) ==
  old.status \in Terminal =>
    new = old \/ (old.outcomeNotes = 0 /\ new = [old EXCEPT !.outcomeNotes = 1])

\* A row that a step writes alone is typed and, if closed, as good as kept.
RowWrittenAlone(c, entry) ==
  /\ case' = [case EXCEPT ![c] = entry]
  /\ entry \in CaseRow
  /\ ClosedKept(case[c], entry)

LEMMA WrittenAlone ==
  ASSUME RecoveryInv, NEW c \in Case, NEW entry, RowWrittenAlone(c, entry), UNCHANGED pass
  PROVE  RecoveryInv' /\ \A d \in Case : ClosedKept(case[d], case'[d])
<1>1. \A d \in Case : case'[d] = IF d = c THEN entry ELSE case[d]
  BY DEF RecoveryInv, CasesTyped, RowWrittenAlone
<1>2. CasesTyped'
  BY DEF RecoveryInv, CasesTyped, RowWrittenAlone
<1>3. PassTyped'
  BY DEF RecoveryInv, PassTyped
<1> QED BY <1>1, <1>2, <1>3 DEF RecoveryInv, RowWrittenAlone, ClosedKept

LEMMA CasesKept ==
  ASSUME RecoveryInv, UNCHANGED case, PassTyped'
  PROVE  RecoveryInv' /\ \A d \in Case : ClosedKept(case[d], case'[d])
  BY DEF RecoveryInv, CasesTyped, ClosedKept

\* The rows of a case under way; NoCase has none of its statuses.
LEMMA CaseShape ==
  ASSUME RecoveryInv, NEW c \in Case
  PROVE  /\ case[c] = NoCase => case[c].status \notin Live \union Terminal
         /\ case[c].status \in Live \union Terminal => case[c] \in CaseRow
  BY DEF RecoveryInv, CasesTyped, NoCase, CaseRow, Live, Pause, Terminal

\* The edits of more than one column.
LEMMA RowEdited ==
  ASSUME NEW entry \in CaseRow
  PROVE  /\ \A s \in Live \union Terminal : [entry EXCEPT !.version = @ + 1, !.status = s] \in CaseRow
         /\ \A u \in Officer : [entry EXCEPT !.assignee = u, !.version = @ + 1] \in CaseRow
         /\ \A s \in Live \union Terminal, n \in Nat :
              [entry EXCEPT !.status = s, !.version = @ + 1, !.outcomeNotes = n] \in CaseRow
<1>1. entry.version + 1 \in Nat
  BY DEF CaseRow
<1>2. ASSUME NEW s \in Live \union Terminal
      PROVE  [entry EXCEPT !.version = @ + 1, !.status = s] \in CaseRow
  BY <1>1 DEF CaseRow
<1>3. ASSUME NEW u \in Officer PROVE [entry EXCEPT !.assignee = u, !.version = @ + 1] \in CaseRow
  BY <1>1 DEF CaseRow
<1>4. ASSUME NEW s \in Live \union Terminal, NEW n \in Nat
      PROVE  [entry EXCEPT !.status = s, !.version = @ + 1, !.outcomeNotes = n] \in CaseRow
  BY <1>1 DEF CaseRow
<1> QED BY <1>2, <1>3, <1>4

LEMMA CloseScanInd == ASSUME RecoveryInv, CloseScan PROVE PassTyped'
<1> DEFINE seen == {c \in Case : Closable(c)}
<1>1. pass' = [running |-> TRUE, seen |-> seen, outcome |-> {<<c, Outcome(fact[case[c].loan])>> : c \in seen}]
  BY DEF CloseScan
<1>2. \A c \in seen : Outcome(fact[case[c].loan]) \in Terminal
  BY DEF Outcome, Terminal
<1> QED BY <1>1, <1>2 DEF PassTyped

\* The batch closes only cases that are still live when it locks their rows.
LEMMA CloseBatchInd ==
  ASSUME RecoveryInv, NEW free \in SUBSET Case, CloseBatch(free)
  PROVE  RecoveryInv' /\ \A d \in Case : ClosedKept(case[d], case'[d])
<1> DEFINE closed == {c \in pass.seen \intersect free : StillLive(c)}
           to(c) == CHOOSE o \in Terminal : <<c, o>> \in pass.outcome
<1>1. case' = [c \in Case |->
         IF c \in closed THEN [case[c] EXCEPT !.version = @ + 1, !.status = to(c)] ELSE case[c]]
  BY DEF CloseBatch
<1>2. \A c \in closed : case[c].status \in Live /\ to(c) \in Terminal
  BY DEF CloseBatch, RecoveryInv, PassTyped, StillLive
<1> HIDE DEF closed, to
<1>3. ASSUME NEW c \in Case PROVE case'[c] \in CaseRow \union {NoCase} /\ ClosedKept(case[c], case'[c])
  <2>1. CASE c \in closed
    <3>1. case[c] \in CaseRow /\ case[c].status \notin Terminal
      BY <1>2, <2>1, CaseShape DEF Live, Pause, Terminal
    <3>2. case'[c] = [case[c] EXCEPT !.version = @ + 1, !.status = to(c)]
      BY <1>1, <2>1
    <3>3. case'[c] \in CaseRow
      <4>1. to(c) \in Live \union Terminal
        BY <1>2, <2>1
      <4> QED BY <3>1, <3>2, <4>1, RowEdited
    <3> QED BY <3>1, <3>3 DEF ClosedKept
  <2>2. CASE c \notin closed
    BY <1>1, <2>2 DEF ClosedKept, RecoveryInv, CasesTyped
  <2> QED BY <2>1, <2>2
<1>4. CasesTyped'
  BY <1>1, <1>3 DEF CasesTyped
<1>5. PassTyped'
  BY DEF CloseBatch, PassTyped, IdlePass
<1> QED BY <1>3, <1>4, <1>5 DEF RecoveryInv

LEMMA RecoveryStep ==
  ASSUME RecoveryInv, [RecoveryNext]_recoveryVars
  PROVE  RecoveryInv' /\ \A d \in Case : ClosedKept(case[d], case'[d])
<1> DEFINE Goal == RecoveryInv' /\ \A d \in Case : ClosedKept(case[d], case'[d])
<1> HIDE DEF Goal
<1>1. ASSUME NEW l \in RecoveryLoan, NEW to \in {"performing", "npl", "closed", "written_off"},
             LoanChanges(l, to)
      PROVE  Goal
  BY <1>1, CasesKept DEF LoanChanges, RecoveryInv, PassTyped, Goal
<1>2. ASSUME NEW c \in Case, NEW l \in RecoveryLoan, OpenRecoveryCase(c, l) PROVE Goal
  <2> DEFINE entry == [status |-> "open", loan |-> l, assignee |-> Unassigned, version |-> 1,
                     notes |-> 0, outcomeNotes |-> 0]
  <2>1. entry \in CaseRow
    BY DEF CaseRow, Live
  <2>2. ClosedKept(case[c], entry)
    BY <1>2, CaseShape DEF OpenRecoveryCase, ClosedKept
  <2> QED BY <1>2, <2>1, <2>2, WrittenAlone DEF OpenRecoveryCase, RowWrittenAlone, Goal
<1>3. ASSUME NEW u \in Officer, NEW c \in Case, GetRecoveryCase(u, c) PROVE Goal
  BY <1>3, CasesKept DEF GetRecoveryCase, RecoveryInv, PassTyped, Goal
<1>4. ASSUME NEW u \in Officer, NEW to \in Officer, NEW c \in Case, AssignRecoveryCase(u, c, to) PROVE Goal
  <2>1. case[c] \in CaseRow /\ case[c].status \notin Terminal
    BY <1>4, CaseShape DEF AssignRecoveryCase, Live, Terminal
  <2>2. Assigned(case[c], to) \in CaseRow /\ ClosedKept(case[c], Assigned(case[c], to))
    BY <2>1, RowEdited DEF Assigned, ClosedKept
  <2> QED BY <1>4, <2>2, WrittenAlone DEF AssignRecoveryCase, RowWrittenAlone, Goal
<1>5. ASSUME NEW u \in Officer, NEW c \in Case, NEW to \in StaffTargets, SetCaseDisposition(u, c, to)
      PROVE  Goal
  <2> DEFINE entry == [case[c] EXCEPT !.status = to, !.version = @ + 1,
                       !.outcomeNotes = IF to = "closed_restructured" THEN @ + 1 ELSE @]
  <2>1. case[c] \in CaseRow /\ case[c].status \notin Terminal
    BY <1>5, CaseShape DEF SetCaseDisposition, MayMove, Live, Pause, Terminal
  <2>2. entry \in CaseRow /\ ClosedKept(case[c], entry)
    <3>1. to \in Live \union Terminal
      BY DEF StaffTargets, Live, Pause, Terminal
    <3>2. (IF to = "closed_restructured" THEN case[c].outcomeNotes + 1 ELSE case[c].outcomeNotes) \in Nat
      BY <2>1 DEF CaseRow
    <3>3. entry \in CaseRow
      BY <2>1, <3>1, <3>2, RowEdited
    <3> QED BY <2>1, <3>3 DEF ClosedKept
  <2>3. case' = [case EXCEPT ![c] = entry]
    BY <1>5 DEF SetCaseDisposition, RecoveryInv, CasesTyped
  <2> QED BY <1>5, <2>2, <2>3, WrittenAlone DEF SetCaseDisposition, RowWrittenAlone, Goal
<1>6. ASSUME NEW c \in Case, AddRecoveryNote(c) PROVE Goal
  <2> DEFINE entry == [case[c] EXCEPT !.notes = @ + 1]
  <2>1. case[c] \in CaseRow /\ case[c].status \notin Terminal
    BY <1>6, CaseShape DEF AddRecoveryNote, Live, Pause, Terminal
  <2>2. entry \in CaseRow /\ ClosedKept(case[c], entry)
    BY <2>1 DEF CaseRow, ClosedKept
  <2>3. case' = [case EXCEPT ![c] = entry]
    BY <1>6 DEF AddRecoveryNote, RecoveryInv, CasesTyped
  <2> QED BY <1>6, <2>2, <2>3, WrittenAlone DEF AddRecoveryNote, RowWrittenAlone, Goal
<1>7. ASSUME NEW c \in Case, AddOutcomeNote(c) PROVE Goal
  <2> DEFINE entry == [case[c] EXCEPT !.outcomeNotes = 1]
  <2>1. case[c] \in CaseRow
    BY <1>7, CaseShape DEF AddOutcomeNote
  <2>2. entry \in CaseRow /\ ClosedKept(case[c], entry)
    BY <1>7, <2>1 DEF AddOutcomeNote, CaseRow, ClosedKept
  <2>3. case' = [case EXCEPT ![c] = entry]
    BY <1>7 DEF AddOutcomeNote, RecoveryInv, CasesTyped
  <2> QED BY <1>7, <2>2, <2>3, WrittenAlone DEF AddOutcomeNote, RowWrittenAlone, Goal
<1>8. ASSUME CloseScan PROVE Goal
  BY <1>8, CloseScanInd, CasesKept DEF CloseScan, Goal
<1>9. ASSUME NEW free \in SUBSET Case, CloseBatch(free) PROVE Goal
  BY <1>9, CloseBatchInd DEF Goal
<1>10. ASSUME UNCHANGED recoveryVars PROVE Goal
  BY <1>10, CasesKept DEF recoveryVars, RecoveryInv, PassTyped, Goal
<1> HIDE DEF RecoveryInv
<1>11. Goal
  BY ONLY <1>1, <1>2, <1>3, <1>4, <1>5, <1>6, <1>7, <1>8, <1>9, <1>10, [RecoveryNext]_recoveryVars,
     Zenon DEF RecoveryNext
<1> QED BY <1>11 DEF Goal

\* Whatever the close pass and other officers were about to do to a case, one
\* that is closed stays as it was closed, for any loans, cases and officers.
THEOREM ClosedStaysClosed == RecoverySpec => ClosedCaseIsFinal
<1>1. RecoveryInv /\ [RecoveryNext]_recoveryVars => RecoveryInv'
  BY RecoveryStep
<1>2. RecoveryInv /\ [RecoveryNext]_recoveryVars =>
        \A c \in Case : case[c].status \in Terminal =>
          case'[c] = case[c] \/ (case[c].outcomeNotes = 0 /\ case'[c] = [case[c] EXCEPT !.outcomeNotes = 1])
  BY RecoveryStep DEF ClosedKept
<1> QED BY RecoveryInitInd, <1>1, <1>2, PTL DEF RecoverySpec, ClosedCaseIsFinal

-----------------------------------------------------------------------------
(* The branch backfill.                                                    *)

Text == BranchName \union {NoText}
TargetRow == [text : Text, branch : BranchId \union {Unlinked}, version : Nat]
Assignment == [target : Target, branch : BranchId, version : Nat]
ScanRow == Target \X Text
LinkRow == Target \X Text \X BranchId
FillRow == [step : {"idle", "scan", "claim", "link", "done"}, after : Nat,
            rows : SUBSET (ScanRow \union LinkRow), due : SUBSET Target]

\* A batch in hand is finite, and has ids once the names are claimed.
RowsTyped(t) ==
  /\ IsFiniteSet(t.rows)
  /\ t.step = "claim" => t.rows \subseteq ScanRow
  /\ t.step = "link" => t.rows \subseteq LinkRow

BranchesTyped ==
  /\ target \in [Target -> TargetRow]
  /\ assigning \in [Assigner -> {NotAssigning} \union Assignment]
  /\ fill \in [Filler -> FillRow]
  /\ \A f \in Filler : RowsTyped(fill[f])

\* Target t with that text is in the rows of the batch, or after a full one.
InBatch(rows, t, text) ==
  \/ \E r \in rows : r[1] = t /\ r[2] = text
  \/ Cardinality(rows) >= LinkBatch /\ \A r \in rows : r[1] < t

\* A target the run was started for has been linked, or is still ahead of it.
ToCome(run, r, t) ==
  /\ r.text # NoText
  /\ \/ r.branch # Unlinked
     \/ /\ run.after < t
        /\ run.step # "scan" => InBatch(run.rows, t, r.text)

Complete(run) ==
  run.step \in {"scan", "claim", "link"} => \A t \in run.due : ToCome(run, target[t], t)

BranchesInv == BranchesTyped /\ \A f \in Filler : Complete(fill[f])

LEMMA BranchesInitInd == BranchesInit => BranchesInv
<1> SUFFICES ASSUME BranchesInit PROVE BranchesInv
  OBVIOUS
<1>1. target \in [Target -> TargetRow] /\ assigning \in [Assigner -> {NotAssigning} \union Assignment]
  BY BranchesAssumption DEF BranchesInit, Text, TargetRow, Unlinked
<1>2. NoFill \in FillRow /\ RowsTyped(NoFill) /\ Complete(NoFill)
  BY FS_EmptySet DEF NoFill, FillRow, RowsTyped, Complete
<1>3. fill \in [Filler -> FillRow] /\ \A f \in Filler : fill[f] = NoFill
  BY <1>2 DEF BranchesInit
<1> QED BY <1>1, <1>2, <1>3 DEF BranchesInv, BranchesTyped

LEMMA SameSize ==
  ASSUME NEW S, NEW T, IsFiniteSet(S), NEW f \in [S -> T],
         \A x, y \in S : f[x] = f[y] => x = y,
         \A t \in T : \E s \in S : f[s] = t
  PROVE  IsFiniteSet(T) /\ Cardinality(T) = Cardinality(S)
<1>1. f \in Surjection(S, T)
  BY DEF Surjection
<1>2. f \in Injection(S, T)
  BY DEF Injection, IsInjective
<1> QED BY <1>1, <1>2, FS_Surjection

\* What a scan returns: finitely many rows, and every due target after the
\* last batch among them or behind a full batch.
LEMMA ScanFindsAll ==
  ASSUME BranchesInv, NEW after \in Nat
  PROVE  /\ IsFiniteSet(ScannedRows(after)) /\ ScannedRows(after) \in SUBSET ScanRow
         /\ \A t \in Due : after < t => InBatch(ScannedRows(after), t, target[t].text)
<1> DEFINE S == {t \in Due : t > after}
           F == LeastOf(S)
           R == ScannedRows(after)
<1>1. Due \subseteq Target /\ Due \subseteq Nat
  BY BranchesAssumption DEF Due
<1>2. S \in SUBSET Nat /\ S \subseteq Target /\ IsFiniteSet(S)
  BY <1>1, BranchesAssumption, FS_Subset
<1>3. R = {<<t, target[t].text>> : t \in F}
  BY DEF ScannedRows
<1>4. F = First(LinkBatch, S)
  BY DEF LeastOf, First
<1> HIDE DEF S, F, R
<1>5. /\ F \subseteq S /\ IsFiniteSet(F) /\ Cardinality(F) \in Nat
      /\ \A k \in F, r \in S : r < k => r \in F
      /\ F = S \/ Cardinality(F) = LinkBatch
  <2>1. LinkBatch \in Nat
    BY BranchesAssumption
  <2>2. /\ Leads(F, S) /\ IsFiniteSet(F) /\ Cardinality(F) \in Nat
        /\ F = S \/ Cardinality(F) = LinkBatch
    BY <1>2, <1>4, <2>1, FirstRows
  <2> QED BY <2>2 DEF Leads
<1>6. IsFiniteSet(R) /\ Cardinality(R) = Cardinality(F)
  <2> DEFINE g == [t \in F |-> <<t, target[t].text>>]
  <2>1. g \in [F -> R]
    BY <1>3
  <2>2. \A x, y \in F : g[x] = g[y] => x = y
    OBVIOUS
  <2>3. \A r \in R : \E x \in F : g[x] = r
    BY <1>3
  <2> HIDE DEF g
  <2> QED BY <1>5, <2>1, <2>2, <2>3, SameSize
<1>7. R \in SUBSET ScanRow
  <2>1. \A t \in Target : target[t].text \in Text
    BY DEF BranchesInv, BranchesTyped, TargetRow
  <2>2. \A t \in F : <<t, target[t].text>> \in ScanRow
    BY <1>2, <1>5, <2>1 DEF ScanRow
  <2> QED BY <1>3, <2>2
<1>8. ASSUME NEW t \in Due, after < t PROVE InBatch(R, t, target[t].text)
  <2>1. t \in S
    BY <1>1, <1>8 DEF S
  <2>2. CASE t \in F
    <3> DEFINE r == <<t, target[t].text>>
    <3>1. r \in R /\ r[1] = t /\ r[2] = target[t].text
      BY <1>3, <2>2
    <3> QED BY <3>1 DEF InBatch
  <2>3. CASE t \notin F
    <3>1. Cardinality(R) = LinkBatch
      BY <1>5, <1>6, <2>1, <2>3
    <3>2. \A k \in F : k < t
      <4>1. ASSUME NEW k \in F PROVE k < t
        <5>1. k \in Nat /\ t \in Nat /\ ~(t < k) /\ k # t
          BY <1>2, <1>5, <2>1, <2>3
        <5> QED BY <5>1
      <4> QED BY <4>1
    <3>3. \A r \in R : r[1] < t
      BY <1>3, <3>2
    <3>4. Cardinality(R) >= LinkBatch
      BY <3>1, BranchesAssumption
    <3> QED BY <3>3, <3>4 DEF InBatch
  <2> QED BY <2>2, <2>3
<1> QED BY <1>6, <1>7, <1>8 DEF R

\* No text changes, and no link is lost.
LinksKept ==
  \A t \in Target : /\ target'[t].text = target[t].text
                    /\ target[t].branch # Unlinked => target'[t].branch # Unlinked

LEMMA RunKept ==
  ASSUME BranchesInv, LinksKept, NEW f \in Filler, fill'[f] = fill[f]
  PROVE  Complete(fill[f])' /\ RowsTyped(fill[f])'
<1>1. fill[f].due \subseteq Target /\ Complete(fill[f]) /\ RowsTyped(fill[f])
  BY DEF BranchesInv, BranchesTyped, FillRow
<1>2. \A t \in fill[f].due : ToCome(fill[f], target[t], t) => ToCome(fill[f], target'[t], t)
  BY <1>1 DEF LinksKept, ToCome
<1> QED BY <1>1, <1>2 DEF Complete, RowsTyped

\* A step of one run, which reads the targets and leaves them as they are.
LEMMA RunSteps ==
  ASSUME BranchesInv, NEW f \in Filler, NEW now \in FillRow,
         target' \in [Target -> TargetRow], LinksKept,
         fill' = [fill EXCEPT ![f] = now], UNCHANGED assigning,
         RowsTyped(now), Complete(now)'
  PROVE  BranchesInv'
<1>1. fill' \in [Filler -> FillRow] /\ fill'[f] = now /\ \A g \in Filler : g # f => fill'[g] = fill[g]
  BY DEF BranchesInv, BranchesTyped
<1>2. assigning' \in [Assigner -> {NotAssigning} \union Assignment]
  BY DEF BranchesInv, BranchesTyped
<1>3. ASSUME NEW g \in Filler PROVE RowsTyped(fill[g])' /\ Complete(fill[g])'
  <2>1. CASE g = f
    <3>1. fill'[g] = now
      BY <1>1, <2>1
    <3> QED BY <3>1 DEF RowsTyped, Complete
  <2>2. CASE g # f
    BY <1>1, <2>2, RunKept
  <2> QED BY <2>1, <2>2
<1> QED BY <1>1, <1>2, <1>3 DEF BranchesInv, BranchesTyped, TargetRow, FillRow, Assignment, ScanRow, LinkRow, Text

LEMMA RunReads ==
  ASSUME BranchesInv, UNCHANGED target PROVE target' \in [Target -> TargetRow] /\ LinksKept
  BY DEF BranchesInv, BranchesTyped, LinksKept

\* Nothing that the runs read changes.
LEMMA RestInd ==
  ASSUME BranchesInv, UNCHANGED <<target, fill>>,
         assigning' \in [Assigner -> {NotAssigning} \union Assignment]
  PROVE  BranchesInv'
  BY DEF BranchesInv, BranchesTyped, RowsTyped, Complete

LEMMA BeginAssignInd ==
  ASSUME BranchesInv, NEW k \in Assigner, NEW t \in Target, NEW b \in BranchId, BeginAssign(k, t, b)
  PROVE  BranchesInv'
<1>1. [target |-> t, branch |-> b, version |-> target[t].version] \in Assignment
  BY DEF BranchesInv, BranchesTyped, TargetRow, Assignment
<1>2. UNCHANGED <<target, fill>> /\ assigning' \in [Assigner -> {NotAssigning} \union Assignment]
  BY <1>1 DEF BeginAssign, BranchesInv, BranchesTyped
<1> QED BY <1>2, RestInd

\* An edit of a row: the text and the link it gets, and a later version.
LEMMA RowEdits ==
  ASSUME NEW r \in TargetRow
  PROVE  /\ \A text \in Text : [r EXCEPT !.text = text, !.version = @ + 1] \in TargetRow
         /\ \A b \in BranchId : [r EXCEPT !.branch = b, !.version = @ + 1] \in TargetRow
<1>1. r.version + 1 \in Nat
  BY DEF TargetRow
<1>2. PICK v \in Nat : v = r.version + 1
  BY <1>1
<1>3. /\ \A text \in Text : [r EXCEPT !.text = text, !.version = v] \in TargetRow
      /\ \A b \in BranchId : [r EXCEPT !.branch = b, !.version = v] \in TargetRow
  BY DEF TargetRow
<1> QED BY <1>2, <1>3

\* An assignment sets a link and changes no text.
LEMMA FinishAssignLinks ==
  ASSUME BranchesInv, NEW k \in Assigner, FinishAssign(k)
  PROVE  /\ target' \in [Target -> TargetRow] /\ LinksKept
         /\ \A t \in Target : target'[t].branch # target[t].branch =>
              assigning[k].target = t /\ assigning[k].branch = target'[t].branch
<1> DEFINE a == assigning[k]
<1>1. a \in Assignment
  BY DEF BranchesInv, BranchesTyped, FinishAssign
<1>2. CASE target[a.target].version # a.version
  BY <1>2, RunReads DEF FinishAssign
<1>3. CASE target[a.target].version = a.version
  <2>1. a.target \in Target /\ a.branch \in BranchId /\ a.branch # Unlinked
    BY <1>1, BranchesAssumption DEF Assignment, Unlinked
  <2>2. target' = [target EXCEPT ![a.target].branch = a.branch, ![a.target].version = @ + 1]
    BY <1>3 DEF FinishAssign
  <2> HIDE DEF a
  <2>3. target' \in [Target -> TargetRow]
    <3>1. [target[a.target] EXCEPT !.branch = a.branch, !.version = @ + 1] \in TargetRow
      BY <2>1, RowEdits DEF BranchesInv, BranchesTyped
    <3>2. PICK u \in TargetRow : u = [target[a.target] EXCEPT !.branch = a.branch, !.version = @ + 1]
      BY <3>1
    <3>3. target' = [target EXCEPT ![a.target] = u]
      BY ONLY <2>2, <3>2
    <3>4. target \in [Target -> TargetRow]
      BY DEF BranchesInv, BranchesTyped
    <3> QED BY ONLY <3>3, <3>4
  <2>4. \A t \in Target : /\ t # a.target => target'[t] = target[t]
                          /\ target'[t].text = target[t].text
    BY <2>1, <2>2 DEF BranchesInv, BranchesTyped, TargetRow
  <2>5. target'[a.target].branch = a.branch
    BY <2>1, <2>2 DEF BranchesInv, BranchesTyped, TargetRow
  <2>6. LinksKept
    BY <2>1, <2>4, <2>5 DEF LinksKept
  <2> QED BY <2>1, <2>3, <2>4, <2>5, <2>6 DEF a
<1> QED BY <1>2, <1>3

LEMMA FinishAssignInd ==
  ASSUME BranchesInv, NEW k \in Assigner, FinishAssign(k) PROVE BranchesInv'
<1>1. target' \in [Target -> TargetRow] /\ LinksKept
  BY FinishAssignLinks
<1>2. assigning' \in [Assigner -> {NotAssigning} \union Assignment]
  BY DEF FinishAssign, BranchesInv, BranchesTyped
<1>3. fill' = fill /\ fill \in [Filler -> FillRow]
  BY DEF FinishAssign, BranchesInv, BranchesTyped
<1>4. \A f \in Filler : Complete(fill[f])' /\ RowsTyped(fill[f])'
  BY <1>1, <1>3, RunKept
<1> QED BY <1>1, <1>2, <1>3, <1>4 DEF BranchesInv, BranchesTyped, TargetRow, FillRow, Assignment, ScanRow, LinkRow, Text

\* A run no longer waits for a target whose text is edited.
LEMMA EditTargetInd ==
  ASSUME BranchesInv, NEW t \in Target, NEW text \in Text, EditTarget(t, text) PROVE BranchesInv'
<1>1. target' = [target EXCEPT ![t].text = text, ![t].version = @ + 1]
  BY DEF EditTarget
<1>2. target' \in [Target -> TargetRow]
  <2>1. [target[t] EXCEPT !.text = text, !.version = @ + 1] \in TargetRow
    BY RowEdits, BranchesAssumption DEF BranchesInv, BranchesTyped
  <2> QED BY <1>1, <2>1 DEF BranchesInv, BranchesTyped
<1>3. /\ \A u \in Target : u # t => target'[u] = target[u]
      /\ target'[t].text = text /\ target'[t].branch = target[t].branch
  BY <1>1 DEF BranchesInv, BranchesTyped, TargetRow
<1>4. UNCHANGED <<branch, assigning>>
  BY DEF EditTarget
<1>5. CASE text = target[t].text
  <2>1. LinksKept
    BY <1>3, <1>5 DEF LinksKept
  <2>2. fill' = fill
    BY <1>5 DEF EditTarget
  <2>3. \A f \in Filler : Complete(fill[f])' /\ RowsTyped(fill[f])'
    BY <2>1, <2>2, RunKept
  <2> QED BY <1>2, <1>4, <2>2, <2>3 DEF BranchesInv, BranchesTyped, TargetRow, FillRow, Assignment, ScanRow, LinkRow, Text
<1>6. CASE text # target[t].text
  <2>1. fill' = [f \in Filler |-> [fill[f] EXCEPT !.due = @ \ {t}]]
    BY <1>6 DEF EditTarget
  <2>2. ASSUME NEW f \in Filler
        PROVE  fill'[f] \in FillRow /\ Complete(fill[f])' /\ RowsTyped(fill[f])'
    <3>1. PICK run : run = fill[f]
      OBVIOUS
    <3>2. run \in FillRow /\ RowsTyped(run) /\ Complete(run)
      BY <3>1 DEF BranchesInv, BranchesTyped
    <3>3. fill'[f] = [run EXCEPT !.due = @ \ {t}]
      BY <2>1, <3>1
    <3>4. PICK now : now = fill'[f]
      OBVIOUS
    <3>5. /\ now \in FillRow /\ now.due = run.due \ {t}
          /\ now.step = run.step /\ now.after = run.after /\ now.rows = run.rows
      BY <3>2, <3>3, <3>4 DEF FillRow
    <3>6. run.due \subseteq Target
      BY <3>2 DEF FillRow
    <3>7. Complete(now)'
      BY <1>3, <3>2, <3>5, <3>6 DEF Complete, ToCome
    <3>8. RowsTyped(now)
      BY <3>2, <3>5 DEF RowsTyped
    <3> QED BY <3>4, <3>5, <3>7, <3>8 DEF Complete, RowsTyped
  <2>3. fill' \in [Filler -> FillRow]
    <3>1. \A f \in Filler : [fill[f] EXCEPT !.due = @ \ {t}] \in FillRow
      BY DEF BranchesInv, BranchesTyped, FillRow
    <3> QED BY <2>1, <3>1
  <2> QED BY <1>2, <1>4, <2>2, <2>3 DEF BranchesInv, BranchesTyped, TargetRow, FillRow, Assignment, ScanRow, LinkRow, Text
<1> QED BY <1>5, <1>6

LEMMA StartFillInd ==
  ASSUME BranchesInv, NEW f \in Filler, StartFill(f) PROVE BranchesInv'
<1>1. PICK rows : rows = ScannedRows(0)
  OBVIOUS
<1>2. PICK now : now = [step |-> "claim", after |-> 0, rows |-> rows, due |-> Due]
  OBVIOUS
<1>3. fill' = [fill EXCEPT ![f] = now] /\ UNCHANGED <<target, assigning>>
  BY <1>1, <1>2 DEF StartFill
<1>4. /\ IsFiniteSet(rows) /\ rows \in SUBSET ScanRow
      /\ \A t \in Due : 0 < t => InBatch(rows, t, target[t].text)
  BY <1>1, ScanFindsAll
<1>5. now \in FillRow /\ RowsTyped(now)
  <2>1. Due \in SUBSET Target /\ rows \in SUBSET (ScanRow \union LinkRow)
    BY <1>4 DEF Due
  <2>2. now \in FillRow
    BY <1>2, <2>1 DEF FillRow
  <2>3. now.step = "claim" /\ now.rows = rows
    BY <1>2
  <2> QED BY <1>4, <2>2, <2>3 DEF RowsTyped
<1>6. ASSUME NEW t \in Due PROVE ToCome(now, target[t], t)
  <2>1. 0 < t /\ target[t].text # NoText
    BY BranchesAssumption DEF Due
  <2> QED BY <1>2, <1>4, <2>1 DEF ToCome
<1>7. Complete(now)'
  BY <1>2, <1>3, <1>6 DEF Complete
<1>8. target' \in [Target -> TargetRow] /\ LinksKept
  BY <1>3, RunReads
<1> QED BY <1>3, <1>5, <1>7, <1>8, RunSteps

LEMMA ScanDueInd ==
  ASSUME BranchesInv, NEW f \in Filler, ScanDue(f) PROVE BranchesInv'
<1>1. PICK run : run = fill[f]
  OBVIOUS
<1>2. run \in FillRow /\ run.step = "scan" /\ Complete(run)
  BY <1>1 DEF BranchesInv, BranchesTyped, ScanDue
<1>3. PICK rows : rows = ScannedRows(run.after)
  OBVIOUS
<1>4. PICK now : now = [run EXCEPT !.step = "claim", !.rows = rows]
  OBVIOUS
<1>5. fill' = [fill EXCEPT ![f] = now] /\ UNCHANGED <<target, assigning>>
  BY <1>1, <1>3, <1>4 DEF ScanDue
<1>6. run.after \in Nat /\ run.due \subseteq Target
  BY <1>2 DEF FillRow
<1>7. /\ IsFiniteSet(rows) /\ rows \in SUBSET ScanRow
      /\ \A t \in Due : run.after < t => InBatch(rows, t, target[t].text)
  BY <1>3, <1>6, ScanFindsAll
<1>8. now \in FillRow /\ now.step = "claim" /\ now.rows = rows /\ now.after = run.after /\ now.due = run.due
  BY <1>2, <1>4, <1>7 DEF FillRow
<1>9. RowsTyped(now)
  BY <1>7, <1>8 DEF RowsTyped
<1>10. ASSUME NEW t \in run.due PROVE ToCome(now, target[t], t)
  <2>1. ToCome(run, target[t], t)
    BY <1>2 DEF Complete
  <2>2. CASE target[t].branch = Unlinked
    <3>1. t \in Due
      BY <1>6, <2>1, <2>2 DEF Due, ToCome
    <3> QED BY <1>7, <1>8, <2>1, <2>2, <3>1 DEF ToCome
  <2> QED BY <2>1, <2>2 DEF ToCome
<1>11. Complete(now)'
  BY <1>5, <1>8, <1>10 DEF Complete
<1>12. target' \in [Target -> TargetRow] /\ LinksKept
  BY <1>5, RunReads
<1> QED BY <1>5, <1>8, <1>9, <1>11, <1>12, RunSteps

LEMMA FillFailsInd ==
  ASSUME BranchesInv, NEW f \in Filler, FillFails(f) PROVE BranchesInv'
<1>1. fill' = [fill EXCEPT ![f] = NoFill] /\ UNCHANGED <<target, assigning>>
  BY DEF FillFails
<1>2. NoFill \in FillRow /\ RowsTyped(NoFill) /\ Complete(NoFill)'
  BY FS_EmptySet DEF NoFill, FillRow, RowsTyped, Complete
<1>3. target' \in [Target -> TargetRow] /\ LinksKept
  BY <1>1, RunReads
<1> QED BY <1>1, <1>2, <1>3, RunSteps

\* The claim keeps every row and adds the id of its branch.
LEMMA ClaimNamesInd ==
  ASSUME BranchesInv, NEW f \in Filler, ClaimNames(f) PROVE BranchesInv'
<1>1. PICK run : run = fill[f]
  OBVIOUS
<1>2. run \in FillRow /\ run.step = "claim" /\ Complete(run) /\ RowsTyped(run)
  BY <1>1 DEF BranchesInv, BranchesTyped, ClaimNames
<1>3. run.rows \subseteq ScanRow /\ IsFiniteSet(run.rows)
  BY <1>2 DEF RowsTyped
<1> DEFINE new == {n \in NamesOf(fill[f].rows) : ~NameTaken(n)}
<1>4. PICK put \in [new -> BranchId \ Rows] :
        fill' = [fill EXCEPT ![f].step = "link",
           ![f].rows = {<<r[1], r[2], IF r[2] \in new THEN put[r[2]]
                                      ELSE CHOOSE b \in Rows : branch[b].name = r[2]>> : r \in @}]
  <2>1. \E put \in [new -> BranchId \ Rows] :
          /\ \A m, n \in new : put[m] = put[n] => m = n
          /\ branch' = [b \in BranchId |->
               IF \E n \in new : put[n] = b
               THEN [name |-> CHOOSE n \in new : put[n] = b, version |-> 1, by |-> f]
               ELSE branch[b]]
          /\ fill' = [fill EXCEPT ![f].step = "link",
               ![f].rows = {<<r[1], r[2], IF r[2] \in new THEN put[r[2]]
                                          ELSE CHOOSE b \in Rows : branch[b].name = r[2]>> : r \in @}]
    BY Zenon DEF ClaimNames
  <2> HIDE DEF new
  <2> QED BY <2>1, Zenon
<1>5. new = {n \in NamesOf(run.rows) : ~NameTaken(n)}
  BY <1>1
<1> HIDE DEF new
<1> DEFINE Id(n) == IF n \in new THEN put[n] ELSE CHOOSE b \in Rows : branch[b].name = n
<1>6. ASSUME NEW r \in run.rows PROVE Id(r[2]) \in BranchId
  <2>1. CASE r[2] \in new
    BY <1>4, <2>1
  <2>2. CASE r[2] \notin new
    <3>1. NameTaken(r[2])
      BY <1>5, <2>2 DEF NamesOf
    <3>2. \E b \in Rows : branch[b].name = r[2]
      BY <3>1 DEF NameTaken
    <3>3. (CHOOSE b \in Rows : branch[b].name = r[2]) \in Rows
      BY <3>2
    <3> QED BY <2>2, <3>3 DEF Rows
  <2> QED BY <2>1, <2>2
<1>7. PICK rows : rows = {<<r[1], r[2], Id(r[2])>> : r \in run.rows}
  OBVIOUS
<1>8. PICK now : now = [run EXCEPT !.step = "link", !.rows = rows]
  OBVIOUS
<1>9. fill' = [fill EXCEPT ![f] = now]
  <2>1. PICK R : R = {<<r[1], r[2], IF r[2] \in new THEN put[r[2]]
                        ELSE CHOOSE b \in Rows : branch[b].name = r[2]>> : r \in fill[f].rows}
    OBVIOUS
  <2>2. R = rows
    BY <1>1, <1>7, <2>1
  <2>3. fill' = [fill EXCEPT ![f].step = "link", ![f].rows = R]
    BY ONLY <1>4, <2>1
  <2> QED BY <1>1, <1>8, <2>2, <2>3
<1> HIDE DEF Id
<1>10. rows \in SUBSET LinkRow
  <2>1. ASSUME NEW r \in run.rows PROVE <<r[1], r[2], Id(r[2])>> \in LinkRow
    <3>1. r[1] \in Target /\ r[2] \in Text
      BY <1>3 DEF ScanRow
    <3> QED BY <1>6, <3>1 DEF LinkRow
  <2> QED BY <1>7, <2>1
<1>11. IsFiniteSet(rows) /\ Cardinality(rows) = Cardinality(run.rows)
  <2>1. PICK g : g = [r \in run.rows |-> <<r[1], r[2], Id(r[2])>>]
    OBVIOUS
  <2>2. g \in [run.rows -> rows]
    BY <1>7, <2>1
  <2>3. ASSUME NEW x \in run.rows, NEW y \in run.rows, g[x] = g[y] PROVE x = y
    <3>1. x[1] = y[1] /\ x[2] = y[2]
      BY <2>1, <2>3
    <3>2. x = <<x[1], x[2]>> /\ y = <<y[1], y[2]>>
      BY <1>3 DEF ScanRow
    <3> QED BY <3>1, <3>2
  <2>4. \A r \in rows : \E x \in run.rows : g[x] = r
    BY <1>7, <2>1
  <2>5. \A x, y \in run.rows : g[x] = g[y] => x = y
    BY <2>3
  <2> QED BY ONLY <1>3, <2>2, <2>4, <2>5, SameSize
<1>12. /\ now \in FillRow /\ now.step = "link" /\ now.rows = rows
       /\ now.after = run.after /\ now.due = run.due
  BY <1>2, <1>8, <1>10 DEF FillRow
<1>13. RowsTyped(now)
  BY <1>10, <1>11, <1>12 DEF RowsTyped
<1>14. ASSUME NEW t, NEW text, InBatch(run.rows, t, text) PROVE InBatch(rows, t, text)
  <2>1. CASE \E r \in run.rows : r[1] = t /\ r[2] = text
    <3>1. PICK r \in run.rows : r[1] = t /\ r[2] = text
      BY <2>1
    <3>2. PICK s : s = <<r[1], r[2], Id(r[2])>>
      OBVIOUS
    <3>3. s \in rows /\ s[1] = t /\ s[2] = text
      BY <1>7, <3>1, <3>2
    <3> QED BY <3>3 DEF InBatch
  <2>2. CASE Cardinality(run.rows) >= LinkBatch /\ \A r \in run.rows : r[1] < t
    <3>1. \A r \in rows : r[1] < t
      BY <1>7, <2>2
    <3> QED BY <1>11, <2>2, <3>1 DEF InBatch
  <2> QED BY <1>14, <2>1, <2>2 DEF InBatch
<1>15. ASSUME NEW t \in run.due PROVE ToCome(now, target[t], t)
  <2>1. ToCome(run, target[t], t)
    BY <1>2 DEF Complete
  <2>2. InBatch(run.rows, t, target[t].text) => InBatch(rows, t, target[t].text)
    BY <1>14
  <2> QED BY <1>2, <1>12, <2>1, <2>2 DEF ToCome
<1>16. UNCHANGED <<target, assigning>>
  BY DEF ClaimNames
<1>17. Complete(now)'
  BY <1>12, <1>15, <1>16 DEF Complete
<1>18. target' \in [Target -> TargetRow] /\ LinksKept
  BY <1>16, RunReads
<1> QED BY <1>9, <1>12, <1>13, <1>16, <1>17, <1>18, RunSteps

\* A batch gives a link to the rows it finds unlinked with the scanned text,
\* and to no other target.
LEMMA LinkTargetsLinks ==
  ASSUME BranchesInv, NEW f \in Filler, LinkTargets(f)
  PROVE  /\ target' \in [Target -> TargetRow] /\ LinksKept
         /\ \A t \in Target : target[t].branch # Unlinked => target'[t].branch = target[t].branch
         /\ \A t \in Target :
              (\E r \in fill[f].rows : r[1] = t /\ r[2] = target[t].text) => target'[t].branch # Unlinked
<1>1. PICK rows : rows = fill[f].rows
  OBVIOUS
<1>2. rows \subseteq LinkRow
  BY <1>1 DEF BranchesInv, BranchesTyped, RowsTyped, LinkTargets
<1>3. PICK linked : linked = {r \in rows : StillDue(r[1], r[2])}
  OBVIOUS
<1>4. ASSUME NEW t \in Target
      PROVE  target'[t] = IF \E r \in linked : r[1] = t
               THEN [target[t] EXCEPT !.branch = (CHOOSE r \in linked : r[1] = t)[3], !.version = @ + 1]
               ELSE target[t]
  BY <1>1, <1>3 DEF LinkTargets
<1>5. DOMAIN target' = Target /\ target' = [t \in Target |-> target'[t]]
  BY DEF LinkTargets
<1>6. ASSUME NEW t \in Target, NEW r \in linked, r[1] = t
      PROVE  /\ target'[t] \in TargetRow /\ target'[t].text = target[t].text
             /\ target'[t].branch # Unlinked /\ target[t].branch = Unlinked
  <2>1. PICK s : s = CHOOSE x \in linked : x[1] = t
    OBVIOUS
  <2>2. s \in linked
    BY <1>6, <2>1
  <2>3. s[3] \in BranchId /\ s[3] # Unlinked
    BY <1>2, <1>3, <2>2, BranchesAssumption DEF LinkRow, Unlinked
  <2>4. target'[t] = [target[t] EXCEPT !.branch = s[3], !.version = @ + 1]
    BY <1>4, <1>6, <2>1
  <2>5. PICK u \in TargetRow : u = target[t]
    BY DEF BranchesInv, BranchesTyped
  <2>6. target[t].branch = Unlinked
    BY <1>3, <1>6 DEF StillDue
  <2>7. target'[t] \in TargetRow
    BY <2>3, <2>4, <2>5, RowEdits
  <2>8. target'[t].text = target[t].text /\ target'[t].branch = s[3]
    BY <2>4, <2>5 DEF TargetRow
  <2> QED BY <2>3, <2>6, <2>7, <2>8
<1>7. ASSUME NEW t \in Target, ~\E r \in linked : r[1] = t
      PROVE  target'[t] = target[t] /\ target'[t] \in TargetRow
  BY <1>4, <1>7 DEF BranchesInv, BranchesTyped
<1>8. ASSUME NEW t \in Target PROVE target'[t] \in TargetRow /\ target'[t].text = target[t].text
  BY <1>6, <1>7
<1>9. target' \in [Target -> TargetRow]
  BY <1>5, <1>8
<1>10. ASSUME NEW t \in Target, target[t].branch # Unlinked PROVE target'[t].branch = target[t].branch
  <2>1. ~\E r \in linked : r[1] = t
    BY <1>6, <1>10
  <2> QED BY <1>7, <2>1
<1>11. ASSUME NEW t \in Target, NEW r \in rows, r[1] = t, r[2] = target[t].text
       PROVE  target'[t].branch # Unlinked
  <2>1. CASE target[t].branch = Unlinked
    <3>1. r \in linked
      BY <1>3, <1>11, <2>1 DEF StillDue
    <3> QED BY <1>6, <1>11, <3>1
  <2>2. CASE target[t].branch # Unlinked
    BY <1>10, <2>2
  <2> QED BY <2>1, <2>2
<1>12. LinksKept
  BY <1>8, <1>10 DEF LinksKept
<1> QED BY <1>1, <1>9, <1>10, <1>11, <1>12

\* After the links of a batch, what is still to come lies behind it; after a
\* batch that was not full, nothing is.
LEMMA BatchEnds ==
  ASSUME BranchesInv, NEW f \in Filler, LinkTargets(f), NEW t \in fill[f].due,
         target'[t].branch = Unlinked
  PROVE  /\ target'[t].text # NoText /\ MoreToScan(fill[f].rows)
         /\ \A r \in fill[f].rows : r[1] < t
<1>1. t \in Target /\ ToCome(fill[f], target[t], t) /\ fill[f].step = "link"
  BY DEF BranchesInv, BranchesTyped, Complete, FillRow, LinkTargets
<1>2. /\ target'[t].text = target[t].text
      /\ target[t].branch # Unlinked => target'[t].branch # Unlinked
      /\ (\E r \in fill[f].rows : r[1] = t /\ r[2] = target[t].text) => target'[t].branch # Unlinked
  BY <1>1, LinkTargetsLinks DEF LinksKept
<1>3. target[t].text # NoText /\ InBatch(fill[f].rows, t, target[t].text)
  BY <1>1, <1>2 DEF ToCome
<1> QED BY <1>2, <1>3 DEF InBatch, MoreToScan

LEMMA LinkTargetsInd ==
  ASSUME BranchesInv, NEW f \in Filler, LinkTargets(f) PROVE BranchesInv'
<1>1. PICK run : run = fill[f]
  OBVIOUS
<1>2. run \in FillRow /\ run.step = "link" /\ RowsTyped(run)
  BY <1>1 DEF BranchesInv, BranchesTyped, LinkTargets
<1>3. run.rows \subseteq LinkRow /\ IsFiniteSet(run.rows) /\ run.due \subseteq Target
  BY <1>2 DEF RowsTyped, FillRow
<1>4. target' \in [Target -> TargetRow] /\ LinksKept /\ UNCHANGED assigning
  BY LinkTargetsLinks DEF LinkTargets
<1>5. CASE MoreToScan(run.rows)
  <2>1. PICK S : S = {r[1] : r \in run.rows}
    OBVIOUS
  <2>2. PICK last : last = Max(S)
    OBVIOUS
  <2>3. PICK now : now = [run EXCEPT !.step = "scan", !.after = last, !.rows = {}]
    OBVIOUS
  <2>4. fill' = [fill EXCEPT ![f] = now]
    BY <1>1, <1>5, <2>1, <2>2, <2>3 DEF LinkTargets
  <2>5. S \subseteq Target
    BY <1>3, <2>1 DEF LinkRow
  <2>6. S \in SUBSET Nat /\ IsFiniteSet(S)
    BY <2>5, BranchesAssumption, FS_Subset
  <2>7. S # {}
    <3>1. run.rows # {}
      BY <1>5, BranchesAssumption, FS_EmptySet DEF MoreToScan
    <3> QED BY <2>1, <3>1
  <2>8. last \in S /\ last \in Nat
    BY <2>2, <2>6, <2>7, GreatestElement
  <2>9. now \in FillRow /\ now.step = "scan" /\ now.rows = {} /\ now.after = last /\ now.due = run.due
    BY <1>2, <2>3, <2>8 DEF FillRow
  <2>10. RowsTyped(now)
    BY <2>9, FS_EmptySet DEF RowsTyped
  <2>11. ASSUME NEW t \in run.due PROVE ToCome(now, target'[t], t)
    <3>1. CASE target'[t].branch = Unlinked
      <4>1. target'[t].text # NoText /\ \A r \in run.rows : r[1] < t
        BY <1>1, <3>1, BatchEnds
      <4>2. last < t
        BY <2>1, <2>8, <4>1
      <4> QED BY <2>9, <4>1, <4>2 DEF ToCome
    <3>2. CASE target'[t].branch # Unlinked
      <4>1. ToCome(run, target[t], t) /\ t \in Target
        BY <1>1, <1>2, <1>3 DEF BranchesInv, Complete
      <4>2. target'[t].text # NoText
        BY <1>4, <4>1 DEF ToCome, LinksKept
      <4> QED BY <3>2, <4>2 DEF ToCome
    <3> QED BY <3>1, <3>2
  <2>12. Complete(now)'
    BY <2>9, <2>11 DEF Complete
  <2> QED BY <1>4, <2>4, <2>9, <2>10, <2>12, RunSteps
<1>6. CASE ~MoreToScan(run.rows)
  <2>1. PICK now : now = [NoFill EXCEPT !.step = "done"]
    OBVIOUS
  <2>2. fill' = [fill EXCEPT ![f] = now]
    BY <1>1, <1>6, <2>1 DEF LinkTargets
  <2>3. now \in FillRow /\ RowsTyped(now) /\ Complete(now)'
    BY <2>1, FS_EmptySet DEF NoFill, FillRow, RowsTyped, Complete
  <2> QED BY <1>4, <2>2, <2>3, RunSteps
<1> QED BY <1>5, <1>6

\* What a step may do: links are replaced by people only, and a run that ends
\* leaves none of its targets unlinked.
LinksAreGiven ==
  \A t \in Target : target[t].branch # Unlinked /\ target'[t].branch # target[t].branch =>
    \E k \in Assigner : assigning[k].target = t /\ assigning[k].branch = target'[t].branch
NoneLeftBehind ==
  \A f \in Filler : fill[f].step # "done" /\ fill'[f].step = "done" =>
    \A t \in fill[f].due : target'[t].branch # Unlinked

LEMMA LinkTargetsKeeps ==
  ASSUME BranchesInv, NEW f \in Filler, LinkTargets(f) PROVE LinksAreGiven /\ NoneLeftBehind
<1>1. LinksAreGiven
  BY LinkTargetsLinks DEF LinksAreGiven
<1>2. ASSUME NEW g \in Filler, fill[g].step # "done", fill'[g].step = "done", NEW t \in fill[g].due
      PROVE  target'[t].branch # Unlinked
  <2>1. g = f
    BY <1>2 DEF LinkTargets, BranchesInv, BranchesTyped
  <2>2. fill[f] \in FillRow /\ f \in DOMAIN fill
    BY DEF BranchesInv, BranchesTyped
  <2>3. ~MoreToScan(fill[f].rows)
    <3>1. ASSUME MoreToScan(fill[f].rows) PROVE FALSE
      <4>1. PICK last : last = Max({r[1] : r \in fill[f].rows})
        OBVIOUS
      <4>2. fill'[f] = [fill[f] EXCEPT !.step = "scan", !.after = last, !.rows = {}]
        BY <2>2, <3>1, <4>1 DEF LinkTargets
      <4>3. fill'[f].step = "scan"
        BY <2>2, <4>2 DEF FillRow
      <4> QED BY <1>2, <2>1, <4>3
    <3> QED BY <3>1
  <2> QED BY <1>2, <2>1, <2>3, BatchEnds
<1>3. NoneLeftBehind
  BY <1>2 DEF NoneLeftBehind
<1> QED BY <1>1, <1>3

\* No other step ends a run or lets one go on.
LEMMA FillGoesOn ==
  ASSUME BranchesInv, NEW f \in Filler, NEW now, now.step # "done", fill' = [fill EXCEPT ![f] = now]
  PROVE  NoneLeftBehind
  BY DEF BranchesInv, BranchesTyped, NoneLeftBehind

LEMMA BranchesStep ==
  BranchesInv /\ [BranchesNext]_branchesVars => BranchesInv' /\ LinksAreGiven /\ NoneLeftBehind
<1> SUFFICES ASSUME BranchesInv, [BranchesNext]_branchesVars
             PROVE  BranchesInv' /\ LinksAreGiven /\ NoneLeftBehind
  OBVIOUS
<1>1. ASSUME UNCHANGED <<target, fill>>,
             assigning' \in [Assigner -> {NotAssigning} \union Assignment]
      PROVE  BranchesInv' /\ LinksAreGiven /\ NoneLeftBehind
  BY <1>1, RestInd DEF LinksAreGiven, NoneLeftBehind
<1>2. ASSUME UNCHANGED branchesVars PROVE BranchesInv' /\ LinksAreGiven /\ NoneLeftBehind
  BY <1>1, <1>2 DEF branchesVars, BranchesInv, BranchesTyped
<1>3. ASSUME NEW n \in BranchName, CreateBranch(n) PROVE BranchesInv' /\ LinksAreGiven /\ NoneLeftBehind
  BY <1>1, <1>3 DEF CreateBranch, BranchesInv, BranchesTyped
<1>4. ASSUME NEW b \in BranchId, NEW n \in BranchName, UpdateBranch(b, n)
      PROVE  BranchesInv' /\ LinksAreGiven /\ NoneLeftBehind
  BY <1>1, <1>4 DEF UpdateBranch, BranchesInv, BranchesTyped
<1>5. ASSUME NEW t \in Target, NEW text \in BranchName \union {NoText}, EditTarget(t, text)
      PROVE  BranchesInv' /\ LinksAreGiven /\ NoneLeftBehind
  <2>1. BranchesInv'
    BY <1>5, EditTargetInd DEF Text
  <2>2. \A u \in Target : target'[u].branch = target[u].branch
    BY <1>5 DEF EditTarget, BranchesInv, BranchesTyped, TargetRow
  <2>3. ASSUME NEW f \in Filler PROVE fill'[f].step = fill[f].step
    <3>1. fill'[f] = fill[f] \/ fill'[f] = [fill[f] EXCEPT !.due = @ \ {t}]
      BY <1>5 DEF EditTarget
    <3>2. fill[f] \in FillRow
      BY DEF BranchesInv, BranchesTyped
    <3> QED BY <3>1, <3>2 DEF FillRow
  <2> QED BY <2>1, <2>2, <2>3 DEF LinksAreGiven, NoneLeftBehind
<1>6. ASSUME NEW k \in Assigner, NEW t \in Target, NEW b \in BranchId, BeginAssign(k, t, b)
      PROVE  BranchesInv' /\ LinksAreGiven /\ NoneLeftBehind
  <2>1. UNCHANGED <<target, fill>>
    BY <1>6 DEF BeginAssign
  <2> QED BY <1>6, <2>1, BeginAssignInd DEF LinksAreGiven, NoneLeftBehind
<1>7. ASSUME NEW k \in Assigner, FinishAssign(k) PROVE BranchesInv' /\ LinksAreGiven /\ NoneLeftBehind
  <2>1. fill' = fill
    BY <1>7 DEF FinishAssign
  <2>2. LinksAreGiven
    BY <1>7, FinishAssignLinks DEF LinksAreGiven
  <2> QED BY <1>7, <2>1, <2>2, FinishAssignInd DEF NoneLeftBehind
<1>8. ASSUME NEW f \in Filler, StartFill(f) \/ ScanDue(f) \/ ClaimNames(f) \/ FillFails(f)
      PROVE  BranchesInv' /\ LinksAreGiven /\ NoneLeftBehind
  <2>1. UNCHANGED target
    BY <1>8 DEF StartFill, ScanDue, ClaimNames, FillFails
  <2>2. fill[f] \in FillRow
    BY DEF BranchesInv, BranchesTyped
  <2>3. ASSUME StartFill(f) PROVE \E now : now.step # "done" /\ fill' = [fill EXCEPT ![f] = now]
    BY <2>3 DEF StartFill
  <2>4. ASSUME ScanDue(f) PROVE \E now : now.step # "done" /\ fill' = [fill EXCEPT ![f] = now]
    <3>1. PICK now : now = [fill[f] EXCEPT !.step = "claim", !.rows = ScannedRows(fill[f].after)]
      OBVIOUS
    <3>2. now.step = "claim"
      BY <2>2, <3>1 DEF FillRow
    <3> QED BY <2>4, <3>1, <3>2 DEF ScanDue
  <2>5. ASSUME ClaimNames(f) PROVE \E now : now.step # "done" /\ fill' = [fill EXCEPT ![f] = now]
    <3>1. PICK rows : fill' = [fill EXCEPT ![f].step = "link", ![f].rows = rows]
      BY <2>5 DEF ClaimNames
    <3>2. PICK now : now = [fill[f] EXCEPT !.step = "link", !.rows = rows]
      OBVIOUS
    <3>3. now.step = "link" /\ fill' = [fill EXCEPT ![f] = now]
      BY <2>2, <3>1, <3>2 DEF FillRow
    <3> QED BY <3>3
  <2>6. ASSUME FillFails(f) PROVE \E now : now.step # "done" /\ fill' = [fill EXCEPT ![f] = now]
    BY <2>6 DEF FillFails, NoFill
  <2>7. NoneLeftBehind
    BY <1>8, <2>3, <2>4, <2>5, <2>6, FillGoesOn
  <2>8. BranchesInv'
    BY <1>8, StartFillInd, ScanDueInd, ClaimNamesInd, FillFailsInd
  <2> QED BY <2>1, <2>7, <2>8 DEF LinksAreGiven
<1>9. ASSUME NEW f \in Filler, LinkTargets(f) PROVE BranchesInv' /\ LinksAreGiven /\ NoneLeftBehind
  BY <1>9, LinkTargetsInd, LinkTargetsKeeps
<1> QED BY <1>2, <1>3, <1>4, <1>5, <1>6, <1>7, <1>8, <1>9, Zenon DEF BranchesNext

\* A link that exists is only replaced by a person's assignment, and a run that
\* ends normally leaves none of the targets it was started for unlinked.
THEOREM BackfillIsComplete == BranchesSpec => BackfillLinksTheUnlinked
<1>1. BranchesInv /\ [BranchesNext]_branchesVars => BranchesInv'
  BY BranchesStep
<1>2. BranchesSpec => []BranchesInv
  BY <1>1, BranchesInitInd, PTL DEF BranchesSpec
<1>3. BranchesInv /\ [BranchesNext]_branchesVars =>
        [LinksAreGiven /\ NoneLeftBehind]_branchesVars
  BY BranchesStep
<1> QED BY <1>2, <1>3, PTL DEF BranchesSpec, BackfillLinksTheUnlinked, LinksAreGiven, NoneLeftBehind

-----------------------------------------------------------------------------
(* Month-end snapshots.                                                    *)

LoanRow(now) == [status : {"approved", "active", "closed", "written_off"},
                 on : 0..now, closed : 0..now, gone : 0..now]

SnapshotsTyped ==
  /\ month \in Month
  /\ lent \in [Borrowed -> LoanRow(month)]
  /\ received \in [Borrowed -> [Month -> Nat]] /\ undone \in [Borrowed -> [Month -> Nat]]
  /\ DOMAIN shot = Month /\ shut \subseteq Month

\* Snapshots are of elapsed months, and a closed month has one.
ShotsElapsed ==
  \A m \in Month : (m \in shut => shot[m].stored) /\ (shot[m].stored => m < month)

\* A loan not disbursed has no dates, and only a write-off dates the loss.
Dated(r, got) ==
  /\ r.status = "approved" => r.on = 0 /\ r.closed = 0 /\ \A m \in Month : got[m] = 0
  /\ r.status # "written_off" => r.gone = 0

\* A loan that was never corrected was closed in the month that paid it off.
ClosedWhenPaid(r, got, now) ==
  /\ r.status = "active" => r.closed = 0 /\ UpTo(got, now) < Installments
  /\ r.status = "closed" =>
       r.closed # 0 /\ \A m \in 1..now : UpTo(got, m) < Installments <=> m < r.closed

LoanInv(r, got, back, now) ==
  /\ Dated(r, got)
  /\ (\A m \in Month : back[m] = 0) => ClosedWhenPaid(r, got, now)
  /\ \A m \in Month : now < m => got[m] = 0

SnapshotsInv ==
  /\ SnapshotsTyped /\ ShotsElapsed
  /\ \A l \in Borrowed : LoanInv(lent[l], received[l], undone[l], month)
  /\ SnapshotsTellTheBooks

LEMMA MonthsFinite ==
  ASSUME NEW m \in Int, NEW n \in Int PROVE IsFiniteSet(m..n)
  BY FS_Interval

LEMMA MonthIsNat == \A m \in Month : m \in Nat /\ 1 <= m /\ 1..m \subseteq Month
  BY SnapshotsAssumption DEF Month

\* Sums over the months up to one.
LEMMA UpToIsSum == \A f, m : UpTo(f, m) = SumOf(f, 1..m)
  BY DEF UpTo, Sum, SumOf

LEMMA UpToAgrees ==
  ASSUME NEW f, NEW g, NEW m \in Nat, \A k \in 1..m : f[k] = g[k]
  PROVE  UpTo(f, m) = UpTo(g, m)
<1>1. IsFiniteSet(1..m)
  BY FS_Interval
<1>2. SumOf(f, 1..m) = SumOf(g, 1..m)
  BY <1>1, SumSame
<1> QED BY <1>2, UpToIsSum

LEMMA UpToNext ==
  ASSUME NEW f \in [Month -> Nat], NEW m \in Nat, m + 1 \in Month
  PROVE  UpTo(f, m) \in Nat /\ UpTo(f, m + 1) = UpTo(f, m) + f[m + 1]
<1>1. IsFiniteSet(1..m) /\ (1..m) \union {m + 1} = 1..(m + 1) /\ m + 1 \notin 1..m
  <2>1. \A x : x \in (1..m) \union {m + 1} <=> x \in 1..(m + 1)
    OBVIOUS
  <2>2. m + 1 \notin 1..m
    OBVIOUS
  <2>3. (1..m) \union {m + 1} = 1..(m + 1)
    BY <2>1, Zenon
  <2> QED BY <2>2, <2>3, MonthsFinite
<1>2. \A k \in (1..m) \union {m + 1} : f[k] \in Nat
  BY <1>1, SnapshotsAssumption DEF Month
<1>3. SumOf(f, 1..m) \in Nat
  <2>1. \A k \in 1..m : f[k] \in Nat
    BY <1>2
  <2> QED BY ONLY <1>1, <2>1, SumIsNat
<1>4. SumOf(f, (1..m) \union {m + 1}) = SumOf(f, 1..m) + f[m + 1]
  <2>1. \A k \in (1..m) \union {m + 1} : f[k] \in Int
    BY <1>2
  <2>2. IsFiniteSet(1..m) /\ m + 1 \notin 1..m
    BY <1>1
  <2> QED BY ONLY <2>1, <2>2, SumAdd
<1> QED BY <1>1, <1>3, <1>4, UpToIsSum

LEMMA UpToGrows ==
  ASSUME NEW f \in [Month -> Nat], NEW m \in Month, NEW n \in Month, m <= n
  PROVE  UpTo(f, m) \in Nat /\ UpTo(f, n) \in Nat /\ UpTo(f, m) <= UpTo(f, n)
<1>1. IsFiniteSet(1..m) /\ IsFiniteSet((m+1)..n) /\ (1..m) \cap ((m+1)..n) = {}
      /\ (1..m) \union ((m+1)..n) = 1..n
  <2>1. m \in Nat /\ n \in Nat /\ 1 <= m
    BY MonthIsNat
  <2>2. \A x : x \in (1..m) \union ((m+1)..n) <=> x \in 1..n
    BY <2>1
  <2>3. \A x : ~(x \in 1..m /\ x \in (m+1)..n)
    BY <2>1
  <2>4. (1..m) \union ((m+1)..n) = 1..n
    BY <2>2, Zenon
  <2>5. (1..m) \cap ((m+1)..n) = {}
    BY <2>3, Zenon
  <2>6. IsFiniteSet(1..m) /\ IsFiniteSet((m+1)..n)
    BY <2>1, MonthsFinite
  <2> QED BY <2>4, <2>5, <2>6
<1>2. \A k \in 1..n : f[k] \in Nat
  BY SnapshotsAssumption DEF Month
<1>3. SumOf(f, 1..m) \in Nat
  <2>1. \A k \in 1..m : f[k] \in Nat
    BY <1>1, <1>2
  <2> QED BY <1>1, <2>1, SumIsNat
<1>4. SumOf(f, (m+1)..n) \in Nat
  <2>1. \A k \in (m+1)..n : f[k] \in Nat
    BY <1>1, <1>2
  <2> QED BY <1>1, <2>1, SumIsNat
<1>5. SumOf(f, (1..m) \union ((m+1)..n)) = SumOf(f, 1..m) + SumOf(f, (m+1)..n)
  <2>1. \A k \in (1..m) \union ((m+1)..n) : f[k] \in Int
    BY <1>1, <1>2
  <2> QED BY <1>1, <2>1, SumUnion
<1>6. UpTo(f, n) = UpTo(f, m) + SumOf(f, (m+1)..n) /\ UpTo(f, m) \in Nat
  BY <1>1, <1>3, <1>5, UpToIsSum
<1> QED BY <1>4, <1>6

LEMMA UpToZero ==
  ASSUME NEW f, NEW m \in Nat, \A k \in 1..m : f[k] = 0
  PROVE  UpTo(f, m) = 0
<1>1. IsFiniteSet(1..m)
  BY FS_Interval
<1>2. SumOf(f, 1..m) = 0
  BY <1>1, SumZero
<1> QED BY <1>2, UpToIsSum

\* An amount added in month a counts from a on.
LEMMA UpToPlus ==
  ASSUME NEW f \in [Month -> Nat], NEW g \in [Month -> Nat], NEW a \in Month, NEW n \in Nat,
         g[a] = f[a] + n, \A k \in Month \ {a} : g[k] = f[k], NEW m \in Month
  PROVE  UpTo(g, m) = IF a <= m THEN UpTo(f, m) + n ELSE UpTo(f, m)
<1>1. m \in Nat /\ 1..m \subseteq Month /\ IsFiniteSet(1..m)
  BY MonthIsNat, MonthsFinite
<1>2. CASE a <= m
  <2>1. a \in 1..m
    BY <1>2, SnapshotsAssumption DEF Month
  <2>2. \A k \in 1..m : f[k] \in Int
    BY <1>1
  <2>3. \A k \in 1..m : g[k] \in Int
    BY <1>1
  <2>4. \A k \in (1..m) \ {a} : g[k] = f[k]
    BY <1>1
  <2>5. IsFiniteSet(1..m)
    BY <1>1
  <2>6. SumOf(g, 1..m) = SumOf(f, 1..m) + g[a] - f[a]
    BY ONLY <2>1, <2>2, <2>3, <2>4, <2>5, SumChanged
  <2>7. SumOf(f, 1..m) \in Int
    BY ONLY <2>2, <2>5, SumIsInt
  <2>8. f[a] \in Nat /\ g[a] = f[a] + n
    OBVIOUS
  <2>9. UpTo(g, m) = UpTo(f, m) + g[a] - f[a] /\ UpTo(f, m) \in Int
    BY <2>6, <2>7, UpToIsSum
  <2> QED BY <1>2, <2>8, <2>9
<1>3. CASE ~(a <= m)
  <2>1. \A k \in 1..m : g[k] = f[k]
    BY <1>1, <1>3
  <2>2. UpTo(g, m) = UpTo(f, m)
    BY <1>1, <2>1, UpToAgrees
  <2> QED BY <1>3, <2>2
<1> QED BY <1>2, <1>3

LEMMA SnapshotsInitInd == SnapshotsInit => SnapshotsInv
<1> SUFFICES ASSUME SnapshotsInit PROVE SnapshotsInv
  OBVIOUS
<1>1. SnapshotsTyped
  BY SnapshotsAssumption DEF SnapshotsInit, SnapshotsTyped, Month, LoanRow, Unlent
<1>2. \A m \in Month : ~shot[m].stored /\ m \notin shut
  BY DEF SnapshotsInit, NoShot
<1>3. ASSUME NEW l \in Borrowed PROVE LoanInv(lent[l], received[l], undone[l], month)
  BY DEF SnapshotsInit, Unlent, LoanInv, Dated, ClosedWhenPaid
<1> QED BY <1>1, <1>2, <1>3 DEF SnapshotsInv, ShotsElapsed, SnapshotsTellTheBooks

-----------------------------------------------------------------------------

\* The books of a month that no loan's dates and legs change.
LEMMA BooksOfMonthStay ==
  ASSUME NEW m,
         \A l \in Borrowed : Paid(l, m)' = Paid(l, m),
         \A l \in Borrowed : StillOwed(l, m)' <=> StillOwed(l, m),
         \A l \in Borrowed : StillOwed(l, m) => lent'[l].on = lent[l].on
  PROVE  OnTheBooks(m)' = OnTheBooks(m)
<1> DEFINE S == {l \in Borrowed : StillOwed(l, m)}
           B == [l \in Borrowed |-> Installments - Paid(l, m)]
           late == {l \in S : Overdue(l, m)}
<1>1. S' = S
  BY Zenon
<1>2. B' = B
  <2>1. \A l \in Borrowed : (Installments - Paid(l, m))' = Installments - Paid(l, m)
    BY DEF Paid
  <2> QED BY <2>1
<1>3. ASSUME NEW l \in S PROVE Overdue(l, m)' <=> Overdue(l, m)
  <2>1. Paid(l, m)' = Paid(l, m) /\ lent'[l].on = lent[l].on
    BY <1>3
  <2> DEFINE unpaid == {i \in 1..Installments : lent[l].on + i <= m /\ i > Paid(l, m)}
  <2>2. unpaid' = unpaid
    BY <2>1
  <2> QED BY <2>1, <2>2 DEF Overdue
<1>4. late' = late
  BY <1>1, <1>3
<1> QED BY <1>1, <1>2, <1>4 DEF OnTheBooks, Totals

\* An event writes one loan, and only what is dated now.
Writes(l, r, got, back) ==
  /\ lent' = [lent EXCEPT ![l] = r]
  /\ received' = [received EXCEPT ![l] = got]
  /\ undone' = [undone EXCEPT ![l] = back]
  /\ UNCHANGED <<month, shot, shut>>

DatedNow(l, r, got, back) ==
  /\ r \in LoanRow(month) /\ got \in [Month -> Nat] /\ back \in [Month -> Nat]
  /\ \A m \in Month : m < month => got[m] = received[l][m] /\ back[m] = undone[l][m]
  /\ r.on = lent[l].on \/ (lent[l].on = 0 /\ r.on = month)
  /\ r.gone = lent[l].gone \/ (lent[l].gone = 0 /\ r.gone = month)

\* It leaves the books of the months before.
LEMMA LoanEvent ==
  ASSUME SnapshotsInv, NEW l \in Borrowed, NEW r, NEW got, NEW back,
         Writes(l, r, got, back), DatedNow(l, r, got, back), LoanInv(r, got, back, month)
  PROVE  SnapshotsInv'
<1> USE DEF Writes, DatedNow
<1>1. /\ month \in Month /\ month \in Nat
      /\ lent \in [Borrowed -> LoanRow(month)]
      /\ received \in [Borrowed -> [Month -> Nat]] /\ undone \in [Borrowed -> [Month -> Nat]]
  BY MonthIsNat DEF SnapshotsInv, SnapshotsTyped
<1>2. SnapshotsTyped'
  <2>1. lent' \in [Borrowed -> LoanRow(month)]
    BY <1>1
  <2>2. LoanRow(month') = LoanRow(month)
    OBVIOUS
  <2>3. received' \in [Borrowed -> [Month -> Nat]] /\ undone' \in [Borrowed -> [Month -> Nat]]
    BY <1>1
  <2> QED BY <1>1, <2>1, <2>2, <2>3 DEF SnapshotsInv, SnapshotsTyped
<1>3. ASSUME NEW k \in Borrowed
      PROVE  /\ k = l => lent'[k] = r /\ received'[k] = got /\ undone'[k] = back
             /\ k # l => lent'[k] = lent[k] /\ received'[k] = received[k] /\ undone'[k] = undone[k]
  BY <1>1
<1>4. ASSUME NEW k \in Borrowed PROVE LoanInv(lent'[k], received'[k], undone'[k], month')
  <2>1. CASE k = l
    BY <1>3, <2>1
  <2>2. CASE k # l
    <3>1. LoanInv(lent[k], received[k], undone[k], month)
      BY DEF SnapshotsInv
    <3> QED BY <1>3, <2>2, <3>1
  <2> QED BY <2>1, <2>2
<1>5. ASSUME NEW m \in Month, m < month PROVE OnTheBooks(m)' = OnTheBooks(m)
  <2>1. m \in Nat /\ 1..m \subseteq Month /\ \A i \in 1..m : i < month
    BY <1>1, <1>5, MonthIsNat
  <2>2. ASSUME NEW k \in Borrowed PROVE Paid(k, m)' = Paid(k, m)
    <3>1. \A i \in 1..m : received'[k][i] = received[k][i]
      BY <1>3, <2>1
    <3>2. \A i \in 1..m : undone'[k][i] = undone[k][i]
      BY <1>3, <2>1
    <3>3. UpTo(received'[k], m) = UpTo(received[k], m)
      BY ONLY <2>1, <3>1, UpToAgrees
    <3>4. UpTo(undone'[k], m) = UpTo(undone[k], m)
      BY ONLY <2>1, <3>2, UpToAgrees
    <3> QED BY <3>3, <3>4 DEF Paid
  <2>3. ASSUME NEW k \in Borrowed
        PROVE  /\ lent'[k].on \in 1..m <=> lent[k].on \in 1..m
               /\ lent'[k].gone \in 1..m <=> lent[k].gone \in 1..m
               /\ lent[k].on \in 1..m => lent'[k].on = lent[k].on
    <3>1. CASE k # l
      BY <1>3, <3>1
    <3>2. CASE k = l
      BY <1>1, <1>3, <1>5, <2>1, <3>2
    <3> QED BY <3>1, <3>2
  <2>4. \A k \in Borrowed : StillOwed(k, m)' <=> StillOwed(k, m)
    BY <2>2, <2>3 DEF StillOwed
  <2>5. \A k \in Borrowed : StillOwed(k, m) => lent'[k].on = lent[k].on
    BY <2>3 DEF StillOwed
  <2> QED BY <2>2, <2>4, <2>5, BooksOfMonthStay
<1>6. ShotsElapsed' /\ SnapshotsTellTheBooks'
  <2>1. ASSUME NEW m \in Month
        PROVE  (m \in shut => shot[m].stored) /\ (shot[m].stored => m < month)
               /\ (shot[m].stored /\ shot[m].pristine => shot[m].figures = OnTheBooks(m))
    BY DEF SnapshotsInv, ShotsElapsed, SnapshotsTellTheBooks
  <2>2. shot' = shot /\ shut' = shut /\ month' = month
    OBVIOUS
  <2>3. ShotsElapsed'
    BY <2>1, <2>2 DEF ShotsElapsed
  <2>4. ASSUME NEW m \in Month, shot[m].stored, shot[m].pristine
        PROVE  shot[m].figures = OnTheBooks(m)'
    BY <1>5, <2>1, <2>4
  <2> QED BY <2>1, <2>2, <2>3, <2>4 DEF SnapshotsTellTheBooks
<1> QED BY <1>2, <1>4, <1>6 DEF SnapshotsInv

\* What the invariant says of one loan.
LEMMA LoanFacts ==
  ASSUME SnapshotsInv, NEW l \in Borrowed
  PROVE  /\ month \in Month /\ month \in Nat /\ 1 <= month
         /\ lent[l] \in LoanRow(month) /\ received[l] \in [Month -> Nat] /\ undone[l] \in [Month -> Nat]
         /\ LoanInv(lent[l], received[l], undone[l], month)
         /\ lent = [lent EXCEPT ![l] = lent[l]] /\ received = [received EXCEPT ![l] = received[l]]
         /\ undone = [undone EXCEPT ![l] = undone[l]]
  BY MonthIsNat DEF SnapshotsInv, SnapshotsTyped

\* The rows that the events write.
LEMMA RowWritten ==
  ASSUME NEW now \in Nat, NEW r \in LoanRow(now)
  PROVE  /\ [r EXCEPT !.status = "active", !.on = now] \in LoanRow(now)
         /\ [r EXCEPT !.status = "written_off", !.gone = now] \in LoanRow(now)
         /\ [r EXCEPT !.status = "active", !.closed = 0] \in LoanRow(now)
         /\ [r EXCEPT !.status = "closed", !.closed = now] \in LoanRow(now)
<1>1. PICK dates : dates = 0..now
  OBVIOUS
<1>2. LoanRow(now) = [status : {"approved", "active", "closed", "written_off"},
                      on : dates, closed : dates, gone : dates]
  BY <1>1 DEF LoanRow
<1>3. 0 \in dates /\ now \in dates
  BY <1>1
<1>4. PICK T : T = {"approved", "active", "closed", "written_off"}
  OBVIOUS
<1>5. r \in [status : T, on : dates, closed : dates, gone : dates]
  BY <1>2, <1>4
<1>6. [r EXCEPT !.status = "active", !.on = now] \in [status : T, on : dates, closed : dates, gone : dates]
  BY ONLY <1>3, <1>4, <1>5
<1>7. [r EXCEPT !.status = "written_off", !.gone = now] \in [status : T, on : dates, closed : dates, gone : dates]
  BY ONLY <1>3, <1>4, <1>5
<1>8. [r EXCEPT !.status = "active", !.closed = 0] \in [status : T, on : dates, closed : dates, gone : dates]
  BY ONLY <1>3, <1>4, <1>5
<1>9. [r EXCEPT !.status = "closed", !.closed = now] \in [status : T, on : dates, closed : dates, gone : dates]
  BY ONLY <1>3, <1>4, <1>5
<1> QED BY <1>2, <1>4, <1>6, <1>7, <1>8, <1>9

LEMMA DisburseInd == ASSUME SnapshotsInv, NEW l \in Borrowed, Disburse(l) PROVE SnapshotsInv'
<1>1. PICK old, got, back : old = lent[l] /\ got = received[l] /\ back = undone[l]
  OBVIOUS
<1>2. /\ month \in Month /\ month \in Nat /\ 1 <= month /\ old \in LoanRow(month)
      /\ got \in [Month -> Nat] /\ back \in [Month -> Nat] /\ LoanInv(old, got, back, month)
  BY <1>1, LoanFacts
<1>3. PICK r : r = [old EXCEPT !.status = "active", !.on = month]
  OBVIOUS
<1>4. lent' = [lent EXCEPT ![l] = r] /\ UNCHANGED <<month, received, undone, shot, shut>>
  BY <1>1, <1>3 DEF Disburse
<1>5. old.status = "approved"
  BY <1>1 DEF Disburse
<1>6. old.on = 0 /\ old.closed = 0 /\ old.gone = 0 /\ \A m \in Month : got[m] = 0
  BY <1>2, <1>5 DEF LoanInv, Dated
<1>7. /\ r \in LoanRow(month) /\ r.status = "active" /\ r.on = month /\ r.closed = 0 /\ r.gone = 0
  <2>1. r \in LoanRow(month)
    BY <1>2, <1>3, RowWritten
  <2> QED BY <1>2, <1>3, <1>6, <2>1 DEF LoanRow
<1>8. UpTo(got, month) = 0
  <2>1. \A k \in 1..month : got[k] = 0
    BY <1>2, <1>6, MonthIsNat
  <2> QED BY <1>2, <2>1, UpToZero
<1>9. LoanInv(r, got, back, month)
  BY <1>6, <1>7, <1>8, SnapshotsAssumption DEF LoanInv, Dated, ClosedWhenPaid
<1>10. received' = [received EXCEPT ![l] = got] /\ undone' = [undone EXCEPT ![l] = back]
  BY <1>1, <1>4, LoanFacts
<1>11. Writes(l, r, got, back)
  BY <1>4, <1>10 DEF Writes
<1>12. DatedNow(l, r, got, back)
  BY <1>1, <1>2, <1>6, <1>7 DEF DatedNow
<1> QED BY ONLY SnapshotsInv, l \in Borrowed, <1>9, <1>11, <1>12, LoanEvent

LEMMA WriteOffInd == ASSUME SnapshotsInv, NEW l \in Borrowed, WriteOff(l) PROVE SnapshotsInv'
<1>1. PICK old, got, back : old = lent[l] /\ got = received[l] /\ back = undone[l]
  OBVIOUS
<1>2. /\ month \in Month /\ month \in Nat /\ old \in LoanRow(month)
      /\ got \in [Month -> Nat] /\ back \in [Month -> Nat] /\ LoanInv(old, got, back, month)
  BY <1>1, LoanFacts
<1>3. PICK r : r = [old EXCEPT !.status = "written_off", !.gone = month]
  OBVIOUS
<1>4. lent' = [lent EXCEPT ![l] = r] /\ UNCHANGED <<month, received, undone, shot, shut>>
  BY <1>1, <1>3 DEF WriteOff
<1>5. old.status = "active"
  BY <1>1 DEF WriteOff
<1>6. old.gone = 0
  BY <1>2, <1>5 DEF LoanInv, Dated
<1>7. r \in LoanRow(month) /\ r.status = "written_off" /\ r.on = old.on /\ r.gone = month
  <2>1. r \in LoanRow(month)
    BY <1>2, <1>3, RowWritten
  <2> QED BY <1>2, <1>3, <2>1 DEF LoanRow
<1>8. LoanInv(r, got, back, month)
  BY <1>2, <1>7 DEF LoanInv, Dated, ClosedWhenPaid
<1>9. received' = [received EXCEPT ![l] = got] /\ undone' = [undone EXCEPT ![l] = back]
  BY <1>1, <1>4, LoanFacts
<1>10. Writes(l, r, got, back)
  BY <1>4, <1>9 DEF Writes
<1>11. DatedNow(l, r, got, back)
  BY <1>1, <1>2, <1>6, <1>7 DEF DatedNow
<1> QED BY ONLY SnapshotsInv, l \in Borrowed, <1>8, <1>10, <1>11, LoanEvent

LEMMA ReverseReceiptInd ==
  ASSUME SnapshotsInv, NEW l \in Borrowed, NEW n \in 1..Installments, ReverseReceipt(l, n)
  PROVE  SnapshotsInv'
<1>1. PICK old, got, was : old = lent[l] /\ got = received[l] /\ was = undone[l]
  OBVIOUS
<1>2. /\ month \in Month /\ month \in Nat /\ old \in LoanRow(month)
      /\ got \in [Month -> Nat] /\ was \in [Month -> Nat] /\ LoanInv(old, got, was, month)
  BY <1>1, LoanFacts
<1>3. PICK r : r = [old EXCEPT !.status = "active", !.closed = 0]
  OBVIOUS
<1>4. PICK back : back = [was EXCEPT ![month] = @ + n]
  OBVIOUS
<1>5. /\ lent' = [lent EXCEPT ![l] = r] /\ undone' = [undone EXCEPT ![l] = back]
      /\ UNCHANGED <<month, received, shot, shut>>
  <2>1. undone' = [undone EXCEPT ![l][month] = @ + n]
    BY DEF ReverseReceipt
  <2>2. undone' = [undone EXCEPT ![l] = back]
    BY <1>1, <1>4, <2>1
  <2> QED BY <1>1, <1>3, <2>2 DEF ReverseReceipt
<1>6. old.status \in {"active", "closed"}
  BY <1>1 DEF ReverseReceipt
<1>7. n \in Nat /\ 1 <= n
  BY SnapshotsAssumption
<1>8. /\ back \in [Month -> Nat] /\ back[month] # 0
      /\ \A m \in Month : m < month => back[m] = was[m]
  <2>1. was[month] \in Nat /\ was[month] + n \in Nat /\ was[month] + n # 0
    BY <1>2, <1>7
  <2>2. back[month] = was[month] + n /\ \A m \in Month : m # month => back[m] = was[m]
    BY <1>2, <1>4
  <2>3. back \in [Month -> Nat]
    BY <1>2, <1>4, <2>1
  <2>4. ASSUME NEW m \in Month, m < month PROVE back[m] = was[m]
    <3>1. m # month
      BY <1>2, <2>4, MonthIsNat
    <3> QED BY <2>2, <3>1
  <2> QED BY <2>1, <2>2, <2>3, <2>4
<1>9. r \in LoanRow(month) /\ r.status = "active" /\ r.on = old.on /\ r.gone = old.gone
  <2>1. r \in LoanRow(month)
    BY <1>2, <1>3, RowWritten
  <2> QED BY <1>2, <1>3, <2>1 DEF LoanRow
<1>10. LoanInv(r, got, back, month)
  BY <1>2, <1>6, <1>8, <1>9 DEF LoanInv, Dated
<1>11. received' = [received EXCEPT ![l] = got]
  BY <1>1, <1>5, LoanFacts
<1>12. Writes(l, r, got, back)
  BY <1>5, <1>11 DEF Writes
<1>13. DatedNow(l, r, got, back)
  BY <1>1, <1>2, <1>8, <1>9 DEF DatedNow
<1> QED BY ONLY SnapshotsInv, l \in Borrowed, <1>10, <1>12, <1>13, LoanEvent

\* A receipt closes the loan when it is the last.
LEMMA RepayInd ==
  ASSUME SnapshotsInv, NEW l \in Borrowed, NEW n \in 1..Installments, Repay(l, n)
  PROVE  SnapshotsInv'
<1>1. PICK old, was, back : old = lent[l] /\ was = received[l] /\ back = undone[l]
  OBVIOUS
<1>2. /\ month \in Month /\ month \in Nat /\ 1 <= month /\ old \in LoanRow(month)
      /\ was \in [Month -> Nat] /\ back \in [Month -> Nat] /\ LoanInv(old, was, back, month)
  BY <1>1, LoanFacts
<1>3. PICK paid : paid = UpTo(was, month) - UpTo(back, month)
  OBVIOUS
<1>4. paid = Paid(l, month)
  BY <1>1, <1>3 DEF Paid
<1>5. PICK r : r = IF paid + n = Installments
                   THEN [old EXCEPT !.status = "closed", !.closed = month] ELSE old
  OBVIOUS
<1>6. PICK got : got = [was EXCEPT ![month] = @ + n]
  OBVIOUS
<1>7. lent' = [lent EXCEPT ![l] = r]
  <2>1. CASE paid + n = Installments
    BY <1>1, <1>4, <1>5, <2>1 DEF Repay
  <2>2. CASE paid + n # Installments
    <3>1. lent' = lent /\ r = lent[l]
      BY <1>1, <1>4, <1>5, <2>2 DEF Repay
    <3> QED BY <3>1, LoanFacts
  <2> QED BY <2>1, <2>2
<1>8. received' = [received EXCEPT ![l] = got]
  <2>1. received' = [received EXCEPT ![l][month] = @ + n]
    BY DEF Repay
  <2> QED BY <1>1, <1>6, <2>1
<1>9. /\ old.status = "active" /\ n \in 1..(Installments - paid)
      /\ UNCHANGED <<month, undone, shot, shut>>
  BY <1>1, <1>4 DEF Repay
<1>10. n \in Nat /\ 1 <= n /\ Installments \in Nat
  BY SnapshotsAssumption
<1>11. /\ got \in [Month -> Nat] /\ got[month] = was[month] + n
       /\ \A m \in Month \ {month} : got[m] = was[m]
  <2>1. was[month] + n \in Nat
    BY <1>2, <1>10
  <2> QED BY <1>2, <1>6, <2>1
<1>12. \A m \in Month : m < month => got[m] = was[m]
  <2>1. \A m \in Month : m < month => m # month
    BY <1>2, MonthIsNat
  <2> QED BY <1>11, <2>1
<1>13. r \in LoanRow(month) /\ r.on = old.on /\ r.gone = old.gone
  <2>1. r \in LoanRow(month)
    BY <1>2, <1>5, RowWritten
  <2> QED BY <1>2, <1>5, <2>1 DEF LoanRow
<1>14. Dated(r, got) /\ \A m \in Month : month < m => got[m] = 0
  <2>1. old.gone = 0 /\ \A m \in Month : month < m => was[m] = 0
    BY <1>2, <1>9 DEF LoanInv, Dated
  <2>2. r.status # "approved"
    BY <1>2, <1>5, <1>9 DEF LoanRow
  <2>3. \A m \in Month : month < m => m # month
    BY <1>2, MonthIsNat
  <2> QED BY <1>11, <1>13, <2>1, <2>2, <2>3 DEF Dated
<1>15. ASSUME \A m \in Month : back[m] = 0 PROVE ClosedWhenPaid(r, got, month)
  <2>1. UpTo(back, month) = 0
    <3>1. \A k \in 1..month : back[k] = 0
      BY <1>2, <1>15, MonthIsNat
    <3> QED BY <1>2, <3>1, UpToZero
  <2>2. UpTo(was, month) \in Nat
    BY <1>2, UpToGrows
  <2>3. paid = UpTo(was, month)
    BY <1>3, <2>1, <2>2
  <2>4. \A m \in Month : UpTo(got, m) = IF month <= m THEN UpTo(was, m) + n ELSE UpTo(was, m)
    BY <1>2, <1>10, <1>11, UpToPlus
  <2>5. UpTo(got, month) = paid + n /\ paid \in Nat
    BY <1>2, <2>2, <2>3, <2>4
  <2>6. old.closed = 0 /\ paid < Installments
    BY <1>2, <1>9, <1>15, <2>3 DEF LoanInv, ClosedWhenPaid
  <2>7. CASE paid + n = Installments
    <3>1. r.status = "closed" /\ r.closed = month
      BY <1>2, <1>5, <2>7 DEF LoanRow
    <3>2. ASSUME NEW m \in 1..month PROVE UpTo(got, m) < Installments <=> m < month
      <4>1. m \in Month /\ m \in Nat /\ m <= month
        BY <1>2, MonthIsNat
      <4>2. UpTo(was, m) \in Nat /\ UpTo(was, m) <= UpTo(was, month)
        BY <1>2, <4>1, UpToGrows
      <4>3. CASE m = month
        BY <1>2, <1>10, <2>5, <2>7, <4>3
      <4>4. CASE m # month
        BY <1>2, <1>10, <2>2, <2>3, <2>4, <2>6, <4>1, <4>2, <4>4
      <4> QED BY <4>3, <4>4
    <3> QED BY <1>2, <3>1, <3>2 DEF ClosedWhenPaid
  <2>8. CASE paid + n # Installments
    <3>1. r = old
      BY <1>5, <2>8
    <3>2. paid + n < Installments
      BY <1>9, <1>10, <2>5, <2>8
    <3> QED BY <1>9, <2>5, <2>6, <3>1, <3>2 DEF ClosedWhenPaid
  <2> QED BY <2>7, <2>8
<1>16. LoanInv(r, got, back, month)
  BY <1>14, <1>15 DEF LoanInv
<1>17. undone' = [undone EXCEPT ![l] = back]
  BY <1>1, <1>9, LoanFacts
<1>18. Writes(l, r, got, back)
  BY <1>7, <1>8, <1>9, <1>17 DEF Writes
<1>19. DatedNow(l, r, got, back)
  BY <1>1, <1>2, <1>11, <1>12, <1>13 DEF DatedNow
<1> QED BY ONLY SnapshotsInv, l \in Borrowed, <1>16, <1>18, <1>19, LoanEvent

\* The books say the same as long as the loans do.
LEMMA BooksOfLoans ==
  ASSUME UNCHANGED <<lent, received, undone>>, NEW m PROVE OnTheBooks(m)' = OnTheBooks(m)
<1>1. \A l \in Borrowed : Paid(l, m)' = Paid(l, m)
  BY DEF Paid
<1>2. \A l \in Borrowed : StillOwed(l, m)' <=> StillOwed(l, m)
  BY <1>1 DEF StillOwed
<1> QED BY <1>1, <1>2, BooksOfMonthStay

LEMMA NextMonthInd == ASSUME SnapshotsInv, NextMonth PROVE SnapshotsInv'
<1>1. /\ month \in Month /\ month \in Nat /\ month' = month + 1 /\ month + 1 \in Month
      /\ UNCHANGED <<lent, received, undone, shot, shut>>
  BY SnapshotsAssumption DEF NextMonth, SnapshotsInv, SnapshotsTyped, Month
<1>2. PICK next : next = month + 1
  OBVIOUS
<1>3. ASSUME NEW l \in Borrowed
      PROVE  lent[l] \in LoanRow(next) /\ LoanInv(lent[l], received[l], undone[l], next)
  <2>1. PICK r, got, back : r = lent[l] /\ got = received[l] /\ back = undone[l]
    OBVIOUS
  <2>2. /\ r \in LoanRow(month) /\ got \in [Month -> Nat] /\ back \in [Month -> Nat]
        /\ LoanInv(r, got, back, month)
    BY <2>1, LoanFacts
  <2>3. r \in LoanRow(next)
    BY <1>1, <1>2, <2>2 DEF LoanRow
  <2>4. next \in Month /\ next \in Nat /\ month < next
    BY <1>1, <1>2
  <2>5. got[next] = 0
    BY <2>2, <2>4 DEF LoanInv
  <2>6. UpTo(got, month) \in Nat /\ UpTo(got, next) = UpTo(got, month)
    BY <1>1, <1>2, <2>2, <2>5, UpToNext
  <2>7. ASSUME \A m \in Month : back[m] = 0 PROVE ClosedWhenPaid(r, got, next)
    <3>1. ClosedWhenPaid(r, got, month)
      BY <2>2, <2>7 DEF LoanInv
    <3>2. ASSUME r.status = "closed", NEW m \in 1..next
          PROVE  UpTo(got, m) < Installments <=> m < r.closed
      <4>1. r.closed \in 0..month
        BY <2>2 DEF LoanRow
      <4>2. CASE m \in 1..month
        BY <3>1, <3>2, <4>2 DEF ClosedWhenPaid
      <4>3. CASE m = next
        <5>1. 1 <= month
          BY LoanFacts
        <5>2. UpTo(got, month) < Installments <=> month < r.closed
          BY <1>1, <3>1, <3>2, <5>1 DEF ClosedWhenPaid
        <5> QED BY <1>1, <1>2, <2>6, <4>1, <4>3, <5>2
      <4> QED BY <1>1, <1>2, <4>2, <4>3
    <3> QED BY <2>6, <3>1, <3>2 DEF ClosedWhenPaid
  <2>8. \A m \in Month : next < m => got[m] = 0
    <3>1. \A m \in Month : next < m => month < m
      BY <1>1, <1>2, MonthIsNat
    <3> QED BY <2>2, <3>1 DEF LoanInv
  <2> QED BY <2>1, <2>2, <2>3, <2>7, <2>8 DEF LoanInv
<1>4. SnapshotsTyped'
  <2>1. lent' \in [Borrowed -> LoanRow(next)]
    BY <1>1, <1>3 DEF SnapshotsInv, SnapshotsTyped
  <2>2. LoanRow(month') = LoanRow(next)
    BY <1>1, <1>2
  <2> QED BY <1>1, <2>1, <2>2 DEF SnapshotsInv, SnapshotsTyped
<1>5. ASSUME NEW l \in Borrowed PROVE LoanInv(lent'[l], received'[l], undone'[l], month')
  BY <1>1, <1>2, <1>3
<1>6. ShotsElapsed'
  <2>1. ASSUME NEW m \in Month, shot[m].stored PROVE m < month'
    BY <1>1, <2>1, MonthIsNat DEF SnapshotsInv, ShotsElapsed
  <2> QED BY <1>1, <2>1 DEF SnapshotsInv, ShotsElapsed
<1>7. SnapshotsTellTheBooks'
  <2>1. \A m \in Month : OnTheBooks(m)' = OnTheBooks(m)
    BY <1>1, BooksOfLoans
  <2> QED BY <1>1, <2>1 DEF SnapshotsInv, SnapshotsTellTheBooks
<1> QED BY <1>4, <1>5, <1>6, <1>7 DEF SnapshotsInv

-----------------------------------------------------------------------------

\* Before any correction and write-off, the dates of the loans say what the
\* legs say.
LEMMA DatesTellLegs ==
  ASSUME SnapshotsInv, Pristine, NEW m \in Month, m < month PROVE Reconstruct(m) = OnTheBooks(m)
<1>1. m \in Nat /\ 1..m \subseteq Month /\ m \in 1..month
  BY LoanFacts, MonthIsNat DEF SnapshotsInv, SnapshotsTyped
<1>2. ASSUME NEW l \in Borrowed
      PROVE  Paid(l, m) = Collected(l, m) /\ (l \in Outstanding(m) <=> StillOwed(l, m))
  <2>1. PICK r, got, back : r = lent[l] /\ got = received[l] /\ back = undone[l]
    OBVIOUS
  <2>2. /\ month \in Nat /\ r \in LoanRow(month) /\ got \in [Month -> Nat] /\ LoanInv(r, got, back, month)
        /\ month \in Month
    BY <2>1, LoanFacts
  <2>3. r.status # "written_off" /\ \A k \in Month : back[k] = 0
    BY <2>1 DEF Pristine
  <2>4. UpTo(back, m) = 0
    <3>1. \A k \in 1..m : back[k] = 0
      BY <1>1, <2>3
    <3> QED BY <1>1, <3>1, UpToZero
  <2>5. UpTo(got, m) \in Nat /\ UpTo(got, month) \in Nat /\ UpTo(got, m) <= UpTo(got, month)
    BY <2>2, UpToGrows
  <2>6. Paid(l, m) = UpTo(got, m) /\ Collected(l, m) = UpTo(got, m)
    BY <2>1, <2>4, <2>5 DEF Paid, Collected
  <2>7. r.gone = 0 /\ ClosedWhenPaid(r, got, month) /\ Dated(r, got)
    BY <2>2, <2>3 DEF LoanInv, Dated
  <2>8. l \in Outstanding(m) <=>
          r.status \in {"active", "closed"} /\ r.on \in 1..m /\ (r.closed = 0 \/ r.closed > m)
    BY <2>1 DEF Outstanding
  <2>9. StillOwed(l, m) <=> r.on \in 1..m /\ UpTo(got, m) < Installments
    BY <1>1, <2>1, <2>6, <2>7 DEF StillOwed
  <2>10. CASE r.status = "approved"
    <3>1. r.on \notin 1..m
      BY <1>1, <2>7, <2>10 DEF Dated
    <3> QED BY <2>6, <2>8, <2>9, <3>1
  <2>11. CASE r.status = "active"
    <3>1. r.closed = 0 /\ UpTo(got, m) < Installments
      BY <2>5, <2>7, <2>11, SnapshotsAssumption DEF ClosedWhenPaid
    <3> QED BY <2>6, <2>8, <2>9, <2>11, <3>1
  <2>12. CASE r.status = "closed"
    <3>1. r.closed # 0 /\ (UpTo(got, m) < Installments <=> m < r.closed)
      BY <1>1, <2>7, <2>12 DEF ClosedWhenPaid
    <3>2. r.closed \in Nat
      BY <2>2 DEF LoanRow
    <3> QED BY <1>1, <2>6, <2>8, <2>9, <2>12, <3>1, <3>2
  <2> QED BY <2>2, <2>3, <2>10, <2>11, <2>12 DEF LoanRow
<1>3. Outstanding(m) = {l \in Borrowed : StillOwed(l, m)}
  BY <1>2 DEF Outstanding
<1>4. [l \in Borrowed |-> Installments - Collected(l, m)] = [l \in Borrowed |-> Installments - Paid(l, m)]
  BY <1>2
<1> QED BY <1>3, <1>4 DEF Reconstruct, OnTheBooks

\* A writer stores what the books of its month say, or leaves what is stored.
LEMMA WriteSnapshotTells ==
  ASSUME SnapshotsInv, NEW m \in Month, WriteSnapshot(m), UNCHANGED <<lent, received, undone>>
  PROVE  /\ DOMAIN shot' = Month /\ shot'[m].stored /\ m < month
         /\ \A k \in Month : k # m => shot'[k] = shot[k]
         /\ shot'[m].pristine => shot'[m].figures = OnTheBooks(m)
<1>1. m < month /\ DOMAIN shot = Month
  BY DEF WriteSnapshot, SnapshotsInv, SnapshotsTyped
<1>2. CASE ~shot[m].stored
  <2>1. PICK figures : figures = Reconstruct(m)
    OBVIOUS
  <2>2. PICK s : s = [stored |-> TRUE, figures |-> figures, pristine |-> Pristine]
    OBVIOUS
  <2>3. shot' = [shot EXCEPT ![m] = s]
    BY <1>2, <2>1, <2>2 DEF WriteSnapshot
  <2>4. s.stored /\ s.figures = figures /\ s.pristine = Pristine
    BY <2>2
  <2>5. Pristine => figures = OnTheBooks(m)
    BY <1>1, <2>1, DatesTellLegs
  <2> QED BY <1>1, <2>3, <2>4, <2>5
<1>3. CASE shot[m].stored
  BY <1>1, <1>3 DEF WriteSnapshot, SnapshotsInv, SnapshotsTellTheBooks
<1> QED BY <1>2, <1>3

LEMMA WriterInd ==
  ASSUME SnapshotsInv, NEW m \in Month, WriteSnapshot(m), UNCHANGED <<month, lent, received, undone>>,
         shut' \subseteq shut \union {m}
  PROVE  SnapshotsInv'
<1>1. /\ DOMAIN shot' = Month /\ shot'[m].stored /\ m < month
      /\ \A k \in Month : k # m => shot'[k] = shot[k]
      /\ shot'[m].pristine => shot'[m].figures = OnTheBooks(m)
  BY WriteSnapshotTells
<1>2. SnapshotsTyped'
  BY <1>1 DEF SnapshotsInv, SnapshotsTyped
<1>3. ShotsElapsed'
  BY <1>1 DEF SnapshotsInv, ShotsElapsed
<1>4. \A l \in Borrowed : LoanInv(lent'[l], received'[l], undone'[l], month')
  BY DEF SnapshotsInv
<1>5. ASSUME NEW k \in Month
      PROVE  /\ k \in shut' => shot'[k].stored
             /\ shot'[k].stored /\ shot'[k].pristine => shot'[k].figures = OnTheBooks(k)
  <2>1. CASE k = m
    BY <1>1, <2>1
  <2>2. CASE k # m
    BY <1>1, <2>2 DEF SnapshotsInv, SnapshotsTellTheBooks
  <2> QED BY <2>1, <2>2
<1>6. \A k \in Month : OnTheBooks(k)' = OnTheBooks(k)
  BY BooksOfLoans
<1>7. SnapshotsTellTheBooks'
  BY <1>5, <1>6 DEF SnapshotsTellTheBooks
<1> QED BY <1>2, <1>3, <1>4, <1>7 DEF SnapshotsInv

LEMMA SnapshotsNextInd == SnapshotsInv /\ [SnapshotsNext]_snapshotVars => SnapshotsInv'
<1> SUFFICES ASSUME SnapshotsInv, [SnapshotsNext]_snapshotVars PROVE SnapshotsInv'
  OBVIOUS
<1>1. ASSUME NEW m \in Month, ClosePeriod(m) PROVE SnapshotsInv'
  BY <1>1, WriterInd DEF ClosePeriod
<1>2. ASSUME NEW m \in Month, Backfill(m) PROVE SnapshotsInv'
  BY <1>2, WriterInd DEF Backfill
<1>3. ASSUME UNCHANGED snapshotVars PROVE SnapshotsInv'
  <2>1. \A k \in Month : OnTheBooks(k)' = OnTheBooks(k)
    BY <1>3, BooksOfLoans DEF snapshotVars
  <2>2. SnapshotsTellTheBooks'
    BY <1>3, <2>1 DEF SnapshotsInv, SnapshotsTellTheBooks, snapshotVars
  <2> QED BY <1>3, <2>2 DEF SnapshotsInv, SnapshotsTyped, ShotsElapsed, snapshotVars
<1> QED BY <1>1, <1>2, <1>3, DisburseInd, WriteOffInd, RepayInd, ReverseReceiptInd, NextMonthInd, Zenon
       DEF SnapshotsNext

\* A snapshot taken before any correction or write-off still tells the books of
\* its month, after everything that happened since; no month is closed without one.
THEOREM SnapshotsStayTrue == SnapshotsSpec => []SnapshotsTellTheBooks
<1>1. SnapshotsInv => SnapshotsTellTheBooks
  BY DEF SnapshotsInv
<1> QED BY <1>1, SnapshotsInitInd, SnapshotsNextInd, PTL DEF SnapshotsSpec

-----------------------------------------------------------------------------
(* The outbox: claims, calls and marks.                                    *)


\* A row that can still be claimed has not used up its attempts, and every
\* attempt it counts was a failed call.
OpenRowsCounted ==
  \A e \in Event : row[e] \in {"absent", "pending"} =>
    attempts[e] < MAX_ATTEMPTS /\ attempts[e] <= failures[e]

\* A claimed row exists, and its claimed count stands for failed calls.
ClaimsCounted ==
  \A w \in Worker : \A c \in batch[w] :
    row[c.id] # "absent" /\ c.attempts <= failures[c.id]

\* A call that returned was accepted; one that raised is among the failures.
CallsCounted ==
  \A w \in Worker :
    /\ call[w].state = "ok" => call[w].of.id \in accepted
    /\ call[w].state = "failed" => call[w].of.attempts + 1 <= failures[call[w].of.id]
    /\ call[w].state # "none" => row[call[w].of.id] # "absent"

IndInv ==
  /\ TypeOK
  /\ OpenRowsCounted
  /\ ClaimsCounted
  /\ CallsCounted
  /\ AcceptedBeforeForgotten
  /\ DeadOnlyWhenExhausted

USE DEF Status, Claim, NoCall, Call

LEMMA InitInd == Init => IndInv
  BY ConstantsAssumption DEF Init, IndInv, TypeOK, OpenRowsCounted, ClaimsCounted,
     CallsCounted, AcceptedBeforeForgotten, DeadOnlyWhenExhausted

\* What a worker's current call is, read off the type of call[w].
LEMMA CallShape ==
  ASSUME TypeOK, NEW w \in Worker, call[w].state \in {"ok", "failed"}
  PROVE  /\ call[w] \in [state : {"ok", "failed"}, of : Claim]
         /\ call[w].of \in Claim
         /\ call[w].of.id \in Event
         /\ call[w].of.attempts \in 0 .. MAX_ATTEMPTS - 1
  BY DEF TypeOK

LEMMA EnqueueInd ==
  ASSUME IndInv, NEW e \in Event, Enqueue(e) PROVE IndInv'
  BY ConstantsAssumption DEF IndInv, Enqueue, TypeOK, OpenRowsCounted, ClaimsCounted,
     CallsCounted, AcceptedBeforeForgotten, DeadOnlyWhenExhausted

LEMMA ClaimBatchInd ==
  ASSUME IndInv, NEW w \in Worker, ClaimBatch(w) PROVE IndInv'
<1>1. PICK S \in SUBSET due :
        /\ batch' = [batch EXCEPT ![w] = {[id |-> e, attempts |-> attempts[e]] : e \in S}]
        /\ due' = due \ S
  BY DEF ClaimBatch, DueAfterLease
<1>2. \A e \in S : e \in Event /\ row[e] = "pending"
                   /\ attempts[e] \in 0 .. MAX_ATTEMPTS - 1 /\ attempts[e] <= failures[e]
  BY ConstantsAssumption DEF IndInv, TypeOK, OpenRowsCounted
<1>3. TypeOK'
  BY <1>1, <1>2 DEF IndInv, TypeOK, ClaimBatch
<1>4. ClaimsCounted'
  BY <1>1, <1>2 DEF IndInv, TypeOK, ClaimsCounted, ClaimBatch
<1> QED
  BY <1>3, <1>4 DEF IndInv, ClaimBatch, OpenRowsCounted, CallsCounted,
     AcceptedBeforeForgotten, DeadOnlyWhenExhausted

LEMMA SendInd ==
  ASSUME IndInv, NEW w \in Worker, Send(w) PROVE IndInv'
<1>1. PICK c \in batch[w] :
        \/ /\ call' = [call EXCEPT ![w] = [state |-> "ok", of |-> c]]
           /\ accepted' = accepted \cup {c.id}
           /\ UNCHANGED failures
        \/ /\ call' = [call EXCEPT ![w] = [state |-> "failed", of |-> c]]
           /\ accepted' \in {accepted, accepted \cup {c.id}}
           /\ failures' = [failures EXCEPT ![c.id] =
                             IF @ < MAX_ATTEMPTS THEN @ + 1 ELSE @]
  BY DEF Send
<1>2. c \in Claim /\ c.id \in Event /\ c.attempts \in 0 .. MAX_ATTEMPTS - 1
      /\ c.attempts <= failures[c.id] /\ row[c.id] # "absent"
  BY DEF IndInv, TypeOK, ClaimsCounted
<1>3. UNCHANGED <<row, attempts, due, aged, batch, overruns, crashes>>
  BY DEF Send
<1>4. TypeOK'
  BY <1>1, <1>2, <1>3, ConstantsAssumption DEF IndInv, TypeOK
<1>5. accepted \subseteq accepted' /\ \A e \in Event : failures[e] <= failures'[e]
  BY <1>1, <1>2, ConstantsAssumption DEF IndInv, TypeOK
<1>6. OpenRowsCounted' /\ ClaimsCounted' /\ AcceptedBeforeForgotten'
  BY <1>3, <1>4, <1>5 DEF IndInv, TypeOK, OpenRowsCounted, ClaimsCounted,
     AcceptedBeforeForgotten
<1>7. DeadOnlyWhenExhausted'
  <2>1. failures' \in [Event -> 0 .. MAX_ATTEMPTS] /\ row' = row
    BY <1>3, <1>4 DEF TypeOK
  <2>2. ASSUME NEW e \in Event, row'[e] = "dead" PROVE failures'[e] = MAX_ATTEMPTS
    <3>1. failures[e] = MAX_ATTEMPTS
      BY <2>1, <2>2 DEF IndInv, DeadOnlyWhenExhausted
    <3> QED BY <3>1, <2>1, <1>5, ConstantsAssumption
  <2> QED BY <2>2 DEF DeadOnlyWhenExhausted
<1>8. CallsCounted'
  <2> SUFFICES ASSUME NEW v \in Worker
               PROVE  /\ call'[v].state = "ok" => call'[v].of.id \in accepted'
                      /\ call'[v].state = "failed" =>
                           call'[v].of.attempts + 1 <= failures'[call'[v].of.id]
                      /\ call'[v].state # "none" => row'[call'[v].of.id] # "absent"
    BY DEF CallsCounted
  <2>1. CASE v # w
    <3>1. call'[v] = call[v]
      BY <1>1, <2>1 DEF IndInv, TypeOK
    <3>2. /\ call[v].state = "ok" => call[v].of.id \in accepted
          /\ call[v].state = "failed" =>
               call[v].of.attempts + 1 <= failures[call[v].of.id]
          /\ call[v].state # "none" => row[call[v].of.id] # "absent"
      BY DEF IndInv, CallsCounted
    <3>3. call[v].state = "failed" =>
            /\ call[v].of.id \in Event
            /\ call[v].of.attempts \in 0 .. MAX_ATTEMPTS - 1
      BY CallShape DEF IndInv
    <3>4. /\ failures \in [Event -> 0 .. MAX_ATTEMPTS]
          /\ failures' \in [Event -> 0 .. MAX_ATTEMPTS]
      BY <1>4 DEF IndInv, TypeOK
    <3>5. call[v].state = "failed" =>
            call[v].of.attempts + 1 <= failures'[call[v].of.id]
      BY <3>2, <3>3, <3>4, <1>5, ConstantsAssumption
    <3> QED BY <3>1, <3>2, <3>5, <1>3, <1>5
  <2>2. CASE v = w /\ call' = [call EXCEPT ![w] = [state |-> "ok", of |-> c]]
             /\ accepted' = accepted \cup {c.id}
    <3>1. call'[v] = [state |-> "ok", of |-> c]
      BY <2>2 DEF IndInv, TypeOK
    <3> QED BY <2>2, <3>1, <1>2, <1>3
  <2>3. CASE v = w /\ call' = [call EXCEPT ![w] = [state |-> "failed", of |-> c]]
             /\ failures' = [failures EXCEPT ![c.id] = IF @ < MAX_ATTEMPTS THEN @ + 1 ELSE @]
    <3>1. call'[v] = [state |-> "failed", of |-> c]
      BY <2>3 DEF IndInv, TypeOK
    <3>2. c.attempts + 1 <= failures'[c.id]
      BY <2>3, <1>2, ConstantsAssumption DEF IndInv, TypeOK
    <3> QED BY <3>1, <3>2, <1>2, <1>3
  <2> QED BY <1>1, <2>1, <2>2, <2>3
<1> QED BY <1>4, <1>6, <1>7, <1>8 DEF IndInv

LEMMA RecordDispatchedInd ==
  ASSUME IndInv, NEW w \in Worker, RecordDispatched(w) PROVE IndInv'
<1> DEFINE c == call[w].of
<1>1. c \in Claim /\ c.id \in Event /\ c.attempts \in 0 .. MAX_ATTEMPTS - 1 /\ c.id \in accepted
  BY CallShape DEF IndInv, RecordDispatched, CallsCounted
<1>2. /\ batch' = [batch EXCEPT ![w] = @ \ {c}]
      /\ call' = [call EXCEPT ![w] = NoCall]
      /\ UNCHANGED <<accepted, failures, overruns, crashes>>
      /\ \/ UNCHANGED <<row, attempts, due, aged>>
         \/ /\ row' = [row EXCEPT ![c.id] = "dispatched"]
            /\ attempts' = [attempts EXCEPT ![c.id] = c.attempts + 1]
            /\ due' = due \ {c.id}
            /\ aged' = aged \ {c.id}
  BY DEF RecordDispatched, Settle, AttemptsAfter
<1> HIDE DEF c
<1>3. TypeOK'
  BY <1>1, <1>2, ConstantsAssumption DEF IndInv, TypeOK
<1>4. OpenRowsCounted' /\ AcceptedBeforeForgotten' /\ DeadOnlyWhenExhausted'
  BY <1>1, <1>2 DEF IndInv, TypeOK, OpenRowsCounted, AcceptedBeforeForgotten,
     DeadOnlyWhenExhausted
<1>5. ClaimsCounted' /\ CallsCounted'
  BY <1>1, <1>2 DEF IndInv, TypeOK, ClaimsCounted, CallsCounted
<1> QED BY <1>3, <1>4, <1>5 DEF IndInv

LEMMA RecordFailureInd ==
  ASSUME IndInv, NEW w \in Worker, RecordFailure(w) PROVE IndInv'
<1> DEFINE c == call[w].of
           n == c.attempts + 1
<1>1. c \in Claim /\ c.id \in Event /\ c.attempts \in 0 .. MAX_ATTEMPTS - 1
      /\ n <= failures[c.id]
  BY CallShape DEF IndInv, RecordFailure, CallsCounted
<1>2. /\ batch' = [batch EXCEPT ![w] = @ \ {c}]
      /\ call' = [call EXCEPT ![w] = NoCall]
      /\ UNCHANGED <<accepted, failures, overruns, crashes>>
      /\ \/ UNCHANGED <<row, attempts, due, aged>>
         \/ /\ n >= MAX_ATTEMPTS
            /\ row' = [row EXCEPT ![c.id] = "dead"]
            /\ attempts' = [attempts EXCEPT ![c.id] = n]
            /\ due' = due \ {c.id}
            /\ aged' = aged \ {c.id}
         \/ /\ ~(n >= MAX_ATTEMPTS)
            /\ attempts' = [attempts EXCEPT ![c.id] = n]
            /\ due' = due \ {c.id}
            /\ UNCHANGED <<row, aged>>
  BY DEF RecordFailure, Settle, Exhausted, AttemptsAfter
<1>3. n \in 1 .. MAX_ATTEMPTS
  BY <1>1, ConstantsAssumption
<1> HIDE DEF c, n
<1>4. TypeOK'
  BY <1>1, <1>2, <1>3, ConstantsAssumption DEF IndInv, TypeOK
<1>5. OpenRowsCounted' /\ AcceptedBeforeForgotten' /\ DeadOnlyWhenExhausted'
  BY <1>1, <1>2, <1>3, ConstantsAssumption DEF IndInv, TypeOK, OpenRowsCounted,
     AcceptedBeforeForgotten, DeadOnlyWhenExhausted
<1>6. ClaimsCounted' /\ CallsCounted'
  BY <1>1, <1>2 DEF IndInv, TypeOK, ClaimsCounted, CallsCounted
<1> QED BY <1>4, <1>5, <1>6 DEF IndInv

LEMMA CrashInd ==
  ASSUME IndInv, NEW w \in Worker, Crash(w) PROVE IndInv'
  BY ConstantsAssumption DEF IndInv, Crash, TypeOK, OpenRowsCounted, ClaimsCounted,
     CallsCounted, AcceptedBeforeForgotten, DeadOnlyWhenExhausted

LEMMA ClockInd ==
  ASSUME IndInv, NEW e \in Event, BecomeDue(e) \/ Age(e) PROVE IndInv'
  BY ConstantsAssumption DEF IndInv, BecomeDue, Age, TypeOK, OpenRowsCounted, ClaimsCounted,
     CallsCounted, AcceptedBeforeForgotten, DeadOnlyWhenExhausted

LEMMA PurgeInd ==
  ASSUME IndInv, NEW S \in SUBSET Event, Purge(S) PROVE IndInv'
  BY DEF IndInv, Purge, Purgeable, TypeOK, OpenRowsCounted, ClaimsCounted,
     CallsCounted, AcceptedBeforeForgotten, DeadOnlyWhenExhausted

LEMMA StutterInd ==
  ASSUME IndInv, UNCHANGED vars PROVE IndInv'
  BY DEF IndInv, vars, TypeOK, OpenRowsCounted, ClaimsCounted,
     CallsCounted, AcceptedBeforeForgotten, DeadOnlyWhenExhausted

\* The strengthened invariant holds throughout (code: dispatch_due,
\* _record_failure, purge_dispatched and enqueue_event, in any order).
THEOREM IndInvHolds == Spec => []IndInv
<1>1. IndInv /\ [Next]_vars => IndInv'
  BY EnqueueInd, ClaimBatchInd, SendInd, RecordDispatchedInd, RecordFailureInd,
     CrashInd, ClockInd, PurgeInd, StutterInd DEF Next
<1> QED BY InitInd, <1>1, PTL DEF Spec

\* The columns and the workers' local state keep their types: in particular a
\* row never counts more than MAX_ATTEMPTS, whatever stale count is written.
THEOREM TypeCorrect == Spec => []TypeOK
<1>1. IndInv => TypeOK
  BY DEF IndInv
<1> QED BY IndInvHolds, <1>1, PTL

\* At-least-once: no row reports or forgets a dispatch the provider never
\* accepted, for any number of overlapping workers and crashes.
THEOREM NothingForgotten == Spec => []AcceptedBeforeForgotten
<1>1. IndInv => AcceptedBeforeForgotten
  BY DEF IndInv
<1> QED BY IndInvHolds, <1>1, PTL

\* A dead letter always has MAX_ATTEMPTS failed calls behind it.
THEOREM NoEarlyDeadLetter == Spec => []DeadOnlyWhenExhausted
<1>1. IndInv => DeadOnlyWhenExhausted
  BY DEF IndInv
<1> QED BY IndInvHolds, <1>1, PTL

-----------------------------------------------------------------------------
(* While no lease has run out under a live worker, a row that is due is in *)
(* no live worker's batch: that keeps claims apart.                        *)

HeldRowsLeased == overruns = 0 => \A e \in due : ~Held(e)
ClaimInv == ClaimsDisjoint /\ HeldRowsLeased

LEMMA ClaimInvStep ==
  ASSUME IndInv, ClaimInv, [Next]_vars
  PROVE  ClaimInv'
<1> USE DEF IndInv, TypeOK, ClaimInv, HeldRowsLeased, ClaimsDisjoint, Held
<1>1. ASSUME NEW e \in Event, Enqueue(e) PROVE ClaimInv'
  <2>1. ~Held(e)
    BY <1>1 DEF Enqueue, ClaimsCounted
  <2> QED BY <1>1, <2>1 DEF Enqueue
<1>2. ASSUME NEW w \in Worker, ClaimBatch(w) PROVE ClaimInv'
  <2>1. PICK S \in SUBSET due :
          /\ batch' = [batch EXCEPT ![w] = {[id |-> e, attempts |-> attempts[e]] : e \in S}]
          /\ due' = due \ S
    BY <1>2 DEF ClaimBatch, DueAfterLease
  <2>2. overruns' = overruns
    BY <1>2 DEF ClaimBatch
  <2>3. \A c \in batch'[w] : c.id \in S
    BY <2>1
  <2>4. \A v \in Worker \ {w} : batch'[v] = batch[v]
    BY <2>1
  <2>5. overruns = 0 => \A v \in Worker : \A c \in batch[v] : c.id \notin S
    BY <2>1
  <2> QED BY <2>1, <2>2, <2>3, <2>4, <2>5
<1>3. ASSUME NEW w \in Worker, Send(w) PROVE ClaimInv'
  BY <1>3 DEF Send
<1>4. ASSUME NEW w \in Worker, RecordDispatched(w) \/ RecordFailure(w) PROVE ClaimInv'
  <2>1. due' \subseteq due /\ overruns' = overruns
    BY <1>4 DEF RecordDispatched, RecordFailure
  <2>2. \A v \in Worker : batch'[v] \subseteq batch[v]
    BY <1>4 DEF RecordDispatched, RecordFailure, Settle
  <2> QED BY <2>1, <2>2
<1>5. ASSUME NEW w \in Worker, Crash(w) PROVE ClaimInv'
  BY <1>5 DEF Crash
<1>6. ASSUME NEW e \in Event, BecomeDue(e) PROVE ClaimInv'
  BY <1>6 DEF BecomeDue
<1>7. ASSUME NEW e \in Event, Age(e) PROVE ClaimInv'
  BY <1>7 DEF Age
<1>8. ASSUME NEW S \in SUBSET Event, Purge(S) PROVE ClaimInv'
  BY <1>8 DEF Purge
<1>9. ASSUME UNCHANGED vars PROVE ClaimInv'
  BY <1>9 DEF vars
<1> QED BY <1>1, <1>2, <1>3, <1>4, <1>5, <1>6, <1>7, <1>8, <1>9 DEF Next

\* Two dispatchers never hold the same notice before some lease runs out
\* under a live worker, however many dispatchers there are and die.
THEOREM ClaimsAreDisjoint == Spec => []ClaimsDisjoint
<1>1. Init => ClaimInv
  BY DEF Init, ClaimInv, ClaimsDisjoint, HeldRowsLeased, Held
<1>2. ClaimInv => ClaimsDisjoint
  BY DEF ClaimInv
<1> QED BY IndInvHolds, <1>1, <1>2, ClaimInvStep, PTL DEF Spec

-----------------------------------------------------------------------------
(* The refinement: each step hands over, owes or forgets as the promise     *)
(* allows, or leaves the promise's state alone.                             *)

LEMMA PromiseStep ==
  ASSUME IndInv, [Next]_vars
  PROVE  [Promise!Next]_(Promise!vars)
<1> USE DEF IndInv, TypeOK
<1>1. ASSUME NEW e \in Event, Enqueue(e) PROVE Promise!Owe(e)
  BY <1>1 DEF Enqueue, Promise!Owe
<1>2. ASSUME NEW e \in Event, BecomeDue(e) \/ Age(e) PROVE UNCHANGED Promise!vars
  BY <1>2 DEF BecomeDue, Age, Promise!vars
<1>3. ASSUME NEW w \in Worker, ClaimBatch(w) \/ Crash(w) PROVE UNCHANGED Promise!vars
  BY <1>3 DEF ClaimBatch, Crash, Promise!vars
<1>4. ASSUME NEW w \in Worker, Send(w)
      PROVE  UNCHANGED Promise!vars \/ \E e \in Event : Promise!Hand(e)
  <2>1. PICK c \in batch[w] : accepted' \in {accepted, accepted \cup {c.id}}
    BY <1>4 DEF Send
  <2>2. c.id \in Event /\ row[c.id] # "absent"
    BY DEF ClaimsCounted
  <2>3. row' = row
    BY <1>4 DEF Send
  <2> QED BY <2>1, <2>2, <2>3 DEF Promise!vars, Promise!Hand
<1>5. ASSUME NEW w \in Worker, RecordDispatched(w) \/ RecordFailure(w)
      PROVE  UNCHANGED Promise!vars
  <2>1. call[w].state \in {"ok", "failed"}
    BY <1>5 DEF RecordDispatched, RecordFailure
  <2>2. call[w].of.id \in Event
    BY <2>1, CallShape
  <2>3. accepted' = accepted
    BY <1>5 DEF RecordDispatched, RecordFailure
  <2>4. \A e \in Event : /\ (row'[e] # "absent") = (row[e] # "absent")
                         /\ (row'[e] = "purged") = (row[e] = "purged")
    <3>1. row[call[w].of.id] # "absent"
      BY <2>1 DEF CallsCounted
    <3>2. CASE RecordDispatched(w)
      BY <2>2, <3>1, <3>2 DEF RecordDispatched
    <3>3. CASE RecordFailure(w)
      BY <2>2, <3>1, <3>3 DEF RecordFailure
    <3> QED BY <1>5, <3>2, <3>3
  <2> QED BY <2>3, <2>4 DEF Promise!vars
<1>6. ASSUME NEW S \in SUBSET Event, Purge(S) PROVE Promise!Forget(S)
  <2>1. \A e \in S : row[e] = "dispatched"
    BY <1>6 DEF Purge, Purgeable
  <2>2. S \subseteq accepted
    BY <2>1 DEF AcceptedBeforeForgotten
  <2>3. accepted' = accepted /\ row' = [e \in Event |-> IF e \in S THEN "purged" ELSE row[e]]
    BY <1>6 DEF Purge
  <2>4. {e \in Event : row'[e] # "absent"} = {e \in Event : row[e] # "absent"}
    BY <2>1, <2>3
  <2>5. {e \in Event : row'[e] = "purged"} = {e \in Event : row[e] = "purged"} \cup S
    BY <2>1, <2>3
  <2> QED BY <2>2, <2>3, <2>4, <2>5 DEF Promise!Forget
<1>7. ASSUME UNCHANGED vars PROVE UNCHANGED Promise!vars
  BY <1>7 DEF vars, Promise!vars
<1> QED
  BY <1>1, <1>2, <1>3, <1>4, <1>5, <1>6, <1>7 DEF Next, Promise!Next

\* The outbox with its leases, retries, dead letters and purge implements the
\* promise of NotificationPromise: a notice is owed from the commit of its
\* domain change on and is forgotten only after the provider accepted it.
THEOREM PromiseRefined == Spec => PromiseKept
<1>1. Init => Promise!Init
  BY DEF Init, Promise!Init
<1> QED BY <1>1, IndInvHolds, PromiseStep, PTL DEF Spec, PromiseKept, Promise!Spec

=============================================================================
