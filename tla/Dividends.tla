------------------------------ MODULE Dividends ------------------------------
(***************************************************************************)
(* A financial year's dividend: declaration, committee vote, void, and the *)
(* distribution in batches (backend/src/genesis/application/dividends.py,  *)
(* domain/dividends.py, application/period_balances.py).                   *)
(*                                                                         *)
(* A declaration stores totals that were added up over several short       *)
(* transactions.  A distribution opens under the row lock, lets it go,     *)
(* adds the totals up again, and then pays batch after batch.  Each batch  *)
(* is a transaction of two steps here: Scan takes the declaration FOR      *)
(* SHARE and locks the members it found unpaid; Pay claims and posts.      *)
(* Between any two steps other runs, voids, exits, the interest job and    *)
(* the closing of the month may come.                                      *)
(*                                                                         *)
(* Abstractions.  One year.  A balance's average over the year is kept as  *)
(* the sum of its end-of-day balances, so that a posting on the year's     *)
(* last day adds its amount once.  A version an officer passes is the      *)
(* current one.  A handler that fails changes nothing.                     *)
(***************************************************************************)
EXTENDS Integers, FiniteSets, FiniteSetsExt

CONSTANTS
  Members,      \* number of members; ids are in scan order
  Declaration,  \* ids of declarations, used once each
  User,         \* officers who may declare, vote and distribute
  Quorum,       \* votes that decide
  Run,          \* sessions that declare or distribute
  BatchSize,
  YearDays,     \* days in the year
  ShareDays,    \* ShareDays[m], DepositDays[m]: sums of end-of-day balances
  DepositDays,
  Interest,     \* interest of the year's last quarter, per deposit account
  Rate,         \* rates the tenant may configure: [dividend, rebate] in percent
  Payout,       \* Payout[m]: "shares", "deposits" or "default"
  AccountsOf    \* AccountsOf[m]: those of "share" and "deposit" that m has

Member == 1 .. Members
NoRate == [dividend |-> 0, rebate |-> 0]

ASSUME ConstantsAssumption ==
  /\ Members \in Nat /\ Quorum \in Nat \ {0} /\ BatchSize \in Nat \ {0}
  /\ YearDays \in Nat \ {0} /\ Interest \in Nat
  /\ ShareDays \in [Member -> Nat] /\ DepositDays \in [Member -> Nat]
  /\ Rate \subseteq [dividend : 0 .. 100, rebate : 0 .. 100]
  /\ Payout \in [Member -> {"shares", "deposits", "default"}]
  /\ AccountsOf \in [Member -> SUBSET {"share", "deposit"}]
  /\ \A m \in Member : /\ "share" \notin AccountsOf[m] => ShareDays[m] = 0
                       /\ "deposit" \notin AccountsOf[m] => DepositDays[m] = 0
  /\ IsFiniteSet(Declaration)

VARIABLES
  rate,          \* the configured rates, NoRate until they are
  monthOpen,     \* the month the year ends in takes postings
  days,          \* days[m]: sums of the end-of-day balances of m's accounts
  accrued,       \* members whose last quarter's interest is posted
  fence,         \* fence[m]: declarations made when m exited; {} if a member
  exited,        \* members who left
  declared,      \* declared[d]: the declaration's row
  claims,        \* claims[d][m]: what m was granted under d, and how
  credited,      \* credited[m]: dividends posted to m's shares and deposits
  payable,       \* the unclaimed dividends the tenant owes
  run            \* run[r]: what session r is at

vars == <<rate, monthOpen, days, accrued, fence, exited, declared, claims,
          credited, payable, run>>
register == <<accrued, fence, exited>>
books == <<days, claims, credited, payable>>

-----------------------------------------------------------------------------
(* Entitlements and their totals.                                          *)

Cents(n, d) == (2 * n + d) \div (2 * d)
Amount(basis, percent) == Cents(basis * percent, 100)

Entitlement(m, r) ==
  LET share == Cents(days[m].share, YearDays)
      deposit == Cents(days[m].deposit, YearDays)
  IN  [share |-> share, deposit |-> deposit,
       dividend |-> Amount(share, r.dividend), rebate |-> Amount(deposit, r.rebate)]
Total(e) == e.dividend + e.rebate

Population == Member \ exited
Unclaimed(d) == {m \in Member : claims[d][m].how = "none"}
FirstRows(S) == {m \in S : Cardinality({n \in S : n < m}) < BatchSize}
LastRow(S, after) == IF S = {} THEN after ELSE Max(S)

ZeroTotals == [members |-> 0, share |-> 0, deposit |-> 0, dividend |-> 0, rebate |-> 0]
Sum(f, S) == MapThenSumSet(LAMBDA x : f[x], S)
AddTotals(t, S, r) ==
  LET eligible == {m \in S : Total(Entitlement(m, r)) > 0}
      Of(part) == Sum([m \in S |-> Entitlement(m, r)[part]], eligible)
  IN  [members |-> t.members + Cardinality(eligible),
       share |-> t.share + Of("share"), deposit |-> t.deposit + Of("deposit"),
       dividend |-> t.dividend + Of("dividend"), rebate |-> t.rebate + Of("rebate")]
Paid(t) == t.dividend + t.rebate

-----------------------------------------------------------------------------

Idle == [step |-> "idle"]
NoClaim == [how |-> "none", amount |-> 0]
NoRow == [status |-> "none"]
Row(status, by, r, totals, approvals, rejections) ==
  [status |-> status, by |-> by, rate |-> r, totals |-> totals,
   approvals |-> approvals, rejections |-> rejections]
WithStatus(row, status) ==
  Row(status, row.by, row.rate, row.totals, row.approvals, row.rejections)

Live == {d \in Declaration : declared[d].status \notin {"none", "rejected"}}
HasClaims(d) == \E m \in Member : claims[d][m].how # "none"
HeldRows(r) == IF run[r].step = "locked" THEN run[r].rows \ run[r].waits ELSE {}
HeldByOthers(r) == UNION {HeldRows(q) : q \in Run \ {r}}
HoldsDeclaration(r, d) == run[r].step = "locked" /\ run[r].d = d

Init ==
  /\ rate = NoRate
  /\ monthOpen = TRUE
  /\ days = [m \in Member |-> [share |-> ShareDays[m], deposit |-> DepositDays[m]]]
  /\ accrued = {} /\ exited = {}
  /\ fence = [m \in Member |-> {}]
  /\ declared = [d \in Declaration |-> NoRow]
  /\ claims = [d \in Declaration |-> [m \in Member |-> NoClaim]]
  /\ credited = [m \in Member |-> [share |-> 0, deposit |-> 0]]
  /\ payable = 0
  /\ run = [r \in Run |-> Idle]

Configure(r) ==
  /\ rate' = r /\ rate # r
  /\ UNCHANGED <<monthOpen, register, declared, books, run>>

ClosePeriod ==
  /\ monthOpen /\ monthOpen' = FALSE
  /\ UNCHANGED <<rate, register, declared, books, run>>

\* The quarter's interest is dated to the year's last instant.
PostInterest(m) ==
  /\ monthOpen /\ m \notin accrued /\ days[m].deposit > 0
  /\ accrued' = accrued \union {m}
  /\ days' = [days EXCEPT ![m].deposit = @ + Interest]
  /\ UNCHANGED <<rate, monthOpen, fence, exited, declared, claims, credited, payable, run>>

\* A member's settlement takes the member's row lock.
SettleExit(m) ==
  /\ m \notin exited
  /\ \A r \in Run : m \notin HeldRows(r)
  /\ exited' = exited \union {m}
  /\ fence' = [fence EXCEPT ![m] = {d \in Declaration : declared[d].status # "none"}]
  /\ UNCHANGED <<rate, monthOpen, accrued, declared, books, run>>

-----------------------------------------------------------------------------
(* Declaration, vote and void.                                             *)

BeginDeclare(r, u) ==
  /\ run[r] = Idle /\ rate # NoRate
  /\ run' = [run EXCEPT ![r] = [step |-> "declaring", by |-> u, rate |-> rate, after |-> 0,
                                totals |-> ZeroTotals]]
  /\ UNCHANGED <<rate, monthOpen, register, declared, books>>

\* One batch of the totals, on nobody's lock.
AddBatch(r) ==
  /\ run[r].step \in {"declaring", "verifying"}
  /\ LET w == run[r]
         at == IF w.step = "declaring" THEN w.rate ELSE declared[w.d].rate
         rows == FirstRows({m \in Population : m > w.after})
         totals == AddTotals(w.totals, rows, at)
         after == LastRow(rows, w.after)
         Step(next) == IF Cardinality(rows) = BatchSize THEN w.step ELSE next
     IN  run' = [run EXCEPT ![r] =
           IF w.step = "declaring"
           THEN [step |-> Step("inserting"), by |-> w.by, rate |-> w.rate, after |-> after, totals |-> totals]
           ELSE [step |-> Step("comparing"), d |-> w.d, after |-> after, totals |-> totals]]
  /\ UNCHANGED <<rate, monthOpen, register, declared, books>>

\* One live declaration per year: the second insert violates the unique index.
InsertDeclaration(r, d) ==
  /\ run[r].step = "inserting"
  /\ Paid(run[r].totals) > 0 /\ Live = {} /\ declared[d] = NoRow
  /\ declared' = [declared EXCEPT ![d] =
       Row("declared", run[r].by, run[r].rate, run[r].totals, {}, {})]
  /\ run' = [run EXCEPT ![r] = Idle]
  /\ UNCHANGED <<rate, monthOpen, register, books>>

CastVote(d, u, approve) ==
  LET row == declared[d] IN
  /\ row.status = "declared" /\ u # row.by
  /\ u \notin row.approvals \union row.rejections
  /\ LET approvals == IF approve THEN row.approvals \union {u} ELSE row.approvals
         rejections == IF approve THEN row.rejections ELSE row.rejections \union {u}
         status == IF Cardinality(rejections) >= Quorum THEN "rejected"
                   ELSE IF Cardinality(approvals) >= Quorum THEN "approved" ELSE "declared"
     IN  declared' = [declared EXCEPT ![d] =
           Row(status, row.by, row.rate, row.totals, approvals, rejections)]
  /\ UNCHANGED <<rate, monthOpen, register, books, run>>

\* FOR UPDATE waits for the batches that hold the row FOR SHARE.
Voidable(d) ==
  /\ declared[d].status \in {"declared", "approved"}
  /\ ~HasClaims(d)
  /\ \A r \in Run : ~HoldsDeclaration(r, d)

VoidDeclaration(d) ==
  /\ Voidable(d)
  /\ declared' = [declared EXCEPT ![d] = WithStatus(declared[d], "rejected")]
  /\ UNCHANGED <<rate, monthOpen, register, books, run>>

-----------------------------------------------------------------------------
(* Distribution.                                                           *)

OpenDistribution(r, d, u) ==
  /\ run[r] = Idle
  /\ declared[d].status = "approved" /\ u # declared[d].by
  /\ run' = [run EXCEPT ![r] =
       IF HasClaims(d) THEN [step |-> "paying", d |-> d, after |-> 0]
       ELSE [step |-> "verifying", d |-> d, after |-> 0, totals |-> ZeroTotals]]
  /\ UNCHANGED <<rate, monthOpen, register, declared, books>>

\* Drift since the declaration: nothing is paid.
Compare(r) ==
  /\ run[r].step = "comparing"
  /\ run' = [run EXCEPT ![r] =
       IF run[r].totals = declared[run[r].d].totals
       THEN [step |-> "paying", d |-> run[r].d, after |-> 0] ELSE Idle]
  /\ UNCHANGED <<rate, monthOpen, register, declared, books>>

\* Fault variant: the check of the opening transaction is trusted.
StillDeclaredTrusted(d) == TRUE
StillDeclared(d) == declared[d].status # "rejected"

Found(d, pass) ==
  IF pass = "paying" THEN Population \intersect Unclaimed(d)
  ELSE {m \in exited : d \in fence[m]} \intersect Unclaimed(d)

\* Locked members are skipped, unless their lock is gone by the time the scan
\* reaches them: their claims are then younger than the scan's snapshot.
Scan(r) ==
  /\ run[r].step \in {"paying", "disposing"}
  /\ StillDeclared(run[r].d)
  /\ \E busy \in SUBSET Member :
       LET found == {m \in Found(run[r].d, run[r].step) : m > run[r].after}
           rows == FirstRows(found \ busy)
       IN  run' = [run EXCEPT ![r] =
             [step |-> "locked", pass |-> run[r].step, d |-> run[r].d, after |-> run[r].after,
              rows |-> rows, waits |-> rows \intersect HeldByOthers(r)]]
  /\ UNCHANGED <<rate, monthOpen, register, declared, books>>

\* Where the dividend and the rebate of a payment go.
Credit(m, e) ==
  CASE Payout[m] = "shares" -> [share |-> Total(e), deposit |-> 0]
    [] Payout[m] = "deposits" -> [share |-> 0, deposit |-> Total(e)]
    [] Payout[m] = "default" -> [share |-> e.dividend, deposit |-> e.rebate]

\* The ledger legs are posted either way; a balance moves only on an account
\* the member has.
OnAccounts(m, credit) ==
  [share |-> IF "share" \in AccountsOf[m] THEN credit.share ELSE 0,
   deposit |-> IF "deposit" \in AccountsOf[m] THEN credit.deposit ELSE 0]

NextPass(w) ==
  IF Cardinality(w.rows) = BatchSize THEN [step |-> w.pass, d |-> w.d, after |-> LastRow(w.rows, w.after)]
  ELSE IF w.pass = "paying" THEN [step |-> "disposing", d |-> w.d, after |-> 0]
  ELSE [step |-> "finishing", d |-> w.d]

Owed(m, d) == Entitlement(m, declared[d].rate)

\* A claim that exists wins; an entitlement of zero leaves no claim.
Due(S, d) == {m \in S \intersect Unclaimed(d) : Total(Owed(m, d)) > 0}

\* The batch commits as one: claims, postings dated to the year's last
\* instant, balances.
PayBatch(r) ==
  LET w == run[r] d == w.d due == Due(w.rows, d) IN
  /\ w.step = "locked" /\ w.pass = "paying"
  /\ w.waits \intersect HeldByOthers(r) = {}
  /\ due = {} \/ monthOpen
  /\ claims' = [claims EXCEPT ![d] = [m \in Member |->
       IF m \in due THEN [how |-> "paid", amount |-> Total(Owed(m, d))] ELSE @[m]]]
  /\ credited' = [m \in Member |->
       IF m \in due THEN [share |-> credited[m].share + Credit(m, Owed(m, d)).share,
                          deposit |-> credited[m].deposit + Credit(m, Owed(m, d)).deposit]
       ELSE credited[m]]
  /\ days' = [m \in Member |->
       IF m \in due THEN LET kept == OnAccounts(m, Credit(m, Owed(m, d))) IN
                          [share |-> days[m].share + kept.share,
                           deposit |-> days[m].deposit + kept.deposit]
       ELSE days[m]]
  /\ run' = [run EXCEPT ![r] = NextPass(w)]
  /\ UNCHANGED <<rate, monthOpen, register, declared, payable>>

\* Members who left after the declaration: their share is parked as a liability.
DisposeUnclaimed(r) ==
  LET w == run[r] d == w.d due == Due(w.rows, d) IN
  /\ w.step = "locked" /\ w.pass = "disposing"
  /\ w.waits \intersect HeldByOthers(r) = {}
  /\ due = {} \/ monthOpen
  /\ claims' = [claims EXCEPT ![d] = [m \in Member |->
       IF m \in due THEN [how |-> "unclaimed", amount |-> Total(Owed(m, d))] ELSE @[m]]]
  /\ payable' = payable + Sum([m \in Member |-> Total(Owed(m, d))], due)
  /\ run' = [run EXCEPT ![r] = NextPass(w)]
  /\ UNCHANGED <<rate, monthOpen, register, declared, days, credited>>

Granted(d) == {m \in Member : claims[d][m].how # "none"}
GrantedTotal(d) == Sum([m \in Member |-> claims[d][m].amount], Member)

\* Fault variant: members that were skipped are not waited for.
ReconcilesAny(d) == Granted(d) # {}
Reconciles(d) ==
  /\ Cardinality(Granted(d)) = declared[d].totals.members
  /\ GrantedTotal(d) = Paid(declared[d].totals)

FinishDistribution(r) ==
  LET d == run[r].d IN
  /\ run[r].step = "finishing"
  /\ declared' = IF Reconciles(d) /\ declared[d].status = "approved"
                 THEN [declared EXCEPT ![d] = WithStatus(declared[d], "distributed")] ELSE declared
  /\ run' = [run EXCEPT ![r] = Idle]
  /\ UNCHANGED <<rate, monthOpen, register, books>>

\* The session fails, is refused or dies; what it has not committed is undone.
Abandon(r) ==
  /\ run[r] # Idle
  /\ run' = [run EXCEPT ![r] = Idle]
  /\ UNCHANGED <<rate, monthOpen, register, declared, books>>

Next ==
  \/ \E r \in Rate : Configure(r)
  \/ ClosePeriod
  \/ \E m \in Member : PostInterest(m) \/ SettleExit(m)
  \/ \E r \in Run, u \in User : BeginDeclare(r, u)
  \/ \E r \in Run, d \in Declaration : InsertDeclaration(r, d)
  \/ \E d \in Declaration, u \in User, approve \in BOOLEAN : CastVote(d, u, approve)
  \/ \E d \in Declaration : VoidDeclaration(d)
  \/ \E r \in Run, d \in Declaration, u \in User : OpenDistribution(r, d, u)
  \/ \E r \in Run : \/ AddBatch(r) \/ Compare(r) \/ Scan(r) \/ PayBatch(r)
                    \/ DisposeUnclaimed(r) \/ FinishDistribution(r) \/ Abandon(r)

Spec == Init /\ [][Next]_vars

-----------------------------------------------------------------------------

(* A year is paid out once: no member is granted money under two           *)
(* declarations, and a voided declaration has granted none.  A void races  *)
(* the batches of a run that opened when the declaration was approved.     *)
YearPaidOnce ==
  /\ \A d, e \in Declaration : d # e => Granted(d) \intersect Granted(e) = {}
  /\ \A d \in Declaration : declared[d].status \in {"none", "declared", "rejected"} => ~HasClaims(d)

(* A distributed declaration has granted at least what the committee       *)
(* approved, to as many members, and none of it is ever taken back,        *)
(* whatever run, exit or interest posting came between the batches; and    *)
(* every cent granted is posted to its member or owed as unclaimed.        *)
(* "At least": a second run may still be paying when the first one stores  *)
(* "distributed", and grants a member whom a late interest posting has     *)
(* made eligible since.                                                    *)
DistributedReconciles ==
  /\ \A d \in Declaration : declared[d].status = "distributed" =>
       /\ GrantedTotal(d) >= Paid(declared[d].totals)
       /\ Cardinality(Granted(d)) >= declared[d].totals.members
  /\ Sum([m \in Member |-> credited[m].share + credited[m].deposit], Member) + payable
       = Sum([d \in Declaration |-> GrantedTotal(d)], Declaration)

=============================================================================
