-------------------------------- MODULE Books --------------------------------
(***************************************************************************)
(* The tenant's books: every kind of posting, the member accounts and the  *)
(* loan it belongs to, share transfers between members under two pairs of  *)
(* eyes, and the settlement of an exit (backend/src/genesis: domain/ledger,*)
(* application/ledger, application/transactions, application/dividends     *)
(* from line 1735, application/member_exits, domain/exits, domain/members).*)
(*                                                                         *)
(* An action is a handler's transaction: it holds its row locks from its   *)
(* first read to its commit (LockOrder has the locks).                     *)
(*                                                                         *)
(* Abstractions.  ledger[m] sums the legs of m's transactions by account,  *)
(* debits positive; the order of postings and their months are in          *)
(* PeriodLedger.  A member has one loan, its schedule only the interest    *)
(* that is due; who may repay, adjust or write off is in Servicing, who    *)
(* may pledge in Collateral, who is paid a dividend in Dividends.          *)
(***************************************************************************)
EXTENDS Integers, FiniteSets, FiniteSetsExt

CONSTANTS
  Member,
  Borrower,         \* members who may apply for a loan and be marked in arrears
  Pledged,          \* Pledged[m]: what m's live guarantees hold
  User,             \* officers
  Assurance,        \* officers whose role only reviews
  Quorum,           \* votes that decide
  Channel,          \* channels cash moves on
  Amount,           \* amounts a caller passes, in cents
  ExitFee,          \* exit fees the tenant may configure (0 included)
  RegistrationFee,  \* the misc fee, 0 while not configured
  Opening,          \* shares and deposits each member starts with
  Owing,            \* members who start with a loan of that much, just disbursed
  Transfer,         \* ids of share transfers, used once each
  Exit,             \* ids of exit settlements, used once each
  MaxPostings       \* bound on postings

Account == {"cash.mpesa", "cash.bank", "loans.receivable", "member.deposits",
            "member.shares", "liability.unclaimed_dividends", "income.interest",
            "income.penalties", "income.fees", "income.bad_debt_recoveries",
            "interest.expense", "expense.dividends", "expense.rebates",
            "expense.loan_writeoffs", "clearing.share_transfers"}
Retention == {"member.shares", "member.deposits"}

ASSUME BooksAssumption ==
  /\ IsFiniteSet(Member) /\ Borrower \subseteq Member /\ Pledged \in [Member -> Nat]
  /\ \A m \in Member : Pledged[m] <= Opening
  /\ Assurance \subseteq User /\ Quorum \in Nat \ {0}
  /\ Channel \subseteq {"mpesa", "bank"}
  /\ Amount \subseteq Nat \ {0} /\ ExitFee \subseteq Nat /\ RegistrationFee \in Nat
  /\ Opening \in Nat /\ Owing \subseteq Borrower /\ MaxPostings \in Nat

VARIABLES
  status,    \* status[m]: "active", "arrears", "dormant" or "exited"
  deposit,   \* deposit[m], share[m]: account balances
  share,
  loan,      \* loan[m]: the loan row, with the interest that is due
  receipt,   \* receipt[m]: the repayment an adjustment may reverse
  ledger,    \* ledger[m][a]: legs of m's transactions
  exitFee,   \* the configured exit fee; none is zero
  transfer,  \* transfer[t]: share_transfers
  exit,      \* exit[x]: member_exits with its votes
  posted     \* postings so far

vars == <<status, deposit, share, loan, receipt, ledger, exitFee, transfer,
          exit, posted>>
balances == <<deposit, share>>
requests == <<transfer, exit>>

-----------------------------------------------------------------------------
(* The legs of each kind of posting.                                       *)

Cash(c) == IF c = "mpesa" THEN "cash.mpesa" ELSE "cash.bank"
Leg(account, n) == [a \in Account |-> IF a = account THEN n ELSE 0]
Plus(x, y) == [a \in Account |-> x[a] + y[a]]
Entry(dr, cr, n) == Plus(Leg(dr, n), Leg(cr, -n))

DepositLegs(n, c) == Entry(Cash(c), "member.deposits", n)
WithdrawalLegs(n, c) == Entry("member.deposits", Cash(c), n)
ShareTopupLegs(n, c) == Entry(Cash(c), "member.shares", n)
DisbursementLegs(n, c) == Entry("loans.receivable", Cash(c), n)
RepaymentLegs(r) ==
  Plus(Plus(Leg(Cash(r.channel), r.penalty + r.interest + r.principal),
            Leg("income.penalties", -r.penalty)),
       Plus(Leg("income.interest", -r.interest), Leg("loans.receivable", -r.principal)))
DepositInterestLegs(n) == Entry("interest.expense", "member.deposits", n)
WriteOffLegs(n) == Entry("expense.loan_writeoffs", "loans.receivable", n)
RecoveryLegs(n, c) == Entry(Cash(c), "income.bad_debt_recoveries", n)
FeeLegs(n, c) == Entry(Cash(c), "income.fees", n)
TransferOutLegs(n) == Entry("member.shares", "clearing.share_transfers", n)
TransferInLegs(n) == Entry("clearing.share_transfers", "member.shares", n)
DividendLegs(dividend, rebate, dividendTo, rebateTo) ==
  Plus(Plus(Leg("expense.dividends", dividend), Leg("expense.rebates", rebate)),
       Plus(Leg(dividendTo, -dividend), Leg(rebateTo, -rebate)))
UnclaimedLegs(dividend, rebate) ==
  LET parked == "liability.unclaimed_dividends"
  IN  DividendLegs(dividend, rebate, parked, parked)

\* The set-off of an exit: equity against payoff, fee and refund.
ExitLegs(s, c) ==
  Plus(Plus(Plus(Leg("member.shares", s.shares), Leg("member.deposits", s.deposits)),
            Plus(Leg("loans.receivable", -s.principal), Leg("income.interest", -s.interest))),
       Plus(Plus(Leg("income.penalties", -s.penalty), Leg("income.fees", -s.fee)),
            Leg(Cash(c), -(s.shares + s.deposits - s.principal - s.interest - s.penalty - s.fee))))

Mirror(legs) == [a \in Account |-> -legs[a]]

\* One transaction of member m: its row and its legs.
Post(m, legs) ==
  /\ posted < MaxPostings
  /\ posted' = posted + 1
  /\ ledger' = [ledger EXCEPT ![m] = Plus(@, legs)]

\* The two transactions of a transfer, one for each member.
PostShareTransfer(from, to, n) ==
  /\ posted < MaxPostings
  /\ posted' = posted + 1
  /\ ledger' = [ledger EXCEPT ![from] = Plus(@, TransferOutLegs(n)),
                              ![to] = Plus(@, TransferInLegs(n))]

PostDeposit(m, n, c) == Post(m, DepositLegs(n, c))
PostWithdrawal(m, n, c) == Post(m, WithdrawalLegs(n, c))
PostShareTopup(m, n, c) == Post(m, ShareTopupLegs(n, c))
PostFee(m, n, c) == Post(m, FeeLegs(n, c))
PostAllocatedRepayment(m, r) == Post(m, RepaymentLegs(r))
PostReversal(m, legs) == Post(m, Mirror(legs))
PostLoanWriteOff(m, n) == Post(m, WriteOffLegs(n))
PostLoanRecovery(m, n, c) == Post(m, RecoveryLegs(n, c))
PostExitSettlement(m, s, c) ==
  IF s.shares + s.deposits > 0 THEN Post(m, ExitLegs(s, c)) ELSE UNCHANGED <<ledger, posted>>

-----------------------------------------------------------------------------

Loan(state, principal, interest, penalty) ==
  [state |-> state, principal |-> principal, interest |-> interest, penalty |-> penalty]
NoLoan == Loan("none", 0, 0, 0)
NoReceipt == [penalty |-> 0, interest |-> 0, principal |-> 0, channel |-> "none"]
NoRow == [state |-> "none"]

MoneyIn == {"active", "arrears", "dormant"}
MayTopUp == {"active", "arrears"}
Checks(u, maker) == u # maker /\ u \notin Assurance

Init ==
  /\ status = [m \in Member |-> "active"]
  /\ deposit = [m \in Member |-> Opening]
  /\ share = [m \in Member |-> Opening]
  /\ loan = [m \in Member |-> IF m \in Owing THEN Loan("active", Opening, 0, 0) ELSE NoLoan]
  /\ receipt = [m \in Member |-> NoReceipt]
  /\ ledger = [m \in Member |->
       LET lent == IF m \in Owing THEN Opening ELSE 0 IN
       Plus(Plus(Leg("cash.mpesa", 2 * Opening - lent), Leg("loans.receivable", lent)),
            Plus(Leg("member.deposits", -Opening), Leg("member.shares", -Opening)))]
  /\ exitFee = 0
  /\ transfer = [t \in Transfer |-> NoRow]
  /\ exit = [x \in Exit |-> NoRow]
  /\ posted = 0

-----------------------------------------------------------------------------
(* Deposits, withdrawals, shares and fees.                                 *)

\* A deposit reactivates a dormant member.
RecordDeposit(m, n, c) ==
  /\ status[m] \in MoneyIn
  /\ PostDeposit(m, n, c)
  /\ deposit' = [deposit EXCEPT ![m] = @ + n]
  /\ status' = [status EXCEPT ![m] = IF @ = "dormant" THEN "active" ELSE @]
  /\ UNCHANGED <<share, loan, receipt, exitFee, requests>>

RecordWithdrawal(m, n, c) ==
  /\ status[m] = "active"
  /\ n <= deposit[m] - Pledged[m]
  /\ PostWithdrawal(m, n, c)
  /\ deposit' = [deposit EXCEPT ![m] = @ - n]
  /\ UNCHANGED <<status, share, loan, receipt, exitFee, requests>>

RecordShareTopup(m, n, c) ==
  /\ status[m] \in MayTopUp
  /\ PostShareTopup(m, n, c)
  /\ share' = [share EXCEPT ![m] = @ + n]
  /\ UNCHANGED <<status, deposit, loan, receipt, exitFee, requests>>

PostMiscFee(m, c) ==
  /\ RegistrationFee > 0
  /\ status[m] \in MoneyIn
  /\ PostFee(m, RegistrationFee, c)
  /\ UNCHANGED <<status, balances, loan, receipt, exitFee, requests>>

\* Jobs: interest looks at the account, not at its member's status.
PostDepositInterest(m, n) ==
  /\ Post(m, DepositInterestLegs(n))
  /\ deposit' = [deposit EXCEPT ![m] = @ + n]
  /\ UNCHANGED <<status, share, loan, receipt, exitFee, requests>>

Share(to, n) == IF to = "member.shares" THEN n ELSE 0
PostDividend(m, dividend, rebate, dividendTo, rebateTo) ==
  /\ status[m] # "exited"
  /\ Post(m, DividendLegs(dividend, rebate, dividendTo, rebateTo))
  /\ share' = [share EXCEPT ![m] = @ + Share(dividendTo, dividend) + Share(rebateTo, rebate)]
  /\ deposit' = [deposit EXCEPT ![m] =
       @ + dividend - Share(dividendTo, dividend) + rebate - Share(rebateTo, rebate)]
  /\ UNCHANGED <<status, loan, receipt, exitFee, requests>>

ParkDividend(m, dividend, rebate) ==
  /\ status[m] = "exited"
  /\ Post(m, UnclaimedLegs(dividend, rebate))
  /\ UNCHANGED <<status, balances, loan, receipt, exitFee, requests>>

-----------------------------------------------------------------------------
(* The member's loan.                                                      *)

WithLoan(m, l) == loan' = [loan EXCEPT ![m] = l]

Apply(m) ==
  /\ status[m] = "active" /\ loan[m].state \in {"none", "closed"}
  /\ WithLoan(m, Loan("applied", 0, 0, 0))
  /\ receipt' = [receipt EXCEPT ![m] = NoReceipt]
  /\ UNCHANGED <<status, balances, ledger, exitFee, requests, posted>>

Decline(m) ==
  /\ loan[m].state = "applied"
  /\ WithLoan(m, NoLoan)
  /\ UNCHANGED <<status, balances, receipt, ledger, exitFee, requests, posted>>

DisburseLoan(m, n, c) ==
  /\ loan[m].state = "applied"
  /\ Post(m, DisbursementLegs(n, c))
  /\ WithLoan(m, Loan("active", n, 0, 0))
  /\ UNCHANGED <<status, balances, receipt, exitFee, requests>>

\* An installment falls due, or the arrears job accrues a penalty.
AccrueOnLoan(m, interest, penalty) ==
  /\ loan[m].state = "active" /\ loan[m].interest + loan[m].penalty = 0
  /\ WithLoan(m, Loan("active", loan[m].principal, interest, penalty))
  /\ UNCHANGED <<status, balances, receipt, ledger, exitFee, requests, posted>>

Least(a, b) == IF a < b THEN a ELSE b
Allocation(l, n, c) ==
  LET penalty == Least(n, l.penalty)
      interest == Least(n - penalty, l.interest)
  IN  [penalty |-> penalty, interest |-> interest, principal |-> n - penalty - interest,
       channel |-> c]

RepayLoan(m, n, c) ==
  LET l == loan[m]
      r == Allocation(l, n, c)
      done == l.principal = r.principal /\ l.penalty = r.penalty
  IN
  /\ l.state = "active" /\ status[m] \in MoneyIn
  /\ n <= l.penalty + l.interest + l.principal
  /\ PostAllocatedRepayment(m, r)
  /\ WithLoan(m, IF done THEN Loan("closed", 0, 0, 0)
                 ELSE Loan("active", l.principal - r.principal, l.interest - r.interest,
                           l.penalty - r.penalty))
  /\ receipt' = [receipt EXCEPT ![m] = r]
  /\ UNCHANGED <<status, balances, exitFee, requests>>

\* An approved adjustment reverses the whole repayment, cash leg included.
ReverseRepayment(m) ==
  LET l == loan[m] r == receipt[m] IN
  /\ r # NoReceipt /\ l.state \in {"active", "closed"} /\ status[m] # "exited"
  /\ PostReversal(m, RepaymentLegs(r))
  /\ WithLoan(m, Loan("active", l.principal + r.principal, l.interest + r.interest,
                      l.penalty + r.penalty))
  /\ receipt' = [receipt EXCEPT ![m] = NoReceipt]
  /\ UNCHANGED <<status, balances, exitFee, requests>>

\* Only principal has a leg: a penalty is income when it is received.
WriteOffLoan(m) ==
  /\ loan[m].state = "active" /\ loan[m].principal + loan[m].penalty > 0
  /\ IF loan[m].principal > 0 THEN PostLoanWriteOff(m, loan[m].principal)
     ELSE UNCHANGED <<ledger, posted>>
  /\ WithLoan(m, Loan("written_off", 0, 0, loan[m].principal + loan[m].penalty))
  /\ receipt' = [receipt EXCEPT ![m] = NoReceipt]
  /\ UNCHANGED <<status, balances, exitFee, requests>>

\* A written-off loan's penalty field holds the claim that is left.
RecordRecovery(m, n, c) ==
  /\ loan[m].state = "written_off" /\ status[m] \in MoneyIn
  /\ n <= loan[m].penalty
  /\ PostLoanRecovery(m, n, c)
  /\ WithLoan(m, Loan("written_off", 0, 0, loan[m].penalty - n))
  /\ UNCHANGED <<status, balances, receipt, exitFee, requests>>

-----------------------------------------------------------------------------
(* Standing: the dormancy and arrears jobs, the tenant's exit fee.          *)

\* By an officer: into or out of arrears only.
ChangeMemberStatus(m, to) ==
  /\ <<status[m], to>> \in {<<"active", "arrears">>, <<"arrears", "active">>}
  /\ status' = [status EXCEPT ![m] = to]
  /\ UNCHANGED <<balances, loan, receipt, ledger, exitFee, requests, posted>>

MarkDormant(m) ==
  /\ status[m] = "active"
  /\ status' = [status EXCEPT ![m] = "dormant"]
  /\ UNCHANGED <<balances, loan, receipt, ledger, exitFee, requests, posted>>

SetExitFee(f) ==
  /\ exitFee' = f /\ exitFee # f
  /\ UNCHANGED <<status, balances, loan, receipt, ledger, requests, posted>>

-----------------------------------------------------------------------------
(* Share transfers: a maker requests, another officer decides.             *)

BothActive(from, to) == from # to /\ status[from] = "active" /\ status[to] = "active"

RequestShareTransfer(t, u, from, to, n) ==
  /\ transfer[t] = NoRow
  /\ BothActive(from, to) /\ n <= share[from]
  /\ transfer' = [transfer EXCEPT ![t] =
       [state |-> "pending", from |-> from, to |-> to, amount |-> n, maker |-> u,
        before |-> share[from]]]
  /\ UNCHANGED <<status, balances, loan, receipt, ledger, exitFee, exit, posted>>

\* Fault variant: the balance of the request is not compared.
SameShareUnchecked(row) == TRUE
SameShare(row) == share[row.from] = row.before

ApproveShareTransfer(t, u) ==
  LET row == transfer[t] IN
  /\ row.state = "pending" /\ Checks(u, row.maker)
  /\ BothActive(row.from, row.to) /\ SameShare(row)
  /\ PostShareTransfer(row.from, row.to, row.amount)
  /\ share' = [share EXCEPT ![row.from] = @ - row.amount, ![row.to] = @ + row.amount]
  /\ transfer' = [transfer EXCEPT ![t] = [state |-> "posted"]]
  /\ UNCHANGED <<status, deposit, loan, receipt, exitFee, exit>>

RejectShareTransfer(t, u) ==
  /\ transfer[t].state = "pending" /\ Checks(u, transfer[t].maker)
  /\ transfer' = [transfer EXCEPT ![t] = [state |-> "rejected"]]
  /\ UNCHANGED <<status, balances, loan, receipt, ledger, exitFee, exit, posted>>

-----------------------------------------------------------------------------
(* Exit: snapshot, vote, settlement.                                       *)

ActiveLoan(m) == IF loan[m].state = "active" THEN loan[m] ELSE NoLoan
Settlement(m) ==
  [shares |-> share[m], deposits |-> deposit[m], principal |-> ActiveLoan(m).principal,
   interest |-> ActiveLoan(m).interest, penalty |-> ActiveLoan(m).penalty, fee |-> exitFee]
LoanTotal(s) == s.principal + s.interest + s.penalty
NetPayable(s) == s.shares + s.deposits - LoanTotal(s) - s.fee

MayLeave(m) ==
  /\ status[m] # "exited"
  /\ Pledged[m] = 0
  /\ loan[m].state # "applied"
  /\ loan[m].state = "written_off" => loan[m].penalty = 0

OpenExit(x) == exit[x].state \in {"requested", "approved"}

RequestExit(x, u, m) ==
  /\ exit[x] = NoRow
  /\ MayLeave(m) /\ NetPayable(Settlement(m)) >= 0
  /\ ~\E y \in Exit : OpenExit(y) /\ exit[y].member = m
  /\ exit' = [exit EXCEPT ![x] =
       [state |-> "requested", member |-> m, by |-> u, snapshot |-> Settlement(m),
        approvals |-> {}, rejections |-> {}, refund |-> 0]]
  /\ UNCHANGED <<status, balances, loan, receipt, ledger, exitFee, transfer, posted>>

Rejected == [state |-> "rejected"]

CastExitVote(x, u, approve) ==
  LET row == exit[x]
      approvals == IF approve THEN row.approvals \union {u} ELSE row.approvals
      rejections == IF approve THEN row.rejections ELSE row.rejections \union {u}
  IN
  /\ row.state = "requested" /\ u # row.by
  /\ u \notin row.approvals \union row.rejections
  /\ exit' = [exit EXCEPT ![x] =
       IF Cardinality(rejections) >= Quorum THEN Rejected
       ELSE [row EXCEPT !.state = IF Cardinality(approvals) >= Quorum THEN "approved" ELSE @,
                        !.approvals = approvals, !.rejections = rejections]]
  /\ UNCHANGED <<status, balances, loan, receipt, ledger, exitFee, transfer, posted>>

VoidExit(x) ==
  /\ OpenExit(x)
  /\ exit' = [exit EXCEPT ![x] = Rejected]
  /\ UNCHANGED <<status, balances, loan, receipt, ledger, exitFee, transfer, posted>>

\* Fault variant: the fee of the approval is not compared.
SnapshotHoldsExceptFee(s, now) ==
  s.shares = now.shares /\ s.deposits = now.deposits /\ LoanTotal(s) = LoanTotal(now)
SnapshotHolds(s, now) ==
  /\ s.shares = now.shares /\ s.deposits = now.deposits
  /\ LoanTotal(s) = LoanTotal(now) /\ s.fee = now.fee

PostSettlement(x, u, c) ==
  LET row == exit[x] m == row.member now == Settlement(m) IN
  /\ row.state = "approved" /\ u # row.by
  /\ MayLeave(m) /\ SnapshotHolds(row.snapshot, now)
  /\ PostExitSettlement(m, now, c)
  /\ share' = [share EXCEPT ![m] = 0]
  /\ deposit' = [deposit EXCEPT ![m] = 0]
  /\ loan' = [loan EXCEPT ![m] = IF @.state = "active" THEN Loan("closed", 0, 0, 0) ELSE @]
  /\ status' = [status EXCEPT ![m] = "exited"]
  /\ exit' = [exit EXCEPT ![x].state = "settled", ![x].refund = NetPayable(now)]
  /\ UNCHANGED <<receipt, exitFee, transfer>>

-----------------------------------------------------------------------------

Next ==
  \/ \E m \in Member, n \in Amount, c \in Channel :
       \/ RecordDeposit(m, n, c) \/ RecordWithdrawal(m, n, c) \/ RecordShareTopup(m, n, c)
       \/ DisburseLoan(m, n, c) \/ RepayLoan(m, n, c) \/ RecordRecovery(m, n, c)
  \/ \E m \in Member, c \in Channel : PostMiscFee(m, c)
  \/ \E m \in Member : ReverseRepayment(m)
  \/ \E m \in Member, n \in Amount : PostDepositInterest(m, n)
  \/ \E m \in Member, n \in Amount, to \in Retention :
       PostDividend(m, n, n, to, "member.deposits")
  \/ \E m \in Member, n \in Amount : ParkDividend(m, n, n)
  \/ \E m \in Borrower : Apply(m) \/ Decline(m) \/ WriteOffLoan(m)
  \/ \E m \in Borrower, n \in Amount, k \in {0, 1} : AccrueOnLoan(m, n, k * n)
  \/ \E m \in Member : MarkDormant(m)
  \/ \E m \in Borrower : ChangeMemberStatus(m, "arrears") \/ ChangeMemberStatus(m, "active")
  \/ \E f \in ExitFee : SetExitFee(f)
  \/ \E t \in Transfer, u \in User, from, to \in Member, n \in Amount :
       RequestShareTransfer(t, u, from, to, n)
  \/ \E t \in Transfer, u \in User : ApproveShareTransfer(t, u) \/ RejectShareTransfer(t, u)
  \/ \E x \in Exit, u \in User, m \in Member : RequestExit(x, u, m)
  \/ \E x \in Exit, u \in User, approve \in BOOLEAN : CastExitVote(x, u, approve)
  \/ \E x \in Exit : VoidExit(x)
  \/ \E x \in Exit, u \in User, c \in Channel : PostSettlement(x, u, c)

Spec == Init /\ [][Next]_vars

-----------------------------------------------------------------------------

(* The legs of a member's own transactions explain her accounts and her    *)
(* loan: share capital, deposits and receivable can be rebuilt from the    *)
(* ledger member by member, as period balances and dividends do.           *)
SubledgerAgrees ==
  \A m \in Member :
    /\ ledger[m]["member.deposits"] = -deposit[m]
    /\ ledger[m]["member.shares"] = -share[m]
    /\ ledger[m]["loans.receivable"] = (IF loan[m].state = "active" THEN loan[m].principal ELSE 0)

(* The books balance: over the tenant debits are credits, the clearing     *)
(* account is empty outside a transfer, and no account is overdrawn.       *)
Sum(f, S) == MapThenSumSet(LAMBDA x : f[x], S)
Clearing == [m \in Member |-> ledger[m]["clearing.share_transfers"]]
BooksBalance ==
  /\ \A m \in Member : Sum(ledger[m], Account) = 0
  /\ Sum(Clearing, Member) = 0
  /\ \A m \in Member : share[m] >= 0 /\ deposit[m] >= Pledged[m]

(* The two hold together whatever a request was decided on: a transfer or  *)
(* an exit judged on balances that have moved since posts what stands now. *)
BooksAgree == SubledgerAgrees /\ BooksBalance

(* A settled exit paid out what a quorum of officers, none of them its     *)
(* requester, approved, whatever happened to the member's money, loan or   *)
(* fee between the vote and the settlement.                                *)
SettledAsVoted ==
  \A x \in Exit : exit[x].state = "settled" =>
    /\ exit[x].refund = NetPayable(exit[x].snapshot)
    /\ Cardinality(exit[x].approvals) >= Quorum /\ exit[x].by \notin exit[x].approvals
    /\ status[exit[x].member] = "exited"

=============================================================================
