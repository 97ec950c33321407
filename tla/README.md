# Verification of the SACCO core

TLA+ models of the back end of this repository (`backend/src/genesis`, FastAPI
over PostgreSQL at READ COMMITTED), the TLC runs that check them and the TLAPS
proofs about them. Paths below are relative to `backend/src/genesis` unless
they start with `docs/` or `backend/`.

Contents: [reading guide](#reading-guide), [inventory](#inventory),
[modules](#modules-and-the-code), [runs](#runs), [findings](#where-code-and-documents-disagree),
[proofs](#proofs), [limits](#what-is-only-model-checked-and-what-is-not-modelled),
[plan](#plan).

## Reading guide

| file | what it is |
| --- | --- |
| `OutboxWorker.tla`, `NotificationPromise.tla` | the transactional outbox and its dispatchers; what it promises the domain code |
| `Idempotency.tla` | the `Idempotency-Key` middleware and the retention purge |
| `PeriodLedger.tla` | postings, references, reversals, period close, rollups and the reads that use them |
| `Books.tla` | the legs of every kind of posting, member accounts, share transfers, exit requests, votes and settlement |
| `LockOrder.tla` | the order in which seventeen handlers lock rows; deadlock |
| `Collateral.tla` | guarantees, applications, loans, deposits and exit as concurrent transactions |
| `Servicing.tla` | one loan: repayments and allocation, adjustments, write-off, receipts, exit, the arrears job |
| `Dividends.tla` | declaration, vote, void and the batches of a distribution |
| `InterestJob.tla`, `Dormancy.tla`, `Snapshots.tla`, `Exports.tla` | the jobs: quarterly deposit interest, dormancy, month-end portfolio snapshots, background exports |
| `Recovery.tla`, `Staff.tla`, `Sessions.tla`, `MemberSessions.tla`, `Register.tla`, `Branches.tla` | desk work: recovery cases, staff administration, sign-in and token families of staff and of members, the members register with its KYC file, branches and their backfill |
| `MC*.tla`, `*.cfg` | instances for TLC; `MCWorkers` holds the jobs and the sessions of staff side by side, `MCDesk` the rest of the desk and idempotency, `MCLedger` periods and locks, `MCCredit` collateral and servicing |
| `*Proofs.tla` | theorems and their proofs; `LedgerProofs` covers the periods and the lock order, `JobsProofs` the outbox, the jobs, recovery and branches, `DeskProofs` the rest of the desk and idempotency |
| `SetLemmas.tla` | proved facts the others cite: least and greatest elements, the smallest counterexample, recursive functions over numbers, sums over finite sets |
| `PROJECT.json` | components, runs, the line every definition stands for, fault variants, findings, hazards, theorems |

Every run is `tlc -config <cfg> <MC module>`; every proof is `tlapm <module>`.
A definition preceded by "Fault variant" is not part of the specification: it is
a plausible bug in the definition that follows, and replacing that definition by
it makes TLC report the property named in `PROJECT.json` ("mutants").

## Inventory

One tenant's rows are disjoint from any other's (row-level security and an
explicit predicate in every statement), so every module models one tenant. A
request is one database transaction opened by `tenant_session`
(`infrastructure/tenancy.py`): it commits on success and rolls back on any
exception. That transaction is where nearly all interaction happens: handlers
meet on row locks, on two kinds of advisory locks (the period barrier and the
reference prefixes), and through rows that background workers pick up later.

| component | state | operations | hard behaviour | correct when |
| --- | --- | --- | --- | --- |
| Outbox (`application/outbox.py`, `infrastructure/outbox_worker.py`) | `outbox_events` | enqueue in the domain transaction; claim with a lease; send; record; purge | several dispatchers, death between claim, call and record, leases that run out, stale recordings | nothing is lost or given up early; claims are exclusive |
| Idempotency (`api/idempotency.py`) | `idempotency_keys` | claim, replay, refuse, store, release, purge | three transactions per request; retries at any point; expiry under a running handler | one effect per key; a replay is the answer to that request |
| Ledger and periods (`application/ledger.py`, `accounting_periods.py`, `period_rollups.py`) | `transactions`, `ledger_lines`, `txn_ref_sequences`, `accounting_periods`, `account_period_balances`, `member_period_balances` | post, reverse, close a month, backfill rollups, read balances | a posting racing the close of its month; numbering across rollbacks; historical reads over partial rollups | closed months never change; references are dense; reports count everything once |
| Collateral (`guarantees.py`, `loan_applications.py`, parts of `ledger.py`, `loans.py`, `corrections.py`, `transactions.py`, `member_exits.py`) | deposit balances, member status, application stage, loan status, guarantees | pledge, consent, release, substitute, decide, disburse, repay, write off, recover, reopen, deposit, withdraw, settle | capacity shared by all a guarantor's pledges; anchors found by unlocked reads; bulk updates that miss rows inserted meanwhile | guarantees stay within deposits; ended loans discharge, live loans keep their collateral; exited members are clear |
| Lock order (all money and credit handlers) | row and advisory locks | every handler | locks taken implicitly by foreign keys; `SKIP LOCKED` batches | no set of transactions waits for itself |
| Loan servicing (`loans.py`, `ledger.py`, `domain/lending.py`) | loan balance and penalty, `loan_schedules`, `repayments` | allocate a repayment, close, settle at exit | order of allocation, prepayment, the schedule as a second account of the same cash | loan row, schedule and history agree; interest is collected once |
| Corrections (`corrections.py`, `sod.py`, `domain/committee.py`) | `repayment_adjustments`, `loan_write_offs`, `loan_recoveries`, misc fees | request, approve, reject; request, vote, void, post; receipt | decision on a snapshot, applied later under the lock; replay of the schedule | what is posted is what was approved; guarantors are discharged only by full recovery |
| Arrears (`arrears.py`) | days past due, classification, `penalty_accruals` | daily batch | scan older than the lock, two runners, skipped locked loans | one penalty per loan and day; ended loans untouched |
| Postings and exits (`transactions.py`, `ledger.py`, `member_exits.py`) | `ledger_lines`, account balances, `member_exits` | deposit, withdraw, top up shares, fees, every job's posting; request, vote, void, settle | the subledger of a member is spread over handlers that never meet; money moves between vote and settlement | ledger and accounts agree member by member; an exit pays what was voted |
| Recovery cases (`recovery.py`) | `recovery_cases`, actions | open, act, assign, close pass | stale screens; close pass on an older snapshot | closed cases immutable |
| Dividends (`dividends.py`) | declarations, votes, allocations | declare, vote, distribute in batches, void | a batch lost half way; void, exit or interest between batches | a year is paid once, and what was approved |
| Share transfers (`dividends.py` from 1735) | `share_transfers` | request, approve, reject | decided on a snapshot, applied later | transfers conserve shares |
| Deposit interest (`deposit_interest.py`, `period_balances.py`) | interest runs, accruals, postings | quarterly batch | overlapping and dying runs, strict quarter order, closed months | each account is credited once per quarter, no quarter is skipped |
| Dormancy (`dormancy.py`) | member status | daily batch | a transaction of the member under the scan | an active depositor is never made dormant |
| Exports (`exports.py`, `infrastructure/export_worker.py`) | `export_jobs` | enqueue, claim, build, fail, expire | worker death, a report that changes while it is read | each job ends; an artifact is one state of the report |
| Portfolio snapshots (`portfolio_snapshots.py`, `portfolio_reconstruction.py`) | month-end loan classification | store at close, backfill | rebuilt from rows that changed since | a rebuilt snapshot equals the one the month's end would have shown |
| Users and roles (`users.py`, `rbac.py`) | users, roles | invite, edit, suspend, change role | two administrators removed at once | a tenant keeps an active administrator |
| Staff sessions (`auth.py`, `domain/otp.py`) | one-time codes, refresh-token families | sign in, rotate, log out, suspend | replayed tokens, rotation racing revocation | a code works once; one live token per family; revoked stays revoked |
| Member sign-in (`member_auth.py`, `member_identity.py`) | links of e-mails to members, codes, token families | link, revoke, ask, enter, rotate, log out | no row shared by two requests but the code or the token itself; an e-mail that passes to another member | a code opens one session, of the link it was sent to; one live token per family |
| Members and KYC (`members.py`, `member_kyc.py`) | versioned rows | create, edit, change status | edits that overlap and write back what they read | an edit undoes nothing |
| Branches (`branches.py`) | `branches`, links of users and members | create, rename, assign, backfill | a backfill batch against an assignment, an edit, a rename or another run | a link is only replaced by a person; nobody due is left out |
| Settings, products | versioned rows | edit | lost updates | edits name the version they saw |
| Reports, dashboard, audit reads, pagination | none | read | none beyond the rollups above | |
| HTTP layer, providers, migrations, web client | none of their own | | | |

The full list with the status of each is in `PROJECT.json` ("components"), and
everything hard to test, at its line, is under "hazards" there, each with the
properties that would catch it.

## Modules and the code

### OutboxWorker and NotificationPromise

State: `row`, `attempts`, `due` and `aged` are the columns `status`,
`attempts`, `next_attempt_at <= now()` and `dispatched_at` past retention;
`batch[w]` is what worker `w` holds in memory after its claim commits,
including the attempts count the claim read; `call[w]` is the outcome of a
provider call not yet recorded. `ClaimBatch`, `Send`, `RecordDispatched` and
`RecordFailure` are the three phases of `dispatch_due`; the recording UPDATEs
name only the row's id, so they apply to whatever the row has become.
`Crash` loses the batch. `BecomeDue` is the lease or backoff running out;
`LeaseOverrun` decides whether that may happen under a live worker.
`accepted` and `failures` are history of the provider's side.

`NotificationPromise` says what the domain code relies on: an owed notice may
be handed over, and is forgotten only after that. `OutboxWorker` implements it
under `owed` = rows that exist or existed, `handed` = accepted events,
`forgotten` = purged rows.

### Idempotency

`row[k]` is the row of one storage key (tenant, actor, method and path folded
in), with the request that claimed it as a history field `by`. The claim
statement and the replay lookup are one step: `ON CONFLICT DO UPDATE` locks the
row even when its WHERE refuses it, and `now()` is fixed. `Handle` commits the
handler's own transaction, `Store` and `Release` are the two recording
statements, whose WHERE (`Pinned`) names hash and emptiness but no epoch.
`Expire` ends a retention window at any moment, also under a running handler:
`outlived` keeps the requests it happened to, so that later requests with the same key
meet their recordings. `CommitUnknown` decides whether a request may fail although its
commit took effect.

### PeriodLedger

A posting is `Begin` (timestamp), `EnterPeriod` (shared barrier and closed
check), `Number` (prefix lock and reference), `Commit`. A reversal starts with
the original's row locked. `CloseBegin` waits for the exclusive barrier,
`CloseCommit` stores the month's rollup, or none for months closed by the
release before migration 0028 (`LegacyClosed`), which `RollupBackfill` then
repairs, in any order: its scan takes the oldest first but passes over a month whose
row another session has locked. Money is not added up: a sum over ledger lines is the set of postings
it counts, so two totals agree only if they count the same postings.
`MemberBalanceBefore` and `RolledPart`/`LivePart` are the two reads that combine
rollups with a scan.

### LockOrder

A handler is the sequence of locks it asks for. Besides the explicit
`FOR UPDATE` and `FOR SHARE`, an UPDATE locks its row and an INSERT of a row with
a `member_id` locks that member `FOR KEY SHARE` (the foreign keys of migration
0001); this conflicts with `FOR UPDATE` alone. Two checks (`IfOpen`,
`IfNoneOpen`) end a handler before it locks more and are kept, because without
them `release` and `settle` would meet in opposite order. A release anchored on a loan
(`releaseLoan`) locks the loan after the application. `distribute` and
`interest` start with what their `SKIP LOCKED` scan gets and then process the
batch in one transaction. `NoDeadlock` says that in every set of sessions one
waits for nobody in the set.

Left out: handlers that wait while holding nothing or hold without ever waiting
(votes, consent, `close_period`, the arrears and dormancy scans), which cannot be
on a cycle, and the period barrier, which every posting shares; a posting that
queues behind a waiting close is an edge the server's detector removes by
reordering the queue.

### Collateral

A handler takes all its locks in one step once they are free (their order is the
subject of `LockOrder`), reads committed rows, keeps its writes in `txn[s]` and
makes them visible in `Commit`. Two things are not atomic, as in the code. A
release and a substitution first read the guarantee without a lock (`Probe`) to
learn which application and loan anchor it, and only the version in the later
UPDATE tells them that the row has moved on. And the UPDATE over all
guarantees of an application or loan (`RunUpdate`, `UpdateRows`) chooses its rows
when it starts, waits for them and tests each again: a guarantee inserted
meanwhile is not found.

Deposits and guarantees are counted in units; a guarantee is one unit, the
product multiplier is one. The statuses before a committee decision are one
stage; `arrears` and `dormant` members are not distinguished from active ones (the
operations that decide here need an active member, except money-in, which all
three may do). `Repay` is the repayment that pays the loan off, `Recover` the
receipt that completes the claim; shares are not modelled, so a settlement's
equity always suffices.

### Servicing

One disbursed loan. Every writer locks its row first and holds it to the commit,
so a handler is one step; the exceptions are what is read before the lock. A
repayment's date comes from the clock read at its start, hence
`d \in {day - 1, day}`. The arrears scan sees the schedule and the accruals of its
snapshot but the loan row of its lock (`Scan`, then `ApplyArrears`, with anything in
between), as the "Snapshot nuance" of `_accrue_penalty` says.

`loan`, `paid`, `repayments`, `adjustments`, `accrued`, `writeOff` and `recovered` are
the rows of `loans`, `loan_schedules.paid_amount`, `repayments` with their ledger
legs, the live `repayment_adjustments`, `penalty_accruals`, the live or posted
`loan_write_offs` and the sum of `loan_recoveries`. `Pay` is the forward pass over
the schedule and `Allocation` the split of cash; `Replay` is the rebuild of the
schedule from the repayments that stand; `Net` the signed sum of receivable legs
that approval checks its result against. The properties use their own definitions
of what stands (`Reversed`, `Standing`), not those of the code.

The amount paid ranges from one cent to one above the payoff. The tenant's choice
of penalty basis is open at each accrual (`Basis`). A request by a member to exit and
the votes on it are left out: `Settle` may happen whenever no claim is open, with its
snapshot as found.

### Books

Every handler that posts and every job's posting is an action, one transaction
each. `ledger[m]` adds up the legs of a member's transactions by account; the
balances, the loan row and the member's status are what the handlers
write beside them. Nothing in the code compares the two again, except the
reports that rebuild one from the other. `transfer` and `exit` are requests
decided on a snapshot by a second officer or a committee and applied later.
Months and references are in `PeriodLedger`, locks in `LockOrder`, the schedule in `Servicing`.

### Dividends

`declared[d]`, `claims[d][m]` and `run[r]` are the declaration, the allocation rows
and the state of a session. A run opens under the row lock, lets it go, adds up the
totals again in keyset batches (`AddBatch`, `Compare`), then pays batch by batch:
`Scan` takes the declaration FOR SHARE and the members it found unpaid and free,
`PayBatch` or `DisposeUnclaimed` claims and posts, and between any two of these steps
other runs, votes, voids, exits, interest postings and the close of the last month may
come. A year's balances are kept as the sum of end-of-day balances, so a posting dated
to the last instant changes later entitlements by the amount the code's average changes.
A payout's ledger legs are posted whatever accounts the member has (`credited`); a balance, and
with it `days`, moves only on an account that exists (`AccountsOf`, `OnAccounts`).

### The jobs

*InterestJob*: `StartRun` resolves the quarter, `AccrualScan` is a batch's snapshot,
`AccrualPay` its claims, credits and commit, on the rows of the snapshot that no other
session holds (`free`). Runs overlap, die and are resumed by the
next; quarters end, accounts open and quarter-end months close at any time. `first` marks a run
that found no accruals at all, `outset` is the last quarter such a run accrued.
*Dormancy*: the scan's snapshot, the row locks with the re-judged row, the transitions;
a handler locks the member, reads the status and commits later.
*Snapshots*: a snapshot is written by the close of its month or the backfill, whichever
comes first, from the loans as they are then; `pristine` records that nothing had been
undone or written off by then.
*Exports*: a worker's job is one transaction under one snapshot, with keyset fetches;
a domain error is recorded by a second transaction, a crash rolls back.

### The desk

*Recovery*: officers act on what their screen showed; the close pass judges on its
snapshot and re-judges rows that changed.
*Staff*: a change of status or role locks the administrators one by one, then the target,
then reads and writes statement by statement.
*Sessions*: verification and rotation hold the user row from one step to the next;
asking for a code and signing out do not take it.
*MemberSessions*: a request looks its link up, then locks the code or the token alone;
each statement is a step, and the UPDATE that ends a family is its snapshot and its writes.
*Register*: an edit reads a row without a lock and writes back every field it was not
given; a value is represented by the version that first carried it.
*Branches*: a batch of the backfill is the scan, the claim of the branch names
(uncommitted rows that make others wait) and the links with the commit; an
assignment is its reads and its UPDATE.

The jobs and *Sessions* run in `MCWorkers`, the others and `Idempotency` in `MCDesk`, one
component at a time. What two of them
share (a user's status, a member's row, the closing of a month) is in each an action of its
surroundings that may happen at any moment, so running them in parallel would only
multiply the states.

## Runs

| run | bounds | shows |
| --- | --- | --- |
| `Outbox` | 2 events, 2 workers, batch 2, 2 attempts, 2 crashes, 2 leases that run out under a live worker | claims are disjoint as long as no lease overruns; at-least-once, no early dead letter, every notice settled, `NotificationPromise` implemented even then |
| `Ledger` | periods: 3 postings, 1 member, 1 prefix, 4 months, two legacy closes; locks: 3 sessions, 2 members, all handlers, the 14 pairs of `Crossing` never overlapping | closed months frozen, dense references, one reversal, exact trial balance and (in-order closes) opening balance; no deadlock, and a settlement's check still holds at its commit |
| `LockOrderForeignKey` | 2 sessions; create, disburse, deposit | violated: disbursement and deposit of one member |
| `Credit` | collateral: 2 sessions, a borrower and two guarantors with up to 2 units of deposits, 1 loan of 2 units, 2 guarantee rows; servicing: 1 loan, 2 installments of 1 + 1 due on days 1 and 2, 2 officers, quorum 1, 2 repayments, 2 arrears runners (one may be overtaken), penalty a quarter of its basis | the properties of collateral and of servicing listed below |
| `ServicingInterest` | servicing of `Credit` | violated: interest is collected twice |
| `Dividends` | 2 members, 2 declarations, 2 runs, 2 officers, quorum 1, batches of one, one member without a deposit account | the year is paid once; a distributed declaration granted at least what was approved, and every cent granted is posted to its member or owed |
| `Books` | 2 members (one with a loan, one a guarantor), 2 officers, 2 transfers, 1 exit, 2 postings of one cent | ledger, accounts and loan agree; debits are credits; an exit pays what was voted |
| `Workers` | dormancy: 2 members, 4 days; interest: 2 accounts, 2 runs, 3 quarters; snapshots: 1 loan of 2 months, 4 months; exports: 2, by 2 workers, 3 rows under a cap of 2; sessions: 2 challenges, 2 requests, 3 generations | the properties of the jobs and of sessions |
| `DormancyRace` | dormancy of `Workers` | violated: a depositor is made dormant |
| `InterestOrder` | interest of `Workers` | violated: a quarter is begun and never finished |
| `Desk` | recovery: 2 cases of a loan, 2 officers; staff: 3 users, 2 sessions; idempotency: 3 requests, 1 key, 2 hashes, crashes, unknown commits, claims that expire under their handlers; register: 1 member, 2 clerks; branches: 2 targets, 1 assigner, 2 backfill runs; member sign-in: 2 members, 1 e-mail, 2 links, 2 codes, 2 requests, 2 generations | the properties of the desk |
| `IdempotencyEpoch` | idempotency of `Desk` | violated: a response is stored in a later request's claim |

Why these bounds are enough. *Outbox:* two workers make every race between a
stale and a fresh holder; two attempts make the difference between "failed" and
"exhausted"; a batch of two makes a worker hold one event while it sends another.
*Idempotency:* three requests over one key give an original that outlives its claim, a
retry in the next window and a third that meets both, or one of another hash.
*Periods:* four months give a closed rolled month, two closed unrolled ones that the backfill may
take in either order, an open one and the current one; three postings give an original, its reversal and a late posting. Two
prefixes or two members only multiply independent copies. *Lock order:* a cycle
needs as many sessions as it has edges; eleven pairs of handlers deadlock with two, two
more need a third handler between them, and one, `transfer` with `writeOff`, needs two
more: three sessions do not show it, it was met while looking for a proof and TLC
confirms it with four (findings, 1). Opposite orders need two keys of one table, hence
two members. *Collateral:* the loan of two units can be carried by deposits alone, by
guarantees alone or by one of each, so every capacity and eligibility check is
met at, above and below its limit; a substitution needs two guarantee rows and a
second guarantor; every race is between two transactions. *Servicing:* two repayments
give a partial one and a final one, or an adjusted one among others; two installments
give one in arrears beside one not due, both in arrears, and neither; a quarter rounds a
basis of one away and one of two up, so both an empty and a real accrual occur. One
runner that can be overtaken already brings every stale scan against a fresh one
(`RunArrears`). *Dividends:* with batches of one, two members make two batches of either
pass, between which everything else may happen; a second declaration needs the first
voided; the totals (1 and 2 % of 100, interest of 50) tell a drift from none.
*Books:* each kind of posting disturbs the same sums; two postings bring any one before
and after any other, beside a transfer and an exit in every state. *Interest:* three
quarters are one finished, one blocked and one current; the second account is opened late.
*Snapshots:* four months let a loan of two installments be paid on time, late, or
undone again before the month is shot. *Staff:* two administrators and a third user are the least
that two sessions can empty. *Sessions:* three generations are a parent, its child and a
rotation of the child. *MemberSessions*: one e-mail is what passes from one member to the
other, with a code for each; two requests meet on a code, on a token and on a family. *Register*, *Branches*, *Recovery*: two of everything that can race.

Deadlock checking is off where the bounds let the system stop (all requests
answered, all ids used); that the locks of the handlers never stop everything is
`NoDeadlock`. It is on for `LockOrderForeignKey`.

Fairness is assumed in two places. `Outbox` assumes weak fairness of a
worker's claim, call and recordings and of time reaching `next_attempt_at`:
`run_worker` is an endless loop that polls at a fixed interval and finishes each
batch, and clocks advance. `Workers` assumes weak fairness of an export worker's
loop, the same shape (`infrastructure/export_worker.py`). Neither assumes that a call
succeeds, that a domain change happens, or that a worker does not die; the number of
deaths is bounded, since a worker killed for ever at the same point settles nothing.
The arrears, interest and dividend runs are started by officers, so nothing obliges them to
finish and no liveness is claimed of them.

### Properties

* `ClaimsDisjoint`, `DeadOnlyWhenExhausted`, `EventuallySettled`, `PromiseKept` for the outbox;
* `AtMostOneEffect` (apart from changes whose client was told of a failure) and
  `ResponseOfSameRequest` (a stored response answers the request its row was claimed for, key
  and body) for idempotency;
* `ClosedMonthsFrozen`, `RefsDense`, `ReversedOnce`, `TrialBalanceExact`,
  `OpeningExactInOrder` for the ledger; `BooksAgree` (`SubledgerAgrees` and
  `BooksBalance`) and `SettledAsVoted` for the books;
* `NoDeadlock` and `NoneOpenAtSettlement` for the lock order;
* for collateral: `GuaranteesAreCovered` (live guarantees within deposits),
  `EndedDischargesAll` (no live guarantee behind a closed or recovered loan or a
  rejected application), `LoanGuaranteesConsented`, `ExitedIsClear`,
  `CollateralNeverShrinks` (while a loan is outstanding), `CoveredWhenDisbursed`
  (still covered at the commit);
* for servicing: `BooksReconcile` (balance and penalty are what the append-only rows
  say), `CashBacksSchedule` (the schedule shows no more than the cash that stands),
  `PrepaymentLeavesInterest`, `DischargedMeansSettled`, `ClaimIsWhatWasOwed` (at the
  moment a write-off is posted, not only when it was requested);
* `YearPaidOnce` and `DistributedReconciles` for dividends;
* for the jobs: `InterestOncePerQuarter`, `NoQuarterSkipped` (from the last quarter on that a run
  accrued which had found no accruals), `SnapshotsTellTheBooks`
  (a snapshot taken before any correction or write-off tells its month for ever), `DormancyFollowsLedger`,
  `ArtifactIsSnapshot`, `EveryExportResolved`;
* for the desk: `AdminRemains`, `OneLineage`, `OneHolderPerSession`, `ClosedCaseIsFinal`, `EditsUndoNothing`,
  `BackfillLinksTheUnlinked`.

Each has a fault variant that breaks it: for example, without the version in the
release UPDATE a substitution that probed before the disbursement slips a new
guarantor behind a loan being closed (`EndedDischargesAll`), and if a change of role did
not lock the administrators, two of them could suspend each other (`AdminRemains`).

## Where code and documents disagree

1. **A disbursement does wait for the member row** (`LockOrderForeignKey`).
   `docs/diagrams/lock-order.md:379` says it never does; the INSERT INTO loans locks
   the member `FOR KEY SHARE` while the deposit row is held, and a deposit holds the
   member `FOR UPDATE` and waits for that row. The same foreign keys make the other
   pairs of `Crossing` possible: eleven with two sessions, `transfer` with `repay` and with
   `interest` through a third call, `transfer` with `writeOff` through two more. The last, with
   members 1 and 2: a transfer holds member 1 and waits for member 2; an adjustment
   holds member 2 and waits for her loan; a write-off holds that loan and waits for the
   prefix `WO-`; another write-off holds the prefix and waits for member 1.
   The server aborts one of the transactions, so the effect is a failed request.
2. **Interest is collected twice** (`ServicingInterest`). With two installments in
   arrears the allocation takes all due interest first, but the schedule is filled
   installment by installment. A payment of exactly the interest due covers the first
   installment whole, so `_interest_due` still reports the second one's interest and
   the next payment pays it again. `application/loans.py:254-259` says that the paid
   amounts mirror the order of allocation; that holds within one installment only.
   The settlement quote, the exit and the next allocation all use that figure.
3. **A deposit under the dormancy scan is overlooked** (`DormancyRace`). The scan finds
   inactive members on its statement's snapshot, and the row lock re-judges only member
   rows that changed; a deposit of an active member changes none.
   `application/dormancy.py:25` says such a member is skipped or reactivated.
4. **A quarter may be left unfinished for good** (`InterestOrder`). While no accrual is
   committed a run takes the most recent completed quarter
   (`application/deposit_interest.py:160-170`). One that began before the end of a quarter is on
   the quarter before; another begins after it, finds nothing committed yet and takes the later
   quarter. If the first then dies half way, or skips rows the other holds, every later run goes
   on from the later quarter, although lines 119-122 promise "strict order". From then on the order
   is kept: `NoQuarterSkipped` is about the quarters since.
5. **A late writer can store into another request's claim** (`IdempotencyEpoch`).
   `_store` and `_release` (`api/idempotency.py:304`) match the hash and an empty response, not the
   epoch. A request that outlives its retention window finds a retry of itself that has taken
   the key over, with the same hash and nothing stored, and records its own response there;
   lines 33-35 and 301-303 say it writes nothing. The retry gets an answer to the very same request
   (`ResponseOfSameRequest`), but a late `_release` gives up the retry's claim, and a third
   request may then run the handler again: `AtMostOneEffect` excepts that case.

More was met while modelling; no run is spent on it.

* *Outbox*: the claim leases a batch for 300 s once and works through it
  sequentially (`outbox_worker.py:113`), so after an overrun two dispatchers hold one
  notice, against `docs/diagrams/sequence-outbox-dispatch.md:53`. Hence the assumption of
  `ClaimsDisjoint`; the other properties do without it.
* *Periods*: months closed out of order make the stored member balance of a later month
  stale (`accounting_periods.py:155`, `period_rollups.py:256`); `OpeningExactInOrder`
  says when it is exact.
* *Servicing*: the drift checks of an adjustment and of a write-off compare balance and penalty
  (and status). A repayment that is all interest, or one that an adjustment has taken
  back since, changes neither and is not noticed, although the comments
  (`corrections.py:988-991`, `1840-1843`) say any drift is. What is posted is still what
  is owed (`BooksReconcile`, `ClaimIsWhatWasOwed`). A closed loan is reopened by the
  adjustment of any of its repayments, not only of the one that closed it
  (`domain/lending.py:142-144`); if that repayment was all interest, the loan becomes
  active with nothing owed. The replay places a later repayment's principal cash on an
  earlier installment's interest, so interest given back need not become due again.
* *Dividends*: a declaration may pay out more than was approved: a run that is still
  paying when another stores "distributed" goes on with entitlements of its own clock
  (`dividends.py:1496`, `:1507`), while `dividends.py:14` says that the sums reconcile. The
  exact equality fails with two runs and late constants (ShareDays <<100, 0>>,
  DepositDays <<0, 20>>), so `DistributedReconciles` says "at least", and that nothing
  is granted that is neither posted nor owed. Interest of the last quarter posted between the declaration and its
  distribution, and payouts of the distribution itself, change entitlements; the first
  is refused by `Compare`, the second can leave a resumed run unable to reconcile, and it
  stays pending. A last month closed before the distribution blocks it.
* *Snapshots*: a loan written off or a receipt reversed after a month's end but before its
  close is missing or misstated in that month's snapshot (`portfolio_reconstruction.py:26-43`);
  and a snapshot stored by the backfill before such an event makes the close of its month
  refuse for good. `SnapshotsTellTheBooks` therefore speaks of `pristine` snapshots.
* *Interest*: accounts of exited members are still credited
  (`application/ledger.py:641`, `domain/ledger.py:528`).
* *Exports*: an error that is not a domain error is raised again at every cycle;
  `EveryExportResolved` assumes that such errors pass.
* *Sessions*: a logout that overlaps a rotation does not revoke the token the rotation
  issues; only revocations under the user's lock are final (`ended`).
* *MemberSessions*: no row is shared by the requests of one member, so the same holds there
  for every revocation: a spent token ends the tokens its UPDATE's snapshot holds, and a
  rotation of the family's newest token under way at that moment still issues the next one,
  although `application/member_auth.py:299` says the whole family dies. A link
  that is revoked ends no token either; the look-up of the next request does.
  `OneHolderPerSession` claims neither.
* *Branches*: a batch whose branch is renamed between the refused insert and the lookup
  of its id aborts the run (`FillFails`).
* *Register*: an edit whose caller guesses a version above the one it was shown would
  write older values back; the model's callers use versions they were served.

## Proofs

Checked by `tlapm` (SMT, Zenon, LS4), for every value of the constants under the
one assumption each module names (`...Assumption`): types and ranges of the constants,
that a sentinel such as `None` is not an id, that the rates of interest are above zero,
and that the sets that are added up or exhausted (guarantees, declarations, members of
`Books`) are finite. One result needs a hypothesis more, stated in it: `NeverDeadlocked`
(`Crossing \subseteq Apart`). Each inductive invariant was an
INVARIANT of a TLC run before it was proved, on the instance of its component's run
(`LockInv` with the script looked up instead of quantified).

**Outbox** (`JobsProofs`). `IndInv` = `TypeOK` and: an open row has counted
no more failures than happened and is below `MAX_ATTEMPTS`, a claim's count is a
past value of that counter, and an unrecorded failed call is already in
`failures`. The strengthening is needed because `RecordFailure` writes the count
of the claim, not of the row: `DeadOnlyWhenExhausted` follows only if a claim can
never have read more than happened. `ClaimsAreDisjoint` has an invariant of its own,
`ClaimInv`: while no lease has run out under a live worker, a row that is due is in no
live worker's batch, so a claim takes only rows nobody holds. `PromiseRefined` maps every step to a step of
`NotificationPromise` or a stutter.

**Idempotency** (`DeskProofs`). `IdempotencyInv` = `TypeOK`, `ResponseOfSameRequest`,
`ReplayIsSameRequest` and: an active request that has not outlived its window owns the live row
of its key, unless a stale release of the same request may have deleted it (`ActiveOwns`); an
effect not reported as failed keeps its key claimed in its own name until the window ends or
such a release deletes the claim (`EffectsGuarded`); a row is for what its claimant asked
(`RowOfClaimant`); and what is stored was answered to a request that asked the same
(`StoredIsAnswered`). That a stale release has happened stays true (`StaleReleaseStays`), so the
exception is final and the argument needs no assumption on which claims outlive their window.
Theorems: `OneEffect`, `SameRequestStored`, `SameRequestReplayed`.

**Collateral** (`CollateralProofs`). Seven theorems from one invariant. What a transaction has
checked stays true until it commits, because every commit that could disturb it needs a
lock that conflicts with one it holds; `Effects` says which, table by table. So `Sound` says of
each transaction in progress that its writes would be right if it committed now
(`MemberSound`, `StageSound`, `LoanSound`, `FallSound`, `LinkSound`, `RowsSound`), and `LocksExclude` that no two
hold conflicting locks. The proof of a commit is then two questions: are the tables right
after it (its own writes were), and is every other transaction still sound (`Undisturbed`).
`RowsSound` carries the UPDATE that waits for rows while others are inserted: what it
has not found is locked out by the application or loan row. `NeverShrinks` and
`CoveredDisbursement` are action properties of the same invariant.

**Periods** (`LedgerProofs`). `IndInv` contains: rows are filled before they
are used; a closing month excludes every posting past its closed check; a posting
past that check is in an open month; a rolled month's total is exactly its
postings; a prefix's references are those drawn; the locks on reversed originals;
and, while closes are in order, each stored balance is the set of the member's
postings up to its month. `BalanceBeforeExact` shows the anchored read exact from
the last part. `ClosedMonthsStayFrozen` follows because the only step that adds to
a month's postings is a `Commit`, whose month is open by the invariant.

**Lock order** (`LedgerProofs`), for any number of sessions and members. `LockInv`: every
session is idle, or at some point of its handler's script with exactly the locks that takes,
or in a batch, with some of the rows its scan got (`Prepared`); no two hold conflicting
locks; the pairs in `Apart` do not overlap; past its check a settlement's member has no
application open, and a release's has one. The last two follow from the member lock and the
application's row, which every commit that could change them has (`CommitterHolds`), and the
settlement's gives `NoneOpenWhenSettled`. `NeverDeadlocked` asks that the pairs of
`Crossing` be in `Apart`; without that it is false (findings, 1), and no other pair need be.
Its argument: the invariant leaves few places where a call can wait, and what it holds there
(`DepositPostures` and its fellows). Each has a level, a number (`DepositWaits` and its
fellows, `Level`); a transfer's falls with the member it waits for, because it locks in the
order of ids. Whoever a call waits for waits, if at all, at a lower level (`EdgeFalls`), so
of the calls of a circle the lowest would wait for a lower one still
(`LevelsPreventDeadlock`). One edge needs more than levels: a settlement about to release
guarantees and a release about to lock the account would wait for each other, and their
checks contradict (`ReleaseGuards`). What a batch asks for is a recursive function over the
members; the proof shows that it exists (`BatchDefined`), and bounds what is in it.

**Servicing** (`ServicingProofs`). `WrittenOffStaysFinal` goes through the handlers: each
either tests the status after its lock or touches none of the rows concerned; the
runner of the arrears job is the case that matters, since its scan may be older.
`DischargedNeverOwed` proves `EndInv`: a discharged guarantor never stands behind an active
loan, and a closed loan owes nothing. It needs the three parts together: approval of an
adjustment reopens a closed loan, and only the check for released guarantees keeps
the first part.
The money has two lemmas. A payment raises the paid amounts by no more than its cash
(`PayTotal`), hence so does the replay of any set of repayments (`ReplayBacked`): the replay is
a recursive function over the repayments, shown to exist (`IteratesExist` of `SetLemmas`) and followed
by the smallest counterexample. And each handler moves the loan row by exactly
what it adds to the history (`StandingGrows`, `StandingShrinks`, `AccrualAdds`). `BooksInv` adds to `BooksReconcile`
that a left loan is not active and that the claim of a posted write-off is fixed; from
it follow `LoanReconciles`, `ClaimStaysOwed` and `DischargeSettles`. `ScheduleInv` gives `ScheduleIsBacked` and
`InterestIsCollected`.

**Books** (`BooksProofs`). Every posting is a sum of single legs: a leg's total is its amount
(`LegTotal`), totals add (`PlusTotal`), and `Moves` says what a posting does to the accounts that
are mirrored elsewhere. A step keeps the books when it moves balances and loan by what
its legs move (`MoneyMoved`); the two sides of a share transfer clear only as a pair
(`SharesTransferred`). `TransferInv` and `ExitInv` carry what was requested to the step that applies
it: a pending transfer asks for no more than was there, the snapshot of an open exit
pays for itself, and the votes counted for it are of officers other than its requester
(`VoteStands`).

**Dividends** (`DividendsProofs`). `YearIsPaidOnce`. `IndInv`: a run works on a declaration
that has been through the vote; the one a batch holds is approved or distributed; what has
claims is approved or distributed; and at most one declaration is live. The scan's test of
the status and the void's wait for the FOR SHARE holders are both needed: without either
a batch could grant under a rejected declaration. `GrantsReconcile` (`PaidInv`): a batch grants to
members without a claim only, so the total granted under a declaration grows by what the batch
credits or owes (`Conserved`), and the total that the final check compared never falls again.

**The jobs** (`JobsProofs`). *Interest*, `CreditedOnce`: the claims of a batch are compared
with the accruals at the commit; what makes the argument inductive is that a claim always
leaves a row, hence the configured rates above zero in `InterestAssumption`. `QuartersInTurn` (`TurnInv`): a run that found accruals works
at a quarter whose predecessors, from `outset` on, are finished (`RunsInTurn`, `FinishedBefore`); a run
that found none moves `outset` to its own quarter when it commits, so that nothing before it is claimed;
and a commit that begins a quarter asks nothing new of the later ones. *Exports*: what a job has kept is an initial
segment of its snapshot (`Leads`, `RendersLead`), shorter than the cap while it reads on; the
one row more than it may keep tells the end of the report from the cap. *Dormancy*: what a scan
found was quiet when it read the ledger, and the rows a transaction holds stay as it saw
them because the job skips them. *Recovery*: the close pass judges a case again when it
locks the row, and no officer's action but the outcome note is open to a closed one.
*Branches*: whatever a run still has to link is in its batch with the text it scanned, or
lies behind a full batch, which sends the run on (`ToCome`, `InBatch`). *Snapshots*: every event is dated
in the current month and a snapshot speaks of an elapsed one, so the books of its month
no longer change (`ShotsElapsed`, `LoanInv`); before the first correction the date a loan was closed on says
from which month on the receipts cover it (`ClosedWhenPaid`).

**The desk** (`DeskProofs`). *Staff*: call a change live while its target's row is
the one its caller read and the target is an active administrator; only a live change can
remove one. Its target was an administrator when it began, so it is in the set the change
locks, and of two live changes the later locks the target of the earlier too
(`LiveTargetsLocked`). Locks exclude, so no two live changes are past their locks
together, and the second administrator that one of them counted is still there when it
writes (`AnotherLeft`). *Register*: a row's version only grows, so an
edit whose version is that of the row has read the row as it is (`EditReads`), and changes
exactly the fields it names. *Sessions*: what a request has read stands while it holds the user's row
(`RequestReads`, `UserRowExclusive`); a family begins with the code's first use and its usable token is the
last of it (`FamilyBegins`, `UsableIsLast`). *MemberSessions*: there is no such row, so the argument goes by the
code's and the token's own locks (`RowsExclusive`, `SessionOpens`, `LastIsUsable`).

## What is only model-checked, and what is not modelled

* Liveness (`EventuallySettled`, `EveryExportResolved`) rests on fairness and `ENABLED`,
  which the prover does not treat: TLC only.
* What a fault variant breaks is shown by TLC alone, as is everything about the
  instances' bounds.
* Wording, formatting, HTTP status codes, audit rows and authorisation lookups are
  abstracted everywhere, amounts everywhere but in `Servicing`, `Dividends`, `Books` and
  `Collateral`. Audit and outbox rows are written in the handler's transaction and decide
  nothing.
* The components without a module are listed in `PROJECT.json` with the reason: settings and products (one versioned row each), reports
  and other reads, the HTTP layer, sessions of the database, migrations, the web client.
* PostgreSQL is modelled by what the code relies on: row-lock conflicts, READ
  COMMITTED visibility, `SKIP LOCKED`, advisory locks. These definitions are marked
  external in "map".

## Plan

What would come next, most valuable first.

1. An abstract specification of the promise to a guarantor (a guarantee is released or
   replaced, never enlarged or revived), implemented by `Collateral`.
2. Compose `Dividends` and `InterestJob` with the closed months of `PeriodLedger` instead of a
   flag for the month they post into.
3. `Servicing`: classes of arrears other than non-performing, and the schedule's construction
   (`domain/lending.py` `build_schedule`) as a pure function against a reference.
