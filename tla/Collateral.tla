----------------------------- MODULE Collateral -----------------------------
(***************************************************************************)
(* Deposits as collateral: pledges, consent, release and substitution of   *)
(* guarantees against withdrawals, disbursement, loan closure, write-off   *)
(* and member exit (backend/src/genesis/application/guarantees.py,         *)
(* loan_applications.py, transactions.py, ledger.py, loans.py,             *)
(* corrections.py and member_exits.py).                                    *)
(*                                                                         *)
(* Every handler is one transaction.  It takes its row locks, reads under  *)
(* them, and its writes become visible at its commit; a release and a      *)
(* substitution first read the guarantee without a lock to learn which     *)
(* rows anchor it.  Isolation is READ COMMITTED: a statement reads what is *)
(* committed when it starts.  An UPDATE over many guarantees therefore     *)
(* chooses its rows first, waits for them, and tests each again: a row     *)
(* that changed meanwhile may drop out, and none inserted meanwhile is     *)
(* found.                                                                  *)
(*                                                                         *)
(* Abstractions.  A handler takes its locks in one step once all of them   *)
(* are free (their order is LockOrder's subject).  Deposits and guarantees *)
(* are counted in units, every guarantee is one unit, and the product      *)
(* multiplier is one.  Stages before the committee's decision are one.  A  *)
(* repayment is the one that pays the loan off, a recovery receipt the one *)
(* that recovers the whole claim.                                          *)
(***************************************************************************)
EXTENDS Integers, FiniteSets

CONSTANTS
  Member,       \* members with a deposit account
  Application,  \* loan applications; a loan has the id of its application
  Borrower,     \* Borrower[a]: the member who applies
  Requested,    \* Requested[a]: units applied for
  Guarantee,    \* ids of guarantee rows
  Session,      \* concurrent database sessions
  MaxBalance    \* bound of the model: units on one deposit account

None == "none"

ASSUME CollateralAssumption ==
  /\ Borrower \in [Application -> Member]
  /\ Requested \in [Application -> Nat \ {0}]
  /\ MaxBalance \in Nat
  /\ IsFiniteSet(Guarantee)
  /\ None \notin Member \cup Application

VARIABLES
  balance,   \* balance[m]: units on m's deposit account
  member,    \* member[m]: "active" or "exited"
  stage,     \* stage[a]: "none", "open", "approved", "rejected" or "disbursed"
  debt,      \* debt[a]: the loan of a: "none", "active", "closed", "written_off"
             \* or "recovered"
  guar,      \* guar[g]: the guarantee row g, "pledged", "active" or "released"
  txn        \* txn[s]: the transaction of session s

tables == <<balance, member, stage, debt, guar>>
collateralVars == <<balance, member, stage, debt, guar, txn>>

NoRow == [status |-> "none", app |-> None, by |-> None, linked |-> FALSE, version |-> 0]

Live(g) == guar[g].status \in {"pledged", "active"}
LiveFor(a) == {g \in Guarantee : Live(g) /\ guar[g].app = a}
LinkedTo(a) == {g \in LiveFor(a) : guar[g].linked}
GivenBy(m) == {g \in Guarantee : Live(g) /\ guar[g].by = m}
Of(m) == {a \in Application : Borrower[a] = m}

-----------------------------------------------------------------------------
(* Transactions and their locks.                                           *)

Lock(table, key, mode) == [table |-> table, key |-> key, mode |-> mode]

ConflictsWith(mode) ==
  CASE mode = "key_share" -> {"update"}
    [] mode = "share"     -> {"write", "update"}
    [] mode = "write"     -> {"share", "write", "update"}
    [] mode = "update"    -> {"key_share", "share", "write", "update"}

Free(s, locks) ==
  \A r \in Session \ {s} : txn[r].state \in {"updating", "pending"} =>
    \A k \in txn[r].locks, l \in locks :
      k.table = l.table /\ k.key = l.key => k.mode \notin ConflictsWith(l.mode)

Resting == [state |-> "idle"]

\* New values by table; a key outside a table's domain is not written.
Nothing == [x \in {} |-> None]
NoWrites == [balance |-> Nothing, member |-> Nothing, stage |-> Nothing,
             loan |-> Nothing, guar |-> Nothing]
Written(table, new) == [x \in DOMAIN table |-> IF x \in DOMAIN new THEN new[x] ELSE table[x]]
Set(x, value) == [y \in {x} |-> value]
SetAll(S, value) == [y \in S |-> value]

\* The handler has its locks, has read, and has written: it may now commit.
Run(s, locks, writes) ==
  /\ Free(s, locks)
  /\ txn' = [txn EXCEPT ![s] = [state |-> "pending", locks |-> locks, writes |-> writes]]
  /\ UNCHANGED tables

RunIdle(s, locks, writes) == txn[s] = Resting /\ Run(s, locks, writes)

\* The handler has its locks and now updates the guarantees of rows, those
\* its UPDATE finds: it has yet to wait for them.
RunUpdate(s, locks, writes, rows, change) ==
  /\ txn[s] = Resting
  /\ Free(s, locks)
  /\ txn' = [txn EXCEPT ![s] = [state |-> "updating", locks |-> locks, writes |-> writes,
                                rows |-> rows, change |-> change]]
  /\ UNCHANGED tables

Commit(s) ==
  /\ txn[s].state = "pending"
  /\ LET w == txn[s].writes IN
     /\ balance' = Written(balance, w.balance)
     /\ member' = Written(member, w.member)
     /\ stage' = Written(stage, w.stage)
     /\ debt' = Written(debt, w.loan)
     /\ guar' = Written(guar, w.guar)
  /\ txn' = [txn EXCEPT ![s] = Resting]

\* An error, or the connection is lost.
Abort(s) ==
  /\ txn[s] # Resting
  /\ txn' = [txn EXCEPT ![s] = Resting]
  /\ UNCHANGED tables

-----------------------------------------------------------------------------
(* Guarantee rows.                                                         *)

Bumped(g) == [guar[g] EXCEPT !.version = @ + 1]
Released(g) == [Bumped(g) EXCEPT !.status = "released"]

\* UPDATE guarantees SET status = 'released', or SET loan_id: the rows that
\* were found and, once locked, are still live.
RowLocks(S) == {Lock("guarantees", g, "write") : g \in S}
Linked(g) == [Bumped(g) EXCEPT !.linked = TRUE]

UpdateRows(s) ==
  /\ txn[s].state = "updating"
  /\ LET t == txn[s] IN
     /\ Free(s, RowLocks(t.rows))
     /\ txn' = [txn EXCEPT ![s] =
          [state |-> "pending", locks |-> t.locks \cup RowLocks(t.rows),
           writes |-> [t.writes EXCEPT !.guar =
             [g \in {h \in t.rows : Live(h)} |->
               IF t.change = "link" THEN Linked(g) ELSE Released(g)]]]]
  /\ UNCHANGED tables

\* Fault variant: the account is not locked.
CapacityLocksNoAccount(n) == {Lock("members", n, "share")}

\* _guarantor_available_capacity
CapacityLocks(n) == {Lock("members", n, "share"), Lock("deposit", n, "update")}
Capacity(n, without) == balance[n] - Cardinality(GivenBy(n) \ without)
CanGuarantee(n, without) == member[n] = "active" /\ Capacity(n, without) >= 1

\* INSERT INTO guarantees: a fresh id, and the foreign key to the borrower.
InsertLocks(g, a) == {Lock("guarantees", g, "update"), Lock("members", Borrower[a], "key_share")}
FreshRow(g) == guar[g].status = "none"

\* Fault variant: the application is read without FOR UPDATE.
PledgeLocksUnanchored(a, g, n) == CapacityLocks(n) \cup InsertLocks(g, a)

PledgeLocks(a, g, n) ==
  {Lock("applications", a, "update")} \cup CapacityLocks(n) \cup InsertLocks(g, a)

PledgeGuarantee(s, a, g, n) ==
  /\ FreshRow(g)
  /\ stage[a] = "open"
  /\ n # Borrower[a]
  /\ CanGuarantee(n, {})
  /\ RunIdle(s, PledgeLocks(a, g, n),
       [NoWrites EXCEPT !.guar = Set(g, [status |-> "pledged", app |-> a, by |-> n,
                                         linked |-> FALSE, version |-> 1])])

Consent(s, g) ==
  /\ guar[g].status = "pledged"
  /\ RunIdle(s, {Lock("guarantees", g, "update")},
       [NoWrites EXCEPT !.guar = Set(g, [Bumped(g) EXCEPT !.status = "active"])])

\* The unlocked read that finds the anchor; the caller's version is no newer.
Probe(s, g) ==
  /\ txn[s] = Resting
  /\ ~FreshRow(g)
  /\ txn' = [txn EXCEPT ![s] = [state |-> "probed", g |-> g, linked |-> guar[g].linked,
                                version |-> guar[g].version]]
  /\ UNCHANGED tables

\* _lock_release_anchor with what the probe saw, then the guarantee row.
AnchorLocks(p) ==
  LET a == guar[p.g].app IN
  {Lock("applications", a, "update"), Lock("guarantees", p.g, "update")}
  \cup (IF p.linked THEN {Lock("loans", a, "update")} ELSE {})

\* Fault variant: the UPDATE does not name the version.
CurrentUnchecked(p) == TRUE

\* The UPDATE names the version the caller saw.
Current(p) == guar[p.g].version = p.version

InFlight(a) == stage[a] \in {"open", "approved"}

\* Fault variant: the block on disbursed loans is missing.
DisbursedNever(g) == FALSE

Disbursed(g) == guar[g].linked \/ stage[guar[g].app] = "disbursed"

\* application_max_eligible once the guarantees of S are gone.
Eligible(a, S) == balance[Borrower[a]] + Cardinality(LiveFor(a) \ S)

\* release_guarantee: an active one behind an application in flight only if
\* the cover that remains still carries the amount.
Release(s) ==
  /\ txn[s].state = "probed"
  /\ LET p == txn[s]
         g == p.g
         a == guar[g].app
         guarded == guar[g].status = "active" /\ InFlight(a)
     IN  /\ Live(g)
         /\ guar[g].status = "active" => ~Disbursed(g)
         /\ Current(p)
         /\ guarded => Requested[a] <= Eligible(a, {g})
         /\ Run(s, AnchorLocks(p) \cup
                   (IF guarded THEN {Lock("deposit", Borrower[a], "update")} ELSE {}),
                [NoWrites EXCEPT !.guar = Set(g, Released(g))])

\* substitute_guarantee: h from n replaces the guarantee that was probed.
Substitute(s, h, n) ==
  /\ txn[s].state = "probed"
  /\ FreshRow(h)
  /\ LET p == txn[s]
         g == p.g
         a == guar[g].app
     IN  /\ guar[g].status = "active"
         /\ Disbursed(g)
         /\ Current(p)
         /\ n # Borrower[a]
         /\ CanGuarantee(n, {g})
         /\ Run(s, AnchorLocks(p) \cup CapacityLocks(n) \cup InsertLocks(h, a),
                [NoWrites EXCEPT !.guar =
                   [x \in {g, h} |-> IF x = g THEN Released(g)
                                     ELSE [guar[g] EXCEPT !.by = n, !.version = 1]]])

-----------------------------------------------------------------------------
(* Applications and loans.                                                 *)

CreateApplication(s, a) ==
  /\ stage[a] = "none"
  /\ member[Borrower[a]] = "active"
  /\ RunIdle(s, {Lock("members", Borrower[a], "share"), Lock("applications", a, "update")},
       [NoWrites EXCEPT !.stage = Set(a, "open")])

\* cast_vote with the quorum reached; transition_stage to rejected.
Approve(s, a) ==
  /\ stage[a] = "open"
  /\ RunIdle(s, {Lock("applications", a, "update")},
       [NoWrites EXCEPT !.stage = Set(a, "approved")])

Reject(s, a) ==
  /\ stage[a] = "open"
  /\ RunUpdate(s, {Lock("applications", a, "update")},
       [NoWrites EXCEPT !.stage = Set(a, "rejected")], LiveFor(a), "release")

\* Fault variant: the eligibility is read without the deposit lock.
DisburseLocksNoDeposit(a) ==
  {Lock("applications", a, "update"), Lock("members", Borrower[a], "key_share")}

DisburseLocks(a) == {Lock("deposit", Borrower[a], "update")} \cup DisburseLocksNoDeposit(a)

\* disburse_loan: approved, covered, nothing unconsented; every guarantee of
\* the application is linked to the loan.
Disburse(s, a) ==
  /\ stage[a] = "approved"
  /\ Requested[a] <= Eligible(a, {})
  /\ \A g \in LiveFor(a) : guar[g].status = "active"
  /\ RunUpdate(s, DisburseLocks(a),
       [NoWrites EXCEPT !.stage = Set(a, "disbursed"), !.loan = Set(a, "active")],
       LiveFor(a), "link")

\* The end of a loan: its status, and release_guarantees_for_loan.
LoanEnds(s, locks, a, status) ==
  RunUpdate(s, locks, [NoWrites EXCEPT !.loan = Set(a, status)], LinkedTo(a), "release")

\* record_repayment and _close_loan
Repay(s, a) ==
  /\ debt[a] = "active"
  /\ LoanEnds(s, {Lock("loans", a, "update"), Lock("members", Borrower[a], "key_share")},
              a, "closed")

\* post_write_off: the guarantees stay.
WriteOff(s, a) ==
  /\ debt[a] = "active"
  /\ RunIdle(s, {Lock("loans", a, "update"), Lock("members", Borrower[a], "key_share")},
       [NoWrites EXCEPT !.loan = Set(a, "written_off")])

\* record_recovery_receipt of the whole claim.
Recover(s, a) ==
  /\ debt[a] = "written_off"
  /\ member[Borrower[a]] # "exited"
  /\ LoanEnds(s, {Lock("members", Borrower[a], "share"), Lock("loans", a, "update")},
              a, "recovered")

\* _released_guarantees_exist
MayReopen(a) ==
  /\ debt[a] = "closed"
  /\ \A g \in Guarantee : ~(guar[g].app = a /\ guar[g].linked /\ guar[g].status = "released")

\* approve_repayment_adjustment of the repayment that closed the loan.
Reopen(s, a) ==
  /\ MayReopen(a)
  /\ member[Borrower[a]] # "exited"
  /\ RunIdle(s, {Lock("members", Borrower[a], "share"), Lock("loans", a, "update")},
       [NoWrites EXCEPT !.loan = Set(a, "active")])

-----------------------------------------------------------------------------
(* Deposits and exit.                                                      *)

Deposit(s, m) ==
  /\ member[m] = "active"
  /\ balance[m] < MaxBalance
  /\ RunIdle(s, {Lock("members", m, "update"), Lock("deposit", m, "update")},
       [NoWrites EXCEPT !.balance = Set(m, balance[m] + 1)])

Withdrawable(m) == Capacity(m, {})

\* record_withdrawal
Withdraw(s, m) ==
  /\ member[m] = "active"
  /\ Withdrawable(m) >= 1
  /\ RunIdle(s, CapacityLocks(m), [NoWrites EXCEPT !.balance = Set(m, balance[m] - 1)])

\* Fault variant: the member row is locked in shared mode only.
ExitLocksShared(m) == {Lock("members", m, "share"), Lock("deposit", m, "update")}

ExitLocks(m) == {Lock("members", m, "update"), Lock("deposit", m, "update")}

Owing(m) == {a \in Of(m) : debt[a] = "active"}
Received(m) == UNION {LiveFor(a) : a \in Of(m)}

\* post_settlement: nothing pledged, no application in flight, no claim; the
\* member's loans are closed out of the equity and its guarantees released.
SettleExit(s, m) ==
  /\ member[m] = "active"
  /\ GivenBy(m) = {}
  /\ \A a \in Of(m) : ~InFlight(a) /\ debt[a] # "written_off"
  /\ RunUpdate(s, ExitLocks(m) \cup {Lock("loans", a, "update") : a \in Owing(m)},
       [NoWrites EXCEPT !.member = Set(m, "exited"), !.balance = Set(m, 0),
                        !.loan = SetAll(Owing(m), "closed")],
       Received(m), "release")

-----------------------------------------------------------------------------
CollateralInit ==
  /\ balance = [m \in Member |-> MaxBalance]
  /\ member = [m \in Member |-> "active"]
  /\ stage = [a \in Application |-> "none"]
  /\ debt = [a \in Application |-> "none"]
  /\ guar = [g \in Guarantee |-> NoRow]
  /\ txn = [s \in Session |-> Resting]

CollateralNext ==
  \E s \in Session :
    \/ UpdateRows(s)
    \/ Commit(s)
    \/ Abort(s)
    \/ Release(s)
    \/ \E a \in Application :
         \/ CreateApplication(s, a)
         \/ Approve(s, a)
         \/ Reject(s, a)
         \/ Disburse(s, a)
         \/ Repay(s, a)
         \/ WriteOff(s, a)
         \/ Recover(s, a)
         \/ Reopen(s, a)
         \/ \E g \in Guarantee, n \in Member : PledgeGuarantee(s, a, g, n)
    \/ \E g \in Guarantee :
         \/ Consent(s, g)
         \/ Probe(s, g)
         \/ \E n \in Member : Substitute(s, g, n)
    \/ \E m \in Member : Deposit(s, m) \/ Withdraw(s, m) \/ SettleExit(s, m)

CollateralSpec == CollateralInit /\ [][CollateralNext]_collateralVars

-----------------------------------------------------------------------------
(* Properties.                                                             *)

\* A member's live guarantees never exceed its deposits, however pledges,
\* substitutions, withdrawals and releases interleave.
GuaranteesAreCovered ==
  \A m \in Member : Cardinality(GivenBy(m)) <= balance[m]

\* A loan that is closed or recovered, or an application that is rejected, has
\* discharged every guarantor: no substitution slips a new one in.
EndedDischargesAll ==
  \A a \in Application :
    stage[a] = "rejected" \/ debt[a] \in {"closed", "recovered"} => LiveFor(a) = {}

\* Behind a disbursed loan every live guarantee is consented and linked to it.
LoanGuaranteesConsented ==
  \A a \in Application : stage[a] = "disbursed" =>
    \A g \in LiveFor(a) : guar[g].status = "active" /\ guar[g].linked

\* An exited member has no money, no obligation and no obligation to it.
ExitedIsClear ==
  \A m \in Member : member[m] = "exited" =>
    /\ balance[m] = 0
    /\ GivenBy(m) = {}
    /\ \A a \in Of(m) : /\ ~InFlight(a)
                        /\ debt[a] \notin {"active", "written_off"}
                        /\ LiveFor(a) = {}

\* While a loan is outstanding its collateral never shrinks.
CollateralNeverShrinks ==
  [][\A a \in Application :
       debt[a] \in {"active", "written_off"} /\ debt'[a] \in {"active", "written_off"}
         => Cardinality(LiveFor(a)') >= Cardinality(LiveFor(a))]_collateralVars

\* At the commit of a disbursement the deposits and guarantees of that moment
\* carry the loan: no withdrawal or release has slipped in since the check.
CoveredWhenDisbursed ==
  [][\A a \in Application :
       stage[a] # "disbursed" /\ stage'[a] = "disbursed" =>
         Requested[a] <= Eligible(a, {})']_collateralVars
=============================================================================
