---------------------------- MODULE PeriodLedger ----------------------------
(***************************************************************************)
(* Postings against accounting periods                                     *)
(* (backend/src/genesis/application/ledger.py, accounting_periods.py and   *)
(* period_rollups.py; the closed-period trigger of migration 0012).        *)
(*                                                                         *)
(* A posting is one database transaction: it fixes its timestamp, takes    *)
(* the tenant's period barrier in shared mode, checks that its month is    *)
(* open, takes the advisory lock of its reference prefix, numbers and      *)
(* inserts itself, and holds both locks until it commits.  close_period    *)
(* takes the barrier exclusively and, in one transaction, marks the month  *)
(* closed and stores its rollup: per-account totals and, for every member  *)
(* active in the month, the balance at its end.  Reports then add stored   *)
(* rollups to a scan of what they do not cover.  Isolation is READ         *)
(* COMMITTED: a statement sees what was committed before it.               *)
(*                                                                         *)
(* Abstractions.  One tenant; time in months.  A sum over ledger lines is  *)
(* the set of transactions it adds up: two sums agree in every case only   *)
(* if the sets are equal.                                                  *)
(***************************************************************************)
EXTENDS Integers, FiniteSets

CONSTANTS
  Txn,            \* posting transactions
  Holder,         \* members with a ledger history
  Prefix,         \* reference prefixes, one sequence each
  LastMonth,      \* bound of the model: the last month of the clock
  LegacyClosed    \* months closed by the release before migration 0028, unrolled

Month == 1 .. LastMonth
None == "none"

ASSUME PeriodAssumption ==
  /\ LastMonth \in Nat \ {0}
  /\ LegacyClosed \subseteq Month
  /\ None \notin Txn

VARIABLES
  now,       \* the current month
  pc,        \* pc[t]: how far posting t has come
  txn,       \* txn[t]: its row in transactions
  lastVal,   \* lastVal[x]: txn_ref_sequences.last_val of prefix x
  closing,   \* the month whose close holds the barrier exclusively, or 0
  closed,    \* months with a closed row in accounting_periods
  rolled,    \* closed months whose rollup_at is set
  total,     \* total[m]: the transactions account_period_balances of m adds up
  balance,   \* balance[m][a]: those a's member_period_balances row of m adds up
  inOrder    \* so far no month was closed while an earlier one was open

periodVars == <<now, pc, txn, lastVal, closing, closed, rolled, total, balance, inOrder>>

NoTxn == [month |-> 0, member |-> None, prefix |-> None, reverses |-> None, ref |-> 0]

\* begun: timestamp fixed (and the original of a reversal locked).
\* open: barrier held in shared mode, month found open.
\* numbered: prefix lock held, reference drawn, rows inserted.
InFlight == {"begun", "open", "numbered"}
PC == {"idle", "committed", "aborted"} \cup InFlight

TypeOK ==
  /\ now \in Month
  /\ pc \in [Txn -> PC]
  /\ txn \in [Txn -> [month : 0 .. LastMonth, member : Holder \cup {None},
                      prefix : Prefix \cup {None}, reverses : Txn \cup {None}, ref : Nat]]
  /\ lastVal \in [Prefix -> Nat]
  /\ closing \in 0 .. LastMonth
  /\ closed \subseteq Month
  /\ rolled \subseteq closed
  /\ total \in [Month -> SUBSET Txn]
  /\ balance \in [Month -> [Holder -> SUBSET Txn]]
  /\ inOrder \in BOOLEAN

PeriodInit ==
  /\ now = 1
  /\ pc = [t \in Txn |-> "idle"]
  /\ txn = [t \in Txn |-> NoTxn]
  /\ lastVal = [x \in Prefix |-> 0]
  /\ closing = 0
  /\ closed = {}
  /\ rolled = {}
  /\ total = [m \in Month |-> {}]
  /\ balance = [m \in Month |-> [a \in Holder |-> {}]]
  /\ inOrder = TRUE

\* What a statement reads of the ledger.
Committed == {t \in Txn : pc[t] = "committed"}
PostedIn(m) == {t \in Committed : txn[t].month = m}

-----------------------------------------------------------------------------
(* ledger._post and its callers.                                           *)

\* ts = occurred_at or now().  Quarterly interest and dividends are dated on
\* the last day of the period they belong to, any number of months back.
\* Nothing is locked yet.
Begin(t, a, x, m) ==
  /\ pc[t] = "idle"
  /\ m <= now
  /\ txn' = [txn EXCEPT ![t] = [month |-> m, member |-> a, prefix |-> x,
                                reverses |-> None, ref |-> 0]]
  /\ pc' = [pc EXCEPT ![t] = "begun"]
  /\ UNCHANGED <<now, lastVal, closing, closed, rolled, total, balance, inOrder>>

\* Fault variant: the original is read without FOR UPDATE.
ReversibleUnlocked(o) ==
  /\ pc[o] = "committed"
  /\ txn[o].reverses = None
  /\ \A t \in Committed : txn[t].reverses # o

\* post_reversal locks the original, then refuses a reversal of a reversal
\* and a second reversal.  The row lock is held to the end of the transaction.
Reversible(o) ==
  /\ pc[o] = "committed"
  /\ txn[o].reverses = None
  /\ \A t \in Txn : txn[t].reverses = o => pc[t] = "aborted"

BeginReversal(t, o) ==
  /\ pc[t] = "idle"
  /\ Reversible(o)
  /\ txn' = [txn EXCEPT ![t] = [month |-> now, member |-> txn[o].member,
                                prefix |-> txn[o].prefix, reverses |-> o, ref |-> 0]]
  /\ pc' = [pc EXCEPT ![t] = "begun"]
  /\ UNCHANGED <<now, lastVal, closing, closed, rolled, total, balance, inOrder>>

\* pg_advisory_xact_lock_shared waits for an exclusive holder.
BarrierOpenToShared == closing = 0

\* assert_open_period: shared barrier, then the closed-row SELECT.
EnterPeriod(t) ==
  /\ pc[t] = "begun"
  /\ BarrierOpenToShared
  /\ pc' = [pc EXCEPT ![t] = IF txn[t].month \in closed THEN "aborted" ELSE "open"]
  /\ UNCHANGED <<now, txn, lastVal, closing, closed, rolled, total, balance, inOrder>>

\* Fault variant: the prefix lock is not held to the end of the transaction.
PrefixFreeAlways(x) == TRUE

PrefixFree(x) == \A u \in Txn : pc[u] = "numbered" => txn[u].prefix # x

\* _next_ref under the prefix's exclusive advisory lock, then the INSERTs;
\* the 0012 trigger refuses a row dated inside a closed month.
Number(t) ==
  /\ pc[t] = "open"
  /\ PrefixFree(txn[t].prefix)
  /\ txn[t].month \notin closed
  /\ txn' = [txn EXCEPT ![t].ref = lastVal[txn[t].prefix] + 1]
  /\ pc' = [pc EXCEPT ![t] = "numbered"]
  /\ UNCHANGED <<now, lastVal, closing, closed, rolled, total, balance, inOrder>>

\* The caller's transaction commits: rows and sequence value become visible.
Commit(t) ==
  /\ pc[t] = "numbered"
  /\ pc' = [pc EXCEPT ![t] = "committed"]
  /\ lastVal' = [lastVal EXCEPT ![txn[t].prefix] = txn[t].ref]
  /\ UNCHANGED <<now, txn, closing, closed, rolled, total, balance, inOrder>>

\* An error or a lost connection at any point rolls everything back.
Abort(t) ==
  /\ pc[t] \in InFlight
  /\ pc' = [pc EXCEPT ![t] = "aborted"]
  /\ UNCHANGED <<now, txn, lastVal, closing, closed, rolled, total, balance, inOrder>>

-----------------------------------------------------------------------------
(* Reads of the ledger through stored rollups.                             *)

\* member_period_balances holds a row for each member active in the month.
HasAnchor(m, a) == m \in rolled /\ \E t \in total[m] : txn[t].member = a

\* Rolled months before b that can anchor a's balance, and the latest one.
Anchors(a, b) == {m \in Month : m < b /\ HasAnchor(m, a)}
IsAnchor(m, a, b) == m \in Anchors(a, b) /\ \A n \in Anchors(a, b) : n <= m

\* Fault variant: the delta scan starts in the anchor's own month.
DeltaInclusive(a, from, b) ==
  {t \in Committed : txn[t].member = a /\ txn[t].month >= from /\ txn[t].month < b}

\* The delta scan from the day after the anchor's period end.
Delta(a, from, b) ==
  {t \in Committed : txn[t].member = a /\ txn[t].month > from /\ txn[t].month < b}

\* member_balance_before: the anchor's stored balance and the delta scan, or
\* the full scan where no anchor exists.  The pair shows double counting.
MemberBalanceBefore(a, b) ==
  IF Anchors(a, b) = {}
  THEN <<{}, Delta(a, 0, b)>>
  ELSE LET m == CHOOSE n \in Month : IsAnchor(n, a, b)
       IN  <<balance[m][a], Delta(a, m, b)>>

\* TRIAL_BALANCE_ROLLUP_SQL at a date in month asOf: rolled months that end
\* before it, and a live scan of every other posting up to it.
Qualified(asOf) == {m \in rolled : m < asOf}

\* Fault variant: the rolled part is not restricted to the date asked for.
RolledPartUnqualified(asOf) == UNION {total[m] : m \in rolled}

RolledPart(asOf) == UNION {total[m] : m \in Qualified(asOf)}
LivePart(asOf) ==
  {t \in Committed : txn[t].month <= asOf /\ txn[t].month \notin Qualified(asOf)}

\* write_period_rollups for m: the month's postings and, for its active
\* members, the balance at its end.
StoreRollup(m) ==
  /\ rolled' = rolled \cup {m}
  /\ total' = [total EXCEPT ![m] = PostedIn(m)]
  /\ balance' = [balance EXCEPT ![m] = [a \in Holder |->
                   LET b == MemberBalanceBefore(a, m + 1)
                   IN  IF \E t \in PostedIn(m) : txn[t].member = a
                       THEN b[1] \cup b[2] ELSE {}]]

-----------------------------------------------------------------------------
(* close_period and the rollup backfill.                                   *)

\* Fault variant: the close does not wait for the shared holders.
BarrierOpenToExclusiveAlways == closing = 0

\* pg_advisory_xact_lock waits for every shared holder to commit.
BarrierOpenToExclusive ==
  closing = 0 /\ \A t \in Txn : pc[t] \notin {"open", "numbered"}

\* Only a fully elapsed month; then the exclusive barrier.
CloseBegin(m) ==
  /\ m < now
  /\ BarrierOpenToExclusive
  /\ closing' = m
  /\ UNCHANGED <<now, pc, txn, lastVal, closed, rolled, total, balance, inOrder>>

\* The ON CONFLICT claim of the period row, the rollup, commit.  A month
\* closed by the earlier release gets no rollup.
CloseCommit ==
  /\ closing # 0
  /\ closing \notin closed
  /\ closed' = closed \cup {closing}
  /\ inOrder' = (inOrder /\ \A m \in 1 .. closing - 1 : m \in closed)
  /\ IF closing \in LegacyClosed THEN UNCHANGED <<rolled, total, balance>>
                                 ELSE StoreRollup(closing)
  /\ closing' = 0
  /\ UNCHANGED <<now, pc, txn, lastVal>>

\* The month was closed already (409), or the close's transaction is lost.
CloseAbort ==
  /\ closing # 0
  /\ closing' = 0
  /\ UNCHANGED <<now, pc, txn, lastVal, closed, rolled, total, balance, inOrder>>

\* ROLLUP_BACKFILL_SCAN_SQL: closed months without a rollup.
Unrolled == closed \ rolled

\* run_rollup_backfill_for_tenant: the oldest such month that no other runner
\* holds (SKIP LOCKED), so any of them; the barrier is not taken.
RollupBackfill(m) ==
  /\ m \in Unrolled
  /\ StoreRollup(m)
  /\ UNCHANGED <<now, pc, txn, lastVal, closing, closed, inOrder>>

\* The clock.
NextMonth ==
  /\ now < LastMonth
  /\ now' = now + 1
  /\ UNCHANGED <<pc, txn, lastVal, closing, closed, rolled, total, balance, inOrder>>

-----------------------------------------------------------------------------
PeriodNext ==
  \/ \E t \in Txn : \/ \E a \in Holder, x \in Prefix, m \in Month : Begin(t, a, x, m)
                    \/ \E o \in Txn : BeginReversal(t, o)
                    \/ EnterPeriod(t)
                    \/ Number(t)
                    \/ Commit(t)
                    \/ Abort(t)
  \/ \E m \in Month : CloseBegin(m) \/ RollupBackfill(m)
  \/ CloseCommit
  \/ CloseAbort
  \/ NextMonth

PeriodSpec == PeriodInit /\ [][PeriodNext]_periodVars

-----------------------------------------------------------------------------
(* Properties.                                                             *)

\* A closed month is final: no posting becomes visible in it any more, however
\* its transaction was interleaved with the close.
ClosedMonthsFrozen ==
  [][\A m \in closed : PostedIn(m)' = PostedIn(m)]_periodVars

\* References of a prefix are dense and unique: 1 .. last_val, one posting
\* each, whatever was rolled back in between.
RefsDense ==
  \A x \in Prefix :
    LET drawn == {t \in Committed : txn[t].prefix = x} IN
    /\ {txn[t].ref : t \in drawn} = 1 .. lastVal[x]
    /\ \A t, u \in drawn : txn[t].ref = txn[u].ref => t = u

\* A posting is reversed at most once, and a reversal never.
ReversedOnce ==
  \A t, u \in Committed :
    /\ txn[t].reverses # None => txn[txn[t].reverses].reverses = None
    /\ txn[t].reverses # None /\ txn[t].reverses = txn[u].reverses => t = u

\* The trial balance from rollups counts every posting up to its date exactly
\* once, for current and historical dates, whichever months are rolled.
TrialBalanceExact ==
  \A asOf \in Month :
    /\ RolledPart(asOf) \cup LivePart(asOf) = {t \in Committed : txn[t].month <= asOf}
    /\ RolledPart(asOf) \cap LivePart(asOf) = {}

\* A member's opening balance equals the full-history scan, for every anchor:
\* the delta misses nothing and counts nothing twice.
OpeningBalanceExact ==
  \A a \in Holder : \A b \in 1 .. LastMonth + 1 :
    LET r == MemberBalanceBefore(a, b) IN
    /\ r[1] \cup r[2] = {t \in Committed : txn[t].member = a /\ txn[t].month < b}
    /\ r[1] \cap r[2] = {}

\* The same while months are closed in calendar order, which no code enforces:
\* then nothing can be dated behind an anchor any more.
OpeningExactInOrder == inOrder => OpeningBalanceExact
=============================================================================
