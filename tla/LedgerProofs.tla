---------------------------- MODULE LedgerProofs ----------------------------
(***************************************************************************)
(* Proofs about the accounting periods (PeriodLedger) and about the locks  *)
(* of the handlers that post to the ledger (LockOrder).                    *)
(*                                                                         *)
(* Periods, for any transactions, members, prefixes and months.  The heart *)
(* of the inductive invariant is the barrier: while the exclusive holder   *)
(* works no posting is between its closed-month check and its commit, so a *)
(* posting past the check has a month that stays open until it commits,    *)
(* and a stored rollup equals what the ledger holds.                       *)
(*                                                                         *)
(* Lock order, for any sessions, handlers and members, whose number may    *)
(* exceed what two sessions can show.  A call is somewhere in the script   *)
(* of its handler and holds exactly the locks before that point, so it     *)
(* can be read off where it may wait and what it has then.  Every such     *)
(* place gets a number, its level, so that whoever a waiting call waits    *)
(* for waits, if it does, at a lower one: the least level of a set of      *)
(* calls that wait only for each other would be undercut.  Such numbers do *)
(* not exist for all handlers, because some of them do deadlock; they do   *)
(* once the pairs of Crossing are kept apart, which the theorem asks for.  *)
(***************************************************************************)
EXTENDS PeriodLedger, LockOrder, SetLemmas, TLAPS, WellFoundedInduction, SequenceTheorems

-----------------------------------------------------------------------------
(* Periods.                                                                *)

\* What a posting under way or committed has filled in.
RowsFilled ==
  \A t \in Txn :
    /\ pc[t] = "idle" => txn[t] = NoTxn
    /\ pc[t] # "idle" => txn[t].month \in Month /\ txn[t].prefix \in Prefix
                         /\ txn[t].member \in Holder

\* The two modes of the period barrier exclude each other.
BarrierExcludes ==
  closing # 0 => \A t \in Txn : pc[t] \notin {"open", "numbered"}

\* Past its check, a posting's month is open.
CheckedMonthOpen ==
  \A t \in Txn : pc[t] \in {"open", "numbered"} => txn[t].month \notin closed

\* A rollup is the month's ledger.
RollupExact == \A m \in rolled : total[m] = PostedIn(m)

\* The prefix lock: one drawn reference at a time, the next of its sequence.
RefsDrawn ==
  \A t \in Txn : pc[t] = "numbered" =>
    /\ txn[t].ref = lastVal[txn[t].prefix] + 1
    /\ \A u \in Txn : pc[u] = "numbered" /\ txn[u].prefix = txn[t].prefix => t = u

\* The row lock on an original: one live reversal of it, and it is committed.
ReversalsLocked ==
  \A t \in Txn : txn[t].reverses # None /\ pc[t] # "aborted" =>
    /\ pc[t] # "idle"
    /\ pc[txn[t].reverses] = "committed"
    /\ txn[txn[t].reverses].reverses = None
    /\ \A u \in Txn : txn[u].reverses = txn[t].reverses /\ pc[u] # "aborted" => t = u

\* While months close in calendar order, the closed months are a prefix of the
\* calendar and every stored balance is the full history up to its month.
History(a, b) == {t \in Committed : txn[t].member = a /\ txn[t].month < b}

AnchorsExact ==
  inOrder =>
    /\ \A m \in closed : \A n \in 1 .. m - 1 : n \in closed
    /\ \A m \in rolled : \A a \in Holder :
         HasAnchor(m, a) => balance[m][a] = History(a, m + 1)

IndInv ==
  /\ TypeOK
  /\ RowsFilled
  /\ BarrierExcludes
  /\ CheckedMonthOpen
  /\ RollupExact
  /\ RefsDrawn
  /\ RefsDense
  /\ ReversalsLocked
  /\ AnchorsExact

-----------------------------------------------------------------------------
(* The latest anchor exists.                                               *)

LEMMA MaxExists ==
  ASSUME NEW N \in Nat, NEW S \in SUBSET (0 .. N), S # {}
  PROVE  \E m \in S : \A n \in S : n <= m
<1> DEFINE R == OpToRel(<, Nat)
           T == {k \in Nat : N - k \in S}
<1>1. T # {}
  <2>1. PICK s \in S : s \in 0 .. N OBVIOUS
  <2>2. N - s \in Nat /\ N - (N - s) = s BY <2>1
  <2> QED BY <2>1, <2>2
<1>2. IsWellFoundedOn(R, Nat) BY Zenon, NatLessThanWellFounded
<1>3. \E x \in T : \A y \in T : ~(<<y, x>> \in R)
  <2> HIDE DEF R, T
  <2>1. T \in SUBSET Nat BY DEF T
  <2> QED BY <1>1, <1>2, <2>1, WFMin
<1>4. PICK x \in T : \A y \in T : ~(y < x)
  <2>1. \A y, x \in Nat : <<y, x>> \in R <=> y < x BY Zenon DEF OpToRel
  <2> QED BY <1>3, <2>1
<1>5. N - x \in S /\ \A n \in S : n <= N - x
  <2>1. ASSUME NEW n \in S PROVE n <= N - x
    <3>1. N - n \in Nat /\ N - (N - n) = n OBVIOUS
    <3>2. N - n \in T BY <3>1
    <3> QED BY <1>4, <3>1, <3>2
  <2> QED BY <1>4, <2>1
<1> QED BY <1>5

\* member_balance_before is exact whenever every stored balance is, and every
\* committed posting is dated in a month of the calendar.
LEMMA BalanceBeforeExact ==
  ASSUME TypeOK, RowsFilled, AnchorsExact, inOrder,
         NEW a \in Holder, NEW b \in 1 .. LastMonth + 1
  PROVE  /\ MemberBalanceBefore(a, b)[1] \cup MemberBalanceBefore(a, b)[2] = History(a, b)
         /\ MemberBalanceBefore(a, b)[1] \cap MemberBalanceBefore(a, b)[2] = {}
<1>1. LastMonth \in Nat
  BY PeriodAssumption
<1>2. \A t \in Committed : txn[t].month \in 1 .. LastMonth
  BY DEF RowsFilled, Committed, Month
<1>3. CASE Anchors(a, b) = {}
  <2>1. MemberBalanceBefore(a, b) = <<{}, Delta(a, 0, b)>>
    BY <1>3 DEF MemberBalanceBefore
  <2>2. Delta(a, 0, b) = History(a, b)
    BY <1>1, <1>2 DEF Delta, History
  <2> QED BY <2>1, <2>2
<1>4. CASE Anchors(a, b) # {}
  <2>1. Anchors(a, b) \in SUBSET (0 .. LastMonth)
    BY <1>1 DEF Anchors, Month
  <2>2. \E n \in Month : IsAnchor(n, a, b)
    BY <1>1, <1>4, <2>1, MaxExists DEF IsAnchor, Anchors
  <2> DEFINE m == CHOOSE n \in Month : IsAnchor(n, a, b)
  <2>3. m \in Month /\ IsAnchor(m, a, b)
    BY <2>2
  <2>4. MemberBalanceBefore(a, b) = <<balance[m][a], Delta(a, m, b)>>
    BY <1>4 DEF MemberBalanceBefore
  <2> HIDE DEF m
  <2>5. m < b /\ HasAnchor(m, a) /\ m \in rolled
    BY <2>3 DEF IsAnchor, Anchors, HasAnchor
  <2>6. balance[m][a] = History(a, m + 1)
    BY <2>5 DEF AnchorsExact
  <2>7. m \in Nat /\ b \in Nat
    BY <1>1, <2>3 DEF Month
  <2>8. History(a, m + 1) \cup Delta(a, m, b) = History(a, b)
    BY <1>1, <1>2, <2>5, <2>7 DEF History, Delta
  <2>9. History(a, m + 1) \cap Delta(a, m, b) = {}
    BY <1>1, <1>2, <2>5, <2>7 DEF History, Delta
  <2> QED BY <2>4, <2>6, <2>8, <2>9
<1> QED BY <1>3, <1>4

-----------------------------------------------------------------------------
(* The invariant holds initially and every step preserves it.              *)

LEMMA InitInd == PeriodInit => IndInv
<1> SUFFICES ASSUME PeriodInit PROVE IndInv
  OBVIOUS
<1> USE DEF PeriodInit
<1>1. Committed = {}
  BY DEF Committed
<1>2. TypeOK
  <2>1. ASSUME NEW t \in Txn
        PROVE  txn[t] \in [month : 0 .. LastMonth, member : Holder \cup {None},
                           prefix : Prefix \cup {None}, reverses : Txn \cup {None}, ref : Nat]
    BY PeriodAssumption DEF NoTxn
  <2>2. now \in Month /\ pc \in [Txn -> PC]
    BY PeriodAssumption DEF PC, Month
  <2> QED BY <2>1, <2>2, PeriodAssumption DEF TypeOK
<1>3. RefsDense
  <2> SUFFICES ASSUME NEW x \in Prefix
               PROVE {txn[t].ref : t \in {u \in Committed : txn[u].prefix = x}} = 1 .. lastVal[x]
    BY <1>1 DEF RefsDense
  <2>1. 1 .. lastVal[x] = {}
    OBVIOUS
  <2> QED BY <1>1, <2>1
<1>4. RowsFilled /\ BarrierExcludes /\ CheckedMonthOpen /\ RollupExact /\ RefsDrawn
  BY <1>1 DEF RowsFilled, BarrierExcludes, CheckedMonthOpen, RollupExact, RefsDrawn
<1>5. ReversalsLocked /\ AnchorsExact
  BY DEF ReversalsLocked, AnchorsExact, NoTxn
<1> QED BY <1>2, <1>3, <1>4, <1>5 DEF IndInv

\* A step that neither commits a posting nor closes or rolls a month leaves
\* everything that is said of the committed ledger as it was.
LedgerUntouched ==
  /\ Committed' = Committed
  /\ \A t \in Committed : txn'[t] = txn[t]
  /\ UNCHANGED <<lastVal, closed, rolled, total, balance, inOrder>>

LEMMA LedgerKept ==
  ASSUME IndInv, LedgerUntouched
  PROVE  RollupExact' /\ RefsDense' /\ AnchorsExact'
<1> USE DEF IndInv, LedgerUntouched
<1>1. \A m : PostedIn(m)' = PostedIn(m)
  BY DEF PostedIn
<1>2. \A a, b : History(a, b)' = History(a, b)
  BY DEF History
<1>3. RollupExact'
  BY <1>1 DEF RollupExact
<1>4. RefsDense'
  <2> SUFFICES ASSUME NEW x \in Prefix
               PROVE  LET drawn == {t \in Committed : txn[t].prefix = x}' IN
                      /\ {txn'[t].ref : t \in drawn} = 1 .. lastVal[x]
                      /\ \A t, u \in drawn : txn'[t].ref = txn'[u].ref => t = u
    BY DEF RefsDense
  <2> DEFINE d == {t \in Committed : txn[t].prefix = x}
  <2>1. d' = d /\ \A t \in d : txn'[t] = txn[t]
    OBVIOUS
  <2>2. {txn[t].ref : t \in d} = 1 .. lastVal[x] /\ \A t, u \in d : txn[t].ref = txn[u].ref => t = u
    BY DEF RefsDense
  <2>3. {txn'[t].ref : t \in d} = {txn[t].ref : t \in d}
    BY <2>1
  <2> QED BY <2>1, <2>2, <2>3
<1>5. AnchorsExact'
  <2>1. \A m, a : HasAnchor(m, a)' => HasAnchor(m, a)
    <3> SUFFICES ASSUME NEW m, NEW a, HasAnchor(m, a)' PROVE HasAnchor(m, a)
      OBVIOUS
    <3>1. m \in rolled /\ \E t \in total[m] : txn'[t].member = a
      BY DEF HasAnchor
    <3>2. total[m] \subseteq Committed
      BY <3>1 DEF RollupExact, PostedIn
    <3> QED BY <3>1, <3>2 DEF HasAnchor
  <2> QED BY <1>2, <2>1 DEF AnchorsExact
<1> QED BY <1>3, <1>4, <1>5

LEMMA BeginKept ==
  ASSUME IndInv, NEW t \in Txn, NEW a \in Holder, NEW x \in Prefix, NEW m \in Month,
         Begin(t, a, x, m)
  PROVE  IndInv'
<1> USE DEF IndInv, Begin
<1>1. TypeOK'
  BY PeriodAssumption DEF TypeOK, PC, InFlight, Month
<1>2. LedgerUntouched
  BY DEF LedgerUntouched, Committed, TypeOK
<1>3. RowsFilled' /\ BarrierExcludes' /\ CheckedMonthOpen' /\ RefsDrawn'
  BY DEF TypeOK, RowsFilled, BarrierExcludes, CheckedMonthOpen, RefsDrawn
<1>4. ReversalsLocked'
  BY PeriodAssumption DEF TypeOK, ReversalsLocked
<1> QED BY <1>1, <1>2, <1>3, <1>4, LedgerKept

LEMMA BeginReversalKept ==
  ASSUME IndInv, NEW t \in Txn, NEW o \in Txn, BeginReversal(t, o)
  PROVE  IndInv'
<1> USE DEF IndInv, BeginReversal, Reversible
<1>0. txn[o].member \in Holder /\ txn[o].prefix \in Prefix /\ o # t /\ o # None
  BY PeriodAssumption DEF RowsFilled
<1>1. TypeOK'
  BY <1>0, PeriodAssumption DEF TypeOK, PC, InFlight, Month
<1>2. LedgerUntouched
  BY DEF LedgerUntouched, Committed, TypeOK
<1>3. RowsFilled' /\ BarrierExcludes' /\ CheckedMonthOpen' /\ RefsDrawn'
  BY <1>0 DEF TypeOK, RowsFilled, BarrierExcludes, CheckedMonthOpen, RefsDrawn
<1>4. ReversalsLocked'
  <2>1. txn[t].reverses = None
    BY DEF RowsFilled, NoTxn
  <2> QED BY <1>0, <2>1, PeriodAssumption DEF TypeOK, ReversalsLocked
<1> QED BY <1>1, <1>2, <1>3, <1>4, LedgerKept

LEMMA EnterPeriodKept ==
  ASSUME IndInv, NEW t \in Txn, EnterPeriod(t)
  PROVE  IndInv'
<1> USE DEF IndInv, EnterPeriod, BarrierOpenToShared
<1>1. TypeOK'
  BY DEF TypeOK, PC, InFlight
<1>2. LedgerUntouched
  BY DEF LedgerUntouched, Committed, TypeOK
<1>3. RowsFilled' /\ BarrierExcludes' /\ CheckedMonthOpen' /\ RefsDrawn'
  BY DEF TypeOK, RowsFilled, BarrierExcludes, CheckedMonthOpen, RefsDrawn
<1>4. ReversalsLocked'
  BY DEF TypeOK, ReversalsLocked
<1> QED BY <1>1, <1>2, <1>3, <1>4, LedgerKept

LEMMA NumberKept ==
  ASSUME IndInv, NEW t \in Txn, Number(t)
  PROVE  IndInv'
<1> USE DEF IndInv, Number, PrefixFree
<1>0. txn[t].prefix \in Prefix
  BY DEF RowsFilled
<1>1. TypeOK'
  <2>1. lastVal[txn[t].prefix] + 1 \in Nat
    BY <1>0 DEF TypeOK
  <2>2. \A u \in Txn : txn'[u] = IF u = t
          THEN [month |-> txn[u].month, member |-> txn[u].member, prefix |-> txn[u].prefix,
                reverses |-> txn[u].reverses, ref |-> lastVal[txn[t].prefix] + 1]
          ELSE txn[u]
    BY DEF TypeOK
  <2>3. txn' \in [Txn -> [month : 0 .. LastMonth, member : Holder \cup {None},
                      prefix : Prefix \cup {None}, reverses : Txn \cup {None}, ref : Nat]]
    BY <2>1, <2>2 DEF TypeOK
  <2> QED BY <2>3 DEF TypeOK, PC, InFlight
<1>2. LedgerUntouched
  BY DEF LedgerUntouched, Committed, TypeOK
<1>3. RowsFilled' /\ BarrierExcludes' /\ CheckedMonthOpen'
  BY DEF TypeOK, RowsFilled, BarrierExcludes, CheckedMonthOpen
<1>4. RefsDrawn'
  BY DEF TypeOK, RefsDrawn
<1>5. ReversalsLocked'
  BY DEF TypeOK, ReversalsLocked
<1> QED BY <1>1, <1>2, <1>3, <1>4, <1>5, LedgerKept

LEMMA AbortKept ==
  ASSUME IndInv, NEW t \in Txn, Abort(t)
  PROVE  IndInv'
<1> USE DEF IndInv, Abort, InFlight
<1>1. TypeOK'
  BY DEF TypeOK, PC
<1>2. LedgerUntouched
  BY DEF LedgerUntouched, Committed, TypeOK
<1>3. RowsFilled' /\ BarrierExcludes' /\ CheckedMonthOpen' /\ RefsDrawn'
  BY DEF TypeOK, RowsFilled, BarrierExcludes, CheckedMonthOpen, RefsDrawn
<1>4. ReversalsLocked'
  BY DEF TypeOK, ReversalsLocked
<1> QED BY <1>1, <1>2, <1>3, <1>4, LedgerKept

\* A posting commits: its month is open, so no rolled month changes, and the
\* reference it drew becomes the last of its sequence.
LEMMA CommitKept ==
  ASSUME IndInv, NEW t \in Txn, Commit(t)
  PROVE  IndInv'
<1> USE DEF IndInv, Commit
<1>0. /\ txn[t].month \in Month /\ txn[t].month \notin closed
      /\ txn[t].prefix \in Prefix /\ txn[t].ref = lastVal[txn[t].prefix] + 1
      /\ lastVal[txn[t].prefix] \in Nat
  BY DEF RowsFilled, CheckedMonthOpen, RefsDrawn, TypeOK
<1>1. TypeOK'
  BY <1>0 DEF TypeOK, PC, InFlight
<1>2. Committed' = Committed \cup {t} /\ t \notin Committed
  BY DEF Committed, TypeOK
<1>3. RowsFilled' /\ BarrierExcludes' /\ CheckedMonthOpen'
  BY DEF TypeOK, RowsFilled, BarrierExcludes, CheckedMonthOpen
<1>4. RefsDrawn'
  BY <1>0 DEF TypeOK, RefsDrawn, RowsFilled
<1>5. ReversalsLocked'
  BY DEF TypeOK, ReversalsLocked
<1>6. RollupExact'
  BY <1>0, <1>2 DEF RollupExact, PostedIn, TypeOK
<1>7. RefsDense'
  <2> SUFFICES ASSUME NEW x \in Prefix
               PROVE  LET drawn == {u \in Committed : txn[u].prefix = x}' IN
                      /\ {txn[u].ref : u \in drawn} = 1 .. lastVal'[x]
                      /\ \A v, u \in drawn : txn[v].ref = txn[u].ref => v = u
    BY DEF RefsDense
  <2> DEFINE d == {u \in Committed : txn[u].prefix = x}
  <2>1. /\ {txn[u].ref : u \in d} = 1 .. lastVal[x]
        /\ \A v, u \in d : txn[v].ref = txn[u].ref => v = u
    BY DEF RefsDense
  <2>2. CASE txn[t].prefix # x
    <3>1. d' = d /\ lastVal'[x] = lastVal[x]
      BY <1>0, <1>2, <2>2 DEF TypeOK
    <3> QED BY <2>1, <3>1
  <2>3. CASE txn[t].prefix = x
    <3>1. d' = d \cup {t} /\ lastVal'[x] = lastVal[x] + 1 /\ txn[t].ref = lastVal[x] + 1
      BY <1>0, <1>2, <2>3 DEF TypeOK
    <3> HIDE DEF d
    <3>2. {txn[u].ref : u \in d'} = 1 .. lastVal[x] \cup {lastVal[x] + 1}
      BY <2>1, <3>1
    <3>3. 1 .. lastVal[x] \cup {lastVal[x] + 1} = 1 .. lastVal[x] + 1
      BY <1>0, <2>3
    <3>4. \A u \in d : txn[u].ref # lastVal[x] + 1
      <4>1. \A u \in d : txn[u].ref \in 1 .. lastVal[x]
        BY <2>1
      <4>2. lastVal[x] \in Nat
        BY <1>0, <2>3
      <4> QED BY <4>1, <4>2
    <3>5. \A v, u \in d' : txn[v].ref = txn[u].ref => v = u
      BY <2>1, <3>1, <3>4
    <3> QED BY <3>1, <3>2, <3>3, <3>5 DEF d
  <2> QED BY <2>2, <2>3
<1>8. AnchorsExact'
  <2> SUFFICES ASSUME inOrder PROVE AnchorsExact'
    BY DEF AnchorsExact
  <2>1. ASSUME NEW m \in rolled PROVE m < txn[t].month
    <3>1. m \in closed /\ m \in Month
      BY DEF TypeOK
    <3>2. m \in 1 .. LastMonth /\ txn[t].month \in 1 .. LastMonth /\ LastMonth \in Nat
      BY <1>0, <3>1, PeriodAssumption DEF Month
    <3>3. m # txn[t].month
      BY <1>0, <3>1
    <3>4. ~(txn[t].month \in 1 .. m - 1)
      BY <1>0, <3>1 DEF AnchorsExact
    <3> QED BY <3>2, <3>3, <3>4
  <2>2. \A m \in rolled, a \in Holder : History(a, m + 1)' = History(a, m + 1)
    <3> SUFFICES ASSUME NEW m \in rolled, NEW a \in Holder
                 PROVE History(a, m + 1)' = History(a, m + 1)
      OBVIOUS
    <3>1. ~(txn[t].month < m + 1)
      BY <1>0, <2>1, PeriodAssumption DEF TypeOK, Month
    <3> QED BY <1>2, <3>1 DEF History
  <2>3. \A m, a : HasAnchor(m, a)' = HasAnchor(m, a)
    BY DEF HasAnchor
  <2> QED BY <2>2, <2>3 DEF AnchorsExact
<1> QED BY <1>1, <1>3, <1>4, <1>5, <1>6, <1>7, <1>8

LEMMA CloseBeginKept ==
  ASSUME IndInv, NEW m \in Month, CloseBegin(m)
  PROVE  IndInv'
<1> USE DEF IndInv, CloseBegin, BarrierOpenToExclusive
<1>1. TypeOK'
  BY PeriodAssumption DEF TypeOK, Month
<1>2. LedgerUntouched
  BY DEF LedgerUntouched, Committed
<1>3. RowsFilled' /\ BarrierExcludes' /\ CheckedMonthOpen' /\ RefsDrawn' /\ ReversalsLocked'
  BY DEF RowsFilled, BarrierExcludes, CheckedMonthOpen, RefsDrawn, ReversalsLocked
<1> QED BY <1>1, <1>2, <1>3, LedgerKept

LEMMA CloseAbortKept ==
  ASSUME IndInv, CloseAbort
  PROVE  IndInv'
<1> USE DEF IndInv, CloseAbort
<1>1. TypeOK'
  BY PeriodAssumption DEF TypeOK
<1>2. LedgerUntouched
  BY DEF LedgerUntouched, Committed
<1>3. RowsFilled' /\ BarrierExcludes' /\ CheckedMonthOpen' /\ RefsDrawn' /\ ReversalsLocked'
  BY DEF RowsFilled, BarrierExcludes, CheckedMonthOpen, RefsDrawn, ReversalsLocked
<1> QED BY <1>1, <1>2, <1>3, LedgerKept

LEMMA NextMonthKept ==
  ASSUME IndInv, NextMonth
  PROVE  IndInv'
<1> USE DEF IndInv, NextMonth
<1>1. TypeOK'
  BY PeriodAssumption DEF TypeOK, Month
<1>2. LedgerUntouched
  BY DEF LedgerUntouched, Committed
<1>3. RowsFilled' /\ BarrierExcludes' /\ CheckedMonthOpen' /\ RefsDrawn' /\ ReversalsLocked'
  BY DEF RowsFilled, BarrierExcludes, CheckedMonthOpen, RefsDrawn, ReversalsLocked
<1> QED BY <1>1, <1>2, <1>3, LedgerKept

\* Storing a rollup of m keeps every rolled month exact: m's sums are what the
\* ledger holds and, while months close in order, m's balances are full history.
LEMMA RollupStored ==
  ASSUME IndInv, NEW m \in Month, StoreRollup(m), UNCHANGED <<pc, txn>>,
         inOrder' => inOrder
  PROVE  /\ total' \in [Month -> SUBSET Txn]
         /\ balance' \in [Month -> [Holder -> SUBSET Txn]]
         /\ RollupExact'
         /\ inOrder' => \A n \in rolled' : \A a \in Holder :
              HasAnchor(n, a)' => balance'[n][a] = History(a, n + 1)'
<1> USE DEF IndInv, StoreRollup
<1>1. /\ Committed' = Committed
      /\ \A n : PostedIn(n)' = PostedIn(n) /\ PostedIn(n) \subseteq Txn
      /\ \A a, b : History(a, b)' = History(a, b)
  BY DEF Committed, PostedIn, History
<1>2. total' \in [Month -> SUBSET Txn]
  BY <1>1 DEF TypeOK
<1> DEFINE B(a) == MemberBalanceBefore(a, m + 1)
           R(a) == IF \E t \in PostedIn(m) : txn[t].member = a THEN B(a)[1] \cup B(a)[2] ELSE {}
<1>3. balance' = [balance EXCEPT ![m] = [a \in Holder |-> R(a)]]
  OBVIOUS
<1>4. \A a \in Holder : B(a)[1] \cup B(a)[2] \in SUBSET Txn
  <2> SUFFICES ASSUME NEW a \in Holder PROVE B(a)[1] \cup B(a)[2] \in SUBSET Txn
    OBVIOUS
  <2>1. \A c, b : Delta(a, c, b) \subseteq Txn
    BY DEF Delta, Committed
  <2>2. CASE Anchors(a, m + 1) = {}
    <3>1. B(a) = <<{}, Delta(a, 0, m + 1)>>
      BY <2>2 DEF MemberBalanceBefore
    <3> QED BY <2>1, <3>1
  <2>3. CASE Anchors(a, m + 1) # {}
    <3>1. Anchors(a, m + 1) \in SUBSET (0 .. LastMonth) /\ LastMonth \in Nat
      BY PeriodAssumption DEF Anchors, Month
    <3>2. \E n \in Month : IsAnchor(n, a, m + 1)
      BY <2>3, <3>1, MaxExists DEF IsAnchor, Anchors
    <3> DEFINE k == CHOOSE n \in Month : IsAnchor(n, a, m + 1)
    <3>3. k \in Month
      BY <3>2
    <3>4. B(a) = <<balance[k][a], Delta(a, k, m + 1)>>
      BY <2>3 DEF MemberBalanceBefore
    <3> HIDE DEF k
    <3>5. balance[k][a] \in SUBSET Txn
      BY <3>3 DEF TypeOK
    <3> QED BY <2>1, <3>4, <3>5
  <2> QED BY <2>2, <2>3
<1>5. balance' \in [Month -> [Holder -> SUBSET Txn]]
  <2> HIDE DEF B
  <2>1. [a \in Holder |-> R(a)] \in [Holder -> SUBSET Txn]
    BY <1>4
  <2> HIDE DEF R
  <2> QED BY <1>3, <2>1 DEF TypeOK
<1>6. RollupExact'
  BY <1>1 DEF RollupExact, TypeOK
<1>7. ASSUME inOrder', NEW n \in rolled', NEW a \in Holder, HasAnchor(n, a)'
      PROVE  balance'[n][a] = History(a, n + 1)'
  <2>1. inOrder
    BY <1>7
  <2>2. CASE n = m
    <3>1. \E t \in PostedIn(m) : txn[t].member = a
      BY <1>1, <1>7, <2>2 DEF HasAnchor, TypeOK
    <3>2. m + 1 \in 1 .. LastMonth + 1
      BY PeriodAssumption DEF Month
    <3>3. B(a)[1] \cup B(a)[2] = History(a, m + 1)
      BY <2>1, <3>2, BalanceBeforeExact
    <3> HIDE DEF B
    <3>4. R(a) = History(a, m + 1)
      BY <3>1, <3>3
    <3> HIDE DEF R
    <3>5. balance'[m][a] = R(a)
      BY <1>3 DEF TypeOK
    <3> QED BY <1>1, <2>2, <3>4, <3>5
  <2>3. CASE n # m
    <3>1. n \in rolled /\ n \in Month /\ total'[n] = total[n]
      BY <2>3 DEF TypeOK
    <3> HIDE DEF R
    <3>2. balance'[n] = balance[n]
      BY <1>3, <2>3, <3>1 DEF TypeOK
    <3>3. HasAnchor(n, a)
      BY <1>7, <3>1 DEF HasAnchor
    <3> QED BY <1>1, <2>1, <3>1, <3>2, <3>3 DEF AnchorsExact
  <2> QED BY <2>2, <2>3
<1> QED BY <1>2, <1>5, <1>6, <1>7

\* The close: the barrier is held, so no posting is past its check and the month
\* may be added to the closed ones; its rollup is exact.
LEMMA CloseCommitKept ==
  ASSUME IndInv, CloseCommit
  PROVE  IndInv'
<1> USE DEF IndInv, CloseCommit
<1>0. closing \in Month /\ closing \in Nat
  BY PeriodAssumption DEF TypeOK, Month
<1>a. inOrder' \in BOOLEAN
  BY Zenon
<1>b. /\ now' = now /\ pc' = pc /\ txn' = txn /\ lastVal' = lastVal
      /\ closing' = 0 /\ closed' = closed \cup {closing}
  OBVIOUS
<1>1. RowsFilled' /\ BarrierExcludes' /\ RefsDrawn' /\ ReversalsLocked'
  BY DEF RowsFilled, BarrierExcludes, RefsDrawn, ReversalsLocked
<1>2. CheckedMonthOpen'
  BY DEF CheckedMonthOpen, BarrierExcludes
<1>3. RefsDense'
  <2>1. Committed' = Committed
    BY DEF Committed
  <2> QED BY <2>1 DEF RefsDense
<1>4. inOrder' => \A m \in closed' : \A n \in 1 .. m - 1 : n \in closed'
  BY DEF AnchorsExact
<1>5. CASE closing \in LegacyClosed
  <2>1. TypeOK'
    <3> HIDE DEF CloseCommit
    <3>1. UNCHANGED <<rolled, total, balance>>
      BY <1>5 DEF CloseCommit
    <3> QED BY <1>0, <1>a, <1>b, <3>1, PeriodAssumption DEF TypeOK
  <2>2. \A m : PostedIn(m)' = PostedIn(m)
    BY DEF PostedIn, Committed
  <2>3. \A a, b : History(a, b)' = History(a, b)
    BY DEF History, Committed
  <2>4. RollupExact'
    BY <1>5, <2>2 DEF RollupExact
  <2>5. \A m, a : HasAnchor(m, a)' = HasAnchor(m, a)
    BY <1>5 DEF HasAnchor
  <2>6. AnchorsExact'
    BY <1>4, <1>5, <2>3, <2>5 DEF AnchorsExact
  <2> QED BY <1>1, <1>2, <1>3, <2>1, <2>4, <2>6
<1>6. CASE closing \notin LegacyClosed
  <2>1. /\ total' \in [Month -> SUBSET Txn]
        /\ balance' \in [Month -> [Holder -> SUBSET Txn]]
        /\ RollupExact'
        /\ inOrder' => \A n \in rolled' : \A a \in Holder :
             HasAnchor(n, a)' => balance'[n][a] = History(a, n + 1)'
    BY <1>0, <1>6, RollupStored
  <2>2. TypeOK'
    <3> HIDE DEF CloseCommit
    <3>1. rolled' = rolled \cup {closing}
      BY <1>6 DEF CloseCommit, StoreRollup
    <3> QED BY <1>0, <1>a, <1>b, <2>1, <3>1, PeriodAssumption DEF TypeOK
  <2>3. AnchorsExact'
    BY <1>4, <2>1 DEF AnchorsExact
  <2> QED BY <1>1, <1>2, <1>3, <2>1, <2>2, <2>3
<1> QED BY <1>5, <1>6

LEMMA RollupBackfillKept ==
  ASSUME IndInv, NEW m \in Month, RollupBackfill(m)
  PROVE  IndInv'
<1> USE DEF IndInv, RollupBackfill, Unrolled
<1>1. RowsFilled' /\ BarrierExcludes' /\ CheckedMonthOpen' /\ RefsDrawn' /\ ReversalsLocked'
  BY DEF RowsFilled, BarrierExcludes, CheckedMonthOpen, RefsDrawn, ReversalsLocked
<1>2. RefsDense'
  <2>1. Committed' = Committed
    BY DEF Committed
  <2> QED BY <2>1 DEF RefsDense
<1>3. /\ total' \in [Month -> SUBSET Txn]
      /\ balance' \in [Month -> [Holder -> SUBSET Txn]]
      /\ RollupExact'
      /\ inOrder' => \A n \in rolled' : \A a \in Holder :
           HasAnchor(n, a)' => balance'[n][a] = History(a, n + 1)'
  BY RollupStored
<1>4. TypeOK'
  BY <1>3 DEF TypeOK, StoreRollup
<1>5. AnchorsExact'
  BY <1>3 DEF AnchorsExact
<1> QED BY <1>1, <1>2, <1>3, <1>4, <1>5

LEMMA StutterKept ==
  ASSUME IndInv, UNCHANGED periodVars
  PROVE  IndInv'
<1> USE DEF IndInv, periodVars
<1>1. TypeOK'
  BY DEF TypeOK
<1>2. LedgerUntouched
  BY DEF LedgerUntouched, Committed
<1>3. RowsFilled' /\ BarrierExcludes' /\ CheckedMonthOpen' /\ RefsDrawn' /\ ReversalsLocked'
  BY DEF RowsFilled, BarrierExcludes, CheckedMonthOpen, RefsDrawn, ReversalsLocked
<1> QED BY <1>1, <1>2, <1>3, LedgerKept

LEMMA NextInd == IndInv /\ [PeriodNext]_periodVars => IndInv'
<1> SUFFICES ASSUME IndInv, [PeriodNext]_periodVars PROVE IndInv'
  OBVIOUS
<1>1. CASE \E t \in Txn, a \in Holder, x \in Prefix, m \in Month : Begin(t, a, x, m)
  BY <1>1, BeginKept
<1>2. CASE \E t, o \in Txn : BeginReversal(t, o)
  BY <1>2, BeginReversalKept
<1>3. CASE \E t \in Txn : EnterPeriod(t)
  BY <1>3, EnterPeriodKept
<1>4. CASE \E t \in Txn : Number(t)
  BY <1>4, NumberKept
<1>5. CASE \E t \in Txn : Commit(t)
  BY <1>5, CommitKept
<1>6. CASE \E t \in Txn : Abort(t)
  BY <1>6, AbortKept
<1>7. CASE \E m \in Month : CloseBegin(m)
  BY <1>7, CloseBeginKept
<1>8. CASE \E m \in Month : RollupBackfill(m)
  BY <1>8, RollupBackfillKept
<1>9. CASE CloseCommit
  BY <1>9, CloseCommitKept
<1>10. CASE CloseAbort
  BY <1>10, CloseAbortKept
<1>11. CASE NextMonth
  BY <1>11, NextMonthKept
<1>12. CASE UNCHANGED periodVars
  BY <1>12, StutterKept
<1> QED BY <1>1, <1>2, <1>3, <1>4, <1>5, <1>6, <1>7, <1>8, <1>9, <1>10, <1>11, <1>12 DEF PeriodNext

\* The inductive invariant holds in every reachable state.
THEOREM IndInvHolds == PeriodSpec => []IndInv
<1>1. PeriodInit => IndInv
  BY InitInd
<1>2. IndInv /\ [PeriodNext]_periodVars => IndInv'
  BY NextInd
<1> QED BY <1>1, <1>2, PTL DEF PeriodSpec

-----------------------------------------------------------------------------
(* The results.                                                            *)

\* No posting becomes visible in a closed month, however postings, closes,
\* aborts, backfills and the clock interleave.
THEOREM ClosedMonthsStayFrozen == PeriodSpec => ClosedMonthsFrozen
<1>1. IndInv /\ [PeriodNext]_periodVars => [\A m \in closed : PostedIn(m)' = PostedIn(m)]_periodVars
  <2> SUFFICES ASSUME IndInv, PeriodNext, NEW m \in closed
               PROVE  PostedIn(m)' = PostedIn(m)
    OBVIOUS
  <2> USE DEF IndInv
  <2>1. CASE \E t \in Txn : Commit(t)
    <3> PICK t \in Txn : Commit(t)
      BY <2>1
    <3>1. txn[t].month # m /\ txn' = txn /\ Committed' = Committed \cup {t}
      BY DEF Commit, CheckedMonthOpen, Committed, TypeOK
    <3> QED BY <3>1 DEF PostedIn
  <2>2. CASE ~\E t \in Txn : Commit(t)
    <3>1. Committed' = Committed /\ \A t \in Committed : txn'[t] = txn[t]
      BY <2>2 DEF PeriodNext, Committed, TypeOK, Begin, BeginReversal, EnterPeriod, Number, Abort,
                  CloseBegin, CloseCommit, CloseAbort, RollupBackfill, NextMonth, InFlight
    <3> QED BY <3>1 DEF PostedIn
  <2> QED BY <2>1, <2>2
<1> QED BY <1>1, IndInvHolds, PTL DEF PeriodSpec, ClosedMonthsFrozen

\* Reports that add rollups to a live scan count every posting exactly once.
THEOREM TrialBalanceIsExact == PeriodSpec => []TrialBalanceExact
<1>1. IndInv => TrialBalanceExact
  <2> SUFFICES ASSUME IndInv, NEW asOf \in Month
               PROVE
               /\ RolledPart(asOf) \cup LivePart(asOf) = {t \in Committed : txn[t].month <= asOf}
                     /\ RolledPart(asOf) \cap LivePart(asOf) = {}
    BY DEF TrialBalanceExact
  <2>1. \A t : t \in RolledPart(asOf) <=> t \in Committed /\ txn[t].month \in Qualified(asOf)
    BY DEF IndInv, RollupExact, RolledPart, Qualified, PostedIn
  <2>2. \A m \in Qualified(asOf) : m <= asOf
    BY PeriodAssumption DEF IndInv, TypeOK, Qualified, Month
  <2>3. RolledPart(asOf) \subseteq Committed
    BY <2>1
  <2> QED BY <2>1, <2>2 DEF LivePart
<1> QED BY <1>1, IndInvHolds, PTL

\* The references of a prefix are dense and unique.
THEOREM RefsAreDense == PeriodSpec => []RefsDense
<1>1. IndInv => RefsDense
  BY DEF IndInv
<1> QED BY <1>1, IndInvHolds, PTL

\* A posting is reversed at most once, and no reversal is reversed.
THEOREM ReversedAtMostOnce == PeriodSpec => []ReversedOnce
<1>1. IndInv => ReversedOnce
  BY DEF IndInv, ReversedOnce, ReversalsLocked, Committed
<1> QED BY <1>1, IndInvHolds, PTL

\* Opening balances are exact as long as months are closed in calendar order.
THEOREM OpeningBalancesInOrder == PeriodSpec => []OpeningExactInOrder
<1>1. IndInv => OpeningExactInOrder
  BY BalanceBeforeExact DEF IndInv, OpeningExactInOrder, OpeningBalanceExact, History
<1> QED BY <1>1, IndInvHolds, PTL

\* The state keeps its type.
THEOREM TypeCorrect == PeriodSpec => []TypeOK
<1>1. IndInv => TypeOK
  BY DEF IndInv
<1> QED BY <1>1, IndInvHolds, PTL

-----------------------------------------------------------------------------
(* Lock order: the locks of a script.                                      *)

\* The locks the scripts are made of: a row FOR UPDATE, a prefix, the member FOR
\* SHARE, the member FOR KEY SHARE of a foreign key, the guarantees an UPDATE writes.
Row(table, m) == Lock(table, m, "update")
Ref(prefix) == Lock("ref", prefix, "update")
Shared(m) == Lock("members", m, "share")
KeyOf(m) == Lock("members", m, "key share")
Written(m) == Lock("guarantees", m, "write")
\* The locks of the first k elements of a script.
LocksOf(sc, k) == {sc[i] : i \in {j \in 1 .. k : sc[j].table # "check"}}

\* Session s is k locks and checks into script sc.
Reached(s, sc, k) ==
  /\ k \in 0 .. Len(sc)
  /\ todo[s] \in Seq({sc[i] : i \in 1 .. Len(sc)})
  /\ Len(todo[s]) = Len(sc) - k
  /\ \A i \in 1 .. Len(sc) - k : todo[s][i] = sc[k + i]
  /\ held[s] = LocksOf(sc, k)

\* One element further adds one lock, or none for a check.
LEMMA LocksOfNext ==
  ASSUME NEW sc, NEW k \in Nat
  PROVE  /\ LocksOf(sc, 0) = {}
         /\ sc[k + 1].table = "check" => LocksOf(sc, k + 1) = LocksOf(sc, k)
         /\ sc[k + 1].table # "check" => LocksOf(sc, k + 1) = LocksOf(sc, k) \union {sc[k + 1]}
<1>1. 1 .. k + 1 = (1 .. k) \union {k + 1} /\ 1 .. 0 = {}
  OBVIOUS
<1>2. ASSUME sc[k + 1].table = "check" PROVE LocksOf(sc, k + 1) = LocksOf(sc, k)
  BY Zenon, <1>1, <1>2 DEF LocksOf
<1>3. ASSUME sc[k + 1].table # "check"
      PROVE  LocksOf(sc, k + 1) = LocksOf(sc, k) \union {sc[k + 1]}
  BY Zenon, <1>1, <1>3 DEF LocksOf
<1> QED BY <1>1, <1>2, <1>3 DEF LocksOf

-----------------------------------------------------------------------------
(* The levels: where a call can wait, with what it holds there.            *)

\* DepositWaits(m, w, L, v): a deposit for m may wait for w with the locks L, at
\* level v; and so on.  Places where a call has w already (Covered) have no level.
DepositWaits(m, w, L, v) ==
  \/ w = Row("deposit", m) /\ L = {Row("members", m)} /\ v = 0
  \/ w = Ref("MP-") /\ L = {Row("members", m), Row("deposit", m)} /\ v = 0

WithdrawalWaits(m, w, L, v) ==
  \/ w = Row("deposit", m) /\ L = {Shared(m)} /\ v = 3
  \/ w = Ref("WD-") /\ L = {Shared(m), Row("deposit", m)} /\ v = 1

SettlementWaits(m, w, L, v) ==
  \/ w = Row("members", m) /\ L = {Row("member_exits", m)} /\ v = 8 + LastMember
  \/ w = Row("deposit", m) /\ L = {Row("member_exits", m), Row("members", m)} /\ v = 0
  \/ /\ w = Row("shares", m) /\ v = 0
     /\ L = {Row("member_exits", m), Row("members", m), Row("deposit", m)}
  \/ /\ w = Row("loans", m) /\ v = 1
     /\ L = {Row("member_exits", m), Row("members", m), Row("deposit", m), Row("shares", m)}
  \/ /\ w = Ref("WD-") /\ v = 1
     /\ L = {Row("member_exits", m), Row("members", m), Row("deposit", m), Row("shares", m),
             Row("loans", m)}
  \/ /\ w = Written(m) /\ v = 0
     /\ L = {Row("member_exits", m), Row("members", m), Row("deposit", m), Row("shares", m),
             Row("loans", m), Ref("WD-"), KeyOf(m)}

RejectionWaits(m, w, L, v) ==
  \/ w = Written(m) /\ L = {Row("applications", m)} /\ v = 0

ReleaseWaits(m, w, L, v) ==
  \/ w = Row("guarantees", m) /\ L = {Row("applications", m)} /\ v = 0
  \/ w = Row("deposit", m) /\ L = {Row("applications", m), Row("guarantees", m)} /\ v = 3

LoanReleaseWaits(m, w, L, v) ==
  \/ w = Row("loans", m) /\ L = {Row("applications", m)} /\ v = 6
  \/ w = Row("guarantees", m) /\ L = {Row("applications", m), Row("loans", m)} /\ v = 0

DisbursementWaits(m, w, L, v) ==
  \/ w = Row("deposit", m) /\ L = {Row("applications", m)} /\ v = 3
  \/ w = KeyOf(m) /\ L = {Row("applications", m), Row("deposit", m)} /\ v = 8 + LastMember
  \/ w = Written(m) /\ L = {Row("applications", m), Row("deposit", m), KeyOf(m)} /\ v = 0
  \/ /\ w = Ref("LN-") /\ v = 0
     /\ L = {Row("applications", m), Row("deposit", m), KeyOf(m), Written(m)}

RepaymentWaits(m, w, L, v) ==
  \/ w = Ref("RP-") /\ L = {Row("loans", m)} /\ v = 5
  \/ w = KeyOf(m) /\ L = {Row("loans", m), Ref("RP-")} /\ v = 2
  \/ w = Written(m) /\ L = {Row("loans", m), Ref("RP-"), KeyOf(m)} /\ v = 4

AdjustmentWaits(m, w, L, v) ==
  \/ w = Shared(m) /\ L = {Row("transactions", m)} /\ v = 8 + LastMember
  \/ w = Row("loans", m) /\ L = {Row("transactions", m), Shared(m)} /\ v = 6
  \/ w = Ref("RP-") /\ L = {Row("transactions", m), Shared(m), Row("loans", m)} /\ v = 5

WriteOffWaits(m, w, L, v) ==
  \/ w = Row("loans", m) /\ L = {Row("loan_write_offs", m)} /\ v = 6
  \/ w = Ref("WO-") /\ L = {Row("loan_write_offs", m), Row("loans", m)} /\ v = 3
  \/ w = KeyOf(m) /\ L = {Row("loan_write_offs", m), Row("loans", m), Ref("WO-")} /\ v = 2

ReceiptWaits(m, w, L, v) ==
  \/ w = Shared(m) /\ L = {Row("loan_write_offs", m)} /\ v = 8 + LastMember
  \/ w = Row("loans", m) /\ L = {Row("loan_write_offs", m), Shared(m)} /\ v = 6
  \/ w = Ref("RC-") /\ L = {Row("loan_write_offs", m), Shared(m), Row("loans", m)} /\ v = 5
  \/ /\ w = Written(m) /\ v = 4
     /\ L = {Row("loan_write_offs", m), Shared(m), Row("loans", m), Ref("RC-"), KeyOf(m)}

PledgeGuaranteeWaits(m, n, w, L, v) ==
  \/ w = Shared(n) /\ L = {Row("applications", m)} /\ v = 2
  \/ w = Row("deposit", n) /\ L = {Row("applications", m), Shared(n)} /\ v = 3
  \/ w = KeyOf(m) /\ L = {Row("applications", m), Shared(n), Row("deposit", n), KeyOf(n)} /\ v = 2

SubstitutionWaits(m, n, w, L, v) ==
  \/ w = Row("loans", m) /\ L = {Row("applications", m)} /\ v = 6
  \/ w = Row("guarantees", m) /\ L = {Row("applications", m), Row("loans", m)} /\ v = 0
  \/ w = Shared(n) /\ L = {Row("applications", m), Row("loans", m), Row("guarantees", m)} /\ v = 2
  \/ /\ w = Row("deposit", n) /\ v = 3
     /\ L = {Row("applications", m), Row("loans", m), Row("guarantees", m), Shared(n)}
  \/ /\ w = KeyOf(m) /\ v = 2
     /\ L = {Row("applications", m), Row("loans", m), Row("guarantees", m), Shared(n),
             Row("deposit", n), KeyOf(n)}

TransferWaits(m, a, b, w, L, v) ==
  \/ w = Row("members", a) /\ L = {Row("share_transfers", m)} /\ v = 7 + LastMember - a
  \/ /\ w = Row("members", b) /\ v = 7 + LastMember - b
     /\ L = {Row("share_transfers", m), Row("members", a)}
  \/ /\ w = Row("shares", a) /\ v = 0
     /\ L = {Row("share_transfers", m), Row("members", a), Row("members", b)}
  \/ /\ w = Row("shares", b) /\ v = 0
     /\ L = {Row("share_transfers", m), Row("members", a), Row("members", b), Row("shares", a)}
  \/ /\ w = Ref("ST-") /\ v = 0
     /\ L = {Row("share_transfers", m), Row("members", a), Row("members", b), Row("shares", a),
             Row("shares", b)}

\* A batch waits for the rows of a member whose scanned row it holds.
DistributionLocks(S) ==
  {Ref("DV-")}
  \union (UNION {{Row("members", m), Row("deposit", m), Row("shares", m), KeyOf(m)} : m \in S})

DistributionWaits(S, w, L, v) ==
  /\ ScanLocks("members", S) \subseteq L /\ L \subseteq DistributionLocks(S)
  /\ \E m \in S : \/ w \in {Row("deposit", m), Row("shares", m)} /\ v = 0
                  \/ w = Ref("DV-") /\ w \notin L /\ v = 1

InterestLocks(S) == {Ref("INT-")} \union (UNION {{Row("deposit", m), KeyOf(m)} : m \in S})

InterestWaits(S, w, L, v) ==
  /\ ScanLocks("deposit", S) \subseteq L /\ L \subseteq InterestLocks(S)
  /\ \E m \in S : \/ w = Ref("INT-") /\ w \notin L /\ v = 1
                  \/ w = KeyOf(m) /\ v = 0

\* Handler h, holding L, waits for w at level v.
Level(h, w, L, v) ==
  \/ L = {} /\ v = 9 + LastMember
  \/ \E m \in MemberId :
       \/ h = "deposit" /\ DepositWaits(m, w, L, v)
       \/ h = "withdraw" /\ WithdrawalWaits(m, w, L, v)
       \/ h = "settle" /\ SettlementWaits(m, w, L, v)
       \/ h = "reject" /\ RejectionWaits(m, w, L, v)
       \/ h = "release" /\ ReleaseWaits(m, w, L, v)
       \/ h = "releaseLoan" /\ LoanReleaseWaits(m, w, L, v)
       \/ h = "disburse" /\ DisbursementWaits(m, w, L, v)
       \/ h = "repay" /\ RepaymentWaits(m, w, L, v)
       \/ h = "adjust" /\ AdjustmentWaits(m, w, L, v)
       \/ h = "writeOff" /\ WriteOffWaits(m, w, L, v)
       \/ h = "receipt" /\ ReceiptWaits(m, w, L, v)
  \/ \E m, n \in MemberId :
       \/ h = "pledge" /\ PledgeGuaranteeWaits(m, n, w, L, v)
       \/ h = "substitute" /\ SubstitutionWaits(m, n, w, L, v)
  \/ \E m, a, b \in MemberId : h = "transfer" /\ a < b /\ TransferWaits(m, a, b, w, L, v)
  \/ \E S \in SUBSET MemberId :
       \/ h = "distribute" /\ DistributionWaits(S, w, L, v)
       \/ h = "interest" /\ InterestWaits(S, w, L, v)

\* Two sequences joined are r when r agrees with each in its place.
LEMMA Joined ==
  ASSUME NEW T, NEW p \in Seq(T), NEW q \in Seq(T), NEW r \in Seq(T),
         Len(r) = Len(p) + Len(q),
         \A i \in 1 .. Len(p) : r[i] = p[i], \A i \in 1 .. Len(q) : r[Len(p) + i] = q[i]
  PROVE  p \o q = r
<1>1. p \o q \in Seq(T) /\ Len(p \o q) = Len(p) + Len(q)
  BY ConcatProperties
<1>2. ASSUME NEW i \in 1 .. Len(r) PROVE (p \o q)[i] = r[i]
   <2>1. CASE i <= Len(p)
     BY <2>1, ConcatProperties
   <2>2. CASE ~(i <= Len(p))
     <3>1. PICK j \in 1 .. Len(q) : i = Len(p) + j
       <4>1. i - Len(p) \in 1 .. Len(q) /\ i = Len(p) + (i - Len(p))
         BY <2>2
       <4> QED BY <4>1
     <3>2. (p \o q)[i] = q[i - Len(p)] /\ i - Len(p) = j
       BY <2>2, <3>1, ConcatProperties, <1>1
     <3> QED BY <3>1, <3>2
   <2> QED BY <2>1, <2>2
<1> QED BY <1>1, <1>2, SeqEqual
\* The cases the scripts need.
LEMMA Joined2and2 ==
  ASSUME NEW a, NEW b, NEW c, NEW d
  PROVE  <<a, b>> \o <<c, d>> = <<a, b, c, d>>
<1> DEFINE T == {a, b, c, d}  p == <<a, b>>  q == <<c, d>>  r == <<a, b, c, d>>
<1>1. /\ p \in Seq(T) /\ q \in Seq(T) /\ r \in Seq(T)
      /\ Len(p) = 2 /\ Len(q) = 2 /\ Len(r) = Len(p) + Len(q)
  OBVIOUS
<1>2. r[1] = p[1] /\ r[2] = p[2] /\ r[3] = q[1] /\ r[4] = q[2]
  OBVIOUS
<1> HIDE DEF T, p, q, r
<1>3. \A i \in 1 .. Len(p) : r[i] = p[i]
  BY <1>1, <1>2
<1>4. \A i \in 1 .. Len(q) : r[Len(p) + i] = q[i]
  BY <1>1, <1>2
<1>5. p \o q = r
  BY ONLY <1>1, <1>3, <1>4, Joined
<1> QED BY <1>5 DEF p, q, r

LEMMA Joined1and5 ==
  ASSUME NEW a, NEW b, NEW c, NEW d, NEW e, NEW f
  PROVE  <<a>> \o <<b, c, d, e, f>> = <<a, b, c, d, e, f>>
<1> DEFINE T == {a, b, c, d, e, f}  p == <<a>>  q == <<b, c, d, e, f>>  r == <<a, b, c, d, e, f>>
<1>1. /\ p \in Seq(T) /\ q \in Seq(T) /\ r \in Seq(T)
      /\ Len(p) = 1 /\ Len(q) = 5 /\ Len(r) = Len(p) + Len(q)
  OBVIOUS
<1>2. r[1] = p[1] /\ r[2] = q[1] /\ r[3] = q[2] /\ r[4] = q[3] /\ r[5] = q[4] /\ r[6] = q[5]
  OBVIOUS
<1> HIDE DEF T, p, q, r
<1>3. \A i \in 1 .. Len(p) : r[i] = p[i]
  BY <1>1, <1>2
<1>4. \A i \in 1 .. Len(q) : r[Len(p) + i] = q[i]
  BY <1>1, <1>2
<1>5. p \o q = r
  BY ONLY <1>1, <1>3, <1>4, Joined
<1> QED BY <1>5 DEF p, q, r

LEMMA Joined6and2 ==
  ASSUME NEW a, NEW b, NEW c, NEW d, NEW e, NEW f, NEW g, NEW h
  PROVE  <<a, b, c, d, e, f>> \o <<g, h>> = <<a, b, c, d, e, f, g, h>>
<1> DEFINE T == {a, b, c, d, e, f, g, h}
           p == <<a, b, c, d, e, f>>  q == <<g, h>>  r == <<a, b, c, d, e, f, g, h>>
<1>1. /\ p \in Seq(T) /\ q \in Seq(T) /\ r \in Seq(T)
      /\ Len(p) = 6 /\ Len(q) = 2 /\ Len(r) = Len(p) + Len(q)
  OBVIOUS
<1>2. r[1] = p[1] /\ r[2] = p[2] /\ r[3] = p[3] /\ r[4] = p[4] /\ r[5] = p[5] /\ r[6] = p[6]
      /\ r[7] = q[1]
      /\ r[8] = q[2]
  OBVIOUS
<1> HIDE DEF T, p, q, r
<1>3. \A i \in 1 .. Len(p) : r[i] = p[i]
  BY <1>1, <1>2
<1>4. \A i \in 1 .. Len(q) : r[Len(p) + i] = q[i]
  BY <1>1, <1>2
<1>5. p \o q = r
  BY ONLY <1>1, <1>3, <1>4, Joined
<1> QED BY <1>5 DEF p, q, r

LEMMA Joined8and1 ==
  ASSUME NEW a, NEW b, NEW c, NEW d, NEW e, NEW f, NEW g, NEW h, NEW i
  PROVE  <<a, b, c, d, e, f, g, h>> \o <<i>> = <<a, b, c, d, e, f, g, h, i>>
<1> DEFINE T == {a, b, c, d, e, f, g, h, i}
           p == <<a, b, c, d, e, f, g, h>>  q == <<i>>  r == <<a, b, c, d, e, f, g, h, i>>
<1>1. /\ p \in Seq(T) /\ q \in Seq(T) /\ r \in Seq(T)
      /\ Len(p) = 8 /\ Len(q) = 1 /\ Len(r) = Len(p) + Len(q)
  OBVIOUS
<1>2. r[1] = p[1] /\ r[2] = p[2] /\ r[3] = p[3] /\ r[4] = p[4] /\ r[5] = p[5] /\ r[6] = p[6]
      /\ r[7] = p[7]
      /\ r[8] = p[8] /\ r[9] = q[1]
  OBVIOUS
<1> HIDE DEF T, p, q, r
<1>3. \A n \in 1 .. Len(p) : r[n] = p[n]
  BY <1>1, <1>2
<1>4. \A n \in 1 .. Len(q) : r[Len(p) + n] = q[n]
  BY <1>1, <1>2
<1>5. p \o q = r
  BY ONLY <1>1, <1>3, <1>4, Joined
<1> QED BY <1>5 DEF p, q, r

LEMMA Joined3and3 ==
  ASSUME NEW a, NEW b, NEW c, NEW d, NEW e, NEW f
  PROVE  <<a, b, c>> \o <<d, e, f>> = <<a, b, c, d, e, f>>
<1> DEFINE T == {a, b, c, d, e, f}  p == <<a, b, c>>  q == <<d, e, f>>  r == <<a, b, c, d, e, f>>
<1>1. /\ p \in Seq(T) /\ q \in Seq(T) /\ r \in Seq(T)
      /\ Len(p) = 3 /\ Len(q) = 3 /\ Len(r) = Len(p) + Len(q)
  OBVIOUS
<1>2. r[1] = p[1] /\ r[2] = p[2] /\ r[3] = p[3] /\ r[4] = q[1] /\ r[5] = q[2] /\ r[6] = q[3]
  OBVIOUS
<1> HIDE DEF T, p, q, r
<1>3. \A i \in 1 .. Len(p) : r[i] = p[i]
  BY <1>1, <1>2
<1>4. \A i \in 1 .. Len(q) : r[Len(p) + i] = q[i]
  BY <1>1, <1>2
<1>5. p \o q = r
  BY ONLY <1>1, <1>3, <1>4, Joined
<1> QED BY <1>5 DEF p, q, r

LEMMA Joined4and3 ==
  ASSUME NEW a, NEW b, NEW c, NEW d, NEW e, NEW f, NEW g
  PROVE  <<a, b, c, d>> \o <<e, f, g>> = <<a, b, c, d, e, f, g>>
<1> DEFINE T == {a, b, c, d, e, f, g}
           p == <<a, b, c, d>>  q == <<e, f, g>>  r == <<a, b, c, d, e, f, g>>
<1>1. /\ p \in Seq(T) /\ q \in Seq(T) /\ r \in Seq(T)
      /\ Len(p) = 4 /\ Len(q) = 3 /\ Len(r) = Len(p) + Len(q)
  OBVIOUS
<1>2. r[1] = p[1] /\ r[2] = p[2] /\ r[3] = p[3] /\ r[4] = p[4] /\ r[5] = q[1] /\ r[6] = q[2]
      /\ r[7] = q[3]
  OBVIOUS
<1> HIDE DEF T, p, q, r
<1>3. \A i \in 1 .. Len(p) : r[i] = p[i]
  BY <1>1, <1>2
<1>4. \A i \in 1 .. Len(q) : r[Len(p) + i] = q[i]
  BY <1>1, <1>2
<1>5. p \o q = r
  BY ONLY <1>1, <1>3, <1>4, Joined
<1> QED BY <1>5 DEF p, q, r

LEMMA Joined5and2 ==
  ASSUME NEW a, NEW b, NEW c, NEW d, NEW e, NEW f, NEW g
  PROVE  <<a, b, c, d, e>> \o <<f, g>> = <<a, b, c, d, e, f, g>>
<1> DEFINE T == {a, b, c, d, e, f, g}
           p == <<a, b, c, d, e>>  q == <<f, g>>  r == <<a, b, c, d, e, f, g>>
<1>1. /\ p \in Seq(T) /\ q \in Seq(T) /\ r \in Seq(T)
      /\ Len(p) = 5 /\ Len(q) = 2 /\ Len(r) = Len(p) + Len(q)
  OBVIOUS
<1>2. r[1] = p[1] /\ r[2] = p[2] /\ r[3] = p[3] /\ r[4] = p[4] /\ r[5] = p[5] /\ r[6] = q[1]
      /\ r[7] = q[2]
  OBVIOUS
<1> HIDE DEF T, p, q, r
<1>3. \A i \in 1 .. Len(p) : r[i] = p[i]
  BY <1>1, <1>2
<1>4. \A i \in 1 .. Len(q) : r[Len(p) + i] = q[i]
  BY <1>1, <1>2
<1>5. p \o q = r
  BY ONLY <1>1, <1>3, <1>4, Joined
<1> QED BY <1>5 DEF p, q, r

LEMMA Joined1and2 ==
  ASSUME NEW a, NEW b, NEW c
  PROVE  <<a>> \o <<b, c>> = <<a, b, c>>
<1> DEFINE T == {a, b, c}  p == <<a>>  q == <<b, c>>  r == <<a, b, c>>
<1>1. /\ p \in Seq(T) /\ q \in Seq(T) /\ r \in Seq(T)
      /\ Len(p) = 1 /\ Len(q) = 2 /\ Len(r) = Len(p) + Len(q)
  OBVIOUS
<1>2. r[1] = p[1] /\ r[2] = q[1] /\ r[3] = q[2]
  OBVIOUS
<1> HIDE DEF T, p, q, r
<1>3. \A i \in 1 .. Len(p) : r[i] = p[i]
  BY <1>1, <1>2
<1>4. \A i \in 1 .. Len(q) : r[Len(p) + i] = q[i]
  BY <1>1, <1>2
<1>5. p \o q = r
  BY ONLY <1>1, <1>3, <1>4, Joined
<1> QED BY <1>5 DEF p, q, r

LEMMA Joined3and1 ==
  ASSUME NEW a, NEW b, NEW c, NEW d
  PROVE  <<a, b, c>> \o <<d>> = <<a, b, c, d>>
<1> DEFINE T == {a, b, c, d}  p == <<a, b, c>>  q == <<d>>  r == <<a, b, c, d>>
<1>1. /\ p \in Seq(T) /\ q \in Seq(T) /\ r \in Seq(T)
      /\ Len(p) = 3 /\ Len(q) = 1 /\ Len(r) = Len(p) + Len(q)
  OBVIOUS
<1>2. r[1] = p[1] /\ r[2] = p[2] /\ r[3] = p[3] /\ r[4] = q[1]
  OBVIOUS
<1> HIDE DEF T, p, q, r
<1>3. \A i \in 1 .. Len(p) : r[i] = p[i]
  BY <1>1, <1>2
<1>4. \A i \in 1 .. Len(q) : r[Len(p) + i] = q[i]
  BY <1>1, <1>2
<1>5. p \o q = r
  BY ONLY <1>1, <1>3, <1>4, Joined
<1> QED BY <1>5 DEF p, q, r

LEMMA Joined3and2 ==
  ASSUME NEW a, NEW b, NEW c, NEW d, NEW e
  PROVE  <<a, b, c>> \o <<d, e>> = <<a, b, c, d, e>>
<1> DEFINE T == {a, b, c, d, e}  p == <<a, b, c>>  q == <<d, e>>  r == <<a, b, c, d, e>>
<1>1. /\ p \in Seq(T) /\ q \in Seq(T) /\ r \in Seq(T)
      /\ Len(p) = 3 /\ Len(q) = 2 /\ Len(r) = Len(p) + Len(q)
  OBVIOUS
<1>2. r[1] = p[1] /\ r[2] = p[2] /\ r[3] = p[3] /\ r[4] = q[1] /\ r[5] = q[2]
  OBVIOUS
<1> HIDE DEF T, p, q, r
<1>3. \A i \in 1 .. Len(p) : r[i] = p[i]
  BY <1>1, <1>2
<1>4. \A i \in 1 .. Len(q) : r[Len(p) + i] = q[i]
  BY <1>1, <1>2
<1>5. p \o q = r
  BY ONLY <1>1, <1>3, <1>4, Joined
<1> QED BY <1>5 DEF p, q, r

LEMMA Joined5and1 ==
  ASSUME NEW a, NEW b, NEW c, NEW d, NEW e, NEW f
  PROVE  <<a, b, c, d, e>> \o <<f>> = <<a, b, c, d, e, f>>
<1> DEFINE T == {a, b, c, d, e, f}  p == <<a, b, c, d, e>>  q == <<f>>  r == <<a, b, c, d, e, f>>
<1>1. /\ p \in Seq(T) /\ q \in Seq(T) /\ r \in Seq(T)
      /\ Len(p) = 5 /\ Len(q) = 1 /\ Len(r) = Len(p) + Len(q)
  OBVIOUS
<1>2. r[1] = p[1] /\ r[2] = p[2] /\ r[3] = p[3] /\ r[4] = p[4] /\ r[5] = p[5] /\ r[6] = q[1]
  OBVIOUS
<1> HIDE DEF T, p, q, r
<1>3. \A i \in 1 .. Len(p) : r[i] = p[i]
  BY <1>1, <1>2
<1>4. \A i \in 1 .. Len(q) : r[Len(p) + i] = q[i]
  BY <1>1, <1>2
<1>5. p \o q = r
  BY ONLY <1>1, <1>3, <1>4, Joined
<1> QED BY <1>5 DEF p, q, r

LEMMA Joined7and2 ==
  ASSUME NEW a, NEW b, NEW c, NEW d, NEW e, NEW f, NEW g, NEW h, NEW i
  PROVE  <<a, b, c, d, e, f, g>> \o <<h, i>> = <<a, b, c, d, e, f, g, h, i>>
<1> DEFINE T == {a, b, c, d, e, f, g, h, i}
           p == <<a, b, c, d, e, f, g>>  q == <<h, i>>  r == <<a, b, c, d, e, f, g, h, i>>
<1>1. /\ p \in Seq(T) /\ q \in Seq(T) /\ r \in Seq(T)
      /\ Len(p) = 7 /\ Len(q) = 2 /\ Len(r) = Len(p) + Len(q)
  OBVIOUS
<1>2. r[1] = p[1] /\ r[2] = p[2] /\ r[3] = p[3] /\ r[4] = p[4] /\ r[5] = p[5] /\ r[6] = p[6]
      /\ r[7] = p[7]
      /\ r[8] = q[1] /\ r[9] = q[2]
  OBVIOUS
<1> HIDE DEF T, p, q, r
<1>3. \A n \in 1 .. Len(p) : r[n] = p[n]
  BY <1>1, <1>2
<1>4. \A n \in 1 .. Len(q) : r[Len(p) + n] = q[n]
  BY <1>1, <1>2
<1>5. p \o q = r
  BY ONLY <1>1, <1>3, <1>4, Joined
<1> QED BY <1>5 DEF p, q, r

\* The scripts element by element.
LEMMA DepositScript ==
  ASSUME NEW m
  PROVE  Deposit(m) =
           <<Row("members", m), Row("deposit", m), Ref("MP-"), KeyOf(m)>>
<1>1. Deposit(m) =
           <<Row("members", m), Row("deposit", m)>>
        \o <<Ref("MP-"), KeyOf(m)>>
  BY DEF Deposit, Row, Ref, KeyOf, Post
<1>2. <<Row("members", m), Row("deposit", m)>>
        \o <<Ref("MP-"), KeyOf(m)>>
        = <<Row("members", m), Row("deposit", m), Ref("MP-"), KeyOf(m)>>
  BY Joined2and2
<1> QED BY Zenon, <1>1, <1>2

LEMMA WithdrawalScript ==
  ASSUME NEW m
  PROVE  Withdrawal(m) =
           <<Shared(m), Row("deposit", m), Ref("WD-"), KeyOf(m)>>
<1>1. Withdrawal(m) =
           <<Shared(m), Row("deposit", m)>>
        \o <<Ref("WD-"), KeyOf(m)>>
  BY DEF Withdrawal, Row, Ref, Shared, KeyOf, Post
<1>2. <<Shared(m), Row("deposit", m)>>
        \o <<Ref("WD-"), KeyOf(m)>>
        = <<Shared(m), Row("deposit", m), Ref("WD-"), KeyOf(m)>>
  BY Joined2and2
<1> QED BY Zenon, <1>1, <1>2

LEMMA SettlementScript ==
  ASSUME NEW m
  PROVE  Settlement(m) =
           <<Row("member_exits", m), Row("members", m), Row("deposit", m), Row("shares", m),
             IfNoneOpen(m), Row("loans", m), Ref("WD-"), KeyOf(m), Written(m)>>
<1>1. Settlement(m) =
           <<Row("member_exits", m)>>
        \o <<Row("members", m), Row("deposit", m), Row("shares", m), IfNoneOpen(m),
             Row("loans", m)>>
        \o <<Ref("WD-"), KeyOf(m)>>
        \o <<Written(m)>>
  BY DEF Settlement, Row, Ref, KeyOf, Written, ComputeUnderLocks, Post
<1>2. <<Row("member_exits", m)>>
        \o <<Row("members", m), Row("deposit", m), Row("shares", m), IfNoneOpen(m),
             Row("loans", m)>>
        = <<Row("member_exits", m), Row("members", m), Row("deposit", m), Row("shares", m),
            IfNoneOpen(m), Row("loans", m)>>
  BY Joined1and5
<1>3. <<Row("member_exits", m), Row("members", m), Row("deposit", m), Row("shares", m),
        IfNoneOpen(m), Row("loans", m)>>
        \o <<Ref("WD-"), KeyOf(m)>>
        = <<Row("member_exits", m), Row("members", m), Row("deposit", m), Row("shares", m),
            IfNoneOpen(m), Row("loans", m), Ref("WD-"), KeyOf(m)>>
  BY Joined6and2
<1>4. <<Row("member_exits", m), Row("members", m), Row("deposit", m), Row("shares", m),
        IfNoneOpen(m), Row("loans", m), Ref("WD-"), KeyOf(m)>>
        \o <<Written(m)>>
        = <<Row("member_exits", m), Row("members", m), Row("deposit", m), Row("shares", m),
            IfNoneOpen(m), Row("loans", m), Ref("WD-"), KeyOf(m), Written(m)>>
  BY Joined8and1
<1> QED BY Zenon, <1>1, <1>2, <1>3, <1>4

LEMMA ApplicationScript ==
  ASSUME NEW m
  PROVE  Application(m) =
           <<Shared(m)>>
  BY DEF Application, Shared

LEMMA RejectionScript ==
  ASSUME NEW m
  PROVE  Rejection(m) =
           <<Row("applications", m), IfOpen(m), Written(m)>>
  BY DEF Rejection, Row, Written

LEMMA ReleaseScript ==
  ASSUME NEW m
  PROVE  Release(m) =
           <<Row("applications", m), Row("guarantees", m), IfOpen(m), Row("deposit", m)>>
  BY DEF Release, Row

LEMMA LoanReleaseScript ==
  ASSUME NEW m
  PROVE  LoanRelease(m) = <<Row("applications", m), Row("loans", m), Row("guarantees", m)>>
  BY DEF LoanRelease, Row

LEMMA DisbursementScript ==
  ASSUME NEW m
  PROVE  Disbursement(m) =
           <<Row("applications", m), IfOpen(m), Row("deposit", m), KeyOf(m), Written(m),
             Ref("LN-"), KeyOf(m)>>
<1>1. Disbursement(m) =
           <<Row("applications", m), IfOpen(m), Row("deposit", m), KeyOf(m), Written(m)>>
        \o <<Ref("LN-"), KeyOf(m)>>
  BY DEF Disbursement, Row, Ref, KeyOf, Written, Post
<1>2. <<Row("applications", m), IfOpen(m), Row("deposit", m), KeyOf(m), Written(m)>>
        \o <<Ref("LN-"), KeyOf(m)>>
        = <<Row("applications", m), IfOpen(m), Row("deposit", m), KeyOf(m), Written(m),
            Ref("LN-"), KeyOf(m)>>
  BY Joined5and2
<1> QED BY Zenon, <1>1, <1>2

LEMMA RepaymentScript ==
  ASSUME NEW m
  PROVE  Repayment(m) =
           <<Row("loans", m), Ref("RP-"), KeyOf(m), Written(m)>>
<1>1. Repayment(m) =
           <<Row("loans", m)>>
        \o <<Ref("RP-"), KeyOf(m)>>
        \o <<Written(m)>>
  BY DEF Repayment, Row, Ref, KeyOf, Written, Post
<1>2. <<Row("loans", m)>>
        \o <<Ref("RP-"), KeyOf(m)>>
        = <<Row("loans", m), Ref("RP-"), KeyOf(m)>>
  BY Joined1and2
<1>3. <<Row("loans", m), Ref("RP-"), KeyOf(m)>>
        \o <<Written(m)>>
        = <<Row("loans", m), Ref("RP-"), KeyOf(m), Written(m)>>
  BY Joined3and1
<1> QED BY Zenon, <1>1, <1>2, <1>3

LEMMA AdjustmentScript ==
  ASSUME NEW m
  PROVE  Adjustment(m) =
           <<Row("transactions", m), Shared(m), Row("loans", m), Ref("RP-"), KeyOf(m)>>
<1>1. Adjustment(m) =
           <<Row("transactions", m), Shared(m), Row("loans", m)>>
        \o <<Ref("RP-"), KeyOf(m)>>
  BY DEF Adjustment, Row, Ref, Shared, KeyOf, Post
<1>2. <<Row("transactions", m), Shared(m), Row("loans", m)>>
        \o <<Ref("RP-"), KeyOf(m)>>
        = <<Row("transactions", m), Shared(m), Row("loans", m), Ref("RP-"), KeyOf(m)>>
  BY Joined3and2
<1> QED BY Zenon, <1>1, <1>2

LEMMA WriteOffScript ==
  ASSUME NEW m
  PROVE  WriteOff(m) =
           <<Row("loan_write_offs", m), Row("loans", m), Ref("WO-"), KeyOf(m)>>
<1>1. WriteOff(m) =
           <<Row("loan_write_offs", m), Row("loans", m)>>
        \o <<Ref("WO-"), KeyOf(m)>>
  BY DEF WriteOff, Row, Ref, KeyOf, Post
<1>2. <<Row("loan_write_offs", m), Row("loans", m)>>
        \o <<Ref("WO-"), KeyOf(m)>>
        = <<Row("loan_write_offs", m), Row("loans", m), Ref("WO-"), KeyOf(m)>>
  BY Joined2and2
<1> QED BY Zenon, <1>1, <1>2

LEMMA ReceiptScript ==
  ASSUME NEW m
  PROVE  Receipt(m) =
           <<Row("loan_write_offs", m), Shared(m), Row("loans", m), Ref("RC-"), KeyOf(m),
             Written(m)>>
<1>1. Receipt(m) =
           <<Row("loan_write_offs", m), Shared(m), Row("loans", m)>>
        \o <<Ref("RC-"), KeyOf(m)>>
        \o <<Written(m)>>
  BY DEF Receipt, Row, Ref, Shared, KeyOf, Written, Post
<1>2. <<Row("loan_write_offs", m), Shared(m), Row("loans", m)>>
        \o <<Ref("RC-"), KeyOf(m)>>
        = <<Row("loan_write_offs", m), Shared(m), Row("loans", m), Ref("RC-"), KeyOf(m)>>
  BY Joined3and2
<1>3. <<Row("loan_write_offs", m), Shared(m), Row("loans", m), Ref("RC-"), KeyOf(m)>>
        \o <<Written(m)>>
        = <<Row("loan_write_offs", m), Shared(m), Row("loans", m), Ref("RC-"), KeyOf(m),
            Written(m)>>
  BY Joined5and1
<1> QED BY Zenon, <1>1, <1>2, <1>3

LEMMA PledgeGuaranteeScript ==
  ASSUME NEW m, NEW n
  PROVE  PledgeGuarantee(m, n) =
           <<Row("applications", m), IfOpen(m), Shared(n), Row("deposit", n), KeyOf(n),
             KeyOf(m)>>
<1>1. PledgeGuarantee(m, n) =
           <<Row("applications", m), IfOpen(m), Shared(n)>>
        \o <<Row("deposit", n), KeyOf(n), KeyOf(m)>>
  BY DEF PledgeGuarantee, Row, Shared, KeyOf, Pledge
<1>2. <<Row("applications", m), IfOpen(m), Shared(n)>>
        \o <<Row("deposit", n), KeyOf(n), KeyOf(m)>>
        = <<Row("applications", m), IfOpen(m), Shared(n), Row("deposit", n), KeyOf(n),
            KeyOf(m)>>
  BY Joined3and3
<1> QED BY Zenon, <1>1, <1>2

LEMMA SubstitutionScript ==
  ASSUME NEW m, NEW n
  PROVE  Substitution(m, n) =
           <<Row("applications", m), Row("loans", m), Row("guarantees", m), Shared(n),
             Row("deposit", n), KeyOf(n), KeyOf(m)>>
<1>1. Substitution(m, n) =
           <<Row("applications", m), Row("loans", m), Row("guarantees", m), Shared(n)>>
        \o <<Row("deposit", n), KeyOf(n), KeyOf(m)>>
  BY DEF Substitution, Row, Shared, KeyOf, Pledge
<1>2. <<Row("applications", m), Row("loans", m), Row("guarantees", m), Shared(n)>>
        \o <<Row("deposit", n), KeyOf(n), KeyOf(m)>>
        = <<Row("applications", m), Row("loans", m), Row("guarantees", m), Shared(n),
            Row("deposit", n), KeyOf(n), KeyOf(m)>>
  BY Joined4and3
<1> QED BY Zenon, <1>1, <1>2

LEMMA TransferScript ==
  ASSUME NEW m \in MemberId, NEW n \in MemberId, NEW a, NEW b, InIdOrder(m, n) = <<a, b>>
  PROVE  Transfer(m, n) =
           <<Row("share_transfers", m), Row("members", a), Row("members", b), Row("shares", a),
             Row("shares", b), Ref("ST-"), KeyOf(m), Ref("ST-"), KeyOf(n)>>
<1>1. \A t : [i \in 1 .. 2 |-> Lock(t, <<a, b>>[i], "update")] = <<Row(t, a), Row(t, b)>>
  BY DEF Row
<1>2. Transfer(m, n) =
           <<Row("share_transfers", m)>>
        \o <<Row("members", a), Row("members", b)>>
        \o <<Row("shares", a), Row("shares", b)>>
        \o <<Ref("ST-"), KeyOf(m)>>
        \o <<Ref("ST-"), KeyOf(n)>>
  BY <1>1 DEF Transfer, Row, Ref, KeyOf, Post
<1>3. <<Row("share_transfers", m)>>
        \o <<Row("members", a), Row("members", b)>>
        = <<Row("share_transfers", m), Row("members", a), Row("members", b)>>
  BY Joined1and2
<1>4. <<Row("share_transfers", m), Row("members", a), Row("members", b)>>
        \o <<Row("shares", a), Row("shares", b)>>
        = <<Row("share_transfers", m), Row("members", a), Row("members", b), Row("shares", a),
            Row("shares", b)>>
  BY Joined3and2
<1>5. <<Row("share_transfers", m), Row("members", a), Row("members", b), Row("shares", a),
        Row("shares", b)>>
        \o <<Ref("ST-"), KeyOf(m)>>
        = <<Row("share_transfers", m), Row("members", a), Row("members", b), Row("shares", a),
            Row("shares", b), Ref("ST-"), KeyOf(m)>>
  BY Joined5and2
<1>6. <<Row("share_transfers", m), Row("members", a), Row("members", b), Row("shares", a),
        Row("shares", b), Ref("ST-"), KeyOf(m)>>
        \o <<Ref("ST-"), KeyOf(n)>>
        = <<Row("share_transfers", m), Row("members", a), Row("members", b), Row("shares", a),
            Row("shares", b), Ref("ST-"), KeyOf(m), Ref("ST-"), KeyOf(n)>>
  BY Joined7and2
<1> QED BY Zenon, <1>2, <1>3, <1>4, <1>5, <1>6

\* A lock of L is at least as strong as w: whoever has L has w without waiting.
Covered(w, L) ==
  \E l \in L : l.table = w.table /\ l.key = w.key /\ l.mode \in Mode
              /\ ConflictsWith[w.mode] \subseteq ConflictsWith[l.mode]

LEMMA CoveredLocks ==
  /\ \A m, L : Row("members", m) \in L \/ Shared(m) \in L \/ KeyOf(m) \in L
                => Covered(KeyOf(m), L)
  /\ \A p, L : Ref(p) \in L => Covered(Ref(p), L)
<1>1. ConflictsWith["key share"] \subseteq ConflictsWith["share"]
      /\ ConflictsWith["key share"] \subseteq ConflictsWith["update"]
  BY DEF ConflictsWith, Mode
<1>2. ASSUME NEW m, NEW L, Row("members", m) \in L \/ Shared(m) \in L \/ KeyOf(m) \in L
      PROVE Covered(KeyOf(m), L)
  <2>1. PICK l \in L : l = Row("members", m) \/ l = Shared(m) \/ l = KeyOf(m)
    BY <1>2
  <2>2. /\ KeyOf(m).table = "members" /\ KeyOf(m).key = m /\ KeyOf(m).mode = "key share"
        /\ Shared(m).table = "members" /\ Shared(m).key = m /\ Shared(m).mode = "share"
        /\ Row("members", m).table = "members" /\ Row("members", m).key = m
        /\ Row("members", m).mode = "update"
    BY DEF KeyOf, Row, Shared, Lock
  <2>3. "key share" \in Mode /\ "share" \in Mode /\ "update" \in Mode
    BY DEF Mode
  <2> QED BY <2>3, <1>1, <2>1, <2>2 DEF Covered
<1>3. \A p, L : Ref(p) \in L => Covered(Ref(p), L)
  <2>1. \A p : Ref(p).mode \in Mode
    BY DEF Ref, Lock, Mode
  <2> QED BY <2>1 DEF Covered
<1> QED BY <1>2, <1>3

LEMMA LockTables ==
  /\ \A t, m : Row(t, m).table = t
  /\ \A m : Shared(m).table = "members" /\ KeyOf(m).table = "members"
            /\ Written(m).table = "guarantees"
  /\ \A p : Ref(p).table = "ref"
  /\ \A m : IfOpen(m).table = "check" /\ IfNoneOpen(m).table = "check"
  BY DEF Row, Ref, Shared, KeyOf, Written, Lock, IfOpen, IfNoneOpen

\* Where a waiting call is in its script gives what it waits for and what it has.
LEMMA Position ==
  ASSUME NEW s, NEW sc, NEW k, Reached(s, sc, k), Waiting(s)
  PROVE  k \in Nat /\ k < Len(sc) /\ Head(todo[s]) = sc[k + 1] /\ sc[k + 1].table # "check"
<1> DEFINE n == Len(sc)
<1>1. k \in 0 .. n /\ Len(todo[s]) = n - k /\ held[s] = LocksOf(sc, k)
      /\ (\A i \in 1 .. n - k : todo[s][i] = sc[k + i]) /\ todo[s] # <<>>
  BY DEF Reached, Waiting
<1>2. k # n
  BY <1>1 DEF Reached
<1>0. n \in Int
  BY <1>1 DEF Reached
<1>3. 1 \in 1 .. n - k
  BY <1>1, <1>2, <1>0
<1>4. Head(todo[s]) = todo[s][1] /\ todo[s][1] = sc[k + 1]
  BY <1>1, <1>3 DEF Reached
<1> QED BY <1>1, <1>2, <1>4, <1>0 DEF Waiting

LEMMA PositionCount ==
  ASSUME NEW s, NEW sc, NEW k, Reached(s, sc, k), Waiting(s)
  PROVE  k \in Nat /\ k < Len(sc)
  BY Position

LEMMA PositionHead ==
  ASSUME NEW s, NEW sc, NEW k, Reached(s, sc, k), Waiting(s)
  PROVE  Head(todo[s]) = sc[k + 1]
  BY Position

LEMMA PositionLock ==
  ASSUME NEW s, NEW sc, NEW k, Reached(s, sc, k), Waiting(s)
  PROVE  sc[k + 1].table # "check"
  BY Position

LEMMA PositionHeld ==
  ASSUME NEW s, NEW sc, NEW k, Reached(s, sc, k)
  PROVE  held[s] = LocksOf(sc, k)
  BY DEF Reached

LEMMA FirstLocks ==
  ASSUME NEW sc
  PROVE  /\ LocksOf(sc, 0) = {}
         /\ sc[1].table = "check" => LocksOf(sc, 1) = LocksOf(sc, 0)
         /\ sc[1].table # "check" => LocksOf(sc, 1) = LocksOf(sc, 0) \union {sc[1]}
         /\ sc[2].table = "check" => LocksOf(sc, 2) = LocksOf(sc, 1)
         /\ sc[2].table # "check" => LocksOf(sc, 2) = LocksOf(sc, 1) \union {sc[2]}
         /\ sc[3].table = "check" => LocksOf(sc, 3) = LocksOf(sc, 2)
         /\ sc[3].table # "check" => LocksOf(sc, 3) = LocksOf(sc, 2) \union {sc[3]}
         /\ sc[4].table = "check" => LocksOf(sc, 4) = LocksOf(sc, 3)
         /\ sc[4].table # "check" => LocksOf(sc, 4) = LocksOf(sc, 3) \union {sc[4]}
         /\ sc[5].table = "check" => LocksOf(sc, 5) = LocksOf(sc, 4)
         /\ sc[5].table # "check" => LocksOf(sc, 5) = LocksOf(sc, 4) \union {sc[5]}
         /\ sc[6].table = "check" => LocksOf(sc, 6) = LocksOf(sc, 5)
         /\ sc[6].table # "check" => LocksOf(sc, 6) = LocksOf(sc, 5) \union {sc[6]}
         /\ sc[7].table = "check" => LocksOf(sc, 7) = LocksOf(sc, 6)
         /\ sc[7].table # "check" => LocksOf(sc, 7) = LocksOf(sc, 6) \union {sc[7]}
         /\ sc[8].table = "check" => LocksOf(sc, 8) = LocksOf(sc, 7)
         /\ sc[8].table # "check" => LocksOf(sc, 8) = LocksOf(sc, 7) \union {sc[8]}
<1>1. \A k \in Nat : /\ sc[k + 1].table = "check" => LocksOf(sc, k + 1) = LocksOf(sc, k)
                     /\ sc[k + 1].table # "check" => LocksOf(sc, k + 1) = LocksOf(sc, k) \union {sc[k + 1]}
  BY LocksOfNext
<1>2. 0 + 1 = 1 /\ 1 + 1 = 2 /\ 2 + 1 = 3 /\ 3 + 1 = 4 /\ 4 + 1 = 5 /\ 5 + 1 = 6 /\ 6 + 1 = 7
      /\ 7 + 1 = 8
  OBVIOUS
<1>3. 0 \in Nat /\ 1 \in Nat /\ 2 \in Nat /\ 3 \in Nat /\ 4 \in Nat /\ 5 \in Nat /\ 6 \in Nat
      /\ 7 \in Nat
  OBVIOUS
<1>4. LocksOf(sc, 0) = {}
  BY LocksOfNext
<1> QED BY Zenon, <1>1, <1>2, <1>3, <1>4

\* Handler by handler: a call that waits holds nothing, has what it asks for, or is
\* at a place the levels name.
LEMMA DepositPostures ==
  ASSUME NEW s, NEW m, NEW k, Reached(s, Deposit(m), k), Waiting(s)
  PROVE  \/ held[s] = {} \/ Covered(Head(todo[s]), held[s])
         \/ \E v \in Nat : DepositWaits(m, Head(todo[s]), held[s], v)
<1>0. PICK sc : sc =
        <<Row("members", m), Row("deposit", m), Ref("MP-"), KeyOf(m)>>
  OBVIOUS
<1>1. Reached(s, sc, k)
  BY <1>0, DepositScript
<1>2. /\ Len(sc) = 4
      /\ sc[1] = Row("members", m)
      /\ sc[2] = Row("deposit", m)
      /\ sc[3] = Ref("MP-")
      /\ sc[4] = KeyOf(m)
  BY <1>0
<1>3. /\ k \in Nat /\ k < 4 /\ Head(todo[s]) = sc[k + 1]
      /\ held[s] = LocksOf(sc, k) /\ sc[k + 1].table # "check"
  <2>1. Len(sc) = 4
    BY <1>2
  <2>2. k \in Nat /\ k < Len(sc)
    BY <1>1, PositionCount
  <2>3. Head(todo[s]) = sc[k + 1]
    BY <1>1, PositionHead
  <2>4. sc[k + 1].table # "check"
    BY <1>1, PositionLock
  <2>5. held[s] = LocksOf(sc, k)
    BY <1>1, PositionHeld
  <2> QED BY <2>1, <2>2, <2>3, <2>4, <2>5
<1>4. /\ sc[1].table # "check"
      /\ sc[2].table # "check"
      /\ sc[3].table # "check"
      /\ sc[4].table # "check"
  BY <1>2, LockTables
<1>5. /\ LocksOf(sc, 0) = {}
      /\ LocksOf(sc, 1) = LocksOf(sc, 0) \union {sc[1]}
      /\ LocksOf(sc, 2) = LocksOf(sc, 1) \union {sc[2]}
      /\ LocksOf(sc, 3) = LocksOf(sc, 2) \union {sc[3]}
  BY <1>4, FirstLocks
<1>6. /\ LocksOf(sc, 1) = {Row("members", m)}
      /\ LocksOf(sc, 2) = {Row("members", m), Row("deposit", m)}
      /\ LocksOf(sc, 3) = {Row("members", m), Row("deposit", m), Ref("MP-")}
  BY <1>2, <1>5
<1>7. CASE k = 0
  BY <1>3, <1>5, <1>7
<1>8. CASE k = 1
  BY <1>2, <1>3, <1>6, <1>8, LockAssumption DEF DepositWaits
<1>9. CASE k = 2
  BY <1>2, <1>3, <1>6, <1>9, LockAssumption DEF DepositWaits
<1>10. CASE k = 3
  BY <1>2, <1>3, <1>6, <1>10, CoveredLocks
<1> QED BY <1>3, <1>4, <1>7, <1>8, <1>9, <1>10

LEMMA WithdrawalPostures ==
  ASSUME NEW s, NEW m, NEW k, Reached(s, Withdrawal(m), k), Waiting(s)
  PROVE  \/ held[s] = {} \/ Covered(Head(todo[s]), held[s])
         \/ \E v \in Nat : WithdrawalWaits(m, Head(todo[s]), held[s], v)
<1>0. PICK sc : sc =
        <<Shared(m), Row("deposit", m), Ref("WD-"), KeyOf(m)>>
  OBVIOUS
<1>1. Reached(s, sc, k)
  BY <1>0, WithdrawalScript
<1>2. /\ Len(sc) = 4
      /\ sc[1] = Shared(m)
      /\ sc[2] = Row("deposit", m)
      /\ sc[3] = Ref("WD-")
      /\ sc[4] = KeyOf(m)
  BY <1>0
<1>3. /\ k \in Nat /\ k < 4 /\ Head(todo[s]) = sc[k + 1]
      /\ held[s] = LocksOf(sc, k) /\ sc[k + 1].table # "check"
  <2>1. Len(sc) = 4
    BY <1>2
  <2>2. k \in Nat /\ k < Len(sc)
    BY <1>1, PositionCount
  <2>3. Head(todo[s]) = sc[k + 1]
    BY <1>1, PositionHead
  <2>4. sc[k + 1].table # "check"
    BY <1>1, PositionLock
  <2>5. held[s] = LocksOf(sc, k)
    BY <1>1, PositionHeld
  <2> QED BY <2>1, <2>2, <2>3, <2>4, <2>5
<1>4. /\ sc[1].table # "check"
      /\ sc[2].table # "check"
      /\ sc[3].table # "check"
      /\ sc[4].table # "check"
  BY <1>2, LockTables
<1>5. /\ LocksOf(sc, 0) = {}
      /\ LocksOf(sc, 1) = LocksOf(sc, 0) \union {sc[1]}
      /\ LocksOf(sc, 2) = LocksOf(sc, 1) \union {sc[2]}
      /\ LocksOf(sc, 3) = LocksOf(sc, 2) \union {sc[3]}
  BY <1>4, FirstLocks
<1>6. /\ LocksOf(sc, 1) = {Shared(m)}
      /\ LocksOf(sc, 2) = {Shared(m), Row("deposit", m)}
      /\ LocksOf(sc, 3) = {Shared(m), Row("deposit", m), Ref("WD-")}
  BY <1>2, <1>5
<1>7. CASE k = 0
  BY <1>3, <1>5, <1>7
<1>8. CASE k = 1
  BY <1>2, <1>3, <1>6, <1>8, LockAssumption DEF WithdrawalWaits
<1>9. CASE k = 2
  BY <1>2, <1>3, <1>6, <1>9, LockAssumption DEF WithdrawalWaits
<1>10. CASE k = 3
  BY <1>2, <1>3, <1>6, <1>10, CoveredLocks
<1> QED BY <1>3, <1>4, <1>7, <1>8, <1>9, <1>10

LEMMA SettlementPostures ==
  ASSUME NEW s, NEW m, NEW k, Reached(s, Settlement(m), k), Waiting(s)
  PROVE  \/ held[s] = {} \/ Covered(Head(todo[s]), held[s])
         \/ \E v \in Nat : SettlementWaits(m, Head(todo[s]), held[s], v)
<1>0. PICK sc : sc =
        <<Row("member_exits", m), Row("members", m), Row("deposit", m), Row("shares", m),
          IfNoneOpen(m), Row("loans", m), Ref("WD-"), KeyOf(m), Written(m)>>
  OBVIOUS
<1>1. Reached(s, sc, k)
  BY <1>0, SettlementScript
<1>2. /\ Len(sc) = 9
      /\ sc[1] = Row("member_exits", m)
      /\ sc[2] = Row("members", m)
      /\ sc[3] = Row("deposit", m)
      /\ sc[4] = Row("shares", m)
      /\ sc[5] = IfNoneOpen(m)
      /\ sc[6] = Row("loans", m)
      /\ sc[7] = Ref("WD-")
      /\ sc[8] = KeyOf(m)
      /\ sc[9] = Written(m)
  BY <1>0
<1>3. /\ k \in Nat /\ k < 9 /\ Head(todo[s]) = sc[k + 1]
      /\ held[s] = LocksOf(sc, k) /\ sc[k + 1].table # "check"
  <2>1. Len(sc) = 9
    BY <1>2
  <2>2. k \in Nat /\ k < Len(sc)
    BY <1>1, PositionCount
  <2>3. Head(todo[s]) = sc[k + 1]
    BY <1>1, PositionHead
  <2>4. sc[k + 1].table # "check"
    BY <1>1, PositionLock
  <2>5. held[s] = LocksOf(sc, k)
    BY <1>1, PositionHeld
  <2> QED BY <2>1, <2>2, <2>3, <2>4, <2>5
<1>4. /\ sc[1].table # "check"
      /\ sc[2].table # "check"
      /\ sc[3].table # "check"
      /\ sc[4].table # "check"
      /\ sc[5].table = "check"
      /\ sc[6].table # "check"
      /\ sc[7].table # "check"
      /\ sc[8].table # "check"
      /\ sc[9].table # "check"
  BY <1>2, LockTables
<1>5. /\ LocksOf(sc, 0) = {}
      /\ LocksOf(sc, 1) = LocksOf(sc, 0) \union {sc[1]}
      /\ LocksOf(sc, 2) = LocksOf(sc, 1) \union {sc[2]}
      /\ LocksOf(sc, 3) = LocksOf(sc, 2) \union {sc[3]}
      /\ LocksOf(sc, 4) = LocksOf(sc, 3) \union {sc[4]}
      /\ LocksOf(sc, 5) = LocksOf(sc, 4)
      /\ LocksOf(sc, 6) = LocksOf(sc, 5) \union {sc[6]}
      /\ LocksOf(sc, 7) = LocksOf(sc, 6) \union {sc[7]}
      /\ LocksOf(sc, 8) = LocksOf(sc, 7) \union {sc[8]}
  BY <1>4, FirstLocks
<1>6. /\ LocksOf(sc, 1) = {Row("member_exits", m)}
      /\ LocksOf(sc, 2) = {Row("member_exits", m), Row("members", m)}
      /\ LocksOf(sc, 3) = {Row("member_exits", m), Row("members", m), Row("deposit", m)}
      /\ LocksOf(sc, 4) = {Row("member_exits", m), Row("members", m), Row("deposit", m),
                           Row("shares", m)}
      /\ LocksOf(sc, 5) = {Row("member_exits", m), Row("members", m), Row("deposit", m),
                           Row("shares", m)}
      /\ LocksOf(sc, 6) = {Row("member_exits", m), Row("members", m), Row("deposit", m),
                           Row("shares", m), Row("loans", m)}
      /\ LocksOf(sc, 7) = {Row("member_exits", m), Row("members", m), Row("deposit", m),
                           Row("shares", m), Row("loans", m), Ref("WD-")}
      /\ LocksOf(sc, 8) = {Row("member_exits", m), Row("members", m), Row("deposit", m),
                           Row("shares", m), Row("loans", m), Ref("WD-"), KeyOf(m)}
  BY <1>2, <1>5
<1>7. CASE k = 0
  BY <1>3, <1>5, <1>7
<1>8. CASE k = 1
  BY <1>2, <1>3, <1>6, <1>8, LockAssumption DEF SettlementWaits
<1>9. CASE k = 2
  BY <1>2, <1>3, <1>6, <1>9, LockAssumption DEF SettlementWaits
<1>10. CASE k = 3
  BY <1>2, <1>3, <1>6, <1>10, LockAssumption DEF SettlementWaits
<1>11. CASE k = 5
  BY <1>2, <1>3, <1>6, <1>11, LockAssumption DEF SettlementWaits
<1>12. CASE k = 6
  BY <1>2, <1>3, <1>6, <1>12, LockAssumption DEF SettlementWaits
<1>13. CASE k = 7
  BY <1>2, <1>3, <1>6, <1>13, CoveredLocks
<1>14. CASE k = 8
  BY <1>2, <1>3, <1>6, <1>14, LockAssumption DEF SettlementWaits
<1> QED BY <1>3, <1>4, <1>7, <1>8, <1>9, <1>10, <1>11, <1>12, <1>13, <1>14

LEMMA RejectionPostures ==
  ASSUME NEW s, NEW m, NEW k, Reached(s, Rejection(m), k), Waiting(s)
  PROVE  \/ held[s] = {} \/ Covered(Head(todo[s]), held[s])
         \/ \E v \in Nat : RejectionWaits(m, Head(todo[s]), held[s], v)
<1>0. PICK sc : sc =
        <<Row("applications", m), IfOpen(m), Written(m)>>
  OBVIOUS
<1>1. Reached(s, sc, k)
  BY <1>0, RejectionScript
<1>2. /\ Len(sc) = 3
      /\ sc[1] = Row("applications", m)
      /\ sc[2] = IfOpen(m)
      /\ sc[3] = Written(m)
  BY <1>0
<1>3. /\ k \in Nat /\ k < 3 /\ Head(todo[s]) = sc[k + 1]
      /\ held[s] = LocksOf(sc, k) /\ sc[k + 1].table # "check"
  <2>1. Len(sc) = 3
    BY <1>2
  <2>2. k \in Nat /\ k < Len(sc)
    BY <1>1, PositionCount
  <2>3. Head(todo[s]) = sc[k + 1]
    BY <1>1, PositionHead
  <2>4. sc[k + 1].table # "check"
    BY <1>1, PositionLock
  <2>5. held[s] = LocksOf(sc, k)
    BY <1>1, PositionHeld
  <2> QED BY <2>1, <2>2, <2>3, <2>4, <2>5
<1>4. /\ sc[1].table # "check"
      /\ sc[2].table = "check"
      /\ sc[3].table # "check"
  BY <1>2, LockTables
<1>5. /\ LocksOf(sc, 0) = {}
      /\ LocksOf(sc, 1) = LocksOf(sc, 0) \union {sc[1]}
      /\ LocksOf(sc, 2) = LocksOf(sc, 1)
  BY <1>4, FirstLocks
<1>6. /\ LocksOf(sc, 1) = {Row("applications", m)}
      /\ LocksOf(sc, 2) = {Row("applications", m)}
  BY <1>2, <1>5
<1>7. CASE k = 0
  BY <1>3, <1>5, <1>7
<1>8. CASE k = 2
  BY <1>2, <1>3, <1>6, <1>8, LockAssumption DEF RejectionWaits
<1> QED BY <1>3, <1>4, <1>7, <1>8

LEMMA ReleasePostures ==
  ASSUME NEW s, NEW m, NEW k, Reached(s, Release(m), k), Waiting(s)
  PROVE  \/ held[s] = {} \/ Covered(Head(todo[s]), held[s])
         \/ \E v \in Nat : ReleaseWaits(m, Head(todo[s]), held[s], v)
<1>0. PICK sc : sc =
        <<Row("applications", m), Row("guarantees", m), IfOpen(m), Row("deposit", m)>>
  OBVIOUS
<1>1. Reached(s, sc, k)
  BY <1>0, ReleaseScript
<1>2. /\ Len(sc) = 4
      /\ sc[1] = Row("applications", m)
      /\ sc[2] = Row("guarantees", m)
      /\ sc[3] = IfOpen(m)
      /\ sc[4] = Row("deposit", m)
  BY <1>0
<1>3. /\ k \in Nat /\ k < 4 /\ Head(todo[s]) = sc[k + 1]
      /\ held[s] = LocksOf(sc, k) /\ sc[k + 1].table # "check"
  <2>1. Len(sc) = 4
    BY <1>2
  <2>2. k \in Nat /\ k < Len(sc)
    BY <1>1, PositionCount
  <2>3. Head(todo[s]) = sc[k + 1]
    BY <1>1, PositionHead
  <2>4. sc[k + 1].table # "check"
    BY <1>1, PositionLock
  <2>5. held[s] = LocksOf(sc, k)
    BY <1>1, PositionHeld
  <2> QED BY <2>1, <2>2, <2>3, <2>4, <2>5
<1>4. /\ sc[1].table # "check"
      /\ sc[2].table # "check"
      /\ sc[3].table = "check"
      /\ sc[4].table # "check"
  BY <1>2, LockTables
<1>5. /\ LocksOf(sc, 0) = {}
      /\ LocksOf(sc, 1) = LocksOf(sc, 0) \union {sc[1]}
      /\ LocksOf(sc, 2) = LocksOf(sc, 1) \union {sc[2]}
      /\ LocksOf(sc, 3) = LocksOf(sc, 2)
  BY <1>4, FirstLocks
<1>6. /\ LocksOf(sc, 1) = {Row("applications", m)}
      /\ LocksOf(sc, 2) = {Row("applications", m), Row("guarantees", m)}
      /\ LocksOf(sc, 3) = {Row("applications", m), Row("guarantees", m)}
  BY <1>2, <1>5
<1>7. CASE k = 0
  BY <1>3, <1>5, <1>7
<1>8. CASE k = 1
  BY <1>2, <1>3, <1>6, <1>8, LockAssumption DEF ReleaseWaits
<1>9. CASE k = 3
  BY <1>2, <1>3, <1>6, <1>9, LockAssumption DEF ReleaseWaits
<1> QED BY <1>3, <1>4, <1>7, <1>8, <1>9

LEMMA LoanReleasePostures ==
  ASSUME NEW s, NEW m, NEW k, Reached(s, LoanRelease(m), k), Waiting(s)
  PROVE  \/ held[s] = {} \/ Covered(Head(todo[s]), held[s])
         \/ \E v \in Nat : LoanReleaseWaits(m, Head(todo[s]), held[s], v)
<1>0. PICK sc : sc = <<Row("applications", m), Row("loans", m), Row("guarantees", m)>>
  OBVIOUS
<1>1. Reached(s, sc, k)
  BY <1>0, LoanReleaseScript
<1>2. /\ Len(sc) = 3
      /\ sc[1] = Row("applications", m)
      /\ sc[2] = Row("loans", m)
      /\ sc[3] = Row("guarantees", m)
  BY <1>0
<1>3. /\ k \in Nat /\ k < 3 /\ Head(todo[s]) = sc[k + 1]
      /\ held[s] = LocksOf(sc, k) /\ sc[k + 1].table # "check"
  <2>1. Len(sc) = 3
    BY <1>2
  <2>2. k \in Nat /\ k < Len(sc)
    BY <1>1, PositionCount
  <2>3. Head(todo[s]) = sc[k + 1]
    BY <1>1, PositionHead
  <2>4. sc[k + 1].table # "check"
    BY <1>1, PositionLock
  <2>5. held[s] = LocksOf(sc, k)
    BY <1>1, PositionHeld
  <2> QED BY <2>1, <2>2, <2>3, <2>4, <2>5
<1>4. /\ sc[1].table # "check"
      /\ sc[2].table # "check"
  BY <1>2, LockTables
<1>5. /\ LocksOf(sc, 0) = {}
      /\ LocksOf(sc, 1) = LocksOf(sc, 0) \union {sc[1]}
      /\ LocksOf(sc, 2) = LocksOf(sc, 1) \union {sc[2]}
  BY <1>4, FirstLocks
<1>6. /\ LocksOf(sc, 1) = {Row("applications", m)}
      /\ LocksOf(sc, 2) = {Row("applications", m), Row("loans", m)}
  BY <1>2, <1>5
<1>7. CASE k = 0
  BY <1>3, <1>5, <1>7
<1>8. CASE k = 1
  BY <1>2, <1>3, <1>6, <1>8, LockAssumption DEF LoanReleaseWaits
<1>9. CASE k = 2
  BY <1>2, <1>3, <1>6, <1>9, LockAssumption DEF LoanReleaseWaits
<1> QED BY <1>3, <1>7, <1>8, <1>9

LEMMA DisbursementPostures ==
  ASSUME NEW s, NEW m, NEW k, Reached(s, Disbursement(m), k), Waiting(s)
  PROVE  \/ held[s] = {} \/ Covered(Head(todo[s]), held[s])
         \/ \E v \in Nat : DisbursementWaits(m, Head(todo[s]), held[s], v)
<1>0. PICK sc : sc =
        <<Row("applications", m), IfOpen(m), Row("deposit", m), KeyOf(m), Written(m),
          Ref("LN-"), KeyOf(m)>>
  OBVIOUS
<1>1. Reached(s, sc, k)
  BY <1>0, DisbursementScript
<1>2. /\ Len(sc) = 7
      /\ sc[1] = Row("applications", m)
      /\ sc[2] = IfOpen(m)
      /\ sc[3] = Row("deposit", m)
      /\ sc[4] = KeyOf(m)
      /\ sc[5] = Written(m)
      /\ sc[6] = Ref("LN-")
      /\ sc[7] = KeyOf(m)
  BY <1>0
<1>3. /\ k \in Nat /\ k < 7 /\ Head(todo[s]) = sc[k + 1]
      /\ held[s] = LocksOf(sc, k) /\ sc[k + 1].table # "check"
  <2>1. Len(sc) = 7
    BY <1>2
  <2>2. k \in Nat /\ k < Len(sc)
    BY <1>1, PositionCount
  <2>3. Head(todo[s]) = sc[k + 1]
    BY <1>1, PositionHead
  <2>4. sc[k + 1].table # "check"
    BY <1>1, PositionLock
  <2>5. held[s] = LocksOf(sc, k)
    BY <1>1, PositionHeld
  <2> QED BY <2>1, <2>2, <2>3, <2>4, <2>5
<1>4. /\ sc[1].table # "check"
      /\ sc[2].table = "check"
      /\ sc[3].table # "check"
      /\ sc[4].table # "check"
      /\ sc[5].table # "check"
      /\ sc[6].table # "check"
      /\ sc[7].table # "check"
  BY <1>2, LockTables
<1>5. /\ LocksOf(sc, 0) = {}
      /\ LocksOf(sc, 1) = LocksOf(sc, 0) \union {sc[1]}
      /\ LocksOf(sc, 2) = LocksOf(sc, 1)
      /\ LocksOf(sc, 3) = LocksOf(sc, 2) \union {sc[3]}
      /\ LocksOf(sc, 4) = LocksOf(sc, 3) \union {sc[4]}
      /\ LocksOf(sc, 5) = LocksOf(sc, 4) \union {sc[5]}
      /\ LocksOf(sc, 6) = LocksOf(sc, 5) \union {sc[6]}
  BY <1>4, FirstLocks
<1>6. /\ LocksOf(sc, 1) = {Row("applications", m)}
      /\ LocksOf(sc, 2) = {Row("applications", m)}
      /\ LocksOf(sc, 3) = {Row("applications", m), Row("deposit", m)}
      /\ LocksOf(sc, 4) = {Row("applications", m), Row("deposit", m), KeyOf(m)}
      /\ LocksOf(sc, 5) = {Row("applications", m), Row("deposit", m), KeyOf(m), Written(m)}
      /\ LocksOf(sc, 6) = {Row("applications", m), Row("deposit", m), KeyOf(m), Written(m),
                           Ref("LN-")}
  BY <1>2, <1>5
<1>7. CASE k = 0
  BY <1>3, <1>5, <1>7
<1>8. CASE k = 2
  BY <1>2, <1>3, <1>6, <1>8, LockAssumption DEF DisbursementWaits
<1>9. CASE k = 3
  BY <1>2, <1>3, <1>6, <1>9, LockAssumption DEF DisbursementWaits
<1>10. CASE k = 4
  BY <1>2, <1>3, <1>6, <1>10, LockAssumption DEF DisbursementWaits
<1>11. CASE k = 5
  BY <1>2, <1>3, <1>6, <1>11, LockAssumption DEF DisbursementWaits
<1>12. CASE k = 6
  BY <1>2, <1>3, <1>6, <1>12, CoveredLocks
<1> QED BY <1>3, <1>4, <1>7, <1>8, <1>9, <1>10, <1>11, <1>12

LEMMA RepaymentPostures ==
  ASSUME NEW s, NEW m, NEW k, Reached(s, Repayment(m), k), Waiting(s)
  PROVE  \/ held[s] = {} \/ Covered(Head(todo[s]), held[s])
         \/ \E v \in Nat : RepaymentWaits(m, Head(todo[s]), held[s], v)
<1>0. PICK sc : sc =
        <<Row("loans", m), Ref("RP-"), KeyOf(m), Written(m)>>
  OBVIOUS
<1>1. Reached(s, sc, k)
  BY <1>0, RepaymentScript
<1>2. /\ Len(sc) = 4
      /\ sc[1] = Row("loans", m)
      /\ sc[2] = Ref("RP-")
      /\ sc[3] = KeyOf(m)
      /\ sc[4] = Written(m)
  BY <1>0
<1>3. /\ k \in Nat /\ k < 4 /\ Head(todo[s]) = sc[k + 1]
      /\ held[s] = LocksOf(sc, k) /\ sc[k + 1].table # "check"
  <2>1. Len(sc) = 4
    BY <1>2
  <2>2. k \in Nat /\ k < Len(sc)
    BY <1>1, PositionCount
  <2>3. Head(todo[s]) = sc[k + 1]
    BY <1>1, PositionHead
  <2>4. sc[k + 1].table # "check"
    BY <1>1, PositionLock
  <2>5. held[s] = LocksOf(sc, k)
    BY <1>1, PositionHeld
  <2> QED BY <2>1, <2>2, <2>3, <2>4, <2>5
<1>4. /\ sc[1].table # "check"
      /\ sc[2].table # "check"
      /\ sc[3].table # "check"
      /\ sc[4].table # "check"
  BY <1>2, LockTables
<1>5. /\ LocksOf(sc, 0) = {}
      /\ LocksOf(sc, 1) = LocksOf(sc, 0) \union {sc[1]}
      /\ LocksOf(sc, 2) = LocksOf(sc, 1) \union {sc[2]}
      /\ LocksOf(sc, 3) = LocksOf(sc, 2) \union {sc[3]}
  BY <1>4, FirstLocks
<1>6. /\ LocksOf(sc, 1) = {Row("loans", m)}
      /\ LocksOf(sc, 2) = {Row("loans", m), Ref("RP-")}
      /\ LocksOf(sc, 3) = {Row("loans", m), Ref("RP-"), KeyOf(m)}
  BY <1>2, <1>5
<1>7. CASE k = 0
  BY <1>3, <1>5, <1>7
<1>8. CASE k = 1
  BY <1>2, <1>3, <1>6, <1>8, LockAssumption DEF RepaymentWaits
<1>9. CASE k = 2
  BY <1>2, <1>3, <1>6, <1>9, LockAssumption DEF RepaymentWaits
<1>10. CASE k = 3
  BY <1>2, <1>3, <1>6, <1>10, LockAssumption DEF RepaymentWaits
<1> QED BY <1>3, <1>4, <1>7, <1>8, <1>9, <1>10

LEMMA AdjustmentPostures ==
  ASSUME NEW s, NEW m, NEW k, Reached(s, Adjustment(m), k), Waiting(s)
  PROVE  \/ held[s] = {} \/ Covered(Head(todo[s]), held[s])
         \/ \E v \in Nat : AdjustmentWaits(m, Head(todo[s]), held[s], v)
<1>0. PICK sc : sc =
        <<Row("transactions", m), Shared(m), Row("loans", m), Ref("RP-"), KeyOf(m)>>
  OBVIOUS
<1>1. Reached(s, sc, k)
  BY <1>0, AdjustmentScript
<1>2. /\ Len(sc) = 5
      /\ sc[1] = Row("transactions", m)
      /\ sc[2] = Shared(m)
      /\ sc[3] = Row("loans", m)
      /\ sc[4] = Ref("RP-")
      /\ sc[5] = KeyOf(m)
  BY <1>0
<1>3. /\ k \in Nat /\ k < 5 /\ Head(todo[s]) = sc[k + 1]
      /\ held[s] = LocksOf(sc, k) /\ sc[k + 1].table # "check"
  <2>1. Len(sc) = 5
    BY <1>2
  <2>2. k \in Nat /\ k < Len(sc)
    BY <1>1, PositionCount
  <2>3. Head(todo[s]) = sc[k + 1]
    BY <1>1, PositionHead
  <2>4. sc[k + 1].table # "check"
    BY <1>1, PositionLock
  <2>5. held[s] = LocksOf(sc, k)
    BY <1>1, PositionHeld
  <2> QED BY <2>1, <2>2, <2>3, <2>4, <2>5
<1>4. /\ sc[1].table # "check"
      /\ sc[2].table # "check"
      /\ sc[3].table # "check"
      /\ sc[4].table # "check"
      /\ sc[5].table # "check"
  BY <1>2, LockTables
<1>5. /\ LocksOf(sc, 0) = {}
      /\ LocksOf(sc, 1) = LocksOf(sc, 0) \union {sc[1]}
      /\ LocksOf(sc, 2) = LocksOf(sc, 1) \union {sc[2]}
      /\ LocksOf(sc, 3) = LocksOf(sc, 2) \union {sc[3]}
      /\ LocksOf(sc, 4) = LocksOf(sc, 3) \union {sc[4]}
  BY <1>4, FirstLocks
<1>6. /\ LocksOf(sc, 1) = {Row("transactions", m)}
      /\ LocksOf(sc, 2) = {Row("transactions", m), Shared(m)}
      /\ LocksOf(sc, 3) = {Row("transactions", m), Shared(m), Row("loans", m)}
      /\ LocksOf(sc, 4) = {Row("transactions", m), Shared(m), Row("loans", m), Ref("RP-")}
  BY <1>2, <1>5
<1>7. CASE k = 0
  BY <1>3, <1>5, <1>7
<1>8. CASE k = 1
  BY <1>2, <1>3, <1>6, <1>8, LockAssumption DEF AdjustmentWaits
<1>9. CASE k = 2
  BY <1>2, <1>3, <1>6, <1>9, LockAssumption DEF AdjustmentWaits
<1>10. CASE k = 3
  BY <1>2, <1>3, <1>6, <1>10, LockAssumption DEF AdjustmentWaits
<1>11. CASE k = 4
  BY <1>2, <1>3, <1>6, <1>11, CoveredLocks
<1> QED BY <1>3, <1>4, <1>7, <1>8, <1>9, <1>10, <1>11

LEMMA WriteOffPostures ==
  ASSUME NEW s, NEW m, NEW k, Reached(s, WriteOff(m), k), Waiting(s)
  PROVE  \/ held[s] = {} \/ Covered(Head(todo[s]), held[s])
         \/ \E v \in Nat : WriteOffWaits(m, Head(todo[s]), held[s], v)
<1>0. PICK sc : sc =
        <<Row("loan_write_offs", m), Row("loans", m), Ref("WO-"), KeyOf(m)>>
  OBVIOUS
<1>1. Reached(s, sc, k)
  BY <1>0, WriteOffScript
<1>2. /\ Len(sc) = 4
      /\ sc[1] = Row("loan_write_offs", m)
      /\ sc[2] = Row("loans", m)
      /\ sc[3] = Ref("WO-")
      /\ sc[4] = KeyOf(m)
  BY <1>0
<1>3. /\ k \in Nat /\ k < 4 /\ Head(todo[s]) = sc[k + 1]
      /\ held[s] = LocksOf(sc, k) /\ sc[k + 1].table # "check"
  <2>1. Len(sc) = 4
    BY <1>2
  <2>2. k \in Nat /\ k < Len(sc)
    BY <1>1, PositionCount
  <2>3. Head(todo[s]) = sc[k + 1]
    BY <1>1, PositionHead
  <2>4. sc[k + 1].table # "check"
    BY <1>1, PositionLock
  <2>5. held[s] = LocksOf(sc, k)
    BY <1>1, PositionHeld
  <2> QED BY <2>1, <2>2, <2>3, <2>4, <2>5
<1>4. /\ sc[1].table # "check"
      /\ sc[2].table # "check"
      /\ sc[3].table # "check"
      /\ sc[4].table # "check"
  BY <1>2, LockTables
<1>5. /\ LocksOf(sc, 0) = {}
      /\ LocksOf(sc, 1) = LocksOf(sc, 0) \union {sc[1]}
      /\ LocksOf(sc, 2) = LocksOf(sc, 1) \union {sc[2]}
      /\ LocksOf(sc, 3) = LocksOf(sc, 2) \union {sc[3]}
  BY <1>4, FirstLocks
<1>6. /\ LocksOf(sc, 1) = {Row("loan_write_offs", m)}
      /\ LocksOf(sc, 2) = {Row("loan_write_offs", m), Row("loans", m)}
      /\ LocksOf(sc, 3) = {Row("loan_write_offs", m), Row("loans", m), Ref("WO-")}
  BY <1>2, <1>5
<1>7. CASE k = 0
  BY <1>3, <1>5, <1>7
<1>8. CASE k = 1
  BY <1>2, <1>3, <1>6, <1>8, LockAssumption DEF WriteOffWaits
<1>9. CASE k = 2
  BY <1>2, <1>3, <1>6, <1>9, LockAssumption DEF WriteOffWaits
<1>10. CASE k = 3
  BY <1>2, <1>3, <1>6, <1>10, LockAssumption DEF WriteOffWaits
<1> QED BY <1>3, <1>4, <1>7, <1>8, <1>9, <1>10

LEMMA ReceiptPostures ==
  ASSUME NEW s, NEW m, NEW k, Reached(s, Receipt(m), k), Waiting(s)
  PROVE  \/ held[s] = {} \/ Covered(Head(todo[s]), held[s])
         \/ \E v \in Nat : ReceiptWaits(m, Head(todo[s]), held[s], v)
<1>0. PICK sc : sc =
        <<Row("loan_write_offs", m), Shared(m), Row("loans", m), Ref("RC-"), KeyOf(m),
          Written(m)>>
  OBVIOUS
<1>1. Reached(s, sc, k)
  BY <1>0, ReceiptScript
<1>2. /\ Len(sc) = 6
      /\ sc[1] = Row("loan_write_offs", m)
      /\ sc[2] = Shared(m)
      /\ sc[3] = Row("loans", m)
      /\ sc[4] = Ref("RC-")
      /\ sc[5] = KeyOf(m)
      /\ sc[6] = Written(m)
  BY <1>0
<1>3. /\ k \in Nat /\ k < 6 /\ Head(todo[s]) = sc[k + 1]
      /\ held[s] = LocksOf(sc, k) /\ sc[k + 1].table # "check"
  <2>1. Len(sc) = 6
    BY <1>2
  <2>2. k \in Nat /\ k < Len(sc)
    BY <1>1, PositionCount
  <2>3. Head(todo[s]) = sc[k + 1]
    BY <1>1, PositionHead
  <2>4. sc[k + 1].table # "check"
    BY <1>1, PositionLock
  <2>5. held[s] = LocksOf(sc, k)
    BY <1>1, PositionHeld
  <2> QED BY <2>1, <2>2, <2>3, <2>4, <2>5
<1>4. /\ sc[1].table # "check"
      /\ sc[2].table # "check"
      /\ sc[3].table # "check"
      /\ sc[4].table # "check"
      /\ sc[5].table # "check"
      /\ sc[6].table # "check"
  BY <1>2, LockTables
<1>5. /\ LocksOf(sc, 0) = {}
      /\ LocksOf(sc, 1) = LocksOf(sc, 0) \union {sc[1]}
      /\ LocksOf(sc, 2) = LocksOf(sc, 1) \union {sc[2]}
      /\ LocksOf(sc, 3) = LocksOf(sc, 2) \union {sc[3]}
      /\ LocksOf(sc, 4) = LocksOf(sc, 3) \union {sc[4]}
      /\ LocksOf(sc, 5) = LocksOf(sc, 4) \union {sc[5]}
  BY <1>4, FirstLocks
<1>6. /\ LocksOf(sc, 1) = {Row("loan_write_offs", m)}
      /\ LocksOf(sc, 2) = {Row("loan_write_offs", m), Shared(m)}
      /\ LocksOf(sc, 3) = {Row("loan_write_offs", m), Shared(m), Row("loans", m)}
      /\ LocksOf(sc, 4) = {Row("loan_write_offs", m), Shared(m), Row("loans", m), Ref("RC-")}
      /\ LocksOf(sc, 5) = {Row("loan_write_offs", m), Shared(m), Row("loans", m), Ref("RC-"),
                           KeyOf(m)}
  BY <1>2, <1>5
<1>7. CASE k = 0
  BY <1>3, <1>5, <1>7
<1>8. CASE k = 1
  BY <1>2, <1>3, <1>6, <1>8, LockAssumption DEF ReceiptWaits
<1>9. CASE k = 2
  BY <1>2, <1>3, <1>6, <1>9, LockAssumption DEF ReceiptWaits
<1>10. CASE k = 3
  BY <1>2, <1>3, <1>6, <1>10, LockAssumption DEF ReceiptWaits
<1>11. CASE k = 4
  BY <1>2, <1>3, <1>6, <1>11, CoveredLocks
<1>12. CASE k = 5
  BY <1>2, <1>3, <1>6, <1>12, LockAssumption DEF ReceiptWaits
<1> QED BY <1>3, <1>4, <1>7, <1>8, <1>9, <1>10, <1>11, <1>12

LEMMA PledgeGuaranteePostures ==
  ASSUME NEW s, NEW m, NEW n, NEW k, Reached(s, PledgeGuarantee(m, n), k), Waiting(s)
  PROVE  \/ held[s] = {} \/ Covered(Head(todo[s]), held[s])
         \/ \E v \in Nat : PledgeGuaranteeWaits(m, n, Head(todo[s]), held[s], v)
<1>0. PICK sc : sc =
        <<Row("applications", m), IfOpen(m), Shared(n), Row("deposit", n), KeyOf(n), KeyOf(m)>>
  OBVIOUS
<1>1. Reached(s, sc, k)
  BY <1>0, PledgeGuaranteeScript
<1>2. /\ Len(sc) = 6
      /\ sc[1] = Row("applications", m)
      /\ sc[2] = IfOpen(m)
      /\ sc[3] = Shared(n)
      /\ sc[4] = Row("deposit", n)
      /\ sc[5] = KeyOf(n)
      /\ sc[6] = KeyOf(m)
  BY <1>0
<1>3. /\ k \in Nat /\ k < 6 /\ Head(todo[s]) = sc[k + 1]
      /\ held[s] = LocksOf(sc, k) /\ sc[k + 1].table # "check"
  <2>1. Len(sc) = 6
    BY <1>2
  <2>2. k \in Nat /\ k < Len(sc)
    BY <1>1, PositionCount
  <2>3. Head(todo[s]) = sc[k + 1]
    BY <1>1, PositionHead
  <2>4. sc[k + 1].table # "check"
    BY <1>1, PositionLock
  <2>5. held[s] = LocksOf(sc, k)
    BY <1>1, PositionHeld
  <2> QED BY <2>1, <2>2, <2>3, <2>4, <2>5
<1>4. /\ sc[1].table # "check"
      /\ sc[2].table = "check"
      /\ sc[3].table # "check"
      /\ sc[4].table # "check"
      /\ sc[5].table # "check"
      /\ sc[6].table # "check"
  BY <1>2, LockTables
<1>5. /\ LocksOf(sc, 0) = {}
      /\ LocksOf(sc, 1) = LocksOf(sc, 0) \union {sc[1]}
      /\ LocksOf(sc, 2) = LocksOf(sc, 1)
      /\ LocksOf(sc, 3) = LocksOf(sc, 2) \union {sc[3]}
      /\ LocksOf(sc, 4) = LocksOf(sc, 3) \union {sc[4]}
      /\ LocksOf(sc, 5) = LocksOf(sc, 4) \union {sc[5]}
  BY <1>4, FirstLocks
<1>6. /\ LocksOf(sc, 1) = {Row("applications", m)}
      /\ LocksOf(sc, 2) = {Row("applications", m)}
      /\ LocksOf(sc, 3) = {Row("applications", m), Shared(n)}
      /\ LocksOf(sc, 4) = {Row("applications", m), Shared(n), Row("deposit", n)}
      /\ LocksOf(sc, 5) = {Row("applications", m), Shared(n), Row("deposit", n), KeyOf(n)}
  BY <1>2, <1>5
<1>7. CASE k = 0
  BY <1>3, <1>5, <1>7
<1>8. CASE k = 2
  BY <1>2, <1>3, <1>6, <1>8, LockAssumption DEF PledgeGuaranteeWaits
<1>9. CASE k = 3
  BY <1>2, <1>3, <1>6, <1>9, LockAssumption DEF PledgeGuaranteeWaits
<1>10. CASE k = 4
  BY <1>2, <1>3, <1>6, <1>10, CoveredLocks
<1>11. CASE k = 5
  BY <1>2, <1>3, <1>6, <1>11, LockAssumption DEF PledgeGuaranteeWaits
<1> QED BY <1>3, <1>4, <1>7, <1>8, <1>9, <1>10, <1>11

LEMMA SubstitutionPostures ==
  ASSUME NEW s, NEW m, NEW n, NEW k, Reached(s, Substitution(m, n), k), Waiting(s)
  PROVE  \/ held[s] = {} \/ Covered(Head(todo[s]), held[s])
         \/ \E v \in Nat : SubstitutionWaits(m, n, Head(todo[s]), held[s], v)
<1>0. PICK sc : sc =
        <<Row("applications", m), Row("loans", m), Row("guarantees", m), Shared(n),
          Row("deposit", n), KeyOf(n), KeyOf(m)>>
  OBVIOUS
<1>1. Reached(s, sc, k)
  BY <1>0, SubstitutionScript
<1>2. /\ Len(sc) = 7
      /\ sc[1] = Row("applications", m)
      /\ sc[2] = Row("loans", m)
      /\ sc[3] = Row("guarantees", m)
      /\ sc[4] = Shared(n)
      /\ sc[5] = Row("deposit", n)
      /\ sc[6] = KeyOf(n)
      /\ sc[7] = KeyOf(m)
  BY <1>0
<1>3. /\ k \in Nat /\ k < 7 /\ Head(todo[s]) = sc[k + 1]
      /\ held[s] = LocksOf(sc, k) /\ sc[k + 1].table # "check"
  <2>1. Len(sc) = 7
    BY <1>2
  <2>2. k \in Nat /\ k < Len(sc)
    BY <1>1, PositionCount
  <2>3. Head(todo[s]) = sc[k + 1]
    BY <1>1, PositionHead
  <2>4. sc[k + 1].table # "check"
    BY <1>1, PositionLock
  <2>5. held[s] = LocksOf(sc, k)
    BY <1>1, PositionHeld
  <2> QED BY <2>1, <2>2, <2>3, <2>4, <2>5
<1>4. /\ sc[1].table # "check"
      /\ sc[2].table # "check"
      /\ sc[3].table # "check"
      /\ sc[4].table # "check"
      /\ sc[5].table # "check"
      /\ sc[6].table # "check"
      /\ sc[7].table # "check"
  BY <1>2, LockTables
<1>5. /\ LocksOf(sc, 0) = {}
      /\ LocksOf(sc, 1) = LocksOf(sc, 0) \union {sc[1]}
      /\ LocksOf(sc, 2) = LocksOf(sc, 1) \union {sc[2]}
      /\ LocksOf(sc, 3) = LocksOf(sc, 2) \union {sc[3]}
      /\ LocksOf(sc, 4) = LocksOf(sc, 3) \union {sc[4]}
      /\ LocksOf(sc, 5) = LocksOf(sc, 4) \union {sc[5]}
      /\ LocksOf(sc, 6) = LocksOf(sc, 5) \union {sc[6]}
  BY <1>4, FirstLocks
<1>6. /\ LocksOf(sc, 1) = {Row("applications", m)}
      /\ LocksOf(sc, 2) = {Row("applications", m), Row("loans", m)}
      /\ LocksOf(sc, 3) = {Row("applications", m), Row("loans", m), Row("guarantees", m)}
      /\ LocksOf(sc, 4) = {Row("applications", m), Row("loans", m), Row("guarantees", m), Shared(n)}
      /\ LocksOf(sc, 5) = {Row("applications", m), Row("loans", m), Row("guarantees", m),
                           Shared(n), Row("deposit", n)}
      /\ LocksOf(sc, 6) = {Row("applications", m), Row("loans", m), Row("guarantees", m),
                           Shared(n), Row("deposit", n), KeyOf(n)}
  BY <1>2, <1>5
<1>7. CASE k = 0
  BY <1>3, <1>5, <1>7
<1>8. CASE k = 1
  BY <1>2, <1>3, <1>6, <1>8, LockAssumption DEF SubstitutionWaits
<1>9. CASE k = 2
  BY <1>2, <1>3, <1>6, <1>9, LockAssumption DEF SubstitutionWaits
<1>10. CASE k = 3
  BY <1>2, <1>3, <1>6, <1>10, LockAssumption DEF SubstitutionWaits
<1>11. CASE k = 4
  BY <1>2, <1>3, <1>6, <1>11, LockAssumption DEF SubstitutionWaits
<1>12. CASE k = 5
  BY <1>2, <1>3, <1>6, <1>12, CoveredLocks
<1>13. CASE k = 6
  BY <1>2, <1>3, <1>6, <1>13, LockAssumption DEF SubstitutionWaits
<1> QED BY <1>3, <1>4, <1>7, <1>8, <1>9, <1>10, <1>11, <1>12, <1>13

LEMMA TransferPostures ==
  ASSUME NEW s, NEW m \in MemberId, NEW n \in MemberId, NEW a \in MemberId, NEW b \in MemberId,
         InIdOrder(m, n) = <<a, b>>,
         NEW k, Reached(s, Transfer(m, n), k), Waiting(s)
  PROVE  \/ held[s] = {} \/ Covered(Head(todo[s]), held[s])
         \/ \E v \in Nat : TransferWaits(m, a, b, Head(todo[s]), held[s], v)
<1>0. PICK sc : sc =
        <<Row("share_transfers", m), Row("members", a), Row("members", b), Row("shares", a),
          Row("shares", b), Ref("ST-"), KeyOf(m), Ref("ST-"), KeyOf(n)>>
  OBVIOUS
<1>1. Reached(s, sc, k)
  BY <1>0, TransferScript
<1>2. /\ Len(sc) = 9
      /\ sc[1] = Row("share_transfers", m)
      /\ sc[2] = Row("members", a)
      /\ sc[3] = Row("members", b)
      /\ sc[4] = Row("shares", a)
      /\ sc[5] = Row("shares", b)
      /\ sc[6] = Ref("ST-")
      /\ sc[7] = KeyOf(m)
      /\ sc[8] = Ref("ST-")
      /\ sc[9] = KeyOf(n)
  BY <1>0
<1>3. /\ k \in Nat /\ k < 9 /\ Head(todo[s]) = sc[k + 1]
      /\ held[s] = LocksOf(sc, k) /\ sc[k + 1].table # "check"
  <2>1. Len(sc) = 9
    BY <1>2
  <2>2. k \in Nat /\ k < Len(sc)
    BY <1>1, PositionCount
  <2>3. Head(todo[s]) = sc[k + 1]
    BY <1>1, PositionHead
  <2>4. sc[k + 1].table # "check"
    BY <1>1, PositionLock
  <2>5. held[s] = LocksOf(sc, k)
    BY <1>1, PositionHeld
  <2> QED BY <2>1, <2>2, <2>3, <2>4, <2>5
<1>4. /\ sc[1].table # "check"
      /\ sc[2].table # "check"
      /\ sc[3].table # "check"
      /\ sc[4].table # "check"
      /\ sc[5].table # "check"
      /\ sc[6].table # "check"
      /\ sc[7].table # "check"
      /\ sc[8].table # "check"
      /\ sc[9].table # "check"
  BY <1>2, LockTables
<1>5. /\ LocksOf(sc, 0) = {}
      /\ LocksOf(sc, 1) = LocksOf(sc, 0) \union {sc[1]}
      /\ LocksOf(sc, 2) = LocksOf(sc, 1) \union {sc[2]}
      /\ LocksOf(sc, 3) = LocksOf(sc, 2) \union {sc[3]}
      /\ LocksOf(sc, 4) = LocksOf(sc, 3) \union {sc[4]}
      /\ LocksOf(sc, 5) = LocksOf(sc, 4) \union {sc[5]}
      /\ LocksOf(sc, 6) = LocksOf(sc, 5) \union {sc[6]}
      /\ LocksOf(sc, 7) = LocksOf(sc, 6) \union {sc[7]}
      /\ LocksOf(sc, 8) = LocksOf(sc, 7) \union {sc[8]}
  BY <1>4, FirstLocks
<1>6. /\ LocksOf(sc, 1) = {Row("share_transfers", m)}
      /\ LocksOf(sc, 2) = {Row("share_transfers", m), Row("members", a)}
      /\ LocksOf(sc, 3) = {Row("share_transfers", m), Row("members", a), Row("members", b)}
      /\ LocksOf(sc, 4) = {Row("share_transfers", m), Row("members", a), Row("members", b),
                           Row("shares", a)}
      /\ LocksOf(sc, 5) = {Row("share_transfers", m), Row("members", a), Row("members", b),
                           Row("shares", a), Row("shares", b)}
      /\ LocksOf(sc, 6) = {Row("share_transfers", m), Row("members", a), Row("members", b),
                           Row("shares", a), Row("shares", b), Ref("ST-")}
      /\ LocksOf(sc, 7) = {Row("share_transfers", m), Row("members", a), Row("members", b),
                           Row("shares", a), Row("shares", b), Ref("ST-"), KeyOf(m)}
      /\ LocksOf(sc, 8) = {Row("share_transfers", m), Row("members", a), Row("members", b),
                           Row("shares", a), Row("shares", b), Ref("ST-"), KeyOf(m), Ref("ST-")}
  BY <1>2, <1>5
<1>7. CASE k = 0
  BY <1>3, <1>5, <1>7
<1>8. CASE k = 1
  <2>1. 7 + LastMember - a \in Nat
    BY LockAssumption DEF MemberId
  <2> QED BY <1>2, <1>3, <1>6, <1>8, <2>1 DEF TransferWaits
<1>9. CASE k = 2
  <2>1. 7 + LastMember - b \in Nat
    BY LockAssumption DEF MemberId
  <2> QED BY <1>2, <1>3, <1>6, <1>9, <2>1 DEF TransferWaits
<1>10. CASE k = 3
  BY <1>2, <1>3, <1>6, <1>10, LockAssumption DEF TransferWaits, MemberId
<1>11. CASE k = 4
  BY <1>2, <1>3, <1>6, <1>11, LockAssumption DEF TransferWaits, MemberId
<1>12. CASE k = 5
  BY <1>2, <1>3, <1>6, <1>12, LockAssumption DEF TransferWaits, MemberId
<1>13. CASE k = 6
  <2>1. m = a \/ m = b
    BY DEF InIdOrder
  <2>2. Head(todo[s]) = KeyOf(m)
    BY <1>2, <1>3, <1>13
  <2>3. Row("members", m) \in held[s]
    BY <1>3, <1>6, <1>13, <2>1
  <2> QED BY <2>2, <2>3, CoveredLocks
<1>14. CASE k = 7
  BY <1>2, <1>3, <1>6, <1>14, CoveredLocks
<1>15. CASE k = 8
  <2>1. n = a \/ n = b
    BY DEF InIdOrder
  <2>2. Head(todo[s]) = KeyOf(n)
    BY <1>2, <1>3, <1>15
  <2>3. Row("members", n) \in held[s]
    BY <1>3, <1>6, <1>15, <2>1
  <2> QED BY <2>2, <2>3, CoveredLocks
<1> QED BY <1>3, <1>4, <1>7, <1>8, <1>9, <1>10, <1>11, <1>12, <1>13, <1>14, <1>15

\* The fields of the locks, one by one.
LEMMA RowTable == \A t, m : Row(t, m).table = t
  BY DEF Row, Lock

LEMMA RowKey == \A t, m : Row(t, m).key = m
  BY DEF Row, Lock

LEMMA RowMode == \A t, m : Row(t, m).mode = "update"
  BY DEF Row, Lock

LEMMA SharedTable == \A m : Shared(m).table = "members"
  BY DEF Shared, Lock

LEMMA SharedKey == \A m : Shared(m).key = m
  BY DEF Shared, Lock

LEMMA SharedMode == \A m : Shared(m).mode = "share"
  BY DEF Shared, Lock

LEMMA KeyOfTable == \A m : KeyOf(m).table = "members"
  BY DEF KeyOf, Lock

LEMMA KeyOfKey == \A m : KeyOf(m).key = m
  BY DEF KeyOf, Lock

LEMMA KeyOfMode == \A m : KeyOf(m).mode \notin {"update", "write"}
  BY DEF KeyOf, Lock

LEMMA WrittenTable == \A m : Written(m).table = "guarantees"
  BY DEF Written, Lock

LEMMA WrittenKey == \A m : Written(m).key = m
  BY DEF Written, Lock

LEMMA WrittenMode == \A m : Written(m).mode = "write"
  BY DEF Written, Lock

LEMMA RefTable == \A p : Ref(p).table = "ref"
  BY DEF Ref, Lock

LEMMA RefKey == \A p : Ref(p).key = p
  BY DEF Ref, Lock

LEMMA RefMode == \A p : Ref(p).mode = "update"
  BY DEF Ref, Lock

\* What a waiting batch holds.
LEMMA DistributionHolds ==
  ASSUME NEW S, NEW w, NEW L, NEW v, DistributionWaits(S, w, L, v), NEW l \in L
  PROVE  l = Ref("DV-") \/ \E q \in S : /\ Row("members", q) \in L
                                        /\ l \in {Row("members", q), Row("deposit", q), Row("shares", q), KeyOf(q)}
<1>1. ScanLocks("members", S) \subseteq L /\ L \subseteq DistributionLocks(S)
  BY DEF DistributionWaits
<1>2. CASE l # Ref("DV-")
  <2>1. PICK q \in S : l \in {Row("members", q), Row("deposit", q), Row("shares", q), KeyOf(q)}
    BY <1>1, <1>2 DEF DistributionLocks
  <2>2. Row("members", q) \in ScanLocks("members", S)
    BY DEF ScanLocks, Row
  <2> QED BY <1>1, <2>1, <2>2
<1> QED BY <1>2

LEMMA InterestHolds ==
  ASSUME NEW S, NEW w, NEW L, NEW v, InterestWaits(S, w, L, v), NEW l \in L
  PROVE  \/ l = Ref("INT-")
         \/ \E q \in S : Row("deposit", q) \in L /\ l \in {Row("deposit", q), KeyOf(q)}
<1>1. ScanLocks("deposit", S) \subseteq L /\ L \subseteq InterestLocks(S)
  BY DEF InterestWaits
<1>2. CASE l # Ref("INT-")
  <2>1. PICK q \in S : l \in {Row("deposit", q), KeyOf(q)}
    BY <1>1, <1>2 DEF InterestLocks
  <2>2. Row("deposit", q) \in ScanLocks("deposit", S)
    BY DEF ScanLocks, Row
  <2> QED BY <1>1, <2>1, <2>2
<1> QED BY <1>2

\* Who holds something is below the top.
LEMMA LevelBound ==
  ASSUME NEW g, NEW x, NEW K, NEW u, Level(g, x, K, u), K # {}
  PROVE  u \in Nat /\ u <= 8 + LastMember
<1> DEFINE Goal ==
         u \in Nat /\ u <= 8 + LastMember
<1>1. ASSUME NEW p \in MemberId, g = "deposit", DepositWaits(p, x, K, u) PROVE Goal
  BY <1>1, LockAssumption DEF DepositWaits, MemberId
<1>2. ASSUME NEW p \in MemberId, g = "withdraw", WithdrawalWaits(p, x, K, u) PROVE Goal
  BY <1>2, LockAssumption DEF WithdrawalWaits, MemberId
<1>3. ASSUME NEW p \in MemberId, g = "settle", SettlementWaits(p, x, K, u) PROVE Goal
  BY <1>3, LockAssumption DEF SettlementWaits, MemberId
<1>4. ASSUME NEW p \in MemberId, g = "reject", RejectionWaits(p, x, K, u) PROVE Goal
  BY <1>4, LockAssumption DEF RejectionWaits, MemberId
<1>5. ASSUME NEW p \in MemberId, g = "release", ReleaseWaits(p, x, K, u) PROVE Goal
  BY <1>5, LockAssumption DEF ReleaseWaits, MemberId
<1>5a. ASSUME NEW p \in MemberId, g = "releaseLoan", LoanReleaseWaits(p, x, K, u) PROVE Goal
  BY <1>5a, LockAssumption DEF LoanReleaseWaits, MemberId
<1>6. ASSUME NEW p \in MemberId, g = "disburse", DisbursementWaits(p, x, K, u) PROVE Goal
  BY <1>6, LockAssumption DEF DisbursementWaits, MemberId
<1>7. ASSUME NEW p \in MemberId, g = "repay", RepaymentWaits(p, x, K, u) PROVE Goal
  BY <1>7, LockAssumption DEF RepaymentWaits, MemberId
<1>8. ASSUME NEW p \in MemberId, g = "adjust", AdjustmentWaits(p, x, K, u) PROVE Goal
  BY <1>8, LockAssumption DEF AdjustmentWaits, MemberId
<1>9. ASSUME NEW p \in MemberId, g = "writeOff", WriteOffWaits(p, x, K, u) PROVE Goal
  BY <1>9, LockAssumption DEF WriteOffWaits, MemberId
<1>10. ASSUME NEW p \in MemberId, g = "receipt", ReceiptWaits(p, x, K, u) PROVE Goal
  BY <1>10, LockAssumption DEF ReceiptWaits, MemberId
<1>11. ASSUME NEW p \in MemberId, NEW q \in MemberId, g = "pledge",
              PledgeGuaranteeWaits(p, q, x, K, u)
       PROVE Goal
  BY <1>11, LockAssumption DEF PledgeGuaranteeWaits, MemberId
<1>12. ASSUME NEW p \in MemberId, NEW q \in MemberId, g = "substitute",
              SubstitutionWaits(p, q, x, K, u)
       PROVE Goal
  BY <1>12, LockAssumption DEF SubstitutionWaits, MemberId
<1>13. ASSUME NEW p \in MemberId, NEW a \in MemberId, NEW b \in MemberId,
             g = "transfer", a < b, TransferWaits(p, a, b, x, K, u) PROVE Goal
  BY <1>13, LockAssumption DEF TransferWaits, MemberId
<1>14. ASSUME NEW S \in SUBSET MemberId, g = "distribute", DistributionWaits(S, x, K, u) PROVE Goal
  BY <1>14, LockAssumption DEF DistributionWaits, MemberId
<1>15. ASSUME NEW S \in SUBSET MemberId, g = "interest", InterestWaits(S, x, K, u) PROVE Goal
  BY <1>15, LockAssumption DEF InterestWaits, MemberId
<1> HIDE DEF Goal
<1>16. K # {}
  OBVIOUS
<1>17. Goal
  BY <1>1, <1>2, <1>3, <1>4, <1>5, <1>5a, <1>6, <1>7, <1>8, <1>9, <1>10, <1>11, <1>12, <1>13,
     <1>14, <1>15, <1>16 DEF Level
<1> QED BY <1>17 DEF Goal

\* Who holds a lock of a table, and how far up it waits.
LEMMA HoldsDeposit ==
  ASSUME NEW g, NEW x, NEW K, NEW u, Level(g, x, K, u), NEW m, NEW l \in K,
         l.table = "deposit", l.key = m
  PROVE  \/ u <= 1 /\ Row("members", m) \in K
         \/ u <= 2 /\ Shared(m) \in K
         \/ g = "disburse" /\ Row("applications", m) \in K /\ (u = 0 \/ x = KeyOf(m))
         \/ g = "interest" /\ u <= 1
<1> DEFINE Goal ==
         \/ u <= 1 /\ Row("members", m) \in K
         \/ u <= 2 /\ Shared(m) \in K
         \/ g = "disburse" /\ Row("applications", m) \in K /\ (u = 0 \/ x = KeyOf(m))
         \/ g = "interest" /\ u <= 1
<1>1. ASSUME NEW p \in MemberId, g = "deposit", DepositWaits(p, x, K, u) PROVE Goal
  BY <1>1, RowTable, RowKey DEF DepositWaits
<1>2. ASSUME NEW p \in MemberId, g = "withdraw", WithdrawalWaits(p, x, K, u) PROVE Goal
  BY <1>2, RowTable, RowKey, SharedTable DEF WithdrawalWaits
<1>3. ASSUME NEW p \in MemberId, g = "settle", SettlementWaits(p, x, K, u) PROVE Goal
  BY <1>3, RowTable, RowKey, KeyOfTable, RefTable DEF SettlementWaits
<1>4. ASSUME NEW p \in MemberId, g = "reject", RejectionWaits(p, x, K, u) PROVE Goal
  BY <1>4, RowTable, RowKey DEF RejectionWaits
<1>5. ASSUME NEW p \in MemberId, g = "release", ReleaseWaits(p, x, K, u) PROVE Goal
  BY <1>5, RowTable, RowKey DEF ReleaseWaits
<1>5a. ASSUME NEW p \in MemberId, g = "releaseLoan", LoanReleaseWaits(p, x, K, u) PROVE Goal
  BY <1>5a, RowTable, RowKey DEF LoanReleaseWaits
<1>6. ASSUME NEW p \in MemberId, g = "disburse", DisbursementWaits(p, x, K, u) PROVE Goal
  BY <1>6, RowTable, RowKey, KeyOfTable, WrittenTable DEF DisbursementWaits
<1>7. ASSUME NEW p \in MemberId, g = "repay", RepaymentWaits(p, x, K, u) PROVE Goal
  BY <1>7, RowTable, RowKey, KeyOfTable, RefTable DEF RepaymentWaits
<1>8. ASSUME NEW p \in MemberId, g = "adjust", AdjustmentWaits(p, x, K, u) PROVE Goal
  BY <1>8, RowTable, RowKey, SharedTable DEF AdjustmentWaits
<1>9. ASSUME NEW p \in MemberId, g = "writeOff", WriteOffWaits(p, x, K, u) PROVE Goal
  BY <1>9, RowTable, RowKey, RefTable DEF WriteOffWaits
<1>10. ASSUME NEW p \in MemberId, g = "receipt", ReceiptWaits(p, x, K, u) PROVE Goal
  BY <1>10, RowTable, RowKey, SharedTable, KeyOfTable, RefTable DEF ReceiptWaits
<1>11. ASSUME NEW p \in MemberId, NEW q \in MemberId, g = "pledge",
              PledgeGuaranteeWaits(p, q, x, K, u)
       PROVE Goal
  BY <1>11, RowTable, RowKey, SharedTable, KeyOfTable DEF PledgeGuaranteeWaits
<1>12. ASSUME NEW p \in MemberId, NEW q \in MemberId, g = "substitute",
              SubstitutionWaits(p, q, x, K, u)
       PROVE Goal
  BY <1>12, RowTable, RowKey, SharedTable, KeyOfTable DEF SubstitutionWaits
<1>13. ASSUME NEW p \in MemberId, NEW a \in MemberId, NEW b \in MemberId,
             g = "transfer", a < b, TransferWaits(p, a, b, x, K, u) PROVE Goal
  BY <1>13, RowTable, RowKey, LockAssumption DEF TransferWaits, MemberId
<1>14. ASSUME NEW S \in SUBSET MemberId, g = "distribute", DistributionWaits(S, x, K, u) PROVE Goal
  <2>1. \/ l = Ref("DV-")
        \/ \E q \in S : /\ Row("members", q) \in K
                      /\ l \in {Row("members", q), Row("deposit", q), Row("shares", q), KeyOf(q)}
    BY ONLY <1>14, l \in K, DistributionHolds
  <2>2. u = 0 \/ (u = 1 /\ Ref("DV-") \notin K)
    BY <1>14 DEF DistributionWaits
  <2>3. CASE l = Ref("DV-")
    BY <1>14, <2>2, <2>3, RefTable, RefKey
  <2>4. CASE \E q \in S : /\ Row("members", q) \in K
                         /\ l \in {Row("members", q), Row("deposit", q), Row("shares", q), KeyOf(q)}
    BY <1>14, <2>2, <2>4, RowTable, RowKey, KeyOfTable
  <2> QED BY <2>1, <2>3, <2>4
<1>15. ASSUME NEW S \in SUBSET MemberId, g = "interest", InterestWaits(S, x, K, u) PROVE Goal
  <2>1. \/ l = Ref("INT-")
        \/ \E q \in S : Row("deposit", q) \in K /\ l \in {Row("deposit", q), KeyOf(q)}
    BY ONLY <1>15, l \in K, InterestHolds
  <2>2. u = 0 \/ (u = 1 /\ Ref("INT-") \notin K)
    BY <1>15 DEF InterestWaits
  <2>3. CASE l = Ref("INT-")
    BY <1>15, <2>2, <2>3, RefTable, RefKey
  <2>4. CASE \E q \in S : Row("deposit", q) \in K /\ l \in {Row("deposit", q), KeyOf(q)}
    BY <1>15, <2>2, <2>4, RowTable, RowKey, KeyOfTable
  <2> QED BY <2>1, <2>3, <2>4
<1> HIDE DEF Goal
<1>16. K # {}
  OBVIOUS
<1>17. Goal
  BY <1>1, <1>2, <1>3, <1>4, <1>5, <1>5a, <1>6, <1>7, <1>8, <1>9, <1>10, <1>11, <1>12, <1>13,
     <1>14, <1>15, <1>16 DEF Level
<1> QED BY <1>17 DEF Goal

\* The same for who holds a share account, ...
LEMMA HoldsShares ==
  ASSUME NEW g, NEW x, NEW K, NEW u, Level(g, x, K, u), NEW m, NEW l \in K,
         l.table = "shares", l.key = m
  PROVE  Row("members", m) \in K
<1> DEFINE Goal ==
         Row("members", m) \in K
<1>1. ASSUME NEW p \in MemberId, g = "deposit", DepositWaits(p, x, K, u) PROVE Goal
  BY <1>1, RowTable, RowKey DEF DepositWaits
<1>2. ASSUME NEW p \in MemberId, g = "withdraw", WithdrawalWaits(p, x, K, u) PROVE Goal
  BY <1>2, RowTable, RowKey, SharedTable DEF WithdrawalWaits
<1>3. ASSUME NEW p \in MemberId, g = "settle", SettlementWaits(p, x, K, u) PROVE Goal
  BY <1>3, RowTable, RowKey, KeyOfTable, RefTable DEF SettlementWaits
<1>4. ASSUME NEW p \in MemberId, g = "reject", RejectionWaits(p, x, K, u) PROVE Goal
  BY <1>4, RowTable, RowKey DEF RejectionWaits
<1>5. ASSUME NEW p \in MemberId, g = "release", ReleaseWaits(p, x, K, u) PROVE Goal
  BY <1>5, RowTable, RowKey DEF ReleaseWaits
<1>5a. ASSUME NEW p \in MemberId, g = "releaseLoan", LoanReleaseWaits(p, x, K, u) PROVE Goal
  BY <1>5a, RowTable, RowKey DEF LoanReleaseWaits
<1>6. ASSUME NEW p \in MemberId, g = "disburse", DisbursementWaits(p, x, K, u) PROVE Goal
  BY <1>6, RowTable, RowKey, KeyOfTable, WrittenTable DEF DisbursementWaits
<1>7. ASSUME NEW p \in MemberId, g = "repay", RepaymentWaits(p, x, K, u) PROVE Goal
  BY <1>7, RowTable, RowKey, KeyOfTable, RefTable DEF RepaymentWaits
<1>8. ASSUME NEW p \in MemberId, g = "adjust", AdjustmentWaits(p, x, K, u) PROVE Goal
  BY <1>8, RowTable, RowKey, SharedTable DEF AdjustmentWaits
<1>9. ASSUME NEW p \in MemberId, g = "writeOff", WriteOffWaits(p, x, K, u) PROVE Goal
  BY <1>9, RowTable, RowKey, RefTable DEF WriteOffWaits
<1>10. ASSUME NEW p \in MemberId, g = "receipt", ReceiptWaits(p, x, K, u) PROVE Goal
  BY <1>10, RowTable, RowKey, SharedTable, KeyOfTable, RefTable DEF ReceiptWaits
<1>11. ASSUME NEW p \in MemberId, NEW q \in MemberId, g = "pledge",
              PledgeGuaranteeWaits(p, q, x, K, u)
       PROVE Goal
  BY <1>11, RowTable, RowKey, SharedTable, KeyOfTable DEF PledgeGuaranteeWaits
<1>12. ASSUME NEW p \in MemberId, NEW q \in MemberId, g = "substitute",
              SubstitutionWaits(p, q, x, K, u)
       PROVE Goal
  BY <1>12, RowTable, RowKey, SharedTable, KeyOfTable DEF SubstitutionWaits
<1>13. ASSUME NEW p \in MemberId, NEW a \in MemberId, NEW b \in MemberId,
             g = "transfer", a < b, TransferWaits(p, a, b, x, K, u) PROVE Goal
  BY <1>13, RowTable, RowKey, LockAssumption DEF TransferWaits, MemberId
<1>14. ASSUME NEW S \in SUBSET MemberId, g = "distribute", DistributionWaits(S, x, K, u) PROVE Goal
  <2>1. \/ l = Ref("DV-")
        \/ \E q \in S : /\ Row("members", q) \in K
                      /\ l \in {Row("members", q), Row("deposit", q), Row("shares", q), KeyOf(q)}
    BY ONLY <1>14, l \in K, DistributionHolds
  <2>2. u = 0 \/ (u = 1 /\ Ref("DV-") \notin K)
    BY <1>14 DEF DistributionWaits
  <2>3. CASE l = Ref("DV-")
    BY <1>14, <2>2, <2>3, RefTable, RefKey
  <2>4. CASE \E q \in S : /\ Row("members", q) \in K
                         /\ l \in {Row("members", q), Row("deposit", q), Row("shares", q), KeyOf(q)}
    BY <1>14, <2>2, <2>4, RowTable, RowKey, KeyOfTable
  <2> QED BY <2>1, <2>3, <2>4
<1>15. ASSUME NEW S \in SUBSET MemberId, g = "interest", InterestWaits(S, x, K, u) PROVE Goal
  <2>1. \/ l = Ref("INT-")
        \/ \E q \in S : Row("deposit", q) \in K /\ l \in {Row("deposit", q), KeyOf(q)}
    BY ONLY <1>15, l \in K, InterestHolds
  <2>2. u = 0 \/ (u = 1 /\ Ref("INT-") \notin K)
    BY <1>15 DEF InterestWaits
  <2>3. CASE l = Ref("INT-")
    BY <1>15, <2>2, <2>3, RefTable, RefKey
  <2>4. CASE \E q \in S : Row("deposit", q) \in K /\ l \in {Row("deposit", q), KeyOf(q)}
    BY <1>15, <2>2, <2>4, RowTable, RowKey, KeyOfTable
  <2> QED BY <2>1, <2>3, <2>4
<1> HIDE DEF Goal
<1>16. K # {}
  OBVIOUS
<1>17. Goal
  BY <1>1, <1>2, <1>3, <1>4, <1>5, <1>5a, <1>6, <1>7, <1>8, <1>9, <1>10, <1>11, <1>12, <1>13,
     <1>14, <1>15, <1>16 DEF Level
<1> QED BY <1>17 DEF Goal

\* ... a loan, ...
LEMMA HoldsLoan ==
  ASSUME NEW g, NEW x, NEW K, NEW u, Level(g, x, K, u), NEW m, NEW l \in K,
         l.table = "loans", l.key = m
  PROVE  /\ u <= 5
         /\ \/ g \in {"repay", "writeOff", "substitute"}
            \/ Row("members", m) \in K \/ Shared(m) \in K
            \/ g = "releaseLoan" /\ u = 0
<1> DEFINE Goal ==
         /\ u <= 5
         /\ \/ g \in {"repay", "writeOff", "substitute"}
            \/ Row("members", m) \in K \/ Shared(m) \in K
            \/ g = "releaseLoan" /\ u = 0
<1>1. ASSUME NEW p \in MemberId, g = "deposit", DepositWaits(p, x, K, u) PROVE Goal
  BY <1>1, RowTable, RowKey DEF DepositWaits
<1>2. ASSUME NEW p \in MemberId, g = "withdraw", WithdrawalWaits(p, x, K, u) PROVE Goal
  BY <1>2, RowTable, RowKey, SharedTable DEF WithdrawalWaits
<1>3. ASSUME NEW p \in MemberId, g = "settle", SettlementWaits(p, x, K, u) PROVE Goal
  BY <1>3, RowTable, RowKey, KeyOfTable, RefTable DEF SettlementWaits
<1>4. ASSUME NEW p \in MemberId, g = "reject", RejectionWaits(p, x, K, u) PROVE Goal
  BY <1>4, RowTable, RowKey DEF RejectionWaits
<1>5. ASSUME NEW p \in MemberId, g = "release", ReleaseWaits(p, x, K, u) PROVE Goal
  BY <1>5, RowTable, RowKey DEF ReleaseWaits
<1>5a. ASSUME NEW p \in MemberId, g = "releaseLoan", LoanReleaseWaits(p, x, K, u) PROVE Goal
  BY <1>5a, RowTable, RowKey DEF LoanReleaseWaits
<1>6. ASSUME NEW p \in MemberId, g = "disburse", DisbursementWaits(p, x, K, u) PROVE Goal
  BY <1>6, RowTable, RowKey, KeyOfTable, WrittenTable DEF DisbursementWaits
<1>7. ASSUME NEW p \in MemberId, g = "repay", RepaymentWaits(p, x, K, u) PROVE Goal
  BY <1>7, RowTable, RowKey, KeyOfTable, RefTable DEF RepaymentWaits
<1>8. ASSUME NEW p \in MemberId, g = "adjust", AdjustmentWaits(p, x, K, u) PROVE Goal
  BY <1>8, RowTable, RowKey, SharedTable DEF AdjustmentWaits
<1>9. ASSUME NEW p \in MemberId, g = "writeOff", WriteOffWaits(p, x, K, u) PROVE Goal
  BY <1>9, RowTable, RowKey, RefTable DEF WriteOffWaits
<1>10. ASSUME NEW p \in MemberId, g = "receipt", ReceiptWaits(p, x, K, u) PROVE Goal
  BY <1>10, RowTable, RowKey, SharedTable, KeyOfTable, RefTable DEF ReceiptWaits
<1>11. ASSUME NEW p \in MemberId, NEW q \in MemberId, g = "pledge",
              PledgeGuaranteeWaits(p, q, x, K, u)
       PROVE Goal
  BY <1>11, RowTable, RowKey, SharedTable, KeyOfTable DEF PledgeGuaranteeWaits
<1>12. ASSUME NEW p \in MemberId, NEW q \in MemberId, g = "substitute",
              SubstitutionWaits(p, q, x, K, u)
       PROVE Goal
  BY <1>12, RowTable, RowKey, SharedTable, KeyOfTable DEF SubstitutionWaits
<1>13. ASSUME NEW p \in MemberId, NEW a \in MemberId, NEW b \in MemberId,
             g = "transfer", a < b, TransferWaits(p, a, b, x, K, u) PROVE Goal
  BY <1>13, RowTable, RowKey, LockAssumption DEF TransferWaits, MemberId
<1>14. ASSUME NEW S \in SUBSET MemberId, g = "distribute", DistributionWaits(S, x, K, u) PROVE Goal
  <2>1. \/ l = Ref("DV-")
        \/ \E q \in S : /\ Row("members", q) \in K
                      /\ l \in {Row("members", q), Row("deposit", q), Row("shares", q), KeyOf(q)}
    BY ONLY <1>14, l \in K, DistributionHolds
  <2>2. u = 0 \/ (u = 1 /\ Ref("DV-") \notin K)
    BY <1>14 DEF DistributionWaits
  <2>3. CASE l = Ref("DV-")
    BY <1>14, <2>2, <2>3, RefTable, RefKey
  <2>4. CASE \E q \in S : /\ Row("members", q) \in K
                         /\ l \in {Row("members", q), Row("deposit", q), Row("shares", q), KeyOf(q)}
    BY <1>14, <2>2, <2>4, RowTable, RowKey, KeyOfTable
  <2> QED BY <2>1, <2>3, <2>4
<1>15. ASSUME NEW S \in SUBSET MemberId, g = "interest", InterestWaits(S, x, K, u) PROVE Goal
  <2>1. \/ l = Ref("INT-")
        \/ \E q \in S : Row("deposit", q) \in K /\ l \in {Row("deposit", q), KeyOf(q)}
    BY ONLY <1>15, l \in K, InterestHolds
  <2>2. u = 0 \/ (u = 1 /\ Ref("INT-") \notin K)
    BY <1>15 DEF InterestWaits
  <2>3. CASE l = Ref("INT-")
    BY <1>15, <2>2, <2>3, RefTable, RefKey
  <2>4. CASE \E q \in S : Row("deposit", q) \in K /\ l \in {Row("deposit", q), KeyOf(q)}
    BY <1>15, <2>2, <2>4, RowTable, RowKey, KeyOfTable
  <2> QED BY <2>1, <2>3, <2>4
<1> HIDE DEF Goal
<1>16. K # {}
  OBVIOUS
<1>17. Goal
  BY <1>1, <1>2, <1>3, <1>4, <1>5, <1>5a, <1>6, <1>7, <1>8, <1>9, <1>10, <1>11, <1>12, <1>13,
     <1>14, <1>15, <1>16 DEF Level
<1> QED BY <1>17 DEF Goal

\* ... the guarantees of a member, ...
LEMMA HoldsGuarantees ==
  ASSUME NEW g, NEW x, NEW K, NEW u, Level(g, x, K, u), NEW m, NEW l \in K,
         l.table = "guarantees", l.key = m
  PROVE  /\ Row("applications", m) \in K /\ u <= 3
         /\ g \in {"substitute", "disburse"} \/ (g = "release" /\ x = Row("deposit", m))
<1> DEFINE Goal ==
         /\ Row("applications", m) \in K /\ u <= 3
         /\ g \in {"substitute", "disburse"} \/ (g = "release" /\ x = Row("deposit", m))
<1>1. ASSUME NEW p \in MemberId, g = "deposit", DepositWaits(p, x, K, u) PROVE Goal
  BY <1>1, RowTable, RowKey DEF DepositWaits
<1>2. ASSUME NEW p \in MemberId, g = "withdraw", WithdrawalWaits(p, x, K, u) PROVE Goal
  BY <1>2, RowTable, RowKey, SharedTable DEF WithdrawalWaits
<1>3. ASSUME NEW p \in MemberId, g = "settle", SettlementWaits(p, x, K, u) PROVE Goal
  BY <1>3, RowTable, RowKey, KeyOfTable, RefTable DEF SettlementWaits
<1>4. ASSUME NEW p \in MemberId, g = "reject", RejectionWaits(p, x, K, u) PROVE Goal
  BY <1>4, RowTable, RowKey DEF RejectionWaits
<1>5. ASSUME NEW p \in MemberId, g = "release", ReleaseWaits(p, x, K, u) PROVE Goal
  BY <1>5, RowTable, RowKey DEF ReleaseWaits
<1>5a. ASSUME NEW p \in MemberId, g = "releaseLoan", LoanReleaseWaits(p, x, K, u) PROVE Goal
  BY <1>5a, RowTable, RowKey DEF LoanReleaseWaits
<1>6. ASSUME NEW p \in MemberId, g = "disburse", DisbursementWaits(p, x, K, u) PROVE Goal
  BY <1>6, RowTable, RowKey, KeyOfTable, WrittenTable, WrittenKey DEF DisbursementWaits
<1>7. ASSUME NEW p \in MemberId, g = "repay", RepaymentWaits(p, x, K, u) PROVE Goal
  BY <1>7, RowTable, RowKey, KeyOfTable, RefTable DEF RepaymentWaits
<1>8. ASSUME NEW p \in MemberId, g = "adjust", AdjustmentWaits(p, x, K, u) PROVE Goal
  BY <1>8, RowTable, RowKey, SharedTable DEF AdjustmentWaits
<1>9. ASSUME NEW p \in MemberId, g = "writeOff", WriteOffWaits(p, x, K, u) PROVE Goal
  BY <1>9, RowTable, RowKey, RefTable DEF WriteOffWaits
<1>10. ASSUME NEW p \in MemberId, g = "receipt", ReceiptWaits(p, x, K, u) PROVE Goal
  BY <1>10, RowTable, RowKey, SharedTable, KeyOfTable, RefTable DEF ReceiptWaits
<1>11. ASSUME NEW p \in MemberId, NEW q \in MemberId, g = "pledge",
              PledgeGuaranteeWaits(p, q, x, K, u)
       PROVE Goal
  BY <1>11, RowTable, RowKey, SharedTable, KeyOfTable DEF PledgeGuaranteeWaits
<1>12. ASSUME NEW p \in MemberId, NEW q \in MemberId, g = "substitute",
              SubstitutionWaits(p, q, x, K, u)
       PROVE Goal
  BY <1>12, RowTable, RowKey, SharedTable, KeyOfTable DEF SubstitutionWaits
<1>13. ASSUME NEW p \in MemberId, NEW a \in MemberId, NEW b \in MemberId,
             g = "transfer", a < b, TransferWaits(p, a, b, x, K, u) PROVE Goal
  BY <1>13, RowTable, RowKey, LockAssumption DEF TransferWaits, MemberId
<1>14. ASSUME NEW S \in SUBSET MemberId, g = "distribute", DistributionWaits(S, x, K, u) PROVE Goal
  <2>1. \/ l = Ref("DV-")
        \/ \E q \in S : /\ Row("members", q) \in K
                      /\ l \in {Row("members", q), Row("deposit", q), Row("shares", q), KeyOf(q)}
    BY ONLY <1>14, l \in K, DistributionHolds
  <2>2. u = 0 \/ (u = 1 /\ Ref("DV-") \notin K)
    BY <1>14 DEF DistributionWaits
  <2>3. CASE l = Ref("DV-")
    BY <1>14, <2>2, <2>3, RefTable, RefKey
  <2>4. CASE \E q \in S : /\ Row("members", q) \in K
                         /\ l \in {Row("members", q), Row("deposit", q), Row("shares", q), KeyOf(q)}
    BY <1>14, <2>2, <2>4, RowTable, RowKey, KeyOfTable
  <2> QED BY <2>1, <2>3, <2>4
<1>15. ASSUME NEW S \in SUBSET MemberId, g = "interest", InterestWaits(S, x, K, u) PROVE Goal
  <2>1. \/ l = Ref("INT-")
        \/ \E q \in S : Row("deposit", q) \in K /\ l \in {Row("deposit", q), KeyOf(q)}
    BY ONLY <1>15, l \in K, InterestHolds
  <2>2. u = 0 \/ (u = 1 /\ Ref("INT-") \notin K)
    BY <1>15 DEF InterestWaits
  <2>3. CASE l = Ref("INT-")
    BY <1>15, <2>2, <2>3, RefTable, RefKey
  <2>4. CASE \E q \in S : Row("deposit", q) \in K /\ l \in {Row("deposit", q), KeyOf(q)}
    BY <1>15, <2>2, <2>4, RowTable, RowKey, KeyOfTable
  <2> QED BY <2>1, <2>3, <2>4
<1> HIDE DEF Goal
<1>16. K # {}
  OBVIOUS
<1>17. Goal
  BY <1>1, <1>2, <1>3, <1>4, <1>5, <1>5a, <1>6, <1>7, <1>8, <1>9, <1>10, <1>11, <1>12, <1>13,
     <1>14, <1>15, <1>16 DEF Level
<1> QED BY <1>17 DEF Goal

\* ... the member in any mode, ...
LEMMA HoldsMember ==
  ASSUME NEW g, NEW x, NEW K, NEW u, Level(g, x, K, u), NEW m, NEW l \in K,
         l.table = "members", l.key = m
  PROVE  \/ u <= 6
         \/ \E b \in MemberId : g = "transfer" /\ b > m /\ u = 7 + LastMember - b
<1> DEFINE Goal ==
         \/ u <= 6
         \/ \E b \in MemberId : g = "transfer" /\ b > m /\ u = 7 + LastMember - b
<1>1. ASSUME NEW p \in MemberId, g = "deposit", DepositWaits(p, x, K, u) PROVE Goal
  BY <1>1, RowTable, RowKey DEF DepositWaits
<1>2. ASSUME NEW p \in MemberId, g = "withdraw", WithdrawalWaits(p, x, K, u) PROVE Goal
  BY <1>2, RowTable, RowKey, SharedTable, SharedKey DEF WithdrawalWaits
<1>3. ASSUME NEW p \in MemberId, g = "settle", SettlementWaits(p, x, K, u) PROVE Goal
  BY <1>3, RowTable, RowKey, KeyOfTable, KeyOfKey, RefTable DEF SettlementWaits
<1>4. ASSUME NEW p \in MemberId, g = "reject", RejectionWaits(p, x, K, u) PROVE Goal
  BY <1>4, RowTable, RowKey DEF RejectionWaits
<1>5. ASSUME NEW p \in MemberId, g = "release", ReleaseWaits(p, x, K, u) PROVE Goal
  BY <1>5, RowTable, RowKey DEF ReleaseWaits
<1>5a. ASSUME NEW p \in MemberId, g = "releaseLoan", LoanReleaseWaits(p, x, K, u) PROVE Goal
  BY <1>5a, RowTable, RowKey DEF LoanReleaseWaits
<1>6. ASSUME NEW p \in MemberId, g = "disburse", DisbursementWaits(p, x, K, u) PROVE Goal
  BY <1>6, RowTable, RowKey, KeyOfTable, KeyOfKey, WrittenTable DEF DisbursementWaits
<1>7. ASSUME NEW p \in MemberId, g = "repay", RepaymentWaits(p, x, K, u) PROVE Goal
  BY <1>7, RowTable, RowKey, KeyOfTable, KeyOfKey, RefTable DEF RepaymentWaits
<1>8. ASSUME NEW p \in MemberId, g = "adjust", AdjustmentWaits(p, x, K, u) PROVE Goal
  BY <1>8, RowTable, RowKey, SharedTable, SharedKey DEF AdjustmentWaits
<1>9. ASSUME NEW p \in MemberId, g = "writeOff", WriteOffWaits(p, x, K, u) PROVE Goal
  BY <1>9, RowTable, RowKey, RefTable DEF WriteOffWaits
<1>10. ASSUME NEW p \in MemberId, g = "receipt", ReceiptWaits(p, x, K, u) PROVE Goal
  BY <1>10, RowTable, RowKey, SharedTable, SharedKey, KeyOfTable, KeyOfKey,
     RefTable DEF ReceiptWaits
<1>11. ASSUME NEW p \in MemberId, NEW q \in MemberId, g = "pledge",
              PledgeGuaranteeWaits(p, q, x, K, u)
       PROVE Goal
  BY <1>11, RowTable, RowKey, SharedTable, SharedKey, KeyOfTable,
     KeyOfKey DEF PledgeGuaranteeWaits
<1>12. ASSUME NEW p \in MemberId, NEW q \in MemberId, g = "substitute",
              SubstitutionWaits(p, q, x, K, u)
       PROVE Goal
  BY <1>12, RowTable, RowKey, SharedTable, SharedKey, KeyOfTable, KeyOfKey DEF SubstitutionWaits
<1>13. ASSUME NEW p \in MemberId, NEW a \in MemberId, NEW b \in MemberId,
             g = "transfer", a < b, TransferWaits(p, a, b, x, K, u) PROVE Goal
  BY <1>13, RowTable, RowKey, LockAssumption DEF TransferWaits, MemberId
<1>14. ASSUME NEW S \in SUBSET MemberId, g = "distribute", DistributionWaits(S, x, K, u) PROVE Goal
  <2>1. \/ l = Ref("DV-")
        \/ \E q \in S : /\ Row("members", q) \in K
                      /\ l \in {Row("members", q), Row("deposit", q), Row("shares", q), KeyOf(q)}
    BY ONLY <1>14, l \in K, DistributionHolds
  <2>2. u = 0 \/ (u = 1 /\ Ref("DV-") \notin K)
    BY <1>14 DEF DistributionWaits
  <2>3. CASE l = Ref("DV-")
    BY <1>14, <2>2, <2>3, RefTable, RefKey
  <2>4. CASE \E q \in S : /\ Row("members", q) \in K
                         /\ l \in {Row("members", q), Row("deposit", q), Row("shares", q), KeyOf(q)}
    BY <1>14, <2>2, <2>4, RowTable, RowKey, KeyOfTable, KeyOfKey
  <2> QED BY <2>1, <2>3, <2>4
<1>15. ASSUME NEW S \in SUBSET MemberId, g = "interest", InterestWaits(S, x, K, u) PROVE Goal
  <2>1. \/ l = Ref("INT-")
        \/ \E q \in S : Row("deposit", q) \in K /\ l \in {Row("deposit", q), KeyOf(q)}
    BY ONLY <1>15, l \in K, InterestHolds
  <2>2. u = 0 \/ (u = 1 /\ Ref("INT-") \notin K)
    BY <1>15 DEF InterestWaits
  <2>3. CASE l = Ref("INT-")
    BY <1>15, <2>2, <2>3, RefTable, RefKey
  <2>4. CASE \E q \in S : Row("deposit", q) \in K /\ l \in {Row("deposit", q), KeyOf(q)}
    BY <1>15, <2>2, <2>4, RowTable, RowKey, KeyOfTable, KeyOfKey
  <2> QED BY <2>1, <2>3, <2>4
<1> HIDE DEF Goal
<1>16. K # {}
  OBVIOUS
<1>17. Goal
  BY <1>1, <1>2, <1>3, <1>4, <1>5, <1>5a, <1>6, <1>7, <1>8, <1>9, <1>10, <1>11, <1>12, <1>13,
     <1>14, <1>15, <1>16 DEF Level
<1> QED BY <1>17 DEF Goal

\* ... the member FOR UPDATE, ...
LEMMA HoldsMemberAlone ==
  ASSUME NEW g, NEW x, NEW K, NEW u, Level(g, x, K, u), NEW m, NEW l \in K,
         l.table = "members", l.key = m, l.mode \in {"update", "write"}
  PROVE  \/ g \in {"deposit", "settle", "distribute"} /\ u <= 1
         \/ g = "transfer"
<1> DEFINE Goal ==
         \/ g \in {"deposit", "settle", "distribute"} /\ u <= 1
         \/ g = "transfer"
<1>1. ASSUME NEW p \in MemberId, g = "deposit", DepositWaits(p, x, K, u) PROVE Goal
  BY <1>1, RowTable, RowKey, RowMode DEF DepositWaits
<1>2. ASSUME NEW p \in MemberId, g = "withdraw", WithdrawalWaits(p, x, K, u) PROVE Goal
  BY <1>2, RowTable, RowKey, RowMode, SharedTable, SharedKey, SharedMode DEF WithdrawalWaits
<1>3. ASSUME NEW p \in MemberId, g = "settle", SettlementWaits(p, x, K, u) PROVE Goal
  BY <1>3, RowTable, RowKey, RowMode, KeyOfTable, KeyOfKey, KeyOfMode,
     RefTable DEF SettlementWaits
<1>4. ASSUME NEW p \in MemberId, g = "reject", RejectionWaits(p, x, K, u) PROVE Goal
  BY <1>4, RowTable, RowKey, RowMode DEF RejectionWaits
<1>5. ASSUME NEW p \in MemberId, g = "release", ReleaseWaits(p, x, K, u) PROVE Goal
  BY <1>5, RowTable, RowKey, RowMode DEF ReleaseWaits
<1>5a. ASSUME NEW p \in MemberId, g = "releaseLoan", LoanReleaseWaits(p, x, K, u) PROVE Goal
  BY <1>5a, RowTable, RowKey, RowMode DEF LoanReleaseWaits
<1>6. ASSUME NEW p \in MemberId, g = "disburse", DisbursementWaits(p, x, K, u) PROVE Goal
  BY <1>6, RowTable, RowKey, RowMode, KeyOfTable, KeyOfKey, KeyOfMode,
     WrittenTable DEF DisbursementWaits
<1>7. ASSUME NEW p \in MemberId, g = "repay", RepaymentWaits(p, x, K, u) PROVE Goal
  BY <1>7, RowTable, RowKey, RowMode, KeyOfTable, KeyOfKey, KeyOfMode,
     RefTable DEF RepaymentWaits
<1>8. ASSUME NEW p \in MemberId, g = "adjust", AdjustmentWaits(p, x, K, u) PROVE Goal
  BY <1>8, RowTable, RowKey, RowMode, SharedTable, SharedKey, SharedMode DEF AdjustmentWaits
<1>9. ASSUME NEW p \in MemberId, g = "writeOff", WriteOffWaits(p, x, K, u) PROVE Goal
  BY <1>9, RowTable, RowKey, RowMode, RefTable DEF WriteOffWaits
<1>10. ASSUME NEW p \in MemberId, g = "receipt", ReceiptWaits(p, x, K, u) PROVE Goal
  BY <1>10, RowTable, RowKey, RowMode, SharedTable, SharedKey, SharedMode, KeyOfTable, KeyOfKey,
     KeyOfMode, RefTable DEF ReceiptWaits
<1>11. ASSUME NEW p \in MemberId, NEW q \in MemberId, g = "pledge",
              PledgeGuaranteeWaits(p, q, x, K, u)
       PROVE Goal
  BY <1>11, RowTable, RowKey, RowMode, SharedTable, SharedKey, SharedMode, KeyOfTable, KeyOfKey,
     KeyOfMode DEF PledgeGuaranteeWaits
<1>12. ASSUME NEW p \in MemberId, NEW q \in MemberId, g = "substitute",
              SubstitutionWaits(p, q, x, K, u)
       PROVE Goal
  BY <1>12, RowTable, RowKey, RowMode, SharedTable, SharedKey, SharedMode, KeyOfTable, KeyOfKey,
     KeyOfMode DEF SubstitutionWaits
<1>13. ASSUME NEW p \in MemberId, NEW a \in MemberId, NEW b \in MemberId,
             g = "transfer", a < b, TransferWaits(p, a, b, x, K, u) PROVE Goal
  BY <1>13, RowTable, RowKey, RowMode, LockAssumption DEF TransferWaits, MemberId
<1>14. ASSUME NEW S \in SUBSET MemberId, g = "distribute", DistributionWaits(S, x, K, u) PROVE Goal
  <2>1. \/ l = Ref("DV-")
        \/ \E q \in S : /\ Row("members", q) \in K
                      /\ l \in {Row("members", q), Row("deposit", q), Row("shares", q), KeyOf(q)}
    BY ONLY <1>14, l \in K, DistributionHolds
  <2>2. u = 0 \/ (u = 1 /\ Ref("DV-") \notin K)
    BY <1>14 DEF DistributionWaits
  <2>3. CASE l = Ref("DV-")
    BY <1>14, <2>2, <2>3, RefTable, RefKey
  <2>4. CASE \E q \in S : /\ Row("members", q) \in K
                         /\ l \in {Row("members", q), Row("deposit", q), Row("shares", q), KeyOf(q)}
    BY <1>14, <2>2, <2>4, RowTable, RowKey, RowMode, KeyOfTable, KeyOfKey, KeyOfMode
  <2> QED BY <2>1, <2>3, <2>4
<1>15. ASSUME NEW S \in SUBSET MemberId, g = "interest", InterestWaits(S, x, K, u) PROVE Goal
  <2>1. \/ l = Ref("INT-")
        \/ \E q \in S : Row("deposit", q) \in K /\ l \in {Row("deposit", q), KeyOf(q)}
    BY ONLY <1>15, l \in K, InterestHolds
  <2>2. u = 0 \/ (u = 1 /\ Ref("INT-") \notin K)
    BY <1>15 DEF InterestWaits
  <2>3. CASE l = Ref("INT-")
    BY <1>15, <2>2, <2>3, RefTable, RefKey
  <2>4. CASE \E q \in S : Row("deposit", q) \in K /\ l \in {Row("deposit", q), KeyOf(q)}
    BY <1>15, <2>2, <2>4, RowTable, RowKey, RowMode, KeyOfTable, KeyOfKey, KeyOfMode
  <2> QED BY <2>1, <2>3, <2>4
<1> HIDE DEF Goal
<1>16. K # {}
  OBVIOUS
<1>17. Goal
  BY <1>1, <1>2, <1>3, <1>4, <1>5, <1>5a, <1>6, <1>7, <1>8, <1>9, <1>10, <1>11, <1>12, <1>13,
     <1>14, <1>15, <1>16 DEF Level
<1> QED BY <1>17 DEF Goal

\* ... and a prefix.
LEMMA HoldsPrefix ==
  ASSUME NEW g, NEW x, NEW K, NEW u, Level(g, x, K, u), NEW m, NEW l \in K,
         l.table = "ref", l.key = m
  PROVE  \/ m = "WD-" /\ u = 0
         \/ m \in {"RP-", "RC-"} /\ u <= 4
         \/ m = "WO-" /\ u <= 2
         \/ m \in {"DV-", "INT-"} /\ u = 0
<1> DEFINE Goal ==
         \/ m = "WD-" /\ u = 0
         \/ m \in {"RP-", "RC-"} /\ u <= 4
         \/ m = "WO-" /\ u <= 2
         \/ m \in {"DV-", "INT-"} /\ u = 0
<1>1. ASSUME NEW p \in MemberId, g = "deposit", DepositWaits(p, x, K, u) PROVE Goal
  BY <1>1, RowTable DEF DepositWaits
<1>2. ASSUME NEW p \in MemberId, g = "withdraw", WithdrawalWaits(p, x, K, u) PROVE Goal
  BY <1>2, RowTable, SharedTable DEF WithdrawalWaits
<1>3. ASSUME NEW p \in MemberId, g = "settle", SettlementWaits(p, x, K, u) PROVE Goal
  BY <1>3, RowTable, KeyOfTable, RefTable, RefKey DEF SettlementWaits
<1>4. ASSUME NEW p \in MemberId, g = "reject", RejectionWaits(p, x, K, u) PROVE Goal
  BY <1>4, RowTable DEF RejectionWaits
<1>5. ASSUME NEW p \in MemberId, g = "release", ReleaseWaits(p, x, K, u) PROVE Goal
  BY <1>5, RowTable DEF ReleaseWaits
<1>5a. ASSUME NEW p \in MemberId, g = "releaseLoan", LoanReleaseWaits(p, x, K, u) PROVE Goal
  BY <1>5a, RowTable DEF LoanReleaseWaits
<1>6. ASSUME NEW p \in MemberId, g = "disburse", DisbursementWaits(p, x, K, u) PROVE Goal
  BY <1>6, RowTable, KeyOfTable, WrittenTable DEF DisbursementWaits
<1>7. ASSUME NEW p \in MemberId, g = "repay", RepaymentWaits(p, x, K, u) PROVE Goal
  BY <1>7, RowTable, KeyOfTable, RefTable, RefKey DEF RepaymentWaits
<1>8. ASSUME NEW p \in MemberId, g = "adjust", AdjustmentWaits(p, x, K, u) PROVE Goal
  BY <1>8, RowTable, SharedTable DEF AdjustmentWaits
<1>9. ASSUME NEW p \in MemberId, g = "writeOff", WriteOffWaits(p, x, K, u) PROVE Goal
  BY <1>9, RowTable, RefTable, RefKey DEF WriteOffWaits
<1>10. ASSUME NEW p \in MemberId, g = "receipt", ReceiptWaits(p, x, K, u) PROVE Goal
  BY <1>10, RowTable, SharedTable, KeyOfTable, RefTable, RefKey DEF ReceiptWaits
<1>11. ASSUME NEW p \in MemberId, NEW q \in MemberId, g = "pledge",
              PledgeGuaranteeWaits(p, q, x, K, u)
       PROVE Goal
  BY <1>11, RowTable, SharedTable, KeyOfTable DEF PledgeGuaranteeWaits
<1>12. ASSUME NEW p \in MemberId, NEW q \in MemberId, g = "substitute",
              SubstitutionWaits(p, q, x, K, u)
       PROVE Goal
  BY <1>12, RowTable, SharedTable, KeyOfTable DEF SubstitutionWaits
<1>13. ASSUME NEW p \in MemberId, NEW a \in MemberId, NEW b \in MemberId,
             g = "transfer", a < b, TransferWaits(p, a, b, x, K, u) PROVE Goal
  BY <1>13, RowTable, LockAssumption DEF TransferWaits, MemberId
<1>14. ASSUME NEW S \in SUBSET MemberId, g = "distribute", DistributionWaits(S, x, K, u) PROVE Goal
  <2>1. \/ l = Ref("DV-")
        \/ \E q \in S : /\ Row("members", q) \in K
                      /\ l \in {Row("members", q), Row("deposit", q), Row("shares", q), KeyOf(q)}
    BY ONLY <1>14, l \in K, DistributionHolds
  <2>2. u = 0 \/ (u = 1 /\ Ref("DV-") \notin K)
    BY <1>14 DEF DistributionWaits
  <2>3. CASE l = Ref("DV-")
    BY <1>14, <2>2, <2>3, RefTable, RefKey
  <2>4. CASE \E q \in S : /\ Row("members", q) \in K
                         /\ l \in {Row("members", q), Row("deposit", q), Row("shares", q), KeyOf(q)}
    BY <1>14, <2>2, <2>4, RowTable, KeyOfTable
  <2> QED BY <2>1, <2>3, <2>4
<1>15. ASSUME NEW S \in SUBSET MemberId, g = "interest", InterestWaits(S, x, K, u) PROVE Goal
  <2>1. \/ l = Ref("INT-")
        \/ \E q \in S : Row("deposit", q) \in K /\ l \in {Row("deposit", q), KeyOf(q)}
    BY ONLY <1>15, l \in K, InterestHolds
  <2>2. u = 0 \/ (u = 1 /\ Ref("INT-") \notin K)
    BY <1>15 DEF InterestWaits
  <2>3. CASE l = Ref("INT-")
    BY <1>15, <2>2, <2>3, RefTable, RefKey
  <2>4. CASE \E q \in S : Row("deposit", q) \in K /\ l \in {Row("deposit", q), KeyOf(q)}
    BY <1>15, <2>2, <2>4, RowTable, KeyOfTable
  <2> QED BY <2>1, <2>3, <2>4
<1> HIDE DEF Goal
<1>16. K # {}
  OBVIOUS
<1>17. Goal
  BY <1>1, <1>2, <1>3, <1>4, <1>5, <1>5a, <1>6, <1>7, <1>8, <1>9, <1>10, <1>11, <1>12, <1>13,
     <1>14, <1>15, <1>16 DEF Level
<1> QED BY <1>17 DEF Goal

-----------------------------------------------------------------------------
(* Whoever a call waits for waits at a lower level.                        *)

HoldsAlone(L) == \E l \in L : l.table = "members" /\ l.mode = "update"

\* No lock of one set conflicts with one of the other.
Compatible(L, K) == \A a \in L, b \in K : ~(Clash(a, b) /\ Clash(b, a))

\* What is known of a call h that waits for w with the locks L and of a
\* call g that is blocked at x with the locks K.
Meets(h, w, L, g, x, K) ==
  /\ Compatible(L, K)
  /\ {h, g} \notin Crossing
  /\ \A m : x = KeyOf(m) /\ Shared(m) \in L => HoldsAlone(L)
  /\ \A m : ~(h = "settle" /\ w = Written(m) /\ g = "release" /\ x = Row("deposit", m))

\* What the conflict table says of the pairs that meet.
LEMMA Conflicts ==
  /\ ConflictsWith["key share"] = {"update"}
  /\ ConflictsWith["share"] = {"write", "update"}
  /\ "update" \in ConflictsWith["update"]
  /\ "share" \in ConflictsWith["update"]
  /\ "update" \in ConflictsWith["share"]
  BY DEF ConflictsWith, Mode

LEMMA RowsExclude ==
  ASSUME NEW L, NEW K, Compatible(L, K), NEW t, NEW m, Row(t, m) \in L
  PROVE  Row(t, m) \notin K
<1>1. Clash(Row(t, m), Row(t, m))
  BY Conflicts DEF Clash, Row, Lock
<1> QED BY <1>1 DEF Compatible

LEMMA MemberExcludes ==
  ASSUME NEW L, NEW K, Compatible(L, K), NEW m, Row("members", m) \in L
  PROVE  Row("members", m) \notin K /\ Shared(m) \notin K
<1>1. Clash(Row("members", m), Shared(m)) /\ Clash(Shared(m), Row("members", m))
  BY Conflicts DEF Clash, Row, Shared, Lock
<1>2. Row("members", m) \notin K
  BY RowsExclude
<1> QED BY <1>1, <1>2 DEF Compatible

\* The pairs kept apart, spelled out.
LEMMA NotCrossing ==
  ASSUME NEW h, NEW g, {h, g} \notin Crossing
  PROVE  /\ ~(h = "disburse" /\ g \in {"deposit", "settle", "distribute"})
         /\ ~(g = "disburse" /\ h \in {"deposit", "settle", "distribute"})
         /\ ~(h = "interest" /\ g \in {"deposit", "settle", "distribute", "transfer"})
         /\ ~(g = "interest" /\ h \in {"deposit", "settle", "distribute", "transfer"})
         /\ ~(h = "settle" /\ g \in {"repay", "writeOff", "substitute"})
         /\ ~(g = "settle" /\ h \in {"repay", "writeOff", "substitute"})
         /\ ~(h = "transfer" /\ g \in {"pledge", "substitute", "repay", "writeOff"})
         /\ ~(g = "transfer" /\ h \in {"pledge", "substitute", "repay", "writeOff"})
<1>1. {h, g} = {g, h}
  OBVIOUS
<1>2. ~(h = "disburse" /\ g \in {"deposit", "settle", "distribute"})
  BY <1>1 DEF Crossing
<1>3. ~(g = "disburse" /\ h \in {"deposit", "settle", "distribute"})
  BY <1>1 DEF Crossing
<1>4. ~(h = "interest" /\ g \in {"deposit", "settle", "distribute", "transfer"})
  BY <1>1 DEF Crossing
<1>5. ~(g = "interest" /\ h \in {"deposit", "settle", "distribute", "transfer"})
  BY <1>1 DEF Crossing
<1>6. ~(h = "settle" /\ g \in {"repay", "writeOff", "substitute"})
  BY <1>1 DEF Crossing
<1>7. ~(g = "settle" /\ h \in {"repay", "writeOff", "substitute"})
  BY <1>1 DEF Crossing
<1>8. ~(h = "transfer" /\ g \in {"pledge", "substitute", "repay", "writeOff"})
  BY <1>1 DEF Crossing
<1>9. ~(g = "transfer" /\ h \in {"pledge", "substitute", "repay", "writeOff"})
  BY <1>1 DEF Crossing
<1> QED BY <1>2, <1>3, <1>4, <1>5, <1>6, <1>7, <1>8, <1>9

LEMMA ClashFields ==
  ASSUME NEW a, NEW b, Clash(a, b)
  PROVE  a.table = b.table /\ a.key = b.key
  BY DEF Clash

LEMMA ClashAlone ==
  ASSUME NEW l, NEW m, Clash(l, Shared(m)) \/ Clash(l, KeyOf(m))
  PROVE  l.mode \in {"update", "write"}
<1>1. CASE Clash(l, Shared(m))
  BY <1>1, Conflicts DEF Clash, Shared, Lock
<1>2. CASE Clash(l, KeyOf(m))
  BY <1>2, Conflicts DEF Clash, KeyOf, Lock
<1> QED BY <1>1, <1>2

\* The account of a member, by a call that holds the member alone, and by
\* one that does not.
LEMMA DepositHeld ==
  ASSUME NEW h, NEW L, NEW g, NEW x, NEW K, NEW u, NEW m, Meets(h, Row("deposit", m), L, g, x, K),
         Level(g, x, K, u), NEW l \in K, Clash(l, Row("deposit", m)),
         h \in {"deposit", "settle", "distribute"}, Row("members", m) \in L
  PROVE  FALSE
<1>0. u \in Nat
  BY ONLY l \in K, Level(g, x, K, u), LevelBound
<1>1. l.table = "deposit" /\ l.key = m
  BY ClashFields, RowTable, RowKey
<1>2. \/ u <= 1 /\ Row("members", m) \in K
      \/ u <= 2 /\ Shared(m) \in K
      \/ g = "disburse" /\ Row("applications", m) \in K /\ (u = 0 \/ x = KeyOf(m))
      \/ g = "interest" /\ u <= 1
  BY ONLY <1>1, l \in K, Level(g, x, K, u), HoldsDeposit
<1>3. Compatible(L, K) /\ {h, g} \notin Crossing
  BY DEF Meets
<1>4. Row("members", m) \notin K /\ Shared(m) \notin K
  BY <1>3, MemberExcludes
<1>5. g # "disburse" /\ g # "interest"
  BY <1>3, NotCrossing
<1> QED BY <1>2, <1>4, <1>5

\* Whoever waits for a deposit account waits above the call that holds it; and so
\* on for the other tables.
LEMMA DepositAwaited ==
  ASSUME NEW h, NEW L, NEW g, NEW x, NEW K, NEW u, NEW m, Meets(h, Row("deposit", m), L, g, x, K),
         Level(g, x, K, u), NEW l \in K, Clash(l, Row("deposit", m)),
         Row("applications", m) \in L \/ (Shared(m) \in L /\ ~HoldsAlone(L))
  PROVE  u < 3
<1>0. u \in Nat
  BY ONLY l \in K, Level(g, x, K, u), LevelBound
<1>1. l.table = "deposit" /\ l.key = m
  BY ClashFields, RowTable, RowKey
<1>2. \/ u <= 1 /\ Row("members", m) \in K
      \/ u <= 2 /\ Shared(m) \in K
      \/ g = "disburse" /\ Row("applications", m) \in K /\ (u = 0 \/ x = KeyOf(m))
      \/ g = "interest" /\ u <= 1
  BY ONLY <1>1, l \in K, Level(g, x, K, u), HoldsDeposit
<1>3. Compatible(L, K) /\ {h, g} \notin Crossing
  BY DEF Meets
<1>4. ASSUME g = "disburse", Row("applications", m) \in K, x = KeyOf(m) PROVE FALSE
  <2>1. Row("applications", m) \notin L
    BY <1>3, <1>4, RowsExclude
  <2> QED BY <1>4, <2>1 DEF Meets
<1> QED BY <1>0, <1>2, <1>4

LEMMA SharesAwaited ==
  ASSUME NEW h, NEW L, NEW g, NEW x, NEW K, NEW u, NEW m, Meets(h, Row("shares", m), L, g, x, K),
         Level(g, x, K, u), NEW l \in K, Clash(l, Row("shares", m)),
         Row("members", m) \in L
  PROVE  FALSE
<1>1. l.table = "shares" /\ l.key = m
  BY ClashFields, RowTable, RowKey
<1>2. Row("members", m) \in K
  BY ONLY <1>1, l \in K, Level(g, x, K, u), HoldsShares
<1> QED BY <1>2, MemberExcludes DEF Meets

LEMMA LoanAwaited ==
  ASSUME NEW h, NEW L, NEW g, NEW x, NEW K, NEW u, NEW m, Meets(h, Row("loans", m), L, g, x, K),
         Level(g, x, K, u), NEW l \in K, Clash(l, Row("loans", m))
  PROVE  u < 6 /\ (h = "settle" /\ Row("members", m) \in L => u < 1)
<1>0. u \in Nat
  BY ONLY l \in K, Level(g, x, K, u), LevelBound
<1>1. l.table = "loans" /\ l.key = m
  BY ClashFields, RowTable, RowKey
<1>2. /\ u <= 5
      /\ \/ g \in {"repay", "writeOff", "substitute"} \/ Row("members", m) \in K \/ Shared(m) \in K
         \/ g = "releaseLoan" /\ u = 0
  BY ONLY <1>1, l \in K, Level(g, x, K, u), HoldsLoan
<1>3. ASSUME h = "settle", Row("members", m) \in L PROVE u < 1
  <2>1. Compatible(L, K) /\ {h, g} \notin Crossing
    BY DEF Meets
  <2>2. Row("members", m) \notin K /\ Shared(m) \notin K
    BY <1>3, <2>1, MemberExcludes
  <2>3. g \notin {"repay", "writeOff", "substitute"}
    BY <1>3, <2>1, NotCrossing
  <2> QED BY <1>2, <2>2, <2>3
<1> QED BY <1>0, <1>2, <1>3

LEMMA GuaranteesAwaited ==
  ASSUME NEW h, NEW w, NEW L, NEW g, NEW x, NEW K, NEW u, NEW m, Meets(h, w, L, g, x, K),
         w = Written(m) \/ w = Row("guarantees", m),
         Level(g, x, K, u), NEW l \in K, Clash(l, w)
  PROVE  /\ u < 4
         /\ Row("applications", m) \notin L
         /\ ~(h = "settle" /\ w = Written(m))
<1>0. u \in Nat
  BY ONLY l \in K, Level(g, x, K, u), LevelBound
<1>1. l.table = "guarantees" /\ l.key = m
  BY ClashFields, RowTable, RowKey, WrittenTable, WrittenKey
<1>2. /\ Row("applications", m) \in K /\ u <= 3
      /\ g \in {"substitute", "disburse"} \/ (g = "release" /\ x = Row("deposit", m))
  BY ONLY <1>1, l \in K, Level(g, x, K, u), HoldsGuarantees
<1>3. Compatible(L, K) /\ {h, g} \notin Crossing
  BY DEF Meets
<1>4. Row("applications", m) \notin L
  BY <1>2, <1>3, RowsExclude
<1>5. ASSUME h = "settle", w = Written(m) PROVE FALSE
  <2>1. g \notin {"substitute", "disburse"}
    BY <1>3, <1>5, NotCrossing
  <2> QED BY <1>2, <1>5, <2>1 DEF Meets
<1> QED BY <1>0, <1>2, <1>4, <1>5

LEMMA MemberAwaited ==
  ASSUME NEW h, NEW w, NEW L, NEW g, NEW x, NEW K, NEW u, NEW m \in MemberId,
         Meets(h, w, L, g, x, K),
         w.table = "members", w.key = m, Level(g, x, K, u), NEW l \in K, Clash(l, w)
  PROVE  u < 8 + LastMember /\ u < 7 + LastMember - m
<1>0. u \in Nat
  BY ONLY l \in K, Level(g, x, K, u), LevelBound
<1>1. l.table = "members" /\ l.key = m
  BY ClashFields
<1>2. u <= 6 \/ \E b \in MemberId : g = "transfer" /\ b > m /\ u = 7 + LastMember - b
  BY ONLY <1>1, l \in K, Level(g, x, K, u), HoldsMember
<1> QED BY <1>0, <1>2, LockAssumption DEF MemberId

LEMMA MemberAwaitedShared ==
  ASSUME NEW h, NEW w, NEW L, NEW g, NEW x, NEW K, NEW u, NEW m, Meets(h, w, L, g, x, K),
         w = Shared(m) \/ w = KeyOf(m), Level(g, x, K, u), NEW l \in K, Clash(l, w)
  PROVE  /\ h \in {"pledge", "substitute", "repay", "writeOff"} => u < 2
         /\ h # "interest"
<1>0. u \in Nat
  BY ONLY l \in K, Level(g, x, K, u), LevelBound
<1>1. l.table = "members" /\ l.key = m
  BY ClashFields, SharedTable, SharedKey, KeyOfTable, KeyOfKey
<1>2. l.mode \in {"update", "write"}
  BY ClashAlone
<1>3. (g \in {"deposit", "settle", "distribute"} /\ u <= 1) \/ g = "transfer"
  BY ONLY <1>1, <1>2, l \in K, Level(g, x, K, u), HoldsMemberAlone
<1>4. {h, g} \notin Crossing
  BY DEF Meets
<1>5. h \in {"pledge", "substitute", "repay", "writeOff"} => g # "transfer"
  BY <1>4, NotCrossing
<1>6. h = "interest" => g \notin {"deposit", "settle", "distribute", "transfer"}
  BY <1>4, NotCrossing
<1> QED BY <1>0, <1>3, <1>5, <1>6

LEMMA PrefixAwaited ==
  ASSUME NEW g, NEW x, NEW K, NEW u, NEW p, Level(g, x, K, u), NEW l \in K, Clash(l, Ref(p))
  PROVE  /\ p \notin {"MP-", "LN-", "ST-"}
         /\ p \in {"WD-", "DV-", "INT-"} => u < 1
         /\ p \in {"RP-", "RC-"} => u < 5
         /\ p = "WO-" => u < 3
<1>0. u \in Nat
  BY ONLY l \in K, Level(g, x, K, u), LevelBound
<1>1. l.table = "ref" /\ l.key = p
  BY ClashFields, RefTable, RefKey
<1>2. \/ p = "WD-" /\ u = 0
      \/ p \in {"RP-", "RC-"} /\ u <= 4
      \/ p = "WO-" /\ u <= 2
      \/ p \in {"DV-", "INT-"} /\ u = 0
  BY ONLY <1>1, l \in K, Level(g, x, K, u), HoldsPrefix
<1> QED BY <1>0, <1>2

\* The levels fall along every edge: if a call at level v asks for a lock that
\* conflicts with one held at level u, then u < v.
LEMMA EdgeFalls ==
  ASSUME NEW h, NEW w, NEW L, NEW v, NEW g, NEW x, NEW K, NEW u, Meets(h, w, L, g, x, K),
         Level(h, w, L, v), Level(g, x, K, u), NEW l \in K, Clash(l, w)
  PROVE  u < v
<1>0. u \in Nat /\ u <= 8 + LastMember
  BY ONLY l \in K, Level(g, x, K, u), LevelBound
<1>1. ASSUME NEW p \in MemberId, h = "deposit", DepositWaits(p, w, L, v) PROVE u < v
  <2>1. CASE w = Row("deposit", p) /\ L = {Row("members", p)} /\ v = 0
    <3>1. Row("members", p) \in L
      BY <2>1
    <3> QED BY <1>1, <2>1, <3>1, DepositHeld
  <2>2. CASE w = Ref("MP-") /\ L = {Row("members", p), Row("deposit", p)} /\ v = 0
    BY <2>2, PrefixAwaited
  <2> QED BY <1>1, <2>1, <2>2 DEF DepositWaits
<1>2. ASSUME NEW p \in MemberId, h = "withdraw", WithdrawalWaits(p, w, L, v) PROVE u < v
  <2>1. CASE w = Row("deposit", p) /\ L = {Shared(p)} /\ v = 3
    <3>1. Shared(p) \in L /\ ~HoldsAlone(L)
      BY <2>1, RowTable, SharedMode DEF HoldsAlone
    <3> QED BY <2>1, <3>1, DepositAwaited
  <2>2. CASE w = Ref("WD-") /\ L = {Shared(p), Row("deposit", p)} /\ v = 1
    BY <2>2, PrefixAwaited
  <2> QED BY <1>2, <2>1, <2>2 DEF WithdrawalWaits
<1>3. ASSUME NEW p \in MemberId, h = "settle", SettlementWaits(p, w, L, v) PROVE u < v
  <2>1. CASE w = Row("members", p) /\ L = {Row("member_exits", p)} /\ v = 8 + LastMember
    <3>1. w.table = "members" /\ w.key = p
      BY <2>1, RowTable, RowKey
    <3>2. u < 8 + LastMember /\ u < 7 + LastMember - p
      BY <1>3, <3>1, MemberAwaited
    <3> QED BY <2>1, <3>2
  <2>2. CASE /\ w = Row("deposit", p) /\ v = 0
             /\ L = {Row("member_exits", p), Row("members", p)}
    <3>1. Row("members", p) \in L
      BY <2>2
    <3> QED BY <1>3, <2>2, <3>1, DepositHeld
  <2>3. CASE /\ w = Row("shares", p) /\ v = 0
             /\ L = {Row("member_exits", p), Row("members", p), Row("deposit", p)}
    <3>1. Row("members", p) \in L
      BY <2>3
    <3> QED BY <2>3, <3>1, SharesAwaited
  <2>4. CASE /\ w = Row("loans", p) /\ v = 1
             /\ L = {Row("member_exits", p), Row("members", p), Row("deposit", p),
                     Row("shares", p)}
    <3>1. Row("members", p) \in L
      BY <2>4
    <3> QED BY <1>3, <2>4, <3>1, LoanAwaited
  <2>5. CASE /\ w = Ref("WD-") /\ v = 1
             /\ L = {Row("member_exits", p), Row("members", p), Row("deposit", p),
                     Row("shares", p), Row("loans", p)}
    BY <2>5, PrefixAwaited
  <2>6. CASE /\ w = Written(p) /\ v = 0
             /\ L = {Row("member_exits", p), Row("members", p), Row("deposit", p),
                     Row("shares", p), Row("loans", p), Ref("WD-"), KeyOf(p)}
    BY <1>3, <2>6, GuaranteesAwaited
  <2> QED BY <1>3, <2>1, <2>2, <2>3, <2>4, <2>5, <2>6 DEF SettlementWaits
<1>4. ASSUME NEW p \in MemberId, h = "reject", RejectionWaits(p, w, L, v) PROVE u < v
  <2>1. CASE w = Written(p) /\ L = {Row("applications", p)} /\ v = 0
    <3>1. Row("applications", p) \in L
      BY <2>1
    <3> QED BY <2>1, <3>1, GuaranteesAwaited
  <2> QED BY <1>4, <2>1 DEF RejectionWaits
<1>5. ASSUME NEW p \in MemberId, h = "release", ReleaseWaits(p, w, L, v) PROVE u < v
  <2>1. CASE w = Row("guarantees", p) /\ L = {Row("applications", p)} /\ v = 0
    <3>1. Row("applications", p) \in L
      BY <2>1
    <3> QED BY <2>1, <3>1, GuaranteesAwaited
  <2>2. CASE /\ w = Row("deposit", p) /\ v = 3
             /\ L = {Row("applications", p), Row("guarantees", p)}
    <3>1. Row("applications", p) \in L
      BY <2>2
    <3> QED BY <2>2, <3>1, DepositAwaited
  <2> QED BY <1>5, <2>1, <2>2 DEF ReleaseWaits
<1>5a. ASSUME NEW p \in MemberId, h = "releaseLoan", LoanReleaseWaits(p, w, L, v) PROVE u < v
  <2>1. CASE w = Row("loans", p) /\ L = {Row("applications", p)} /\ v = 6
    BY <2>1, LoanAwaited
  <2>2. CASE /\ w = Row("guarantees", p) /\ v = 0
             /\ L = {Row("applications", p), Row("loans", p)}
    <3>1. Row("applications", p) \in L
      BY <2>2
    <3> QED BY <2>2, <3>1, GuaranteesAwaited
  <2> QED BY <1>5a, <2>1, <2>2 DEF LoanReleaseWaits
<1>6. ASSUME NEW p \in MemberId, h = "disburse", DisbursementWaits(p, w, L, v) PROVE u < v
  <2>1. CASE w = Row("deposit", p) /\ L = {Row("applications", p)} /\ v = 3
    <3>1. Row("applications", p) \in L
      BY <2>1
    <3> QED BY <2>1, <3>1, DepositAwaited
  <2>2. CASE /\ w = KeyOf(p) /\ v = 8 + LastMember
             /\ L = {Row("applications", p), Row("deposit", p)}
    <3>1. w.table = "members" /\ w.key = p
      BY <2>2, KeyOfTable, KeyOfKey
    <3>2. u < 8 + LastMember /\ u < 7 + LastMember - p
      BY <1>6, <3>1, MemberAwaited
    <3> QED BY <2>2, <3>2
  <2>3. CASE /\ w = Written(p) /\ v = 0
             /\ L = {Row("applications", p), Row("deposit", p), KeyOf(p)}
    <3>1. Row("applications", p) \in L
      BY <2>3
    <3> QED BY <2>3, <3>1, GuaranteesAwaited
  <2>4. CASE /\ w = Ref("LN-") /\ v = 0
             /\ L = {Row("applications", p), Row("deposit", p), KeyOf(p), Written(p)}
    BY <2>4, PrefixAwaited
  <2> QED BY <1>6, <2>1, <2>2, <2>3, <2>4 DEF DisbursementWaits
<1>7. ASSUME NEW p \in MemberId, h = "repay", RepaymentWaits(p, w, L, v) PROVE u < v
  <2>1. CASE w = Ref("RP-") /\ L = {Row("loans", p)} /\ v = 5
    BY <2>1, PrefixAwaited
  <2>2. CASE w = KeyOf(p) /\ L = {Row("loans", p), Ref("RP-")} /\ v = 2
    BY <1>7, <2>2, MemberAwaitedShared
  <2>3. CASE w = Written(p) /\ L = {Row("loans", p), Ref("RP-"), KeyOf(p)} /\ v = 4
    BY <2>3, GuaranteesAwaited
  <2> QED BY <1>7, <2>1, <2>2, <2>3 DEF RepaymentWaits
<1>8. ASSUME NEW p \in MemberId, h = "adjust", AdjustmentWaits(p, w, L, v) PROVE u < v
  <2>1. CASE w = Shared(p) /\ L = {Row("transactions", p)} /\ v = 8 + LastMember
    <3>1. w.table = "members" /\ w.key = p
      BY <2>1, SharedTable, SharedKey
    <3>2. u < 8 + LastMember /\ u < 7 + LastMember - p
      BY <1>8, <3>1, MemberAwaited
    <3> QED BY <2>1, <3>2
  <2>2. CASE w = Row("loans", p) /\ L = {Row("transactions", p), Shared(p)} /\ v = 6
    BY <2>2, LoanAwaited
  <2>3. CASE /\ w = Ref("RP-") /\ v = 5
             /\ L = {Row("transactions", p), Shared(p), Row("loans", p)}
    BY <2>3, PrefixAwaited
  <2> QED BY <1>8, <2>1, <2>2, <2>3 DEF AdjustmentWaits
<1>9. ASSUME NEW p \in MemberId, h = "writeOff", WriteOffWaits(p, w, L, v) PROVE u < v
  <2>1. CASE w = Row("loans", p) /\ L = {Row("loan_write_offs", p)} /\ v = 6
    BY <2>1, LoanAwaited
  <2>2. CASE w = Ref("WO-") /\ L = {Row("loan_write_offs", p), Row("loans", p)} /\ v = 3
    BY <2>2, PrefixAwaited
  <2>3. CASE /\ w = KeyOf(p) /\ v = 2
             /\ L = {Row("loan_write_offs", p), Row("loans", p), Ref("WO-")}
    BY <1>9, <2>3, MemberAwaitedShared
  <2> QED BY <1>9, <2>1, <2>2, <2>3 DEF WriteOffWaits
<1>10. ASSUME NEW p \in MemberId, h = "receipt", ReceiptWaits(p, w, L, v) PROVE u < v
  <2>1. CASE w = Shared(p) /\ L = {Row("loan_write_offs", p)} /\ v = 8 + LastMember
    <3>1. w.table = "members" /\ w.key = p
      BY <2>1, SharedTable, SharedKey
    <3>2. u < 8 + LastMember /\ u < 7 + LastMember - p
      BY <1>10, <3>1, MemberAwaited
    <3> QED BY <2>1, <3>2
  <2>2. CASE w = Row("loans", p) /\ L = {Row("loan_write_offs", p), Shared(p)} /\ v = 6
    BY <2>2, LoanAwaited
  <2>3. CASE /\ w = Ref("RC-") /\ v = 5
             /\ L = {Row("loan_write_offs", p), Shared(p), Row("loans", p)}
    BY <2>3, PrefixAwaited
  <2>4. CASE /\ w = Written(p) /\ v = 4
             /\ L = {Row("loan_write_offs", p), Shared(p), Row("loans", p), Ref("RC-"),
                     KeyOf(p)}
    BY <2>4, GuaranteesAwaited
  <2> QED BY <1>10, <2>1, <2>2, <2>3, <2>4 DEF ReceiptWaits
<1>11. ASSUME NEW p \in MemberId, NEW q \in MemberId, h = "pledge",
              PledgeGuaranteeWaits(p, q, w, L, v)
       PROVE u < v
  <2>1. CASE w = Shared(q) /\ L = {Row("applications", p)} /\ v = 2
    BY <1>11, <2>1, MemberAwaitedShared
  <2>2. CASE w = Row("deposit", q) /\ L = {Row("applications", p), Shared(q)} /\ v = 3
    <3>1. Shared(q) \in L /\ ~HoldsAlone(L)
      BY <2>2, RowTable, SharedMode DEF HoldsAlone
    <3> QED BY <2>2, <3>1, DepositAwaited
  <2>3. CASE /\ w = KeyOf(p) /\ v = 2
             /\ L = {Row("applications", p), Shared(q), Row("deposit", q), KeyOf(q)}
    BY <1>11, <2>3, MemberAwaitedShared
  <2> QED BY <1>11, <2>1, <2>2, <2>3 DEF PledgeGuaranteeWaits
<1>12. ASSUME NEW p \in MemberId, NEW q \in MemberId, h = "substitute",
              SubstitutionWaits(p, q, w, L, v)
       PROVE u < v
  <2>1. CASE w = Row("loans", p) /\ L = {Row("applications", p)} /\ v = 6
    BY <2>1, LoanAwaited
  <2>2. CASE /\ w = Row("guarantees", p) /\ v = 0
             /\ L = {Row("applications", p), Row("loans", p)}
    <3>1. Row("applications", p) \in L
      BY <2>2
    <3> QED BY <2>2, <3>1, GuaranteesAwaited
  <2>3. CASE /\ w = Shared(q) /\ v = 2
             /\ L = {Row("applications", p), Row("loans", p), Row("guarantees", p)}
    BY <1>12, <2>3, MemberAwaitedShared
  <2>4. CASE /\ w = Row("deposit", q) /\ v = 3
             /\ L = {Row("applications", p), Row("loans", p), Row("guarantees", p), Shared(q)}
    <3>1. Shared(q) \in L /\ ~HoldsAlone(L)
      BY <2>4, RowTable, SharedMode DEF HoldsAlone
    <3> QED BY <2>4, <3>1, DepositAwaited
  <2>5. CASE /\ w = KeyOf(p) /\ v = 2
             /\ L = {Row("applications", p), Row("loans", p), Row("guarantees", p), Shared(q),
                     Row("deposit", q), KeyOf(q)}
    BY <1>12, <2>5, MemberAwaitedShared
  <2> QED BY <1>12, <2>1, <2>2, <2>3, <2>4, <2>5 DEF SubstitutionWaits
<1>13. ASSUME NEW p \in MemberId, NEW a \in MemberId, NEW b \in MemberId,
             h = "transfer", a < b, TransferWaits(p, a, b, w, L, v) PROVE u < v
  <2>1. CASE /\ w = Row("members", a) /\ v = 7 + LastMember - a
             /\ L = {Row("share_transfers", p)}
    <3>1. w.table = "members" /\ w.key = a
      BY <2>1, RowTable, RowKey
    <3>2. u < 8 + LastMember /\ u < 7 + LastMember - a
      BY <1>13, <3>1, MemberAwaited
    <3> QED BY <2>1, <3>2
  <2>2. CASE /\ w = Row("members", b) /\ v = 7 + LastMember - b
             /\ L = {Row("share_transfers", p), Row("members", a)}
    <3>1. w.table = "members" /\ w.key = b
      BY <2>2, RowTable, RowKey
    <3>2. u < 8 + LastMember /\ u < 7 + LastMember - b
      BY <1>13, <3>1, MemberAwaited
    <3> QED BY <2>2, <3>2
  <2>3. CASE /\ w = Row("shares", a) /\ v = 0
             /\ L = {Row("share_transfers", p), Row("members", a), Row("members", b)}
    <3>1. Row("members", a) \in L
      BY <2>3
    <3> QED BY <2>3, <3>1, SharesAwaited
  <2>4. CASE /\ w = Row("shares", b) /\ v = 0
             /\ L = {Row("share_transfers", p), Row("members", a), Row("members", b),
                     Row("shares", a)}
    <3>1. Row("members", b) \in L
      BY <2>4
    <3> QED BY <2>4, <3>1, SharesAwaited
  <2>5. CASE /\ w = Ref("ST-") /\ v = 0
             /\ L = {Row("share_transfers", p), Row("members", a), Row("members", b),
                     Row("shares", a), Row("shares", b)}
    BY <2>5, PrefixAwaited
  <2> QED BY <1>13, <2>1, <2>2, <2>3, <2>4, <2>5 DEF TransferWaits
<1>14. ASSUME NEW S \in SUBSET MemberId, h = "distribute", DistributionWaits(S, w, L, v) PROVE u < v
  <2>1. PICK q \in S : (w \in {Row("deposit", q), Row("shares", q)}) \/ (w = Ref("DV-") /\ v = 1)
    BY <1>14 DEF DistributionWaits
  <2>2. Row("members", q) \in L
    BY <1>14 DEF DistributionWaits, ScanLocks, Row
  <2>3. CASE w = Row("deposit", q)
    BY <1>14, <2>2, <2>3, DepositHeld
  <2>4. CASE w = Row("shares", q)
    BY <2>2, <2>4, SharesAwaited
  <2>5. CASE w = Ref("DV-") /\ v = 1
    BY <2>5, PrefixAwaited
  <2> QED BY <2>1, <2>3, <2>4, <2>5
<1>15. ASSUME NEW S \in SUBSET MemberId, h = "interest", InterestWaits(S, w, L, v) PROVE u < v
  <2>1. PICK q \in S : (w = KeyOf(q)) \/ (w = Ref("INT-") /\ v = 1)
    BY <1>15 DEF InterestWaits
  <2>2. CASE w = KeyOf(q)
    BY <1>15, <2>2, MemberAwaitedShared
  <2>3. CASE w = Ref("INT-") /\ v = 1
    BY <2>3, PrefixAwaited
  <2> QED BY <2>1, <2>2, <2>3
<1>16. CASE L = {} /\ v = 9 + LastMember
  BY <1>0, <1>16, LockAssumption
<1> QED BY <1>1, <1>2, <1>3, <1>4, <1>5, <1>5a, <1>6, <1>7, <1>8, <1>9, <1>10, <1>11, <1>12,
           <1>13, <1>14, <1>15, <1>16 DEF Level

-----------------------------------------------------------------------------
(* Where a session can be.                                                 *)

\* sc is what handler h asks for when it is called for member m.
Follows(h, m, sc) ==
  \/ h = "deposit" /\ sc = Deposit(m)
  \/ h = "withdraw" /\ sc = Withdrawal(m)
  \/ h = "settle" /\ sc = Settlement(m)
  \/ h = "create" /\ sc = Application(m)
  \/ h = "reject" /\ sc = Rejection(m)
  \/ h = "release" /\ sc = Release(m)
  \/ h = "releaseLoan" /\ sc = LoanRelease(m)
  \/ h = "disburse" /\ sc = Disbursement(m)
  \/ h = "repay" /\ sc = Repayment(m)
  \/ h = "adjust" /\ sc = Adjustment(m)
  \/ h = "writeOff" /\ sc = WriteOff(m)
  \/ h = "receipt" /\ sc = Receipt(m)
  \/ \E n \in MemberId \ {m} :
       \/ h = "pledge" /\ sc = PledgeGuarantee(m, n)
       \/ h = "substitute" /\ sc = Substitution(m, n)
       \/ h = "transfer" /\ sc = Transfer(m, n)

\* Session s runs h for m, k elements into the script sc.
InScript(s, h, m, sc, k) ==
  /\ call[s] = [handler |-> h, of |-> m]
  /\ Follows(h, m, sc)
  /\ Reached(s, sc, k)

\* What a batch over the members S can still ask for.
DistributionAsks(S) ==
  UNION {{Row("deposit", m), Row("shares", m), Ref("DV-"), KeyOf(m)} : m \in S}
InterestAsks(S) == UNION {{Ref("INT-"), KeyOf(m)} : m \in S}

Distributing(s, S) ==
  /\ call[s] = [handler |-> "distribute", of |-> 0]
  /\ todo[s] \in Seq(DistributionAsks(S))
  /\ ScanLocks("members", S) \subseteq held[s] /\ held[s] \subseteq DistributionLocks(S)

Accruing(s, S) ==
  /\ call[s] = [handler |-> "interest", of |-> 0]
  /\ todo[s] \in Seq(InterestAsks(S))
  /\ ScanLocks("deposit", S) \subseteq held[s] /\ held[s] \subseteq InterestLocks(S)

\* Session s is idle, in the script of a call, or in a batch.
Prepared(s) ==
  \/ AtRest(s) /\ todo[s] = <<>> /\ held[s] = {}
  \/ \E h \in Handlers, m \in MemberId : \E sc, k : InScript(s, h, m, sc, k)
  \/ \E S \in SUBSET MemberId : Distributing(s, S) \/ Accruing(s, S)

-----------------------------------------------------------------------------
(* Scripts are sequences, and a call goes through its own step by step.    *)

LEMMA ScriptIsSequence ==
  ASSUME NEW h, NEW m \in MemberId, NEW sc, Follows(h, m, sc)
  PROVE  \E T : sc \in Seq(T)
<1> DEFINE Goal == \E T : sc \in Seq(T)
<1>1. CASE sc = Deposit(m)
  <2> DEFINE T == {Row("members", m), Row("deposit", m), Ref("MP-"), KeyOf(m)}
  <2>1. <<Row("members", m), Row("deposit", m), Ref("MP-"), KeyOf(m)>> \in Seq(T)
    OBVIOUS
  <2> QED BY <1>1, <2>1, DepositScript
<1>2. CASE sc = Withdrawal(m)
  <2> DEFINE T == {Shared(m), Row("deposit", m), Ref("WD-"), KeyOf(m)}
  <2>1. <<Shared(m), Row("deposit", m), Ref("WD-"), KeyOf(m)>> \in Seq(T)
    OBVIOUS
  <2> QED BY <1>2, <2>1, WithdrawalScript
<1>3. CASE sc = Settlement(m)
  <2> DEFINE T == {Row("member_exits", m), Row("members", m), Row("deposit", m), Row("shares",
                   m), IfNoneOpen(m), Row("loans", m), Ref("WD-"), KeyOf(m), Written(m)}
  <2>1. <<Row("member_exits", m), Row("members", m), Row("deposit", m), Row("shares", m),
          IfNoneOpen(m), Row("loans", m), Ref("WD-"), KeyOf(m), Written(m)>> \in Seq(T)
    OBVIOUS
  <2> QED BY <1>3, <2>1, SettlementScript
<1>4. CASE sc = Application(m)
  <2> DEFINE T == {Shared(m)}
  <2>1. <<Shared(m)>> \in Seq(T)
    OBVIOUS
  <2> QED BY <1>4, <2>1, ApplicationScript
<1>5. CASE sc = Rejection(m)
  <2> DEFINE T == {Row("applications", m), IfOpen(m), Written(m)}
  <2>1. <<Row("applications", m), IfOpen(m), Written(m)>> \in Seq(T)
    OBVIOUS
  <2> QED BY <1>5, <2>1, RejectionScript
<1>6. CASE sc = Release(m)
  <2> DEFINE T == {Row("applications", m), Row("guarantees", m), IfOpen(m), Row("deposit", m)}
  <2>1. <<Row("applications", m), Row("guarantees", m), IfOpen(m), Row("deposit", m)>> \in Seq(T)
    OBVIOUS
  <2> QED BY <1>6, <2>1, ReleaseScript
<1>6a. CASE sc = LoanRelease(m)
  <2> DEFINE T == {Row("applications", m), Row("loans", m), Row("guarantees", m)}
  <2>1. <<Row("applications", m), Row("loans", m), Row("guarantees", m)>> \in Seq(T)
    OBVIOUS
  <2> QED BY <1>6a, <2>1, LoanReleaseScript
<1>7. CASE sc = Disbursement(m)
  <2> DEFINE T == {Row("applications", m), IfOpen(m), Row("deposit", m), KeyOf(m), Written(m),
                   Ref("LN-")}
  <2>1. <<Row("applications", m), IfOpen(m), Row("deposit", m), KeyOf(m), Written(m),
          Ref("LN-"), KeyOf(m)>> \in Seq(T)
    OBVIOUS
  <2> QED BY <1>7, <2>1, DisbursementScript
<1>8. CASE sc = Repayment(m)
  <2> DEFINE T == {Row("loans", m), Ref("RP-"), KeyOf(m), Written(m)}
  <2>1. <<Row("loans", m), Ref("RP-"), KeyOf(m), Written(m)>> \in Seq(T)
    OBVIOUS
  <2> QED BY <1>8, <2>1, RepaymentScript
<1>9. CASE sc = Adjustment(m)
  <2> DEFINE T == {Row("transactions", m), Shared(m), Row("loans", m), Ref("RP-"), KeyOf(m)}
  <2>1. <<Row("transactions", m), Shared(m), Row("loans", m), Ref("RP-"), KeyOf(m)>> \in Seq(T)
    OBVIOUS
  <2> QED BY <1>9, <2>1, AdjustmentScript
<1>10. CASE sc = WriteOff(m)
  <2> DEFINE T == {Row("loan_write_offs", m), Row("loans", m), Ref("WO-"), KeyOf(m)}
  <2>1. <<Row("loan_write_offs", m), Row("loans", m), Ref("WO-"), KeyOf(m)>> \in Seq(T)
    OBVIOUS
  <2> QED BY <1>10, <2>1, WriteOffScript
<1>11. CASE sc = Receipt(m)
  <2> DEFINE T == {Row("loan_write_offs", m), Shared(m), Row("loans", m), Ref("RC-"), KeyOf(m),
                   Written(m)}
  <2>1. <<Row("loan_write_offs", m), Shared(m), Row("loans", m), Ref("RC-"), KeyOf(m),
          Written(m)>> \in Seq(T)
    OBVIOUS
  <2> QED BY <1>11, <2>1, ReceiptScript
<1>12. ASSUME NEW n \in MemberId \ {m}, sc = PledgeGuarantee(m, n) PROVE Goal
  <2> DEFINE T == {Row("applications", m), IfOpen(m), Shared(n), Row("deposit", n), KeyOf(n),
                   KeyOf(m)}
  <2>1. <<Row("applications", m), IfOpen(m), Shared(n), Row("deposit", n), KeyOf(n), KeyOf(m)>> \in Seq(T)
    OBVIOUS
  <2> QED BY <1>12, <2>1, PledgeGuaranteeScript
<1>13. ASSUME NEW n \in MemberId \ {m}, sc = Substitution(m, n) PROVE Goal
  <2> DEFINE T == {Row("applications", m), Row("loans", m), Row("guarantees", m), Shared(n),
                   Row("deposit", n), KeyOf(n), KeyOf(m)}
  <2>1. <<Row("applications", m), Row("loans", m), Row("guarantees", m), Shared(n),
          Row("deposit", n), KeyOf(n), KeyOf(m)>> \in Seq(T)
    OBVIOUS
  <2> QED BY <1>13, <2>1, SubstitutionScript
<1>14. ASSUME NEW n \in MemberId \ {m}, sc = Transfer(m, n) PROVE Goal
  <2>1. PICK a, b : InIdOrder(m, n) = <<a, b>>
    BY DEF InIdOrder
  <2> DEFINE T == {Row("share_transfers", m), Row("members", a), Row("members", b),
                   Row("shares", a), Row("shares", b), Ref("ST-"), KeyOf(m), KeyOf(n)}
  <2>2. <<Row("share_transfers", m), Row("members", a), Row("members", b), Row("shares", a),
          Row("shares", b), Ref("ST-"), KeyOf(m), Ref("ST-"), KeyOf(n)>> \in Seq(T)
    OBVIOUS
  <2> QED BY <1>14, <2>1, <2>2, TransferScript
<1> HIDE DEF Goal
<1>15. \E T : sc \in Seq(T)
  BY <1>1, <1>2, <1>3, <1>4, <1>5, <1>6, <1>6a, <1>7, <1>8,
     <1>9, <1>10, <1>11, <1>12, <1>13, <1>14 DEF Follows, Goal
<1> QED BY <1>15

\* A call asks for nothing that is not in its script.
LEMMA OwnElements ==
  ASSUME NEW T, NEW sc \in Seq(T)
  PROVE  sc \in Seq({sc[i] : i \in 1 .. Len(sc)})
<1>1. Len(sc) \in Nat /\ sc \in [1 .. Len(sc) -> T]
  BY LenProperties
<1>2. sc \in [1 .. Len(sc) -> {sc[i] : i \in 1 .. Len(sc)}]
  BY <1>1
<1> QED BY <1>1, <1>2

LEMMA StartsScript ==
  ASSUME NEW s, NEW T, NEW sc \in Seq(T), todo'[s] = sc, held'[s] = {}
  PROVE  Reached(s, sc, 0)'
<1>1. Len(sc) \in Nat /\ sc \in Seq({sc[i] : i \in 1 .. Len(sc)})
  BY OwnElements, LenProperties
<1>2. LocksOf(sc, 0) = {}
  BY LocksOfNext
<1> QED BY <1>1, <1>2 DEF Reached

\* One lock or check further.
Passes(s) ==
  /\ todo[s] # <<>>
  /\ todo'[s] = Tail(todo[s])
  /\ held'[s] = IF Head(todo[s]).table = "check" THEN held[s] ELSE held[s] \union {Head(todo[s])}

LEMMA PassesScript ==
  ASSUME NEW s, NEW sc, NEW k, Reached(s, sc, k), Passes(s)
  PROVE  Reached(s, sc, k + 1)'
<1> DEFINE R == {sc[i] : i \in 1 .. Len(sc)}
<1>1. /\ k \in Nat /\ Len(sc) \in Nat /\ Len(todo[s]) = Len(sc) - k /\ todo[s] \in Seq(R)
      /\ held[s] = LocksOf(sc, k)
      /\ \A i \in 1 .. Len(sc) - k : todo[s][i] = sc[k + i]
  <2>1. Len(todo[s]) \in Nat /\ k \in 0 .. Len(sc) /\ Len(todo[s]) = Len(sc) - k
    BY DEF Reached
  <2>2. k \in Int /\ Len(sc) \in Int
    BY <2>1
  <2> QED BY <2>1, <2>2 DEF Reached
<1>2. todo[s] # <<>> /\ todo'[s] = Tail(todo[s])
  BY DEF Passes
<1> HIDE DEF R
<1>3. /\ Len(todo[s]) > 0 /\ Tail(todo[s]) \in Seq(R) /\ Len(Tail(todo[s])) = Len(todo[s]) - 1
      /\ Head(todo[s]) = todo[s][1]
      /\ \A i \in 1 .. Len(todo[s]) - 1 : Tail(todo[s])[i] = todo[s][i + 1]
  BY <1>1, <1>2
<1>4. k + 1 \in 0 .. Len(sc) /\ Len(todo'[s]) = Len(sc) - (k + 1)
  BY <1>1, <1>2, <1>3
<1>5. \A i \in 1 .. Len(sc) - (k + 1) : todo'[s][i] = sc[k + 1 + i]
  <2> SUFFICES ASSUME NEW i \in 1 .. Len(sc) - (k + 1) PROVE todo'[s][i] = sc[k + 1 + i]
    OBVIOUS
  <2>1. i \in 1 .. Len(todo[s]) - 1 /\ i + 1 \in 1 .. Len(sc) - k /\ k + (i + 1) = k + 1 + i
    BY <1>1
  <2>2. todo[s][i + 1] = sc[k + (i + 1)]
    BY <1>1, <2>1
  <2> QED BY <1>2, <1>3, <2>1, <2>2
<1>6. Head(todo[s]) = sc[k + 1]
  <2>1. 1 \in 1 .. Len(sc) - k
    BY <1>1, <1>3
  <2> QED BY <1>1, <1>3, <2>1
<1>7. held'[s] = LocksOf(sc, k + 1)
  <2>1. CASE sc[k + 1].table = "check"
    BY <1>1, <1>6, <2>1, LocksOfNext DEF Passes
  <2>2. CASE sc[k + 1].table # "check"
    BY <1>1, <1>6, <2>2, LocksOfNext DEF Passes
  <2> QED BY <2>1, <2>2
<1> QED BY <1>2, <1>3, <1>4, <1>5, <1>7 DEF Reached, R

\* f is what a batch asks for up to each member.
UpTo(f, one, S, n) ==
  f = [m \in 0 .. n |-> IF m = 0 THEN <<>> ELSE f[m - 1] \o (IF m \in S THEN one[m] ELSE <<>>)]

\* There is such an f,
LEMMA BatchDefined ==
  ASSUME NEW one, NEW S, NEW n \in Nat
  PROVE  \E f : UpTo(f, one, S, n)
<1> DEFINE More(m) == IF m \in S THEN one[m] ELSE <<>>
           Solves(f, k) == f = [m \in 0 .. k |-> IF m = 0 THEN <<>> ELSE f[m - 1] \o More(m)]
           B == {k \in Nat : ~\E f : Solves(f, k)}
<1>1. ASSUME n \in B PROVE FALSE
  <2>1. B \in SUBSET Nat /\ B # {}
    BY <1>1
  <2>2. PICK k \in B : \A i \in B : k <= i
    <3> HIDE DEF B
    <3> QED BY <2>1, LeastElement
  <2>3. k \in Nat /\ ~\E f : Solves(f, k)
    BY <2>2
  <2>4. CASE k = 0
    <3> DEFINE g == [m \in 0 .. 0 |-> <<>>]
    <3>1. \A m \in 0 .. 0 : m = 0
      OBVIOUS
    <3>2. Solves(g, 0)
      BY <3>1
    <3> QED BY <2>3, <2>4, <3>2
  <2>5. CASE k # 0
    <3>1. k - 1 \in Nat /\ k - 1 \notin B
      <4>1. k - 1 \in Nat /\ ~(k <= k - 1)
        BY <2>3, <2>5
      <4> HIDE DEF B
      <4> QED BY <2>2, <4>1
    <3>2. PICK f : Solves(f, k - 1)
      BY <3>1
    <3> DEFINE g == [m \in 0 .. k |-> IF m = k THEN f[k - 1] \o More(k) ELSE f[m]]
    <3>3. ASSUME NEW m \in 0 .. k PROVE g[m] = IF m = 0 THEN <<>> ELSE g[m - 1] \o More(m)
      <4> HIDE DEF More
      <4>1. CASE m = k
        <5>1. k - 1 \in 0 .. k /\ k - 1 # k
          BY <3>1
        <5> QED BY <2>5, <4>1, <5>1
      <4>2. CASE m # k
        <5>1. m \in 0 .. k - 1 /\ (m # 0 => m - 1 \in 0 .. k /\ m - 1 # k)
          BY <2>3, <4>2
        <5>2. f[m] = IF m = 0 THEN <<>> ELSE f[m - 1] \o More(m)
          BY <3>2, <5>1
        <5> QED BY <4>2, <5>1, <5>2
      <4> QED BY <4>1, <4>2
    <3>4. Solves(g, k)
      <4> HIDE DEF More
      <4>1. \A m \in 0 .. k : g[m] = IF m = 0 THEN <<>> ELSE g[m - 1] \o More(m)
        BY <3>3
      <4>2. g = [m \in 0 .. k |-> g[m]]
        OBVIOUS
      <4> HIDE DEF g
      <4> QED BY <4>1, <4>2
    <3> QED BY <2>3, <3>4
  <2> QED BY <2>4, <2>5
<1> QED BY <1>1 DEF UpTo

\* so a batch strings together what it asks of each member.
LEMMA BatchIsSequence ==
  ASSUME NEW one, NEW S \in SUBSET MemberId, NEW T, \A m \in S : one[m] \in Seq(T)
  PROVE  Batch(one, S) \in Seq(T)
<1> DEFINE upTo == CHOOSE f : f = [m \in 0 .. LastMember |->
                     IF m = 0 THEN <<>> ELSE f[m - 1] \o (IF m \in S THEN one[m] ELSE <<>>)]
<1>1. upTo = [m \in 0 .. LastMember |->
                IF m = 0 THEN <<>> ELSE upTo[m - 1] \o (IF m \in S THEN one[m] ELSE <<>>)]
  <2>1. LastMember \in Nat
    BY LockAssumption
  <2>2. \E f : UpTo(f, one, S, LastMember)
    BY ONLY <2>1, BatchDefined
  <2> QED BY Zenon, <2>2 DEF UpTo
<1>2. Batch(one, S) = upTo[LastMember]
  BY DEF Batch
<1> HIDE DEF upTo
<1> DEFINE B == {m \in Nat : m <= LastMember /\ upTo[m] \notin Seq(T)}
<1>3. B = {}
  <2> SUFFICES ASSUME B # {} PROVE FALSE
    OBVIOUS
  <2>1. B \in SUBSET Nat
    OBVIOUS
  <2>2. PICK m \in B : \A i \in B : m <= i
    <3> HIDE DEF B
    <3> QED BY <2>1, LeastElement
  <2>3. m \in 0 .. LastMember /\ upTo[m] \notin Seq(T)
    BY <2>2, LockAssumption
  <2>4. upTo[m] = IF m = 0 THEN <<>> ELSE upTo[m - 1] \o (IF m \in S THEN one[m] ELSE <<>>)
    BY <1>1, <2>3
  <2>5. m # 0
    BY <2>3, <2>4, EmptySeq
  <2>6. m - 1 \in Nat /\ m - 1 <= LastMember /\ m - 1 \notin B
    BY <2>2, <2>3, <2>5, LockAssumption
  <2>7. upTo[m - 1] \in Seq(T)
    BY <2>6
  <2>8. (IF m \in S THEN one[m] ELSE <<>>) \in Seq(T)
    BY EmptySeq
  <2> QED BY <2>3, <2>4, <2>5, <2>7, <2>8, ConcatProperties
<1> QED BY <1>2, <1>3, LockAssumption

LEMMA DistributionIsSequence ==
  ASSUME NEW S \in SUBSET MemberId
  PROVE  Batch([m \in MemberId |-> DistributeOne(m)], S) \in Seq(DistributionAsks(S))
<1> DEFINE one == [m \in MemberId |-> DistributeOne(m)]
<1>1. ASSUME NEW m \in S PROVE one[m] \in Seq(DistributionAsks(S))
  <2>1. DistributeOne(m) = <<Row("deposit", m), Row("shares", m)>> \o <<Ref("DV-"), KeyOf(m)>>
    BY DEF DistributeOne, Post, Row, Ref, KeyOf
  <2>2. one[m] = <<Row("deposit", m), Row("shares", m), Ref("DV-"), KeyOf(m)>>
    BY <2>1, Joined2and2
  <2>3. {Row("deposit", m), Row("shares", m), Ref("DV-"), KeyOf(m)} \subseteq DistributionAsks(S)
    BY DEF DistributionAsks
  <2>4. <<Row("deposit", m), Row("shares", m), Ref("DV-"), KeyOf(m)>>
          \in Seq({Row("deposit", m), Row("shares", m), Ref("DV-"), KeyOf(m)})
    OBVIOUS
  <2> HIDE DEF one
  <2> QED BY <2>2, <2>3, <2>4, SeqMonotonic
<1> HIDE DEF one
<1>2. Batch(one, S) \in Seq(DistributionAsks(S))
  BY <1>1, BatchIsSequence
<1> QED BY <1>2 DEF one

LEMMA InterestIsSequence ==
  ASSUME NEW S \in SUBSET MemberId
  PROVE  Batch([m \in MemberId |-> InterestOne(m)], S) \in Seq(InterestAsks(S))
<1> DEFINE one == [m \in MemberId |-> InterestOne(m)]
<1>1. ASSUME NEW m \in S PROVE one[m] \in Seq(InterestAsks(S))
  <2>1. one[m] = <<Ref("INT-"), KeyOf(m)>>
    BY DEF InterestOne, Post, Ref, KeyOf
  <2>2. {Ref("INT-"), KeyOf(m)} \subseteq InterestAsks(S)
    BY DEF InterestAsks
  <2>3. <<Ref("INT-"), KeyOf(m)>> \in Seq({Ref("INT-"), KeyOf(m)})
    OBVIOUS
  <2> HIDE DEF one
  <2> QED BY <2>1, <2>2, <2>3, SeqMonotonic
<1> HIDE DEF one
<1>2. Batch(one, S) \in Seq(InterestAsks(S))
  BY <1>1, BatchIsSequence
<1> QED BY <1>2 DEF one

-----------------------------------------------------------------------------
(* The inductive invariant.                                                *)

LockTypes == DOMAIN call = Session /\ DOMAIN todo = Session /\ DOMAIN held = Session
AllPrepared == \A s \in Session : Prepared(s)

\* Nobody holds a lock that conflicts with another's.
LocksExclude == \A r, s \in Session : r # s => Compatible(held[r], held[s])

\* Sessions whose handlers are kept apart do not overlap.
PairsApart ==
  \A r, s \in Session :
    r # s => AtRest(r) \/ AtRest(s) \/ {call[r].handler, call[s].handler} \notin Apart

\* Past its check a settlement has no application open beside it, and a
\* release has one.
SettledShut ==
  \A s \in Session, m \in MemberId :
    call[s] = [handler |-> "settle", of |-> m] /\ Len(todo[s]) <= 4 => m \notin open
ReleasedOpen ==
  \A s \in Session, m \in MemberId :
    call[s] = [handler |-> "release", of |-> m] /\ Len(todo[s]) <= 1 => m \in open

\* All of it.
LockInv ==
  /\ LockTypes
  /\ AllPrepared
  /\ LocksExclude
  /\ PairsApart
  /\ SettledShut
  /\ ReleasedOpen

LEMMA CompatibleBoth ==
  ASSUME NEW L, NEW K, Compatible(L, K)
  PROVE  Compatible(K, L)
  BY DEF Compatible

\* A session that does not move stays where it is.
LEMMA PreparedSame ==
  ASSUME NEW s, Prepared(s), call'[s] = call[s], todo'[s] = todo[s], held'[s] = held[s]
  PROVE  Prepared(s)'
<1>1. CASE AtRest(s) /\ todo[s] = <<>> /\ held[s] = {}
  BY <1>1 DEF Prepared, AtRest
<1>2. CASE \E h \in Handlers, m \in MemberId : \E sc, k : InScript(s, h, m, sc, k)
  <2>1. PICK h \in Handlers, m \in MemberId : \E sc, k : InScript(s, h, m, sc, k)
    BY <1>2
  <2>2. PICK sc, k : InScript(s, h, m, sc, k)
    BY <2>1
  <2>3. InScript(s, h, m, sc, k)'
    BY <2>2 DEF InScript, Reached
  <2> QED BY <2>3 DEF Prepared
<1>3. CASE \E S \in SUBSET MemberId : Distributing(s, S) \/ Accruing(s, S)
  BY <1>3 DEF Prepared, Distributing, Accruing
<1> QED BY <1>1, <1>2, <1>3 DEF Prepared

\* A session that moves is where it was, one further.
LEMMA PreparedPasses ==
  ASSUME NEW s, Prepared(s), call'[s] = call[s], Passes(s)
  PROVE  Prepared(s)'
<1>1. CASE AtRest(s) /\ todo[s] = <<>> /\ held[s] = {}
  BY <1>1 DEF Passes
<1>2. CASE \E h \in Handlers, m \in MemberId : \E sc, k : InScript(s, h, m, sc, k)
  <2>1. PICK h \in Handlers, m \in MemberId : \E sc, k : InScript(s, h, m, sc, k)
    BY <1>2
  <2>2. PICK sc, k : InScript(s, h, m, sc, k)
    BY <2>1
  <2>3. Reached(s, sc, k)
    BY <2>2 DEF InScript
  <2>4. Reached(s, sc, k + 1)'
    BY <2>3, PassesScript
  <2>5. InScript(s, h, m, sc, k + 1)'
    BY <2>2, <2>4 DEF InScript
  <2> QED BY <2>5 DEF Prepared
<1>3. ASSUME NEW S \in SUBSET MemberId, Distributing(s, S) PROVE Prepared(s)'
  <2>1. Head(todo[s]) \in DistributionAsks(S) /\ Tail(todo[s]) \in Seq(DistributionAsks(S))
    BY <1>3 DEF Distributing, Passes
  <2>2. DistributionAsks(S) \subseteq DistributionLocks(S)
    BY DEF DistributionAsks, DistributionLocks
  <2>3. held[s] \subseteq held'[s] /\ held'[s] \subseteq held[s] \union {Head(todo[s])}
    BY DEF Passes
  <2>4. Distributing(s, S)'
    BY <1>3, <2>1, <2>2, <2>3 DEF Distributing, Passes
  <2> QED BY <2>4 DEF Prepared
<1>4. ASSUME NEW S \in SUBSET MemberId, Accruing(s, S) PROVE Prepared(s)'
  <2>1. Head(todo[s]) \in InterestAsks(S) /\ Tail(todo[s]) \in Seq(InterestAsks(S))
    BY <1>4 DEF Accruing, Passes
  <2>2. InterestAsks(S) \subseteq InterestLocks(S)
    BY DEF InterestAsks, InterestLocks
  <2>3. held[s] \subseteq held'[s] /\ held'[s] \subseteq held[s] \union {Head(todo[s])}
    BY DEF Passes
  <2>4. Accruing(s, S)'
    BY <1>4, <2>1, <2>2, <2>3 DEF Accruing, Passes
  <2> QED BY <2>4 DEF Prepared
<1> QED BY <1>1, <1>2, <1>3, <1>4 DEF Prepared

\* Which script a call is in.
LEMMA InOwnScript ==
  ASSUME NEW s, NEW g, NEW m \in MemberId, Prepared(s), call[s] = [handler |-> g, of |-> m],
         g \notin {NoCall, "distribute", "interest"}
  PROVE  \E sc, k : Follows(g, m, sc) /\ Reached(s, sc, k)
<1>1. PICK h \in Handlers, p \in MemberId : \E sc, k : InScript(s, h, p, sc, k)
  BY DEF Prepared, AtRest, Distributing, Accruing
<1>2. PICK sc, k : InScript(s, h, p, sc, k)
  BY <1>1
<1>3. h = g /\ p = m
  BY <1>2 DEF InScript
<1> QED BY <1>2, <1>3 DEF InScript

LEMMA HeldSoFar ==
  ASSUME NEW s, NEW sc, NEW k, Reached(s, sc, k), NEW i \in 1 .. k, sc[i].table # "check"
  PROVE  sc[i] \in held[s]
  BY DEF Reached, LocksOf

LEMMA SettlementReached ==
  ASSUME NEW s, NEW m \in MemberId, Prepared(s), call[s] = [handler |-> "settle", of |-> m]
  PROVE  \E k \in 0 .. 9 : Reached(s, Settlement(m), k) /\ Len(todo[s]) = 9 - k
<1>1. PICK sc, k : Follows("settle", m, sc) /\ Reached(s, sc, k)
  BY InOwnScript DEF NoCall
<1>2. sc = Settlement(m)
  BY <1>1 DEF Follows
<1>3. Len(sc) = 9
  BY <1>2, SettlementScript
<1> QED BY <1>1, <1>2, <1>3 DEF Reached

LEMMA ReleaseReached ==
  ASSUME NEW s, NEW m \in MemberId, Prepared(s), call[s] = [handler |-> "release", of |-> m]
  PROVE  \E k \in 0 .. 4 : Reached(s, Release(m), k) /\ Len(todo[s]) = 4 - k
<1>1. PICK sc, k : Follows("release", m, sc) /\ Reached(s, sc, k)
  BY InOwnScript DEF NoCall
<1>2. sc = Release(m)
  BY <1>1 DEF Follows
<1>3. Len(sc) = 4
  BY <1>2, ReleaseScript
<1> QED BY <1>1, <1>2, <1>3 DEF Reached

\* A settlement past its check has the member to itself, ...
LEMMA SettlementHolds ==
  ASSUME NEW s, NEW m \in MemberId, Prepared(s), call[s] = [handler |-> "settle", of |-> m],
         Len(todo[s]) <= 5
  PROVE  /\ Row("members", m) \in held[s]
         /\ Len(todo[s]) = 5 => Head(todo[s]) = IfNoneOpen(m)
<1>1. PICK k \in 0 .. 9 : Reached(s, Settlement(m), k) /\ Len(todo[s]) = 9 - k
  BY SettlementReached
<1>2. Settlement(m)[2] = Row("members", m) /\ Settlement(m)[5] = IfNoneOpen(m)
      /\ Len(Settlement(m)) = 9
  BY SettlementScript
<1>3. 2 \in 1 .. k
  BY <1>1
<1>4. Row("members", m) \in held[s]
  BY <1>1, <1>2, <1>3, HeldSoFar, RowTable
<1>5. ASSUME Len(todo[s]) = 5 PROVE Head(todo[s]) = IfNoneOpen(m)
  <2>0. k = 4
    <3>1. 9 - k = 5
      BY ONLY <1>1, <1>5
    <3>2. \A i \in 0 .. 9 : 9 - i = 5 => i = 4
      OBVIOUS
    <3> QED BY ONLY <3>1, <3>2, k \in 0 .. 9
  <2>1. 1 \in 1 .. Len(Settlement(m)) - 4
    BY <1>2
  <2>2. todo[s][1] = Settlement(m)[4 + 1]
    BY <1>1, <2>0, <2>1 DEF Reached
  <2>3. todo[s] # <<>> => Head(todo[s]) = todo[s][1]
    BY <1>1 DEF Reached
  <2> QED BY <1>2, <1>5, <2>2, <2>3
<1> QED BY <1>4, <1>5

\* ... and so has a release the application.
LEMMA ReleaseHolds ==
  ASSUME NEW s, NEW m \in MemberId, Prepared(s), call[s] = [handler |-> "release", of |-> m],
         Len(todo[s]) <= 2
  PROVE  /\ Row("applications", m) \in held[s]
         /\ Len(todo[s]) = 2 => Head(todo[s]) = IfOpen(m)
<1>1. PICK k \in 0 .. 4 : Reached(s, Release(m), k) /\ Len(todo[s]) = 4 - k
  BY ReleaseReached
<1>2. Release(m)[1] = Row("applications", m) /\ Release(m)[3] = IfOpen(m) /\ Len(Release(m)) = 4
  BY ReleaseScript
<1>3. 1 \in 1 .. k
  BY <1>1
<1>4. Row("applications", m) \in held[s]
  BY <1>1, <1>2, <1>3, HeldSoFar, RowTable
<1>5. ASSUME Len(todo[s]) = 2 PROVE Head(todo[s]) = IfOpen(m)
  <2>0. k = 2
    BY <1>1, <1>5
  <2>1. 1 \in 1 .. Len(Release(m)) - 2
    BY <1>2
  <2>2. todo[s][1] = Release(m)[2 + 1]
    BY <1>1, <2>0, <2>1 DEF Reached
  <2>3. todo[s] # <<>> => Head(todo[s]) = todo[s][1]
    BY <1>1 DEF Reached
  <2> QED BY <1>2, <1>5, <2>2, <2>3
<1> QED BY <1>4, <1>5

\* A call of create, disburse or reject that is through with its script holds
\* the row that guards what it commits.
LEMMA CommitterHolds ==
  ASSUME NEW s, NEW g, NEW m \in MemberId, Prepared(s), call[s] = [handler |-> g, of |-> m],
         todo[s] = <<>>
  PROVE  /\ g = "create" => Shared(m) \in held[s]
         /\ g \in {"disburse", "reject"} => Row("applications", m) \in held[s]
<1>1. ASSUME g \in {"create", "disburse", "reject"}
      PROVE  \E sc, k : /\ Follows(g, m, sc) /\ Reached(s, sc, k)
                        /\ k = Len(sc) /\ Len(sc) \in Nat
  <2>1. PICK sc, k : Follows(g, m, sc) /\ Reached(s, sc, k)
    BY <1>1, InOwnScript DEF NoCall
  <2>2. PICK T : sc \in Seq(T)
    BY <2>1, ScriptIsSequence
  <2>3. Len(sc) \in Nat /\ Len(todo[s]) = 0
    BY <2>2, LenProperties, EmptySeq
  <2> QED BY <2>1, <2>3 DEF Reached
<1>2. ASSUME g = "create" PROVE Shared(m) \in held[s]
  <2>1. PICK sc, k : Follows(g, m, sc) /\ Reached(s, sc, k) /\ k = Len(sc)
    BY <1>1, <1>2
  <2>2. sc = <<Shared(m)>>
    BY <1>2, <2>1, ApplicationScript DEF Follows
  <2>3. sc[1] = Shared(m) /\ 1 \in 1 .. k
    BY <2>1, <2>2
  <2> QED BY <2>1, <2>3, HeldSoFar, SharedTable
<1>3. ASSUME g = "disburse" PROVE Row("applications", m) \in held[s]
  <2>1. PICK sc, k : Follows(g, m, sc) /\ Reached(s, sc, k) /\ k = Len(sc)
    BY <1>1, <1>3
  <2>2. sc = Disbursement(m)
    BY <1>3, <2>1 DEF Follows
  <2>3. sc[1] = Row("applications", m) /\ 1 \in 1 .. k
    BY <2>1, <2>2, DisbursementScript
  <2> QED BY <2>1, <2>3, HeldSoFar, RowTable
<1>4. ASSUME g = "reject" PROVE Row("applications", m) \in held[s]
  <2>1. PICK sc, k : Follows(g, m, sc) /\ Reached(s, sc, k) /\ k = Len(sc)
    BY <1>1, <1>4
  <2>2. sc = Rejection(m)
    BY <1>4, <2>1 DEF Follows
  <2>3. sc[1] = Row("applications", m) /\ 1 \in 1 .. k
    BY <2>1, <2>2, RejectionScript
  <2> QED BY <2>1, <2>3, HeldSoFar, RowTable
<1> QED BY <1>2, <1>3, <1>4

LEMMA TodoIsSequence ==
  ASSUME NEW s, Prepared(s)
  PROVE  \E T : todo[s] \in Seq(T)
<1>1. CASE AtRest(s) /\ todo[s] = <<>> /\ held[s] = {}
  BY <1>1, EmptySeq
<1>2. CASE \E h \in Handlers, m \in MemberId : \E sc, k : InScript(s, h, m, sc, k)
  BY <1>2 DEF InScript, Reached
<1>3. CASE \E S \in SUBSET MemberId : Distributing(s, S) \/ Accruing(s, S)
  BY <1>3 DEF Distributing, Accruing
<1> QED BY <1>1, <1>2, <1>3 DEF Prepared

LEMMA PassedLength ==
  ASSUME NEW s, Prepared(s), Passes(s)
  PROVE  Len(todo[s]) \in Nat /\ Len(todo'[s]) = Len(todo[s]) - 1
<1>1. PICK T : todo[s] \in Seq(T)
  BY TodoIsSequence
<1> QED BY <1>1 DEF Passes

-----------------------------------------------------------------------------
(* Steps.                                                                  *)

\* A session takes a lock nobody's conflicts with, or passes a check.
LEMMA PassingKeeps ==
  ASSUME LockInv, NEW s \in Session, Passes(s), LockTypes', call' = call, open' = open,
         \A r \in Session \ {s} : todo'[r] = todo[r] /\ held'[r] = held[r],
         Head(todo[s]).table = "check" => CheckHolds(Head(todo[s])),
         Head(todo[s]).table # "check" => Blockers(s) = {}
  PROVE  LockInv'
<1>1. /\ \A r \in Session : Prepared(r)
      /\ LocksExclude
      /\ PairsApart
      /\ SettledShut
      /\ ReleasedOpen
  BY DEF LockInv, AllPrepared
<1>2. AllPrepared'
  <2>1. ASSUME NEW r \in Session PROVE Prepared(r)'
    <3>1. CASE r = s
      BY <1>1, <3>1, PreparedPasses
    <3>2. CASE r # s
      BY <1>1, <3>2, PreparedSame
    <3> QED BY <3>1, <3>2
  <2> QED BY <2>1 DEF AllPrepared
<1>3. LocksExclude'
  <2>1. ASSUME NEW r \in Session \ {s} PROVE Compatible(held[r], held'[s])
    <3>1. Compatible(held[r], held[s])
      BY <1>1 DEF LocksExclude
    <3>2. CASE Head(todo[s]).table = "check"
      BY <3>1, <3>2 DEF Passes
    <3>3. CASE Head(todo[s]).table # "check"
      <4>1. Blockers(s) = {} /\ Waiting(s)
        BY <3>3 DEF Waiting, Passes
      <4>2. \A l \in held[r] : ~Clash(l, Head(todo[s]))
        BY <4>1 DEF Blockers
      <4>3. held'[s] = held[s] \union {Head(todo[s])}
        BY <3>3 DEF Passes
      <4> QED BY <3>1, <4>2, <4>3 DEF Compatible
    <3> QED BY <3>2, <3>3
  <2>2. ASSUME NEW r \in Session, NEW t \in Session, r # t PROVE Compatible(held'[r], held'[t])
    <3>1. CASE t = s
      BY <2>1, <2>2, <3>1
    <3>2. CASE r = s
      BY <2>1, <2>2, <3>2, CompatibleBoth
    <3>3. CASE r # s /\ t # s
      BY <1>1, <2>2, <3>3 DEF LocksExclude
    <3> QED BY <3>1, <3>2, <3>3
  <2> QED BY <2>2 DEF LocksExclude
<1>4. PairsApart'
  BY <1>1 DEF PairsApart, AtRest
<1>5. Len(todo[s]) \in Nat /\ Len(todo'[s]) = Len(todo[s]) - 1
  BY <1>1, PassedLength
<1>6. SettledShut'
  <2> SUFFICES ASSUME NEW t \in Session, NEW m \in MemberId,
                      call[t] = [handler |-> "settle", of |-> m], Len(todo'[t]) <= 4
               PROVE  m \notin open
    BY DEF SettledShut
  <2>1. CASE t # s \/ Len(todo[s]) <= 4
    BY <1>1, <2>1 DEF SettledShut
  <2>2. CASE t = s /\ ~(Len(todo[s]) <= 4)
    <3>0. Len(todo'[s]) <= 4 /\ ~(Len(todo[s]) <= 4)
      BY <2>2
    <3>1. Len(todo[s]) = 5 /\ Len(todo[s]) <= 5
      <4>1. Len(todo[s]) \in Nat /\ Len(todo[s]) - 1 <= 4 /\ ~(Len(todo[s]) <= 4)
        BY <1>5, <3>0
      <4>2. \A i \in Nat : i - 1 <= 4 /\ ~(i <= 4) => i = 5 /\ i <= 5
        OBVIOUS
      <4> QED BY ONLY <4>1, <4>2
    <3>2. Head(todo[s]) = IfNoneOpen(m)
      <4>1. Prepared(s) /\ call[s] = [handler |-> "settle", of |-> m]
        BY <1>1, <2>2
      <4> QED BY ONLY <3>1, <4>1, m \in MemberId, SettlementHolds
    <3>3. CheckHolds(IfNoneOpen(m))
      BY <3>2, LockTables
    <3> QED BY <3>3 DEF CheckHolds, IfNoneOpen, Lock
  <2> QED BY <2>1, <2>2
<1>7. ReleasedOpen'
  <2> SUFFICES ASSUME NEW t \in Session, NEW m \in MemberId,
                      call[t] = [handler |-> "release", of |-> m], Len(todo'[t]) <= 1
               PROVE  m \in open
    BY DEF ReleasedOpen
  <2>1. CASE t # s \/ Len(todo[s]) <= 1
    BY <1>1, <2>1 DEF ReleasedOpen
  <2>2. CASE t = s /\ ~(Len(todo[s]) <= 1)
    <3>0. Len(todo'[s]) <= 1 /\ ~(Len(todo[s]) <= 1)
      BY <2>2
    <3>1. Len(todo[s]) = 2 /\ Len(todo[s]) <= 2
      <4>1. Len(todo[s]) \in Nat /\ Len(todo[s]) - 1 <= 1 /\ ~(Len(todo[s]) <= 1)
        BY <1>5, <3>0
      <4>2. \A i \in Nat : i - 1 <= 1 /\ ~(i <= 1) => i = 2 /\ i <= 2
        OBVIOUS
      <4> QED BY ONLY <4>1, <4>2
    <3>2. Head(todo[s]) = IfOpen(m)
      <4>1. Prepared(s) /\ call[s] = [handler |-> "release", of |-> m]
        BY <1>1, <2>2
      <4> QED BY ONLY <3>1, <4>1, m \in MemberId, ReleaseHolds
    <3>3. CheckHolds(IfOpen(m))
      BY <3>2, LockTables
    <3> QED BY <3>3 DEF CheckHolds, IfOpen, Lock
  <2> QED BY <2>1, <2>2
<1> QED BY <1>2, <1>3, <1>4, <1>6, <1>7 DEF LockInv

\* A call begins, with the rows its scan got.
LEMMA BeginKeeps ==
  ASSUME LockInv, NEW s \in Session, NEW h, NEW m, NEW script, NEW locks,
         BeginCall(s, h, m, script, locks), Prepared(s)',
         \A r \in Session \ {s} : Compatible(held[r], locks),
         h = "settle" => Len(script) = 9, h = "release" => Len(script) = 4
  PROVE  LockInv'
<1>1. /\ \A r \in Session : Prepared(r)
      /\ LocksExclude
      /\ PairsApart
      /\ SettledShut
      /\ ReleasedOpen
      /\ LockTypes
  BY DEF LockInv, AllPrepared
<1>2. /\ call'[s] = [handler |-> h, of |-> m] /\ todo'[s] = script /\ held'[s] = locks
      /\ \A r \in Session \ {s} : /\ call'[r] = call[r] /\ todo'[r] = todo[r]
                                  /\ held'[r] = held[r]
      /\ open' = open
      /\ LockTypes'
  BY <1>1 DEF BeginCall, LockTypes
<1>3. AllPrepared'
  BY <1>1, <1>2, PreparedSame DEF AllPrepared
<1>4. LocksExclude'
  <2>1. ASSUME NEW r \in Session, NEW t \in Session, r # t PROVE Compatible(held'[r], held'[t])
    <3>1. CASE t = s
      BY <1>2, <2>1, <3>1
    <3>2. CASE r = s
      BY <1>2, <2>1, <3>2, CompatibleBoth
    <3>3. CASE r # s /\ t # s
      BY <1>1, <1>2, <2>1, <3>3 DEF LocksExclude
    <3> QED BY <3>1, <3>2, <3>3
  <2> QED BY <2>1 DEF LocksExclude
<1>5. PairsApart'
  <2>1. \A r \in Session : {h, call[r].handler} \notin Apart
    BY DEF BeginCall, MayRun
  <2>2. \A r \in Session : {h, call[r].handler} = {call[r].handler, h}
    OBVIOUS
  <2>3. ASSUME NEW r \in Session, NEW t \in Session, r # t
        PROVE  AtRest(r)' \/ AtRest(t)' \/ {call'[r].handler, call'[t].handler} \notin Apart
    <3>1. call'[s].handler = h
      BY <1>2
    <3>2. CASE t = s
      BY <1>2, <2>1, <2>2, <2>3, <3>1, <3>2
    <3>3. CASE r = s
      BY <1>2, <2>1, <2>3, <3>1, <3>3
    <3>4. CASE r # s /\ t # s
      BY <1>1, <1>2, <2>3, <3>4 DEF PairsApart, AtRest
    <3> QED BY <3>2, <3>3, <3>4
  <2> QED BY <2>3 DEF PairsApart
<1>6. SettledShut'
  <2> SUFFICES ASSUME NEW t \in Session, NEW p \in MemberId,
                      call'[t] = [handler |-> "settle", of |-> p], Len(todo'[t]) <= 4
               PROVE  p \notin open
    BY <1>2 DEF SettledShut
  <2>1. CASE t = s
    <3>1. h = "settle" /\ todo'[t] = script
      BY <1>2, <2>1
    <3>2. Len(script) = 9 /\ Len(script) <= 4
      BY <3>1
    <3> QED BY ONLY <3>2
  <2>2. CASE t # s
    BY <1>1, <1>2, <2>2 DEF SettledShut
  <2> QED BY <2>1, <2>2
<1>7. ReleasedOpen'
  <2> SUFFICES ASSUME NEW t \in Session, NEW p \in MemberId,
                      call'[t] = [handler |-> "release", of |-> p], Len(todo'[t]) <= 1
               PROVE  p \in open
    BY <1>2 DEF ReleasedOpen
  <2>1. CASE t = s
    <3>1. h = "release" /\ todo'[t] = script
      BY <1>2, <2>1
    <3>2. Len(script) = 4 /\ Len(script) <= 1
      BY <3>1
    <3> QED BY ONLY <3>2
  <2>2. CASE t # s
    BY <1>1, <1>2, <2>2 DEF ReleasedOpen
  <2> QED BY <2>1, <2>2
<1> QED BY <1>2, <1>3, <1>4, <1>5, <1>6, <1>7 DEF LockInv

\* A call ends, and what it commits contradicts nobody.
LEMMA EndKeeps ==
  ASSUME LockInv, NEW s \in Session, End(s),
         \A t \in Session \ {s}, m \in MemberId :
           call[t] = [handler |-> "settle", of |-> m] /\ Len(todo[t]) <= 4 => m \notin open',
         \A t \in Session \ {s}, m \in MemberId :
           call[t] = [handler |-> "release", of |-> m] /\ Len(todo[t]) <= 1 => m \in open'
  PROVE  LockInv'
<1>1. /\ \A r \in Session : Prepared(r)
      /\ LocksExclude
      /\ PairsApart
      /\ LockTypes
  BY DEF LockInv, AllPrepared
<1>2. /\ call'[s] = [handler |-> NoCall, of |-> 0] /\ todo'[s] = <<>> /\ held'[s] = {}
      /\ \A r \in Session \ {s} : /\ call'[r] = call[r] /\ todo'[r] = todo[r]
                                  /\ held'[r] = held[r]
      /\ LockTypes'
  BY <1>1 DEF End, LockTypes
<1>3. AllPrepared'
  <2>1. Prepared(s)'
    BY <1>2 DEF Prepared, AtRest
  <2> QED BY <1>1, <1>2, <2>1, PreparedSame DEF AllPrepared
<1>4. LocksExclude'
  BY <1>1, <1>2 DEF LocksExclude, Compatible
<1>5. PairsApart'
  BY <1>1, <1>2 DEF PairsApart, AtRest
<1>6. SettledShut'
  BY <1>2 DEF SettledShut, NoCall
<1>7. ReleasedOpen'
  BY <1>2 DEF ReleasedOpen, NoCall
<1> QED BY <1>2, <1>3, <1>4, <1>5, <1>6, <1>7 DEF LockInv

\* The actions of LockOrder preserve the invariant.
LEMMA StartKeeps ==
  ASSUME LockInv, NEW s \in Session, Start(s)
  PROVE  LockInv'
<1>1. PICK h \in Handlers, m \in MemberId :
        \/ BeginCall(s, h, m, ScriptOfOne(h, m), {})
        \/ \E n \in MemberId \ {m} : BeginCall(s, h, m, ScriptOfTwo(h, m, n), {})
  BY DEF Start
<1>2. ASSUME NEW sc, BeginCall(s, h, m, sc, {}), Follows(h, m, sc)
      PROVE  LockInv'
  <2>1. PICK T : sc \in Seq(T)
    BY <1>2, ScriptIsSequence
  <2>2. call'[s] = [handler |-> h, of |-> m] /\ todo'[s] = sc /\ held'[s] = {}
    BY <1>2 DEF BeginCall, LockInv, LockTypes
  <2>3. Reached(s, sc, 0)'
    BY <2>1, <2>2, StartsScript
  <2>4. InScript(s, h, m, sc, 0)'
    BY <1>2, <2>2, <2>3 DEF InScript
  <2>5. Prepared(s)'
    BY <2>4 DEF Prepared
  <2>6. \A r \in Session \ {s} : Compatible(held[r], {})
    BY DEF Compatible
  <2>7. h = "settle" => Len(sc) = 9
    BY <1>2, SettlementScript DEF Follows
  <2>8. h = "release" => Len(sc) = 4
    BY <1>2, ReleaseScript DEF Follows
  <2> QED BY <1>2, <2>5, <2>6, <2>7, <2>8, BeginKeeps
<1>3. CASE BeginCall(s, h, m, ScriptOfOne(h, m), {})
  <2>1. PICK sc : sc = ScriptOfOne(h, m)
    OBVIOUS
  <2>2. sc # <<>>
    BY <1>3, <2>1 DEF BeginCall
  <2>3. Follows(h, m, sc)
    BY <2>1, <2>2 DEF Follows, ScriptOfOne
  <2> QED BY <1>2, <1>3, <2>1, <2>3
<1>4. ASSUME NEW n \in MemberId \ {m}, BeginCall(s, h, m, ScriptOfTwo(h, m, n), {})
      PROVE  LockInv'
  <2>1. PICK sc : sc = ScriptOfTwo(h, m, n)
    OBVIOUS
  <2>2. sc # <<>>
    BY <1>4, <2>1 DEF BeginCall
  <2>3. Follows(h, m, sc)
    BY <2>1, <2>2 DEF Follows, ScriptOfTwo
  <2> QED BY <1>2, <1>4, <2>1, <2>3
<1> QED BY <1>1, <1>3, <1>4

LEMMA DistributeKeeps ==
  ASSUME LockInv, NEW s \in Session, Distribute(s)
  PROVE  LockInv'
<1>1. PICK S \in SUBSET MemberId :
        /\ ScanGets("members", S)
        /\ BeginCall(s, "distribute", 0, Batch([m \in MemberId |-> DistributeOne(m)], S),
                     ScanLocks("members", S))
  BY DEF Distribute
<1>2. PICK sc : sc = Batch([m \in MemberId |-> DistributeOne(m)], S)
  OBVIOUS
<1>3. sc \in Seq(DistributionAsks(S))
  BY <1>2, DistributionIsSequence
<1>4. BeginCall(s, "distribute", 0, sc, ScanLocks("members", S))
  BY <1>1, <1>2
<1>5. ScanLocks("members", S) \subseteq DistributionLocks(S)
  BY DEF ScanLocks, DistributionLocks, Row
<1>6. /\ call'[s] = [handler |-> "distribute", of |-> 0] /\ todo'[s] = sc
      /\ held'[s] = ScanLocks("members", S)
  BY <1>4 DEF BeginCall, LockInv, LockTypes
<1>7. Prepared(s)'
  BY <1>3, <1>5, <1>6 DEF Prepared, Distributing
<1>8. \A r \in Session \ {s} : Compatible(held[r], ScanLocks("members", S))
  BY <1>1 DEF ScanGets, ScanLocks, Compatible
<1> QED BY <1>4, <1>7, <1>8, BeginKeeps

LEMMA InterestKeeps ==
  ASSUME LockInv, NEW s \in Session, AccrueInterest(s)
  PROVE  LockInv'
<1>1. PICK S \in SUBSET MemberId :
        /\ ScanGets("deposit", S)
        /\ BeginCall(s, "interest", 0, Batch([m \in MemberId |-> InterestOne(m)], S),
                     ScanLocks("deposit", S))
  BY DEF AccrueInterest
<1>2. PICK sc : sc = Batch([m \in MemberId |-> InterestOne(m)], S)
  OBVIOUS
<1>3. sc \in Seq(InterestAsks(S))
  BY <1>2, InterestIsSequence
<1>4. BeginCall(s, "interest", 0, sc, ScanLocks("deposit", S))
  BY <1>1, <1>2
<1>5. ScanLocks("deposit", S) \subseteq InterestLocks(S)
  BY DEF ScanLocks, InterestLocks, Row
<1>6. /\ call'[s] = [handler |-> "interest", of |-> 0] /\ todo'[s] = sc
      /\ held'[s] = ScanLocks("deposit", S)
  BY <1>4 DEF BeginCall, LockInv, LockTypes
<1>7. Prepared(s)'
  BY <1>3, <1>5, <1>6 DEF Prepared, Accruing
<1>8. \A r \in Session \ {s} : Compatible(held[r], ScanLocks("deposit", S))
  BY <1>1 DEF ScanGets, ScanLocks, Compatible
<1> QED BY <1>4, <1>7, <1>8, BeginKeeps

LEMMA AcquireKeeps ==
  ASSUME LockInv, NEW s \in Session, Acquire(s)
  PROVE  LockInv'
<1>1. LockTypes
  BY DEF LockInv
<1>2. Head(todo[s]).table # "check" /\ todo[s] # <<>> /\ Blockers(s) = {}
  BY DEF Acquire, Waiting
<1>3. /\ todo'[s] = Tail(todo[s]) /\ held'[s] = held[s] \union {Head(todo[s])}
      /\ \A r \in Session \ {s} : todo'[r] = todo[r] /\ held'[r] = held[r]
      /\ LockTypes' /\ call' = call /\ open' = open
  BY <1>1 DEF Acquire, LockTypes
<1>4. Passes(s)
  BY <1>2, <1>3 DEF Passes
<1> QED BY <1>2, <1>3, <1>4, PassingKeeps

LEMMA PassCheckKeeps ==
  ASSUME LockInv, NEW s \in Session, PassCheck(s)
  PROVE  LockInv'
<1>1. LockTypes
  BY DEF LockInv
<1>2. Head(todo[s]).table = "check" /\ todo[s] # <<>> /\ CheckHolds(Head(todo[s]))
  BY DEF PassCheck, Waiting
<1>3. /\ todo'[s] = Tail(todo[s]) /\ held' = held
      /\ \A r \in Session \ {s} : todo'[r] = todo[r]
      /\ LockTypes' /\ call' = call /\ open' = open
  BY <1>1 DEF PassCheck, LockTypes
<1>4. Passes(s)
  BY <1>2, <1>3 DEF Passes
<1> QED BY <1>2, <1>3, <1>4, PassingKeeps

LEMMA AbortKeeps ==
  ASSUME LockInv, NEW s \in Session, AbortCall(s)
  PROVE  LockInv'
<1>1. End(s) /\ open' = open
  BY DEF AbortCall
<1>2. SettledShut /\ ReleasedOpen
  BY DEF LockInv
<1>3. \A t \in Session \ {s}, m \in MemberId :
        call[t] = [handler |-> "settle", of |-> m] /\ Len(todo[t]) <= 4 => m \notin open'
  BY <1>1, <1>2 DEF SettledShut
<1>4. \A t \in Session \ {s}, m \in MemberId :
        call[t] = [handler |-> "release", of |-> m] /\ Len(todo[t]) <= 1 => m \in open'
  BY <1>1, <1>2 DEF ReleasedOpen
<1> QED BY <1>1, <1>3, <1>4, EndKeeps

\* The member a settlement holds keeps create_application from committing,
\* and the application a release holds the handlers that close one.
LEMMA CommitKeeps ==
  ASSUME LockInv, NEW s \in Session, CommitCall(s)
  PROVE  LockInv'
<1>1. /\ \A r \in Session : Prepared(r)
      /\ LocksExclude
      /\ SettledShut
      /\ ReleasedOpen
  BY DEF LockInv, AllPrepared
<1>2. End(s) /\ ~AtRest(s) /\ todo[s] = <<>>
  BY DEF CommitCall
<1>3. CASE call[s].handler \notin {"create", "disburse", "reject"}
  <2>1. open' = open
    BY <1>3 DEF CommitCall
  <2> QED BY <1>1, <1>2, <2>1, EndKeeps DEF SettledShut, ReleasedOpen
<1>4. CASE call[s].handler \in {"create", "disburse", "reject"}
  <2>1. PICK g \in Handlers, p \in MemberId : call[s] = [handler |-> g, of |-> p]
    <3>1. Prepared(s)
      BY <1>1
    <3>2. \A S : ~Distributing(s, S) /\ ~Accruing(s, S)
      BY <1>4 DEF Distributing, Accruing
    <3>3. \E h \in Handlers, p \in MemberId : \E sc, k : InScript(s, h, p, sc, k)
      BY <1>2, <3>1, <3>2 DEF Prepared
    <3> QED BY <3>3 DEF InScript
  <2>2. g \in {"create", "disburse", "reject"}
    BY <1>4, <2>1
  <2>3. open' = IF g = "create" THEN open \union {p} ELSE open \ {p}
    BY <2>1, <2>2 DEF CommitCall
  <2>4. ASSUME NEW t \in Session \ {s}, NEW m \in MemberId,
               call[t] = [handler |-> "settle", of |-> m], Len(todo[t]) <= 4
        PROVE  m \notin open'
    <3>1. m \notin open
      BY <1>1, <2>4 DEF SettledShut
    <3>2. ASSUME g = "create", p = m PROVE FALSE
      <4>1. Len(todo[t]) <= 5
        <5>1. PICK T : todo[t] \in Seq(T)
          BY <1>1, TodoIsSequence
        <5>2. Len(todo[t]) \in Nat
          BY <5>1, LenProperties
        <5> QED BY <2>4, <5>2
      <4>2. Row("members", m) \in held[t]
        BY <1>1, <2>4, <4>1, SettlementHolds
      <4>3. Shared(m) \in held[s]
        BY <1>1, <1>2, <2>1, <3>2, CommitterHolds
      <4>4. Compatible(held[t], held[s])
        BY <1>1 DEF LocksExclude
      <4> QED BY <4>2, <4>3, <4>4, MemberExcludes
    <3> QED BY <2>3, <3>1, <3>2
  <2>5. ASSUME NEW t \in Session \ {s}, NEW m \in MemberId,
               call[t] = [handler |-> "release", of |-> m], Len(todo[t]) <= 1
        PROVE  m \in open'
    <3>1. m \in open
      BY <1>1, <2>5 DEF ReleasedOpen
    <3>2. ASSUME g # "create", p = m PROVE FALSE
      <4>1. Len(todo[t]) <= 2
        <5>1. PICK T : todo[t] \in Seq(T)
          BY <1>1, TodoIsSequence
        <5>2. Len(todo[t]) \in Nat
          BY <5>1, LenProperties
        <5> QED BY <2>5, <5>2
      <4>2. Row("applications", m) \in held[t]
        BY <1>1, <2>5, <4>1, ReleaseHolds
      <4>3. Row("applications", m) \in held[s]
        BY <1>1, <1>2, <2>1, <2>2, <3>2, CommitterHolds
      <4>4. Compatible(held[t], held[s])
        BY <1>1 DEF LocksExclude
      <4> QED BY <4>2, <4>3, <4>4, RowsExclude
    <3> QED BY <2>3, <3>1, <3>2
  <2> QED BY <1>2, <2>4, <2>5, EndKeeps
<1> QED BY <1>3, <1>4

\* Every call is somewhere in its script, with the locks that takes and
\* nobody else's beside them.
THEOREM LocksInvariant == LockSpec => []LockInv
<1>1. LockInit => LockInv
  <2> SUFFICES ASSUME LockInit PROVE LockInv
    OBVIOUS
  <2>1. LockTypes
    BY DEF LockInit, LockTypes
  <2>2. \A s \in Session : call[s] = [handler |-> NoCall, of |-> 0] /\ todo[s] = <<>> /\ held[s] = {}
    BY DEF LockInit
  <2>3. AllPrepared
    BY <2>2 DEF AllPrepared, Prepared, AtRest
  <2>4. LocksExclude
    BY <2>2 DEF LocksExclude, Compatible
  <2>5. PairsApart
    BY <2>2 DEF PairsApart, AtRest
  <2>6. SettledShut /\ ReleasedOpen
    BY <2>2 DEF SettledShut, ReleasedOpen, NoCall
  <2> QED BY <2>1, <2>3, <2>4, <2>5, <2>6 DEF LockInv
<1>2. LockInv /\ [LockNext]_lockVars => LockInv'
  <2> SUFFICES ASSUME LockInv, [LockNext]_lockVars PROVE LockInv'
    OBVIOUS
  <2>1. CASE UNCHANGED lockVars
    <3>1. call' = call /\ todo' = todo /\ held' = held /\ open' = open
      BY <2>1 DEF lockVars
    <3>2. AllPrepared'
      <4>1. AllPrepared
        BY DEF LockInv
      <4> QED BY <3>1, <4>1, PreparedSame DEF AllPrepared
    <3> QED BY <3>1, <3>2 DEF LockInv, LockTypes, LocksExclude, PairsApart, SettledShut,
              ReleasedOpen, AtRest
  <2>2. CASE LockNext
    <3>1. PICK s \in Session : \/ Start(s) \/ Distribute(s) \/ AccrueInterest(s) \/ Acquire(s)
                               \/ PassCheck(s) \/ AbortCall(s) \/ CommitCall(s)
      BY <2>2 DEF LockNext
    <3>2. CASE Start(s)
      BY <3>2, StartKeeps
    <3>3. CASE Distribute(s)
      BY <3>3, DistributeKeeps
    <3>4. CASE AccrueInterest(s)
      BY <3>4, InterestKeeps
    <3>5. CASE Acquire(s)
      BY <3>5, AcquireKeeps
    <3>6. CASE PassCheck(s)
      BY <3>6, PassCheckKeeps
    <3>7. CASE AbortCall(s)
      BY <3>7, AbortKeeps
    <3>8. CASE CommitCall(s)
      BY <3>8, CommitKeeps
    <3> QED BY <3>1, <3>2, <3>3, <3>4, <3>5, <3>6, <3>7, <3>8
  <2> QED BY <2>1, <2>2
<1> QED BY <1>1, <1>2, PTL DEF LockSpec

\* A call that waits is covered by a lock it has, or has a level.
LEMMA ScriptLevel ==
  ASSUME NEW s, NEW h, NEW m \in MemberId, NEW sc, NEW k, InScript(s, h, m, sc, k), Waiting(s),
         held[s] # {}, ~Covered(Head(todo[s]), held[s])
  PROVE  \E v \in Nat : Level(h, Head(todo[s]), held[s], v)
<1> DEFINE w == Head(todo[s])
           Goal == \E v \in Nat : Level(h, w, held[s], v)
<1>0. Follows(h, m, sc) /\ Reached(s, sc, k)
  BY DEF InScript
<1>1. ASSUME h = "deposit", sc = Deposit(m) PROVE Goal
  <2>1. PICK v \in Nat : DepositWaits(m, w, held[s], v)
    BY <1>0, <1>1, DepositPostures
  <2>2. Level(h, w, held[s], v)
    BY <1>1, <2>1 DEF Level
  <2> QED BY <2>2
<1>2. ASSUME h = "withdraw", sc = Withdrawal(m) PROVE Goal
  <2>1. PICK v \in Nat : WithdrawalWaits(m, w, held[s], v)
    BY <1>0, <1>2, WithdrawalPostures
  <2>2. Level(h, w, held[s], v)
    BY <1>2, <2>1 DEF Level
  <2> QED BY <2>2
<1>3. ASSUME h = "settle", sc = Settlement(m) PROVE Goal
  <2>1. PICK v \in Nat : SettlementWaits(m, w, held[s], v)
    BY <1>0, <1>3, SettlementPostures
  <2>2. Level(h, w, held[s], v)
    BY <1>3, <2>1 DEF Level
  <2> QED BY <2>2
<1>4. ASSUME h = "reject", sc = Rejection(m) PROVE Goal
  <2>1. PICK v \in Nat : RejectionWaits(m, w, held[s], v)
    BY <1>0, <1>4, RejectionPostures
  <2>2. Level(h, w, held[s], v)
    BY <1>4, <2>1 DEF Level
  <2> QED BY <2>2
<1>5. ASSUME h = "release", sc = Release(m) PROVE Goal
  <2>1. PICK v \in Nat : ReleaseWaits(m, w, held[s], v)
    BY <1>0, <1>5, ReleasePostures
  <2>2. Level(h, w, held[s], v)
    BY <1>5, <2>1 DEF Level
  <2> QED BY <2>2
<1>5a. ASSUME h = "releaseLoan", sc = LoanRelease(m) PROVE Goal
  <2>1. PICK v \in Nat : LoanReleaseWaits(m, w, held[s], v)
    BY <1>0, <1>5a, LoanReleasePostures
  <2>2. Level(h, w, held[s], v)
    BY <1>5a, <2>1 DEF Level
  <2> QED BY <2>2
<1>6. ASSUME h = "disburse", sc = Disbursement(m) PROVE Goal
  <2>1. PICK v \in Nat : DisbursementWaits(m, w, held[s], v)
    BY <1>0, <1>6, DisbursementPostures
  <2>2. Level(h, w, held[s], v)
    BY <1>6, <2>1 DEF Level
  <2> QED BY <2>2
<1>7. ASSUME h = "repay", sc = Repayment(m) PROVE Goal
  <2>1. PICK v \in Nat : RepaymentWaits(m, w, held[s], v)
    BY <1>0, <1>7, RepaymentPostures
  <2>2. Level(h, w, held[s], v)
    BY <1>7, <2>1 DEF Level
  <2> QED BY <2>2
<1>8. ASSUME h = "adjust", sc = Adjustment(m) PROVE Goal
  <2>1. PICK v \in Nat : AdjustmentWaits(m, w, held[s], v)
    BY <1>0, <1>8, AdjustmentPostures
  <2>2. Level(h, w, held[s], v)
    BY <1>8, <2>1 DEF Level
  <2> QED BY <2>2
<1>9. ASSUME h = "writeOff", sc = WriteOff(m) PROVE Goal
  <2>1. PICK v \in Nat : WriteOffWaits(m, w, held[s], v)
    BY <1>0, <1>9, WriteOffPostures
  <2>2. Level(h, w, held[s], v)
    BY <1>9, <2>1 DEF Level
  <2> QED BY <2>2
<1>10. ASSUME h = "receipt", sc = Receipt(m) PROVE Goal
  <2>1. PICK v \in Nat : ReceiptWaits(m, w, held[s], v)
    BY <1>0, <1>10, ReceiptPostures
  <2>2. Level(h, w, held[s], v)
    BY <1>10, <2>1 DEF Level
  <2> QED BY <2>2
<1>11. ASSUME NEW n \in MemberId, h = "pledge", sc = PledgeGuarantee(m, n) PROVE Goal
  <2>1. PICK v \in Nat : PledgeGuaranteeWaits(m, n, w, held[s], v)
    BY <1>0, <1>11, PledgeGuaranteePostures
  <2>2. Level(h, w, held[s], v)
    BY <1>11, <2>1 DEF Level
  <2> QED BY <2>2
<1>12. ASSUME NEW n \in MemberId, h = "substitute", sc = Substitution(m, n) PROVE Goal
  <2>1. PICK v \in Nat : SubstitutionWaits(m, n, w, held[s], v)
    BY <1>0, <1>12, SubstitutionPostures
  <2>2. Level(h, w, held[s], v)
    BY <1>12, <2>1 DEF Level
  <2> QED BY <2>2
<1>13. ASSUME NEW n \in MemberId \ {m}, h = "transfer", sc = Transfer(m, n) PROVE Goal
  <2>1. PICK a \in MemberId, b \in MemberId : InIdOrder(m, n) = <<a, b>> /\ a < b
    BY LockAssumption DEF InIdOrder, MemberId
  <2>2. PICK v \in Nat : TransferWaits(m, a, b, w, held[s], v)
    BY <1>0, <1>13, <2>1, TransferPostures
  <2>3. Level(h, w, held[s], v)
    BY <1>13, <2>1, <2>2 DEF Level
  <2> QED BY <2>3
<1>14. ASSUME sc = Application(m) PROVE FALSE
  <2>1. sc = <<Shared(m)>>
    BY <1>14, ApplicationScript
  <2>2. k \in Nat /\ k < Len(sc)
    BY <1>0, PositionCount
  <2>3. k = 0
    BY <2>1, <2>2
  <2> QED BY <1>0, <2>3, LocksOfNext DEF Reached
<1> HIDE DEF Goal
<1>15. Goal
  BY <1>0, <1>1, <1>2, <1>3, <1>4, <1>5, <1>5a, <1>6, <1>7, <1>8,
     <1>9, <1>10, <1>11, <1>12, <1>13, <1>14 DEF Follows
<1> QED BY <1>15 DEF Goal

LEMMA DistributionLevel ==
  ASSUME NEW s, NEW S \in SUBSET MemberId, Distributing(s, S), Waiting(s),
         ~Covered(Head(todo[s]), held[s])
  PROVE  \E v \in Nat : Level("distribute", Head(todo[s]), held[s], v)
<1> DEFINE w == Head(todo[s])
<1>1. w \in DistributionAsks(S)
  BY DEF Distributing, Waiting
<1>2. ScanLocks("members", S) \subseteq held[s] /\ held[s] \subseteq DistributionLocks(S)
  BY DEF Distributing
<1>3. todo[s] # <<>> /\ todo[s] \in Seq(DistributionAsks(S))
  BY DEF Distributing, Waiting
<1> HIDE DEF w
<1>4. ~Covered(w, held[s])
  BY DEF w
<1>5. PICK m \in S : w \in {Row("deposit", m), Row("shares", m), Ref("DV-"), KeyOf(m)}
  BY <1>1 DEF DistributionAsks
<1>6. ASSUME w = KeyOf(m) PROVE FALSE
  <2>1. Row("members", m) \in held[s]
    BY <1>2 DEF ScanLocks, Row
  <2> QED BY <1>4, <1>6, <2>1, CoveredLocks
<1>7. w = Ref("DV-") => w \notin held[s]
  BY <1>4, CoveredLocks
<1>8. PICK v \in Nat : DistributionWaits(S, w, held[s], v)
  BY <1>2, <1>5, <1>6, <1>7 DEF DistributionWaits
<1>9. Level("distribute", w, held[s], v)
  BY <1>8 DEF Level
<1> QED BY <1>9 DEF w

LEMMA InterestLevel ==
  ASSUME NEW s, NEW S \in SUBSET MemberId, Accruing(s, S), Waiting(s),
         ~Covered(Head(todo[s]), held[s])
  PROVE  \E v \in Nat : Level("interest", Head(todo[s]), held[s], v)
<1> DEFINE w == Head(todo[s])
<1>1. w \in InterestAsks(S)
  BY DEF Accruing, Waiting
<1>2. ScanLocks("deposit", S) \subseteq held[s] /\ held[s] \subseteq InterestLocks(S)
  BY DEF Accruing
<1> HIDE DEF w
<1>4. ~Covered(w, held[s])
  BY DEF w
<1>5. PICK m \in S : w \in {Ref("INT-"), KeyOf(m)}
  BY <1>1 DEF InterestAsks
<1>6. w = Ref("INT-") => w \notin held[s]
  BY <1>4, CoveredLocks
<1>7. PICK v \in Nat : InterestWaits(S, w, held[s], v)
  BY <1>2, <1>5, <1>6 DEF InterestWaits
<1>8. Level("interest", w, held[s], v)
  BY <1>7 DEF Level
<1> QED BY <1>8 DEF w

\* The level at which a session waits.
At(s, v) == Level(call[s].handler, Head(todo[s]), held[s], v)

\* Nobody stands in the way of a lock the call has already.
LEMMA CoveredUnblocked ==
  ASSUME LocksExclude, NEW s \in Session, Covered(Head(todo[s]), held[s])
  PROVE  Blockers(s) = {}
<1> SUFFICES ASSUME NEW r \in Session \ {s}, NEW l \in held[r], Clash(l, Head(todo[s]))
             PROVE  FALSE
  BY DEF Blockers
<1> DEFINE w == Head(todo[s])
<1>1. PICK k \in held[s] : /\ k.table = w.table /\ k.key = w.key /\ k.mode \in Mode
                           /\ ConflictsWith[w.mode] \subseteq ConflictsWith[k.mode]
  BY DEF Covered
<1>2. l.table = w.table /\ l.key = w.key /\ l.mode \in ConflictsWith[w.mode]
  BY DEF Clash
<1> HIDE DEF w
<1>3. l.mode \in ConflictsWith[k.mode]
  BY <1>1, <1>2
<1>4. k.mode \in ConflictsWith[l.mode]
  BY <1>1, <1>3 DEF ConflictsWith, Mode
<1>5. Clash(l, k) /\ Clash(k, l)
  BY <1>1, <1>2, <1>3, <1>4 DEF Clash
<1> QED BY <1>5 DEF LocksExclude, Compatible

\* So every blocked session has a level.
LEMMA BlockedHasLevel ==
  ASSUME LockInv, NEW s \in Session, Blockers(s) # {}
  PROVE  \E v \in Nat : At(s, v)
<1>1. Prepared(s) /\ LocksExclude
  BY DEF LockInv, AllPrepared
<1>2. Waiting(s)
  BY DEF Blockers
<1>3. ~Covered(Head(todo[s]), held[s])
  BY <1>1, CoveredUnblocked
<1>4. CASE held[s] = {}
  <2>1. 9 + LastMember \in Nat
    BY LockAssumption
  <2> QED BY <1>4, <2>1 DEF At, Level
<1>5. ASSUME NEW h \in Handlers, NEW m \in MemberId, NEW sc, NEW k, InScript(s, h, m, sc, k),
             held[s] # {}
      PROVE  \E v \in Nat : At(s, v)
  <2>1. call[s].handler = h
    BY <1>5 DEF InScript
  <2>2. \E v \in Nat : Level(h, Head(todo[s]), held[s], v)
    BY ONLY <1>2, <1>3, <1>5, ScriptLevel
  <2> QED BY <2>1, <2>2 DEF At
<1>6. ASSUME NEW S \in SUBSET MemberId, Distributing(s, S)
      PROVE  \E v \in Nat : At(s, v)
  <2>1. call[s].handler = "distribute"
    BY <1>6 DEF Distributing
  <2> QED BY <1>2, <1>3, <1>6, <2>1, DistributionLevel DEF At
<1>7. ASSUME NEW S \in SUBSET MemberId, Accruing(s, S)
      PROVE  \E v \in Nat : At(s, v)
  <2>1. call[s].handler = "interest"
    BY <1>7 DEF Accruing
  <2> QED BY <1>2, <1>3, <1>7, <2>1, InterestLevel DEF At
<1>8. ~(todo[s] = <<>>)
  BY <1>2 DEF Waiting
<1> QED BY <1>1, <1>4, <1>5, <1>6, <1>7, <1>8 DEF Prepared

LEMMA IdleHasNothing ==
  ASSUME NEW s, Prepared(s), AtRest(s)
  PROVE  todo[s] = <<>> /\ held[s] = {}
<1>1. \A h \in Handlers : \A m, sc, k : ~InScript(s, h, m, sc, k)
  BY LockAssumption DEF InScript, AtRest
<1>2. \A S : ~Distributing(s, S)
  BY DEF Distributing, AtRest, NoCall
<1>3. \A S : ~Accruing(s, S)
  BY DEF Accruing, AtRest, NoCall
<1> QED BY Zenon, <1>1, <1>2, <1>3 DEF Prepared

\* Past its check, with the guarantees to write, a settlement ...
LEMMA SettlementWrites ==
  ASSUME NEW s, NEW m, Prepared(s), Waiting(s), call[s].handler = "settle",
         Head(todo[s]) = Written(m)
  PROVE  call[s] = [handler |-> "settle", of |-> m] /\ m \in MemberId /\ Len(todo[s]) = 1
<1>1. PICK p \in MemberId : call[s] = [handler |-> "settle", of |-> p]
  <2>1. \A S : ~Distributing(s, S)
    BY DEF Distributing
  <2>2. \A S : ~Accruing(s, S)
    BY DEF Accruing
  <2>3. ~AtRest(s)
    BY DEF AtRest, NoCall
  <2>4. \E h \in Handlers, p \in MemberId : \E sc, k : InScript(s, h, p, sc, k)
    BY Zenon, <2>1, <2>2, <2>3 DEF Prepared
  <2> QED BY <2>4 DEF InScript
<1>2. PICK k \in 0 .. 9 : Reached(s, Settlement(p), k) /\ Len(todo[s]) = 9 - k
  BY <1>1, SettlementReached
<1>3. PICK sc : sc = Settlement(p)
  OBVIOUS
<1>4. k < 9 /\ sc[k + 1] = Written(m)
  <2>1. Reached(s, sc, k) /\ Len(sc) = 9
    BY <1>2, <1>3, SettlementScript
  <2>2. k < Len(sc)
    BY <2>1, PositionCount
  <2>3. Head(todo[s]) = sc[k + 1]
    BY <2>1, PositionHead
  <2> QED BY <2>1, <2>2, <2>3
<1>5. /\ sc[1].table = "member_exits" /\ sc[2].table = "members" /\ sc[3].table = "deposit"
      /\ sc[4].table = "shares" /\ sc[5].table = "check" /\ sc[6].table = "loans"
      /\ sc[7].table = "ref" /\ sc[8].table = "members" /\ sc[9] = Written(p)
  <2>1. /\ sc[1] = Row("member_exits", p) /\ sc[2] = Row("members", p) /\ sc[3] = Row("deposit", p)
        /\ sc[4] = Row("shares", p) /\ sc[5] = IfNoneOpen(p) /\ sc[6] = Row("loans", p)
        /\ sc[7] = Ref("WD-") /\ sc[8] = KeyOf(p) /\ sc[9] = Written(p)
    BY <1>3, SettlementScript
  <2> QED BY <2>1, RowTable, RefTable, KeyOfTable, LockTables
<1>6. k + 1 \in 1 .. 9 /\ sc[k + 1].table = "guarantees"
  BY <1>4, WrittenTable
<1>7. k + 1 = 9
  BY <1>5, <1>6
<1>8. Written(p) = Written(m)
  BY <1>4, <1>5, <1>7
<1>9. p = m
  BY <1>8, WrittenKey
<1>10. Len(todo[s]) = 1
  <2>1. k = 8
    BY <1>7
  <2> QED BY <1>2, <2>1
<1> QED BY <1>1, <1>9, <1>10

\* ... never meets a release about to lock the account.
LEMMA ReleaseGuards ==
  ASSUME NEW s, NEW m, Prepared(s), Waiting(s), call[s].handler = "release",
         Head(todo[s]) = Row("deposit", m)
  PROVE  call[s] = [handler |-> "release", of |-> m] /\ m \in MemberId /\ Len(todo[s]) = 1
<1>1. PICK p \in MemberId : call[s] = [handler |-> "release", of |-> p]
  <2>1. \A S : ~Distributing(s, S)
    BY DEF Distributing
  <2>2. \A S : ~Accruing(s, S)
    BY DEF Accruing
  <2>3. ~AtRest(s)
    BY DEF AtRest, NoCall
  <2>4. \E h \in Handlers, p \in MemberId : \E sc, k : InScript(s, h, p, sc, k)
    BY Zenon, <2>1, <2>2, <2>3 DEF Prepared
  <2> QED BY <2>4 DEF InScript
<1>2. PICK k \in 0 .. 4 : Reached(s, Release(p), k) /\ Len(todo[s]) = 4 - k
  BY <1>1, ReleaseReached
<1>3. PICK sc : sc = Release(p)
  OBVIOUS
<1>4. k < 4 /\ sc[k + 1] = Row("deposit", m)
  <2>1. Reached(s, sc, k) /\ Len(sc) = 4
    BY <1>2, <1>3, ReleaseScript
  <2>2. k < Len(sc)
    BY <2>1, PositionCount
  <2>3. Head(todo[s]) = sc[k + 1]
    BY <2>1, PositionHead
  <2> QED BY <2>1, <2>2, <2>3
<1>5. /\ sc[1].table = "applications" /\ sc[2].table = "guarantees" /\ sc[3].table = "check"
      /\ sc[4] = Row("deposit", p)
  <2>1. /\ sc[1] = Row("applications", p) /\ sc[2] = Row("guarantees", p) /\ sc[3] = IfOpen(p)
        /\ sc[4] = Row("deposit", p)
    BY <1>3, ReleaseScript
  <2> QED BY <2>1, RowTable, LockTables
<1>6. k + 1 \in 1 .. 4 /\ sc[k + 1].table = "deposit"
  BY <1>4, RowTable
<1>7. k + 1 = 4
  BY <1>5, <1>6
<1>8. Row("deposit", p) = Row("deposit", m)
  BY <1>4, <1>5, <1>7
<1>9. p = m
  BY <1>8, RowKey
<1>10. Len(todo[s]) = 1
  <2>1. k = 3
    BY <1>7
  <2> QED BY <1>2, <2>1
<1> QED BY <1>1, <1>9, <1>10

\* A blocked session and the one it waits for meet as EdgeFalls supposes.
LEMMA BlockedMeets ==
  ASSUME LockInv, Crossing \subseteq Apart, NEW s \in Session, NEW r \in Blockers(s),
         NEW q \in Blockers(r)
  PROVE  Meets(call[s].handler, Head(todo[s]), held[s], call[r].handler, Head(todo[r]), held[r])
<1>1. /\ \A t \in Session : Prepared(t)
      /\ LocksExclude
      /\ PairsApart
      /\ SettledShut
      /\ ReleasedOpen
  BY DEF LockInv, AllPrepared
<1>2. r \in Session /\ r # s /\ Waiting(s) /\ Waiting(r) /\ q \in Session /\ q # r
  BY DEF Blockers
<1>3. Compatible(held[s], held[r])
  BY <1>1, <1>2 DEF LocksExclude
<1>4. {call[s].handler, call[r].handler} \notin Crossing
  <2>1. ~AtRest(s)
    BY <1>1, <1>2, IdleHasNothing DEF Waiting
  <2>2. ~AtRest(r)
    BY <1>1, <1>2, IdleHasNothing DEF Waiting
  <2> QED BY <1>1, <1>2, <2>1, <2>2 DEF PairsApart
<1>5. ASSUME NEW m, Head(todo[r]) = KeyOf(m), Shared(m) \in held[s] PROVE HoldsAlone(held[s])
  <2>1. PICK l \in held[q] : Clash(l, KeyOf(m))
    BY <1>5 DEF Blockers
  <2>2. l.table = "members" /\ l.key = m /\ l.mode = "update"
    BY <2>1, Conflicts, KeyOfTable, KeyOfKey DEF Clash, KeyOf, Lock
  <2>3. Clash(l, Shared(m)) /\ Clash(Shared(m), l)
    BY <2>2, Conflicts DEF Clash, Shared, Lock
  <2>4. q = s
    BY <1>1, <1>2, <1>5, <2>3 DEF LocksExclude, Compatible
  <2> QED BY <2>2, <2>4 DEF HoldsAlone
<1>6. ASSUME NEW m, call[s].handler = "settle", Head(todo[s]) = Written(m),
             call[r].handler = "release", Head(todo[r]) = Row("deposit", m)
      PROVE  FALSE
  <2>1. call[s] = [handler |-> "settle", of |-> m] /\ m \in MemberId /\ Len(todo[s]) = 1
    BY <1>1, <1>2, <1>6, SettlementWrites
  <2>2. call[r] = [handler |-> "release", of |-> m] /\ Len(todo[r]) = 1
    BY <1>1, <1>2, <1>6, ReleaseGuards
  <2>3. Len(todo[s]) <= 4 /\ Len(todo[r]) <= 1
    BY <2>1, <2>2
  <2>4. m \notin open
    BY <1>1, <2>1, <2>3 DEF SettledShut
  <2>5. m \in open
    BY <1>1, <1>2, <2>1, <2>2, <2>3 DEF ReleasedOpen
  <2> QED BY <2>4, <2>5
<1> QED BY <1>3, <1>4, <1>5, <1>6 DEF Meets

\* A set of sessions that wait for each other has one at the least level.
LEMMA LevelsPreventDeadlock ==
  ASSUME LockInv, Crossing \subseteq Apart
  PROVE  NoDeadlock
<1> SUFFICES ASSUME NEW S \in (SUBSET Session) \ {{}}, ~\E s \in S : Blockers(s) \cap S = {}
             PROVE  FALSE
  BY DEF NoDeadlock
<1>0. S \in SUBSET Session /\ S # {} /\ \A s \in S : Blockers(s) \cap S # {}
  OBVIOUS
<1> DEFINE V == {v \in Nat : \E s \in S : At(s, v)}
<1>1. ASSUME NEW s \in S PROVE \E v \in Nat : At(s, v)
  <2>1. s \in Session /\ Blockers(s) # {}
    BY <1>0
  <2> QED BY <2>1, BlockedHasLevel
<1>2. V \in SUBSET Nat /\ V # {}
  BY <1>0, <1>1
<1>3. PICK v \in V : \A u \in V : v <= u
  <2> HIDE DEF V
  <2> QED BY <1>2, LeastElement
<1>4. PICK s \in S : At(s, v)
  BY <1>3
<1>5. PICK r \in Blockers(s) : r \in S
  BY <1>0, <1>4
<1>6. PICK q \in Blockers(r) : q \in S
  BY <1>0, <1>5
<1>7. PICK u \in Nat : At(r, u)
  BY <1>1, <1>5
<1>8. PICK l \in held[r] : Clash(l, Head(todo[s]))
  BY <1>5 DEF Blockers
<1>9. Meets(call[s].handler, Head(todo[s]), held[s], call[r].handler, Head(todo[r]), held[r])
  BY <1>0, <1>4, <1>5, <1>6, BlockedMeets
<1>10. u < v
  BY <1>4, <1>7, <1>8, <1>9, EdgeFalls DEF At
<1>11. u \in V /\ v \in Nat
  BY <1>3, <1>5, <1>7
<1>12. v <= u
  <2> HIDE DEF V
  <2> QED BY <1>3, <1>11
<1> QED BY <1>7, <1>10, <1>11, <1>12

\* Keep the pairs of Crossing apart, and whatever the handlers, members and
\* sessions no set of calls waits for itself in a circle.
THEOREM NeverDeadlocked ==
  ASSUME Crossing \subseteq Apart
  PROVE  LockSpec => []NoDeadlock
<1>1. LockInv => NoDeadlock
  BY LevelsPreventDeadlock
<1> QED BY <1>1, LocksInvariant, PTL

\* create_application cannot open an application between the check of a
\* settlement and its commit.
THEOREM NoneOpenWhenSettled == LockSpec => []NoneOpenAtSettlement
<1>1. LockInv => NoneOpenAtSettlement
  <2> SUFFICES ASSUME LockInv, NEW s \in Session, NEW m \in MemberId,
                      call[s] = [handler |-> "settle", of |-> m],
                      Row("shares", m) \in held[s],
                      ~\E i \in DOMAIN todo[s] : todo[s][i] = IfNoneOpen(m)
               PROVE  m \notin open
    BY DEF NoneOpenAtSettlement, Row
  <2>1. Prepared(s) /\ SettledShut
    BY DEF LockInv, AllPrepared
  <2>2. PICK k \in 0 .. 9 : Reached(s, Settlement(m), k) /\ Len(todo[s]) = 9 - k
    BY <2>1, SettlementReached
  <2>3. PICK sc : sc = Settlement(m)
    OBVIOUS
  <2>4. /\ sc[1] = Row("member_exits", m) /\ sc[2] = Row("members", m) /\ sc[3] = Row("deposit", m)
        /\ sc[5] = IfNoneOpen(m) /\ Len(sc) = 9
    BY <2>3, SettlementScript
  <2>5. ASSUME k <= 3 PROVE FALSE
    <3>1. PICK i \in 1 .. k : sc[i] = Row("shares", m)
      BY <2>2, <2>3 DEF Reached, LocksOf
    <3>2. i = 1 \/ i = 2 \/ i = 3
      BY <2>5
    <3>3. sc[i].table \in {"member_exits", "members", "deposit"}
      BY <2>4, <3>2, RowTable
    <3> QED BY <3>1, <3>3, RowTable
  <2>6. ASSUME k = 4 PROVE FALSE
    <3>1. 1 \in 1 .. Len(sc) - 4 /\ Len(todo[s]) = 5
      BY <2>2, <2>4, <2>6
    <3>2. todo[s][1] = sc[4 + 1]
      BY <2>2, <2>3, <2>6, <3>1 DEF Reached
    <3>3. 1 \in DOMAIN todo[s]
      BY <2>2, <3>1 DEF Reached
    <3> QED BY <2>4, <3>2, <3>3
  <2>7. Len(todo[s]) <= 4
    BY <2>2, <2>5, <2>6
  <2> QED BY <2>1, <2>7 DEF SettledShut
<1> QED BY <1>1, LocksInvariant, PTL

=============================================================================
