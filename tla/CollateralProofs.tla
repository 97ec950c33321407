-------------------------- MODULE CollateralProofs --------------------------
(***************************************************************************)
(* Proofs about Collateral for any members, applications, guarantees and   *)
(* sessions: guarantees stay covered, a loan that ends discharges its      *)
(* guarantors, and the collateral of an outstanding loan never shrinks.    *)
(*                                                                         *)
(* The argument.  What a transaction has checked stays true until it       *)
(* commits, because every commit that could disturb it needs a lock that   *)
(* conflicts with one it holds (Effects says which, table by table).  So   *)
(* the invariant says of each transaction in progress that its writes      *)
(* would be right if it committed now (Sound), and a commit then makes     *)
(* them right.                                                             *)
(***************************************************************************)
EXTENDS Collateral, FiniteSetTheorems, TLAPS

Modes == {"key_share", "share", "write", "update"}
Holding(t) == t.state \in {"updating", "pending"}

Holds(t, table, key, mode) == Lock(table, key, mode) \in t.locks
HoldsAny(t, table, key) == \E mode \in Modes : Holds(t, table, key, mode)
HoldsRow(t, g) == Holds(t, "guarantees", g, "write") \/ Holds(t, "guarantees", g, "update")

Compatible(K, L) ==
  \A k \in K, l \in L : k.table = l.table /\ k.key = l.key => k.mode \notin ConflictsWith(l.mode)

LocksExclude ==
  \A r, s \in Session : r # s /\ Holding(txn[r]) /\ Holding(txn[s]) =>
    Compatible(txn[r].locks, txn[s].locks)

-----------------------------------------------------------------------------
(* The tables.                                                             *)

RowType ==
  [status : {"none", "pledged", "active", "released"}, app : Application \cup {None},
   by : Member \cup {None}, linked : BOOLEAN, version : Nat]

RowTyped(row) ==
  /\ row \in RowType
  /\ row.status # "none" => row.app \in Application /\ row.by \in Member

TablesTyped ==
  /\ balance \in [Member -> Nat]
  /\ member \in [Member -> {"active", "exited"}]
  /\ stage \in [Application -> {"none", "open", "approved", "rejected", "disbursed"}]
  /\ debt \in [Application -> {"none", "active", "closed", "written_off", "recovered"}]
  /\ DOMAIN guar = Guarantee
  /\ \A g \in Guarantee : RowTyped(guar[g])

\* A loan exists from the disbursement on, only its guarantees are linked,
\* and there is none without an application.
TablesAgree ==
  /\ \A a \in Application : stage[a] = "disbursed" <=> debt[a] # "none"
  /\ \A g \in Guarantee : Live(g) /\ guar[g].linked => stage[guar[g].app] = "disbursed"
  /\ \A a \in Application : stage[a] = "none" => LiveFor(a) = {}

-----------------------------------------------------------------------------
(* A transaction in progress.                                              *)

\* The rows it releases and the rows it links, found or already locked.
Falls(t) ==
  IF t.state = "updating" THEN IF t.change = "release" THEN t.rows ELSE {}
  ELSE {g \in DOMAIN t.writes.guar : t.writes.guar[g].status = "released"}

Links(t) ==
  IF t.state = "updating" THEN IF t.change = "link" THEN t.rows ELSE {}
  ELSE {g \in DOMAIN t.writes.guar :
          t.writes.guar[g].status = "active" /\ t.writes.guar[g].linked}

Tables == {"balance", "member", "stage", "loan", "guar"}

WritesTyped(w) ==
  /\ DOMAIN w = Tables
  /\ DOMAIN w.balance \subseteq Member /\ DOMAIN w.member \subseteq Member
  /\ DOMAIN w.stage \subseteq Application /\ DOMAIN w.loan \subseteq Application
  /\ DOMAIN w.guar \subseteq Guarantee

TxnTyped(t) ==
  /\ t.state \in {"idle", "probed", "updating", "pending"}
  /\ t.state = "idle" <=> t = Resting
  /\ Holding(t) =>
       /\ \A l \in t.locks : l.mode \in Modes
       /\ WritesTyped(t.writes)
  /\ t.state = "updating" =>
       /\ DOMAIN t.writes.guar = {}
       /\ t.change \in {"release", "link"}
       /\ t.rows \subseteq Guarantee
       /\ \A g \in t.rows : ~FreshRow(g)

ProbeSound(t) ==
  t.state = "probed" =>
    /\ t.g \in Guarantee
    /\ ~FreshRow(t.g)
    /\ t.version \in Nat /\ t.version <= guar[t.g].version
    /\ t.version = guar[t.g].version => t.linked = guar[t.g].linked

\* A deposit or withdrawal leaves what the member guarantees covered.
BalanceSound(t) ==
  \A x \in DOMAIN t.writes.balance :
    /\ Holds(t, "deposit", x, "update") /\ HoldsAny(t, "members", x)
    /\ member[x] = "active"
    /\ t.writes.balance[x] \in Nat
    /\ Cardinality(GivenBy(x)) <= t.writes.balance[x]

\* A member who leaves is clear, once the loans and guarantees are settled.
MemberSound(t) ==
  \A x \in DOMAIN t.writes.member :
    /\ Holds(t, "members", x, "update") /\ Holds(t, "deposit", x, "update")
    /\ t.writes.member[x] = "exited"
    /\ x \in DOMAIN t.writes.balance /\ t.writes.balance[x] = 0
    /\ DOMAIN t.writes.stage = {}
    /\ \A a \in DOMAIN t.writes.loan : t.writes.loan[a] = "closed"
    /\ GivenBy(x) = {}
    /\ \A a \in Of(x) : /\ ~InFlight(a) /\ debt[a] # "written_off"
                        /\ debt[a] = "active" => a \in DOMAIN t.writes.loan
                        /\ LiveFor(a) \subseteq Falls(t)

Disburses(t, a) ==
  /\ stage[a] = "approved"
  /\ Holds(t, "members", Borrower[a], "key_share")
  /\ Holds(t, "deposit", Borrower[a], "update")
  /\ a \in DOMAIN t.writes.loan /\ t.writes.loan[a] = "active"
  /\ DOMAIN t.writes.balance = {} /\ Falls(t) = {}
  /\ \A g \in LiveFor(a) : guar[g].status = "active"
  /\ LiveFor(a) \subseteq Links(t)
  /\ Requested[a] <= Eligible(a, {})

StageSound(t) ==
  \A a \in DOMAIN t.writes.stage :
    /\ Holds(t, "applications", a, "update")
    /\ \/ /\ t.writes.stage[a] = "open" /\ stage[a] = "none"
          /\ HoldsAny(t, "members", Borrower[a]) /\ member[Borrower[a]] = "active"
       \/ t.writes.stage[a] = "approved" /\ stage[a] = "open"
       \/ /\ t.writes.stage[a] = "rejected" /\ stage[a] = "open"
          /\ LiveFor(a) \subseteq Falls(t)
       \/ t.writes.stage[a] = "disbursed" /\ Disburses(t, a)

LoanSound(t) ==
  \A a \in DOMAIN t.writes.loan :
    /\ HoldsAny(t, "members", Borrower[a])
    /\ \/ /\ t.writes.loan[a] = "active"
          /\ a \in DOMAIN t.writes.stage /\ t.writes.stage[a] = "disbursed"
       \/ /\ Holds(t, "loans", a, "update")
          /\ \/ /\ t.writes.loan[a] = "closed" /\ debt[a] = "active"
                /\ LiveFor(a) \subseteq Falls(t)
             \/ /\ t.writes.loan[a] = "recovered" /\ debt[a] = "written_off"
                /\ LiveFor(a) \subseteq Falls(t)
             \/ t.writes.loan[a] = "written_off" /\ debt[a] = "active"
             \/ /\ t.writes.loan[a] = "active" /\ debt[a] = "closed"
                /\ member[Borrower[a]] = "active"

\* A row is released by who decides the application while no loan exists,
\* by the end of the loan, or against a substitute.
FallSound(t) ==
  \A g \in Falls(t) :
    /\ ~FreshRow(g)
    /\ \/ /\ Holds(t, "applications", guar[g].app, "update")
          /\ stage[guar[g].app] # "disbursed"
       \/ /\ Holds(t, "loans", guar[g].app, "update")
          /\ guar[g].app \in DOMAIN t.writes.loan
          /\ t.writes.loan[guar[g].app] \in {"closed", "recovered"}
       \/ /\ t.state = "pending"
          /\ Holds(t, "applications", guar[g].app, "update")
          /\ Holds(t, "loans", guar[g].app, "update")
          /\ \E h \in Guarantee : /\ DOMAIN t.writes.guar = {g, h} /\ FreshRow(h)
                                  /\ t.writes.guar[h].app = guar[g].app
                                  /\ t.writes.guar[h].status = "active"

LinkSound(t) ==
  t.state = "updating" =>
    \A g \in Links(t) : /\ guar[g].app \in DOMAIN t.writes.stage
                        /\ t.writes.stage[guar[g].app] = "disbursed"

Keeps(t, g) ==
  LET row == t.writes.guar[g] IN
  /\ Live(g)
  /\ row.app = guar[g].app /\ row.by = guar[g].by /\ row.version = guar[g].version + 1
  /\ \/ row.status = "released" /\ row.linked = guar[g].linked
     \/ row.status = "active" /\ row.linked = guar[g].linked
     \/ /\ row.status = guar[g].status /\ row.linked
        /\ guar[g].app \in DOMAIN t.writes.stage
        /\ t.writes.stage[guar[g].app] = "disbursed"

Inserts(t, h) ==
  LET row == t.writes.guar[h] IN
  /\ row.app \in Application /\ row.by \in Member /\ row.version = 1
  /\ Holds(t, "applications", row.app, "update")
  /\ Holds(t, "members", row.by, "share") /\ Holds(t, "deposit", row.by, "update")
  /\ Holds(t, "members", Borrower[row.app], "key_share")
  /\ DOMAIN t.writes.balance = {} /\ DOMAIN t.writes.member = {}
  /\ DOMAIN t.writes.stage = {} /\ DOMAIN t.writes.loan = {}
  /\ member[row.by] = "active"
  /\ \/ /\ row.status = "pledged" /\ ~row.linked
        /\ DOMAIN t.writes.guar = {h}
        /\ stage[row.app] = "open"
        /\ Cardinality(GivenBy(row.by)) < balance[row.by]
     \/ /\ row.status = "active" /\ row.linked
        /\ Holds(t, "loans", row.app, "update")
        /\ \E g \in Guarantee :
             /\ g # h /\ DOMAIN t.writes.guar = {g, h}
             /\ t.writes.guar[g].status = "released"
             /\ g \in LinkedTo(row.app)
             /\ Cardinality(GivenBy(row.by) \ {g}) < balance[row.by]

RowsSound(t) ==
  t.state = "pending" =>
    \A g \in DOMAIN t.writes.guar :
      /\ t.writes.guar[g] \in RowType
      /\ HoldsRow(t, g)
      /\ IF FreshRow(g) THEN Inserts(t, g) ELSE Keeps(t, g)

WritesSound(t) ==
  Holding(t) =>
    /\ BalanceSound(t) /\ MemberSound(t) /\ StageSound(t) /\ LoanSound(t)
    /\ FallSound(t) /\ LinkSound(t) /\ RowsSound(t)

Sound(t) == TxnTyped(t) /\ ProbeSound(t) /\ WritesSound(t)

Promises ==
  /\ GuaranteesAreCovered /\ EndedDischargesAll
  /\ LoanGuaranteesConsented /\ ExitedIsClear

IndInv ==
  /\ TablesTyped /\ TablesAgree /\ Promises
  /\ LocksExclude
  /\ DOMAIN txn = Session
  /\ \A s \in Session : Sound(txn[s])

-----------------------------------------------------------------------------
(* Lemmas on locks and sets of guarantees.                                 *)

LEMMA LocksDiffer ==
  ASSUME LocksExclude, NEW r \in Session, NEW s \in Session, r # s,
         Holding(txn[r]), Holding(txn[s]),
         NEW table, NEW key, NEW mr \in Modes, NEW ms \in Modes,
         Holds(txn[r], table, key, mr), Holds(txn[s], table, key, ms)
  PROVE  mr \notin ConflictsWith(ms)
BY DEF LocksExclude, Compatible, Holds, Lock

LEMMA UpdateExcludes ==
  ASSUME LocksExclude, NEW r \in Session, NEW s \in Session, r # s,
         Holding(txn[r]), Holding(txn[s]), NEW table, NEW key,
         Holds(txn[s], table, key, "update")
  PROVE  ~HoldsAny(txn[r], table, key) /\ ~Holds(txn[r], table, key, "update")
         /\ ~Holds(txn[r], table, key, "write") /\ ~Holds(txn[r], table, key, "share")
<1>1. \A mr \in Modes : ~Holds(txn[r], table, key, mr)
  <2> SUFFICES ASSUME NEW mr \in Modes, Holds(txn[r], table, key, mr) PROVE FALSE
    OBVIOUS
  <2>1. mr \notin ConflictsWith("update")
    BY LocksDiffer DEF Modes
  <2> QED BY <2>1 DEF ConflictsWith, Modes
<1> QED BY <1>1 DEF HoldsAny, Modes

LEMMA RowExcludes ==
  ASSUME LocksExclude, NEW r \in Session, NEW s \in Session, r # s,
         Holding(txn[r]), Holding(txn[s]), NEW g, HoldsRow(txn[s], g)
  PROVE  ~HoldsRow(txn[r], g)
<1> SUFFICES ASSUME HoldsRow(txn[r], g) PROVE FALSE
  OBVIOUS
<1>1. PICK ms \in {"write", "update"} : Holds(txn[s], "guarantees", g, ms)
  BY DEF HoldsRow
<1>2. PICK mr \in {"write", "update"} : Holds(txn[r], "guarantees", g, mr)
  BY DEF HoldsRow
<1>3. mr \notin ConflictsWith(ms)
  BY <1>1, <1>2, LocksDiffer DEF Modes
<1> QED BY <1>3 DEF ConflictsWith

LEMMA GuaranteeSets ==
  ASSUME NEW S \in SUBSET Guarantee, NEW T \in SUBSET Guarantee, S \subseteq T
  PROVE  Cardinality(S) \in Nat /\ Cardinality(T) \in Nat /\ Cardinality(S) <= Cardinality(T)
<1>1. IsFiniteSet(S) /\ IsFiniteSet(T)
  BY CollateralAssumption, FS_Subset
<1> QED BY <1>1, FS_Subset, FS_CardinalityType

LEMMA InitInd == CollateralInit => IndInv
<1> SUFFICES ASSUME CollateralInit PROVE IndInv
  OBVIOUS
<1> USE DEF CollateralInit
<1>1. TablesTyped
  BY CollateralAssumption DEF TablesTyped, RowTyped, RowType, NoRow
<1>2. \A g \in Guarantee : ~Live(g)
  BY DEF Live, NoRow
<1>3. TablesAgree
  BY <1>2 DEF TablesAgree, LiveFor
<1>4. \A x \in Member : GivenBy(x) = {}
  BY <1>2 DEF GivenBy
<1>5. Promises
  <2>1. GuaranteesAreCovered
    <3>1. \A m \in Member : Cardinality(GivenBy(m)) = 0
      BY <1>4, FS_EmptySet
    <3>2. \A m \in Member : balance[m] \in Nat
      BY CollateralAssumption
    <3>3. \A m \in Member : Cardinality(GivenBy(m)) <= balance[m]
      BY ONLY <3>1, <3>2
    <3> QED BY <3>3 DEF GuaranteesAreCovered
  <2> QED BY <2>1, <1>2 DEF Promises, EndedDischargesAll, LoanGuaranteesConsented, ExitedIsClear
<1>6. LocksExclude
  BY DEF LocksExclude, Holding, Resting
<1>7. \A s \in Session : Sound(txn[s])
  BY DEF Sound, TxnTyped, ProbeSound, WritesSound, Holding, Resting
<1> QED BY <1>1, <1>3, <1>5, <1>6, <1>7 DEF IndInv

-----------------------------------------------------------------------------
(* A step of one transaction that leaves the tables alone.                 *)

LEMMA TablesStay ==
  ASSUME IndInv, UNCHANGED tables PROVE TablesTyped' /\ TablesAgree' /\ Promises'
<1>1. UNCHANGED <<balance, member, stage, debt, guar>>
  BY DEF tables
<1>2. TablesTyped'
  BY <1>1 DEF IndInv, TablesTyped, RowTyped
<1>3. TablesAgree'
  BY <1>1 DEF IndInv, TablesAgree, Live, LiveFor
<1>4. Promises'
  BY <1>1 DEF IndInv, Promises, GuaranteesAreCovered, EndedDischargesAll,
              LoanGuaranteesConsented, ExitedIsClear, Live, LiveFor, GivenBy, Of, InFlight
<1> QED BY <1>2, <1>3, <1>4

LEMMA TxnStays ==
  ASSUME UNCHANGED tables, NEW r \in Session, NEW u, txn'[r] = u, Sound(u)
  PROVE  Sound(txn[r])'
<1>1. UNCHANGED <<balance, member, stage, debt, guar>>
  BY DEF tables
<1>2. /\ \A a : LiveFor(a)' = LiveFor(a) /\ LinkedTo(a)' = LinkedTo(a)
      /\ \A x : GivenBy(x)' = GivenBy(x)
      /\ \A a : Eligible(a, {})' = Eligible(a, {})
  BY <1>1 DEF LiveFor, LinkedTo, GivenBy, Eligible, Live
<1>3. TxnTyped(txn[r])'
  BY <1>1 DEF Sound, TxnTyped, FreshRow, Holding
<1>4. ProbeSound(txn[r])'
  BY <1>1 DEF Sound, ProbeSound, FreshRow
<1>5. WritesSound(txn[r])'
  <2> SUFFICES ASSUME Holding(txn[r])' PROVE /\ BalanceSound(txn[r])' /\ MemberSound(txn[r])'
                 /\ StageSound(txn[r])' /\ LoanSound(txn[r])' /\ FallSound(txn[r])'
                 /\ LinkSound(txn[r])' /\ RowsSound(txn[r])'
    BY DEF WritesSound
  <2>1. Holding(u)
    BY DEF Holding
  <2>2. /\ BalanceSound(u) /\ MemberSound(u) /\ StageSound(u) /\ LoanSound(u)
        /\ FallSound(u) /\ LinkSound(u) /\ RowsSound(u)
    BY <2>1 DEF Sound, WritesSound
  <2>3. BalanceSound(txn[r])'
    BY <2>2, <1>1 DEF BalanceSound, GivenBy, Live, Holds, HoldsAny
  <2>4. MemberSound(txn[r])'
    BY <2>2, <1>1 DEF MemberSound, GivenBy, Live, LiveFor, InFlight, Of, Holds, Falls
  <2>5. StageSound(txn[r])'
    <3>1. \A a : Disburses(u, a) => Disburses(txn[r], a)'
      BY <1>2, <1>1 DEF Disburses, Holds, Falls, Links
    <3>2. Falls(txn[r])' = Falls(u)
      BY DEF Falls
    <3> QED BY <2>2, <3>1, <3>2, <1>2, <1>1 DEF StageSound, Holds, HoldsAny
  <2>6. LoanSound(txn[r])'
    BY <2>2, <1>1 DEF LoanSound, Live, LiveFor, Holds, HoldsAny, Falls
  <2>7. FallSound(txn[r])'
    BY <2>2, <1>1 DEF FallSound, Falls, FreshRow, Holds
  <2>8. LinkSound(txn[r])'
    BY <2>2, <1>1 DEF LinkSound, Links
  <2>9. RowsSound(txn[r])'
    <3>1. \A g : Inserts(u, g) => Inserts(txn[r], g)'
      BY <1>2, <1>1 DEF Inserts, Holds
    <3>2. \A g : Keeps(u, g) => Keeps(txn[r], g)'
      BY <1>1 DEF Keeps, Live
    <3> QED BY <2>2, <3>1, <3>2, <1>1 DEF RowsSound, HoldsRow, Holds, FreshRow
  <2> QED BY <2>3, <2>4, <2>5, <2>6, <2>7, <2>8, <2>9
<1> QED BY <1>3, <1>4, <1>5 DEF Sound

LEMMA StepInd ==
  ASSUME IndInv, UNCHANGED tables, NEW s \in Session, NEW t,
         txn' = [txn EXCEPT ![s] = t], Sound(t),
         Holding(t) => \A r \in Session \ {s} : Holding(txn[r]) =>
                         /\ Compatible(txn[r].locks, t.locks)
                         /\ Compatible(t.locks, txn[r].locks)
  PROVE  IndInv'
<1>1. TablesTyped' /\ TablesAgree' /\ Promises'
  BY TablesStay
<1>2. LocksExclude'
  <2> SUFFICES ASSUME NEW p \in Session, NEW q \in Session, p # q,
                      Holding(txn[p])', Holding(txn[q])'
               PROVE  Compatible(txn[p].locks, txn[q].locks)'
    BY DEF LocksExclude
  <2> USE DEF IndInv, LocksExclude, Holding, Compatible
  <2>1. CASE p = s
    BY <2>1
  <2>2. CASE q = s
    BY <2>2
  <2>3. CASE p # s /\ q # s
    BY <2>3
  <2> QED BY <2>1, <2>2, <2>3
<1>3. ASSUME NEW r \in Session PROVE Sound(txn[r])'
  <2>1. PICK u : u = txn'[r]
    OBVIOUS
  <2>2. Sound(u)
    BY <2>1 DEF IndInv
  <2> QED BY <2>1, <2>2, TxnStays
<1>4. DOMAIN txn' = Session
  BY DEF IndInv
<1> QED BY <1>1, <1>2, <1>3, <1>4 DEF IndInv

LEMMA StutterInd == ASSUME IndInv, UNCHANGED collateralVars PROVE IndInv'
<1>1. UNCHANGED tables /\ txn' = txn
  BY DEF collateralVars, tables
<1>2. TablesTyped' /\ TablesAgree' /\ Promises'
  BY <1>1, TablesStay
<1>3. LocksExclude'
  BY <1>1 DEF IndInv, LocksExclude, Holding, Compatible
<1>4. ASSUME NEW r \in Session PROVE Sound(txn[r])'
  BY <1>1, TxnStays DEF IndInv
<1> QED BY <1>1, <1>2, <1>3, <1>4 DEF IndInv

LEMMA LockMode == \A table, key, mode : Lock(table, key, mode).mode = mode
BY DEF Lock

LEMMA FreeCompatible ==
  ASSUME IndInv, NEW s \in Session, NEW locks, \A l \in locks : l.mode \in Modes, Free(s, locks)
  PROVE  \A r \in Session \ {s} : Holding(txn[r]) =>
           Compatible(txn[r].locks, locks) /\ Compatible(locks, txn[r].locks)
<1> SUFFICES ASSUME NEW r \in Session \ {s}, Holding(txn[r]), NEW k \in txn[r].locks, NEW l \in locks,
                    k.table = l.table, k.key = l.key
             PROVE  k.mode \notin ConflictsWith(l.mode) /\ l.mode \notin ConflictsWith(k.mode)
  BY DEF Compatible
<1>1. k.mode \in Modes /\ l.mode \in Modes
  BY DEF IndInv, Sound, TxnTyped
<1>2. k.mode \notin ConflictsWith(l.mode)
  BY DEF Free, Holding
<1> QED BY <1>1, <1>2 DEF ConflictsWith, Modes

-----------------------------------------------------------------------------
(* Handlers whose writes wait only for their commit.                       *)

Pending(locks, writes) == [state |-> "pending", locks |-> locks, writes |-> writes]

LEMMA RunInd ==
  ASSUME IndInv, NEW s \in Session, NEW locks, NEW writes, Run(s, locks, writes),
         \A l \in locks : l.mode \in Modes, WritesTyped(writes),
         WritesSound(Pending(locks, writes))
  PROVE  IndInv'
<1> DEFINE t == Pending(locks, writes)
<1>1. t.state = "pending" /\ t.locks = locks /\ t.writes = writes /\ t # Resting
  BY DEF Pending, Resting
<1>2. Sound(t)
  <2>1. TxnTyped(t)
    BY <1>1 DEF TxnTyped, WritesTyped, Holding
  <2>2. ProbeSound(t)
    BY <1>1 DEF ProbeSound
  <2> QED BY <2>1, <2>2 DEF Sound
<1>3. UNCHANGED tables /\ txn' = [txn EXCEPT ![s] = t] /\ Free(s, t.locks)
  BY <1>1 DEF Run, Pending
<1>4. \A r \in Session \ {s} : Holding(txn[r]) =>
        Compatible(txn[r].locks, t.locks) /\ Compatible(t.locks, txn[r].locks)
  BY <1>1, <1>3, FreeCompatible
<1> HIDE DEF t
<1> QED BY <1>2, <1>3, <1>4, StepInd

\* What is left to show of a transaction that writes no guarantee.
LEMMA TableWrites ==
  ASSUME NEW locks, NEW writes, DOMAIN writes.guar = {},
         BalanceSound(Pending(locks, writes)), MemberSound(Pending(locks, writes)),
         StageSound(Pending(locks, writes)), LoanSound(Pending(locks, writes))
  PROVE  WritesSound(Pending(locks, writes))
<1> DEFINE t == Pending(locks, writes)
<1>1. t.state = "pending" /\ t.writes = writes
  BY DEF Pending
<1>2. Falls(t) = {} /\ RowsSound(t) /\ LinkSound(t)
  BY <1>1 DEF Falls, RowsSound, LinkSound
<1>3. FallSound(t)
  BY <1>2 DEF FallSound
<1> QED BY <1>2, <1>3 DEF WritesSound

\* What is left to show of a transaction that writes guarantees only.
LEMMA RowWrites ==
  ASSUME NEW locks, NEW writes, DOMAIN writes.balance = {}, DOMAIN writes.member = {},
         DOMAIN writes.stage = {}, DOMAIN writes.loan = {},
         FallSound(Pending(locks, writes)), RowsSound(Pending(locks, writes))
  PROVE  WritesSound(Pending(locks, writes))
<1> DEFINE t == Pending(locks, writes)
<1>1. t.state = "pending" /\ t.writes = writes
  BY DEF Pending
<1>2. LinkSound(t) /\ BalanceSound(t) /\ MemberSound(t) /\ StageSound(t) /\ LoanSound(t)
  BY <1>1 DEF LinkSound, BalanceSound, MemberSound, StageSound, LoanSound
<1> QED BY <1>2 DEF WritesSound

LEMMA CreateInd ==
  ASSUME IndInv, NEW s \in Session, NEW a \in Application, CreateApplication(s, a) PROVE IndInv'
<1> DEFINE locks == {Lock("members", Borrower[a], "share"), Lock("applications", a, "update")}
           w == [NoWrites EXCEPT !.stage = Set(a, "open")]
           t == Pending(locks, w)
<1>1. /\ DOMAIN w = Tables
      /\ DOMAIN w.balance = {} /\ DOMAIN w.member = {} /\ DOMAIN w.loan = {} /\ DOMAIN w.guar = {}
      /\ w.stage = Set(a, "open") /\ DOMAIN w.stage = {a} /\ w.stage[a] = "open"
  BY DEF Tables, NoWrites, Nothing, Set
<1>2. t.state = "pending" /\ t.locks = locks /\ t.writes = w
  BY DEF Pending
<1>3. \A l \in locks : l.mode \in Modes
  BY LockMode DEF Modes
<1>4. Run(s, locks, w) /\ stage[a] = "none" /\ member[Borrower[a]] = "active"
  BY DEF CreateApplication, RunIdle
<1>5. Holds(t, "applications", a, "update") /\ HoldsAny(t, "members", Borrower[a])
  BY <1>2 DEF Holds, HoldsAny, Modes
<1> HIDE DEF locks, w, t
<1>6. StageSound(t)
  BY <1>1, <1>2, <1>4, <1>5 DEF StageSound
<1>7. BalanceSound(t) /\ MemberSound(t) /\ LoanSound(t)
  BY <1>1, <1>2 DEF BalanceSound, MemberSound, LoanSound
<1>8. WritesSound(Pending(locks, w))
  BY <1>1, <1>6, <1>7, TableWrites DEF t
<1> QED BY <1>1, <1>3, <1>4, <1>8, RunInd DEF WritesTyped

LEMMA ApproveInd ==
  ASSUME IndInv, NEW s \in Session, NEW a \in Application, Approve(s, a) PROVE IndInv'
<1> DEFINE locks == {Lock("applications", a, "update")}
           w == [NoWrites EXCEPT !.stage = Set(a, "approved")]
           t == Pending(locks, w)
<1>1. /\ DOMAIN w = Tables
      /\ DOMAIN w.balance = {} /\ DOMAIN w.member = {} /\ DOMAIN w.loan = {} /\ DOMAIN w.guar = {}
      /\ w.stage = Set(a, "approved") /\ DOMAIN w.stage = {a} /\ w.stage[a] = "approved"
  BY DEF Tables, NoWrites, Nothing, Set
<1>2. t.state = "pending" /\ t.locks = locks /\ t.writes = w
  BY DEF Pending
<1>3. \A l \in locks : l.mode \in Modes
  BY LockMode DEF Modes
<1>4. Run(s, locks, w) /\ stage[a] = "open"
  BY DEF Approve, RunIdle
<1>5. Holds(t, "applications", a, "update")
  BY <1>2 DEF Holds
<1> HIDE DEF locks, w, t
<1>6. StageSound(t)
  BY <1>1, <1>2, <1>4, <1>5 DEF StageSound
<1>7. BalanceSound(t) /\ MemberSound(t) /\ LoanSound(t)
  BY <1>1, <1>2 DEF BalanceSound, MemberSound, LoanSound
<1>8. WritesSound(Pending(locks, w))
  BY <1>1, <1>6, <1>7, TableWrites DEF t
<1> QED BY <1>1, <1>3, <1>4, <1>8, RunInd DEF WritesTyped

LEMMA WriteOffInd ==
  ASSUME IndInv, NEW s \in Session, NEW a \in Application, WriteOff(s, a) PROVE IndInv'
<1> DEFINE locks == {Lock("loans", a, "update"), Lock("members", Borrower[a], "key_share")}
           w == [NoWrites EXCEPT !.loan = Set(a, "written_off")]
           t == Pending(locks, w)
<1>1. /\ DOMAIN w = Tables
      /\ DOMAIN w.balance = {} /\ DOMAIN w.member = {} /\ DOMAIN w.stage = {} /\ DOMAIN w.guar = {}
      /\ w.loan = Set(a, "written_off") /\ DOMAIN w.loan = {a} /\ w.loan[a] = "written_off"
  BY DEF Tables, NoWrites, Nothing, Set
<1>2. t.state = "pending" /\ t.locks = locks /\ t.writes = w
  BY DEF Pending
<1>3. \A l \in locks : l.mode \in Modes
  BY LockMode DEF Modes
<1>4. Run(s, locks, w) /\ debt[a] = "active"
  BY DEF WriteOff, RunIdle
<1>5. Holds(t, "loans", a, "update") /\ HoldsAny(t, "members", Borrower[a])
  BY <1>2 DEF Holds, HoldsAny, Modes
<1> HIDE DEF locks, w, t
<1>6. LoanSound(t)
  BY <1>1, <1>2, <1>4, <1>5 DEF LoanSound
<1>7. BalanceSound(t) /\ MemberSound(t) /\ StageSound(t)
  BY <1>1, <1>2 DEF BalanceSound, MemberSound, StageSound
<1>8. WritesSound(Pending(locks, w))
  BY <1>1, <1>6, <1>7, TableWrites DEF t
<1> QED BY <1>1, <1>3, <1>4, <1>8, RunInd DEF WritesTyped

LEMMA ReopenInd ==
  ASSUME IndInv, NEW s \in Session, NEW a \in Application, Reopen(s, a) PROVE IndInv'
<1> DEFINE locks == {Lock("members", Borrower[a], "share"), Lock("loans", a, "update")}
           w == [NoWrites EXCEPT !.loan = Set(a, "active")]
           t == Pending(locks, w)
<1>1. /\ DOMAIN w = Tables
      /\ DOMAIN w.balance = {} /\ DOMAIN w.member = {} /\ DOMAIN w.stage = {} /\ DOMAIN w.guar = {}
      /\ w.loan = Set(a, "active") /\ DOMAIN w.loan = {a} /\ w.loan[a] = "active"
  BY DEF Tables, NoWrites, Nothing, Set
<1>2. t.state = "pending" /\ t.locks = locks /\ t.writes = w
  BY DEF Pending
<1>3. \A l \in locks : l.mode \in Modes
  BY LockMode DEF Modes
<1>4. Run(s, locks, w) /\ debt[a] = "closed" /\ member[Borrower[a]] = "active"
  BY CollateralAssumption DEF Reopen, MayReopen, RunIdle, IndInv, TablesTyped
<1>5. Holds(t, "loans", a, "update") /\ HoldsAny(t, "members", Borrower[a])
  BY <1>2 DEF Holds, HoldsAny, Modes
<1> HIDE DEF locks, w, t
<1>6. LoanSound(t)
  BY <1>1, <1>2, <1>4, <1>5 DEF LoanSound
<1>7. BalanceSound(t) /\ MemberSound(t) /\ StageSound(t)
  BY <1>1, <1>2 DEF BalanceSound, MemberSound, StageSound
<1>8. WritesSound(Pending(locks, w))
  BY <1>1, <1>6, <1>7, TableWrites DEF t
<1> QED BY <1>1, <1>3, <1>4, <1>8, RunInd DEF WritesTyped

\* A deposit, or a withdrawal of what is not pledged.
LEMMA BalanceInd ==
  ASSUME IndInv, NEW s \in Session, NEW x \in Member, NEW locks, NEW left \in Nat,
         Cardinality(GivenBy(x)) <= left, member[x] = "active",
         \A l \in locks : l.mode \in Modes,
         Lock("deposit", x, "update") \in locks,
         \E mode \in Modes : Lock("members", x, mode) \in locks,
         Run(s, locks, [NoWrites EXCEPT !.balance = Set(x, left)])
  PROVE  IndInv'
<1> DEFINE w == [NoWrites EXCEPT !.balance = Set(x, left)]
           t == Pending(locks, w)
<1>1. /\ DOMAIN w = Tables
      /\ DOMAIN w.loan = {} /\ DOMAIN w.member = {} /\ DOMAIN w.stage = {} /\ DOMAIN w.guar = {}
      /\ DOMAIN w.balance = {x} /\ w.balance[x] = left
  BY DEF Tables, NoWrites, Nothing, Set
<1>2. t.state = "pending" /\ t.locks = locks /\ t.writes = w
  BY DEF Pending
<1>3. Holds(t, "deposit", x, "update") /\ HoldsAny(t, "members", x)
  BY <1>2 DEF Holds, HoldsAny
<1>4. Run(s, locks, w)
  OBVIOUS
<1> HIDE DEF w, t
<1>5. BalanceSound(t)
  BY <1>1, <1>2, <1>3 DEF BalanceSound
<1>6. LoanSound(t) /\ MemberSound(t) /\ StageSound(t)
  BY <1>1, <1>2 DEF LoanSound, MemberSound, StageSound
<1>7. WritesSound(Pending(locks, w))
  BY <1>1, <1>5, <1>6, TableWrites DEF t
<1> QED BY <1>1, <1>4, <1>7, RunInd DEF WritesTyped

LEMMA DepositInd ==
  ASSUME IndInv, NEW s \in Session, NEW x \in Member, Deposit(s, x) PROVE IndInv'
<1> DEFINE locks == {Lock("members", x, "update"), Lock("deposit", x, "update")}
<1>1. Cardinality(GivenBy(x)) <= balance[x] /\ balance[x] \in Nat
  BY DEF IndInv, TablesTyped, Promises, GuaranteesAreCovered
<1>2. Cardinality(GivenBy(x)) \in Nat
  BY GuaranteeSets DEF GivenBy
<1>3. /\ \A l \in locks : l.mode \in Modes
      /\ \E mode \in Modes : Lock("members", x, mode) \in locks
      /\ Lock("deposit", x, "update") \in locks
  BY LockMode DEF Modes
<1>4. Run(s, locks, [NoWrites EXCEPT !.balance = Set(x, balance[x] + 1)]) /\ member[x] = "active"
  BY DEF Deposit, RunIdle
<1> HIDE DEF locks
<1>5. balance[x] + 1 \in Nat /\ Cardinality(GivenBy(x)) <= balance[x] + 1
  BY <1>1, <1>2
<1> QED BY <1>3, <1>4, <1>5, BalanceInd

LEMMA WithdrawInd ==
  ASSUME IndInv, NEW s \in Session, NEW x \in Member, Withdraw(s, x) PROVE IndInv'
<1>1. balance[x] \in Nat
  BY DEF IndInv, TablesTyped
<1>2. Cardinality(GivenBy(x)) \in Nat
  BY GuaranteeSets DEF GivenBy
<1>3. GivenBy(x) \ {} = GivenBy(x)
  OBVIOUS
<1>4. balance[x] - 1 \in Nat /\ Cardinality(GivenBy(x)) <= balance[x] - 1
  BY <1>1, <1>2, <1>3 DEF Withdraw, Withdrawable, Capacity
<1>5. /\ \A l \in CapacityLocks(x) : l.mode \in Modes
      /\ \E mode \in Modes : Lock("members", x, mode) \in CapacityLocks(x)
      /\ Lock("deposit", x, "update") \in CapacityLocks(x)
  BY LockMode DEF Modes, CapacityLocks
<1>6. Run(s, CapacityLocks(x), [NoWrites EXCEPT !.balance = Set(x, balance[x] - 1)])
      /\ member[x] = "active"
  BY DEF Withdraw, RunIdle
<1> QED BY <1>4, <1>5, <1>6, BalanceInd

\* The next version of a row, with another status or linked.
LEMMA NextRow ==
  ASSUME NEW g, guar[g] \in RowType,
         NEW status \in {"none", "pledged", "active", "released"}, NEW linked \in BOOLEAN
  PROVE  LET b == Bumped(g)
             r == [b EXCEPT !.status = status]
             k == [b EXCEPT !.linked = linked]
         IN  /\ r \in RowType /\ r.status = status /\ r.linked = guar[g].linked
             /\ r.app = guar[g].app /\ r.by = guar[g].by /\ r.version = guar[g].version + 1
             /\ k \in RowType /\ k.status = guar[g].status /\ k.linked = linked
             /\ k.app = guar[g].app /\ k.by = guar[g].by /\ k.version = guar[g].version + 1
<1> DEFINE b == Bumped(g)
<1>1. /\ b \in RowType /\ b.status = guar[g].status /\ b.linked = guar[g].linked
      /\ b.app = guar[g].app /\ b.by = guar[g].by /\ b.version = guar[g].version + 1
  BY DEF Bumped, RowType
<1> DEFINE r == [b EXCEPT !.status = status]
           k == [b EXCEPT !.linked = linked]
<1> HIDE DEF b
<1>2. /\ r \in RowType /\ r.status = status /\ r.linked = b.linked
      /\ r.app = b.app /\ r.by = b.by /\ r.version = b.version
  BY <1>1 DEF RowType
<1>3. /\ k \in RowType /\ k.status = b.status /\ k.linked = linked
      /\ k.app = b.app /\ k.by = b.by /\ k.version = b.version
  BY <1>1 DEF RowType
<1> HIDE DEF r, k
<1>4. /\ r \in RowType /\ r.status = status /\ r.linked = guar[g].linked
      /\ r.app = guar[g].app /\ r.by = guar[g].by /\ r.version = guar[g].version + 1
      /\ k \in RowType /\ k.status = guar[g].status /\ k.linked = linked
      /\ k.app = guar[g].app /\ k.by = guar[g].by /\ k.version = guar[g].version + 1
  BY <1>1, <1>2, <1>3
<1> QED BY <1>4 DEF r, k, b

LEMMA ReleasedRow ==
  ASSUME NEW g, guar[g] \in RowType
  PROVE  /\ Released(g) \in RowType /\ Released(g).status = "released"
         /\ Released(g).app = guar[g].app /\ Released(g).by = guar[g].by
         /\ Released(g).linked = guar[g].linked /\ Released(g).version = guar[g].version + 1
BY NextRow, TRUE \in BOOLEAN DEF Released

LEMMA LinkedRow ==
  ASSUME NEW g, guar[g] \in RowType
  PROVE  /\ Linked(g) \in RowType /\ Linked(g).status = guar[g].status
         /\ Linked(g).app = guar[g].app /\ Linked(g).by = guar[g].by
         /\ Linked(g).linked /\ Linked(g).version = guar[g].version + 1
BY NextRow, TRUE \in BOOLEAN DEF Linked

LEMMA ConsentInd ==
  ASSUME IndInv, NEW s \in Session, NEW g \in Guarantee, Consent(s, g) PROVE IndInv'
<1> DEFINE locks == {Lock("guarantees", g, "update")}
           row == [Bumped(g) EXCEPT !.status = "active"]
           w == [NoWrites EXCEPT !.guar = Set(g, row)]
           t == Pending(locks, w)
<1>1. /\ DOMAIN w = Tables
      /\ DOMAIN w.balance = {} /\ DOMAIN w.member = {} /\ DOMAIN w.stage = {} /\ DOMAIN w.loan = {}
      /\ DOMAIN w.guar = {g} /\ w.guar[g] = row
  BY DEF Tables, NoWrites, Nothing, Set
<1>2. t.state = "pending" /\ t.locks = locks /\ t.writes = w
  BY DEF Pending
<1>3. \A l \in locks : l.mode \in Modes
  BY LockMode DEF Modes
<1>4. Run(s, locks, w) /\ guar[g].status = "pledged"
  BY DEF Consent, RunIdle
<1>5. HoldsRow(t, g)
  BY <1>2 DEF HoldsRow, Holds
<1>6. /\ row \in RowType
      /\ row.app = guar[g].app /\ row.by = guar[g].by /\ row.linked = guar[g].linked
      /\ row.version = guar[g].version + 1 /\ row.status = "active"
  BY NextRow, TRUE \in BOOLEAN DEF IndInv, TablesTyped, RowTyped
<1> HIDE DEF locks, w, t, row
<1>7. FallSound(t)
  BY <1>1, <1>2, <1>6 DEF FallSound, Falls
<1>8. RowsSound(t)
  BY <1>1, <1>2, <1>4, <1>5, <1>6 DEF RowsSound, Keeps, FreshRow, Live
<1>9. WritesSound(Pending(locks, w))
  BY <1>1, <1>7, <1>8, RowWrites DEF t
<1> QED BY <1>1, <1>3, <1>4, <1>9, RunInd DEF WritesTyped

LEMMA PledgeInd ==
  ASSUME IndInv, NEW s \in Session, NEW a \in Application, NEW g \in Guarantee, NEW n \in Member,
         PledgeGuarantee(s, a, g, n)
  PROVE  IndInv'
<1> DEFINE row == [status |-> "pledged", app |-> a, by |-> n, linked |-> FALSE, version |-> 1]
           locks == PledgeLocks(a, g, n)
           w == [NoWrites EXCEPT !.guar = Set(g, row)]
           t == Pending(locks, w)
<1>1. /\ DOMAIN w = Tables
      /\ DOMAIN w.balance = {} /\ DOMAIN w.member = {} /\ DOMAIN w.stage = {} /\ DOMAIN w.loan = {}
      /\ DOMAIN w.guar = {g} /\ w.guar[g] = row
  BY DEF Tables, NoWrites, Nothing, Set
<1>2. t.state = "pending" /\ t.locks = locks /\ t.writes = w
  BY DEF Pending
<1>3. \A l \in locks : l.mode \in Modes
  BY LockMode DEF Modes, PledgeLocks, CapacityLocks, InsertLocks
<1>4. /\ Run(s, locks, w) /\ FreshRow(g) /\ stage[a] = "open"
      /\ member[n] = "active" /\ Capacity(n, {}) >= 1
  BY DEF PledgeGuarantee, RunIdle, CanGuarantee
<1>5. /\ HoldsRow(t, g) /\ Holds(t, "applications", a, "update")
      /\ Holds(t, "members", n, "share") /\ Holds(t, "deposit", n, "update")
      /\ Holds(t, "members", Borrower[a], "key_share")
  BY <1>2 DEF HoldsRow, Holds, PledgeLocks, CapacityLocks, InsertLocks
<1>6. /\ row \in RowType /\ row.app = a /\ row.by = n /\ row.version = 1
      /\ row.status = "pledged" /\ ~row.linked
  BY DEF RowType
<1>7. Cardinality(GivenBy(n)) < balance[n]
  <2>1. GivenBy(n) \ {} = GivenBy(n) /\ Cardinality(GivenBy(n)) \in Nat /\ balance[n] \in Nat
    BY GuaranteeSets DEF GivenBy, IndInv, TablesTyped
  <2> QED BY <1>4, <2>1 DEF Capacity
<1> HIDE DEF locks, w, t, row
<1>8. FallSound(t)
  BY <1>1, <1>2, <1>6 DEF FallSound, Falls
<1>9. Inserts(t, g)
  BY <1>1, <1>2, <1>4, <1>5, <1>6, <1>7 DEF Inserts
<1>10. RowsSound(t)
  BY <1>1, <1>2, <1>4, <1>5, <1>6, <1>9 DEF RowsSound
<1>11. WritesSound(Pending(locks, w))
  BY <1>1, <1>8, <1>10, RowWrites DEF t
<1> QED BY <1>1, <1>3, <1>4, <1>11, RunInd DEF WritesTyped

\* What a probed transaction knows once the row still has its version.
LEMMA ProbedRow ==
  ASSUME IndInv, NEW s \in Session, txn[s].state = "probed", Live(txn[s].g), Current(txn[s])
  PROVE  /\ txn[s].g \in Guarantee /\ guar[txn[s].g].app \in Application
         /\ guar[txn[s].g].by \in Member /\ guar[txn[s].g] \in RowType
         /\ ~FreshRow(txn[s].g) /\ txn[s].g \in LiveFor(guar[txn[s].g].app)
         /\ txn[s].linked = guar[txn[s].g].linked
<1>1. ProbeSound(txn[s])
  BY DEF IndInv, Sound
<1>2. txn[s].g \in Guarantee /\ txn[s].linked = guar[txn[s].g].linked /\ ~FreshRow(txn[s].g)
  BY <1>1 DEF ProbeSound, Current
<1> QED BY <1>2 DEF IndInv, TablesTyped, RowTyped, RowType, FreshRow, LiveFor

LEMMA ReleaseInd ==
  ASSUME IndInv, NEW s \in Session, Release(s) PROVE IndInv'
<1> DEFINE p == txn[s]
           g == p.g
           a == guar[g].app
           guarded == guar[g].status = "active" /\ InFlight(a)
           locks == AnchorLocks(p) \cup
                   (IF guarded THEN {Lock("deposit", Borrower[a], "update")} ELSE {})
           w == [NoWrites EXCEPT !.guar = Set(g, Released(g))]
           t == Pending(locks, w)
<1>1. /\ DOMAIN w = Tables
      /\ DOMAIN w.balance = {} /\ DOMAIN w.member = {} /\ DOMAIN w.stage = {} /\ DOMAIN w.loan = {}
      /\ DOMAIN w.guar = {g} /\ w.guar[g] = Released(g)
  BY DEF Tables, NoWrites, Nothing, Set
<1>2. t.state = "pending" /\ t.locks = locks /\ t.writes = w
  BY DEF Pending
<1>3. \A l \in locks : l.mode \in Modes
  BY LockMode DEF Modes, AnchorLocks
<1>4. /\ Run(s, locks, w) /\ Live(g) /\ Current(p) /\ p.state = "probed"
      /\ guar[g].status = "active" => ~Disbursed(g)
  BY DEF Release
<1>5. HoldsRow(t, g) /\ Holds(t, "applications", a, "update")
  BY <1>2 DEF HoldsRow, Holds, AnchorLocks
<1>6. g \in Guarantee /\ a \in Application /\ guar[g] \in RowType /\ ~FreshRow(g) /\ g \in LiveFor(a)
  BY <1>4, ProbedRow
<1>7. stage[a] # "disbursed"
  <2> SUFFICES ASSUME stage[a] = "disbursed" PROVE FALSE
    OBVIOUS
  <2>1. guar[g].status = "active"
    BY <1>6 DEF IndInv, Promises, LoanGuaranteesConsented
  <2> QED BY <1>4, <2>1 DEF Disbursed
<1> HIDE DEF locks, w, t, g, p
<1>8. FallSound(t)
  BY <1>1, <1>2, <1>5, <1>6, <1>7 DEF FallSound, Falls
<1>9. Keeps(t, g)
  BY <1>1, <1>2, <1>4, <1>6, ReleasedRow DEF Keeps
<1>10. RowsSound(t)
  BY <1>1, <1>2, <1>5, <1>6, <1>9, ReleasedRow DEF RowsSound
<1>11. WritesSound(Pending(locks, w))
  BY <1>1, <1>8, <1>10, RowWrites DEF t
<1> QED BY <1>1, <1>3, <1>4, <1>6, <1>11, RunInd DEF WritesTyped

LEMMA SubstituteInd ==
  ASSUME IndInv, NEW s \in Session, NEW h \in Guarantee, NEW n \in Member, Substitute(s, h, n)
  PROVE  IndInv'
<1> DEFINE p == txn[s]
           g == p.g
           a == guar[g].app
           locks == AnchorLocks(p) \cup CapacityLocks(n) \cup InsertLocks(h, a)
           row == [guar[g] EXCEPT !.by = n, !.version = 1]
           w == [NoWrites EXCEPT !.guar = [x \in {g, h} |-> IF x = g THEN Released(g) ELSE row]]
           t == Pending(locks, w)
<1>1. /\ Run(s, locks, w) /\ Live(g) /\ Current(p) /\ p.state = "probed"
      /\ FreshRow(h) /\ guar[g].status = "active" /\ Disbursed(g)
      /\ member[n] = "active" /\ Capacity(n, {g}) >= 1
  BY DEF Substitute, CanGuarantee, Live
<1>2. /\ g \in Guarantee /\ a \in Application /\ guar[g] \in RowType /\ ~FreshRow(g)
      /\ g \in LiveFor(a) /\ p.linked = guar[g].linked
  BY <1>1, ProbedRow
<1>3. g # h
  BY <1>1, <1>2
<1>4. guar[g].linked /\ p.linked /\ g \in LinkedTo(a)
  BY <1>1, <1>2 DEF Disbursed, IndInv, Promises, LoanGuaranteesConsented, LinkedTo
<1>5. /\ DOMAIN w = Tables
      /\ DOMAIN w.balance = {} /\ DOMAIN w.member = {} /\ DOMAIN w.stage = {} /\ DOMAIN w.loan = {}
      /\ DOMAIN w.guar = {g, h} /\ w.guar[g] = Released(g) /\ w.guar[h] = row
  BY <1>3 DEF Tables, NoWrites, Nothing
<1>6. t.state = "pending" /\ t.locks = locks /\ t.writes = w
  BY DEF Pending
<1>7. \A l \in locks : l.mode \in Modes
  BY LockMode DEF Modes, AnchorLocks, CapacityLocks, InsertLocks
<1>8. /\ HoldsRow(t, g) /\ HoldsRow(t, h)
      /\ Holds(t, "applications", a, "update") /\ Holds(t, "loans", a, "update")
      /\ Holds(t, "members", n, "share") /\ Holds(t, "deposit", n, "update")
      /\ Holds(t, "members", Borrower[a], "key_share")
  BY <1>4, <1>6 DEF HoldsRow, Holds, AnchorLocks, CapacityLocks, InsertLocks
<1>9. /\ row \in RowType /\ row.app = a /\ row.by = n /\ row.version = 1
      /\ row.status = "active" /\ row.linked
  BY <1>1, <1>2, <1>4 DEF RowType
<1>10. Cardinality(GivenBy(n) \ {g}) < balance[n]
  <2>1. Cardinality(GivenBy(n) \ {g}) \in Nat /\ balance[n] \in Nat
    BY GuaranteeSets DEF GivenBy, IndInv, TablesTyped
  <2> QED BY <1>1, <2>1 DEF Capacity
<1> HIDE DEF locks, w, t, g, p, row
<1>11. Released(g).status = "released"
  BY <1>2, ReleasedRow
<1>12. FallSound(t)
  <2>1. Falls(t) = {g}
    BY <1>5, <1>6, <1>9, <1>11 DEF Falls
  <2> QED BY <2>1, <1>1, <1>2, <1>5, <1>6, <1>8, <1>9 DEF FallSound
<1>13. Inserts(t, h)
  BY <1>1, <1>2, <1>3, <1>4, <1>5, <1>6, <1>8, <1>9, <1>10, <1>11 DEF Inserts
<1>14. Keeps(t, g)
  BY <1>1, <1>2, <1>5, <1>6, ReleasedRow DEF Keeps
<1>15. RowsSound(t)
  BY <1>1, <1>2, <1>5, <1>6, <1>8, <1>9, <1>13, <1>14, ReleasedRow DEF RowsSound
<1>16. WritesSound(Pending(locks, w))
  BY <1>5, <1>12, <1>15, RowWrites DEF t
<1> QED BY <1>1, <1>2, <1>5, <1>7, <1>16, RunInd DEF WritesTyped

-----------------------------------------------------------------------------
(* Handlers that have still to wait for the guarantees they found.         *)

Updating(locks, writes, rows, change) ==
  [state |-> "updating", locks |-> locks, writes |-> writes, rows |-> rows, change |-> change]

LEMMA RunUpdateInd ==
  ASSUME IndInv, NEW s \in Session, NEW locks, NEW writes, NEW rows, NEW change,
         RunUpdate(s, locks, writes, rows, change),
         \A l \in locks : l.mode \in Modes, WritesTyped(writes), DOMAIN writes.guar = {},
         rows \subseteq Guarantee, \A g \in rows : Live(g), change \in {"release", "link"},
         LET t == Updating(locks, writes, rows, change) IN
           /\ BalanceSound(t) /\ MemberSound(t) /\ StageSound(t) /\ LoanSound(t)
           /\ FallSound(t) /\ LinkSound(t)
  PROVE  IndInv'
<1> DEFINE t == Updating(locks, writes, rows, change)
<1>1. /\ t.state = "updating" /\ t.locks = locks /\ t.writes = writes /\ t # Resting
      /\ t.rows = rows /\ t.change = change
  BY DEF Updating, Resting
<1>2. Sound(t)
  <2>1. \A g \in rows : ~FreshRow(g)
    BY DEF Live, FreshRow
  <2>2. TxnTyped(t)
    BY <1>1, <2>1 DEF TxnTyped, WritesTyped, Holding
  <2>3. ProbeSound(t) /\ RowsSound(t)
    BY <1>1 DEF ProbeSound, RowsSound
  <2> QED BY <2>2, <2>3 DEF Sound, WritesSound
<1>3. UNCHANGED tables /\ txn' = [txn EXCEPT ![s] = t] /\ Free(s, t.locks)
  BY <1>1 DEF RunUpdate, Updating
<1>4. \A r \in Session \ {s} : Holding(txn[r]) =>
        Compatible(txn[r].locks, t.locks) /\ Compatible(t.locks, txn[r].locks)
  BY <1>1, <1>3, FreeCompatible
<1> HIDE DEF t
<1> QED BY <1>2, <1>3, <1>4, StepInd

LEMMA LiveRows ==
  /\ \A a : LiveFor(a) \subseteq Guarantee /\ \A g \in LiveFor(a) : Live(g) /\ ~FreshRow(g) /\ guar[g].app = a
  /\ \A a : LinkedTo(a) \subseteq LiveFor(a)
BY DEF LiveFor, LinkedTo, Live, FreshRow

LEMMA RejectInd ==
  ASSUME IndInv, NEW s \in Session, NEW a \in Application, Reject(s, a) PROVE IndInv'
<1> DEFINE locks == {Lock("applications", a, "update")}
           w == [NoWrites EXCEPT !.stage = Set(a, "rejected")]
           rows == LiveFor(a)
           t == Updating(locks, w, rows, "release")
<1>1. /\ DOMAIN w = Tables
      /\ DOMAIN w.balance = {} /\ DOMAIN w.member = {} /\ DOMAIN w.loan = {} /\ DOMAIN w.guar = {}
      /\ DOMAIN w.stage = {a} /\ w.stage[a] = "rejected"
  BY DEF Tables, NoWrites, Nothing, Set
<1>2. /\ t.state = "updating" /\ t.locks = locks /\ t.writes = w
      /\ t.rows = rows /\ t.change = "release"
  BY DEF Updating
<1>3. \A l \in locks : l.mode \in Modes
  BY LockMode DEF Modes
<1>4. RunUpdate(s, locks, w, rows, "release") /\ stage[a] = "open"
  BY DEF Reject
<1>5. Holds(t, "applications", a, "update") /\ Falls(t) = LiveFor(a) /\ Links(t) = {}
  BY <1>2 DEF Holds, Falls, Links
<1>6. LiveFor(a) \subseteq Guarantee /\ \A g \in rows : Live(g) /\ ~FreshRow(g) /\ guar[g].app = a
  BY LiveRows
<1> HIDE DEF locks, w, t
<1>7. StageSound(t)
  BY <1>1, <1>2, <1>4, <1>5 DEF StageSound
<1>8. BalanceSound(t) /\ MemberSound(t) /\ LoanSound(t) /\ LinkSound(t)
  BY <1>1, <1>2, <1>5 DEF BalanceSound, MemberSound, LoanSound, LinkSound
<1>9. FallSound(t)
  BY <1>4, <1>5, <1>6 DEF FallSound
<1>10. WritesTyped(w)
  BY <1>1 DEF WritesTyped
<1> QED BY <1>1, <1>3, <1>4, <1>6, <1>7, <1>8, <1>9, <1>10, RunUpdateInd DEF t

LEMMA DisburseInd ==
  ASSUME IndInv, NEW s \in Session, NEW a \in Application, Disburse(s, a) PROVE IndInv'
<1> DEFINE locks == DisburseLocks(a)
           w == [NoWrites EXCEPT !.stage = Set(a, "disbursed"), !.loan = Set(a, "active")]
           rows == LiveFor(a)
           t == Updating(locks, w, rows, "link")
<1>1. /\ DOMAIN w = Tables
      /\ DOMAIN w.balance = {} /\ DOMAIN w.member = {} /\ DOMAIN w.guar = {}
      /\ DOMAIN w.stage = {a} /\ w.stage[a] = "disbursed"
      /\ DOMAIN w.loan = {a} /\ w.loan[a] = "active"
  BY DEF Tables, NoWrites, Nothing, Set
<1>2. /\ t.state = "updating" /\ t.locks = locks /\ t.writes = w
      /\ t.rows = rows /\ t.change = "link"
  BY DEF Updating
<1>3. \A l \in locks : l.mode \in Modes
  BY LockMode DEF Modes, DisburseLocks, DisburseLocksNoDeposit
<1>4. /\ RunUpdate(s, locks, w, rows, "link") /\ stage[a] = "approved"
      /\ Requested[a] <= Eligible(a, {})
      /\ \A g \in LiveFor(a) : guar[g].status = "active"
  BY DEF Disburse
<1>5. /\ Holds(t, "applications", a, "update") /\ HoldsAny(t, "members", Borrower[a])
      /\ Holds(t, "members", Borrower[a], "key_share") /\ Holds(t, "deposit", Borrower[a], "update")
      /\ Falls(t) = {} /\ Links(t) = LiveFor(a)
  BY <1>2 DEF Holds, HoldsAny, Modes, Falls, Links, DisburseLocks, DisburseLocksNoDeposit
<1>6. LiveFor(a) \subseteq Guarantee /\ \A g \in rows : Live(g) /\ ~FreshRow(g) /\ guar[g].app = a
  BY LiveRows
<1> HIDE DEF locks, w, t
<1>7. Disburses(t, a)
  BY <1>1, <1>2, <1>4, <1>5 DEF Disburses
<1>8. StageSound(t) /\ LoanSound(t)
  BY <1>1, <1>2, <1>5, <1>7 DEF StageSound, LoanSound
<1>9. BalanceSound(t) /\ MemberSound(t)
  BY <1>1, <1>2 DEF BalanceSound, MemberSound
<1>10. FallSound(t) /\ LinkSound(t)
  BY <1>1, <1>2, <1>5, <1>6 DEF FallSound, LinkSound
<1>11. WritesTyped(w)
  BY <1>1 DEF WritesTyped
<1> QED BY <1>1, <1>3, <1>4, <1>6, <1>8, <1>9, <1>10, <1>11, RunUpdateInd DEF t

\* Behind a loan every live guarantee is linked.
LEMMA LoanRows ==
  ASSUME IndInv, NEW a \in Application, debt[a] # "none"
  PROVE  LinkedTo(a) = LiveFor(a) /\ stage[a] = "disbursed"
<1>1. stage[a] = "disbursed"
  BY DEF IndInv, TablesAgree
<1> QED BY <1>1 DEF IndInv, Promises, LoanGuaranteesConsented, LinkedTo

LEMMA LoanEndsInd ==
  ASSUME IndInv, NEW s \in Session, NEW a \in Application, NEW locks, NEW status,
         LoanEnds(s, locks, a, status), txn[s] = Resting,
         \A l \in locks : l.mode \in Modes, Lock("loans", a, "update") \in locks,
         \E mode \in Modes : Lock("members", Borrower[a], mode) \in locks,
         \/ debt[a] = "active" /\ status = "closed"
         \/ debt[a] = "written_off" /\ status = "recovered"
  PROVE  IndInv'
<1> DEFINE w == [NoWrites EXCEPT !.loan = Set(a, status)]
           rows == LinkedTo(a)
           t == Updating(locks, w, rows, "release")
<1>1. /\ DOMAIN w = Tables
      /\ DOMAIN w.balance = {} /\ DOMAIN w.member = {} /\ DOMAIN w.stage = {} /\ DOMAIN w.guar = {}
      /\ DOMAIN w.loan = {a} /\ w.loan[a] = status
  BY DEF Tables, NoWrites, Nothing, Set
<1>2. /\ t.state = "updating" /\ t.locks = locks /\ t.writes = w
      /\ t.rows = rows /\ t.change = "release"
  BY DEF Updating
<1>3. RunUpdate(s, locks, w, rows, "release")
  BY DEF LoanEnds
<1>4. Holds(t, "loans", a, "update") /\ HoldsAny(t, "members", Borrower[a])
      /\ Falls(t) = LiveFor(a) /\ Links(t) = {}
  BY <1>2, LoanRows DEF Holds, HoldsAny, Falls, Links
<1>5. rows \subseteq Guarantee /\ (\A g \in rows : Live(g)) /\ \A g \in LiveFor(a) : ~FreshRow(g) /\ guar[g].app = a
  BY LiveRows
<1> HIDE DEF w, t, rows
<1>6. LoanSound(t)
  BY <1>1, <1>2, <1>4 DEF LoanSound
<1>7. BalanceSound(t) /\ MemberSound(t) /\ StageSound(t) /\ LinkSound(t)
  BY <1>1, <1>2, <1>4 DEF BalanceSound, MemberSound, StageSound, LinkSound
<1>8. FallSound(t)
  BY <1>1, <1>2, <1>4, <1>5 DEF FallSound
<1>9. WritesTyped(w)
  BY <1>1 DEF WritesTyped
<1> QED BY <1>1, <1>3, <1>5, <1>6, <1>7, <1>8, <1>9, RunUpdateInd DEF t

LEMMA RepayInd ==
  ASSUME IndInv, NEW s \in Session, NEW a \in Application, Repay(s, a) PROVE IndInv'
<1> DEFINE locks == {Lock("loans", a, "update"), Lock("members", Borrower[a], "key_share")}
<1>1. /\ \A l \in locks : l.mode \in Modes
      /\ Lock("loans", a, "update") \in locks
      /\ \E mode \in Modes : Lock("members", Borrower[a], mode) \in locks
  BY LockMode DEF Modes
<1>2. LoanEnds(s, locks, a, "closed") /\ debt[a] = "active" /\ txn[s] = Resting
  BY DEF Repay, LoanEnds, RunUpdate
<1> HIDE DEF locks
<1> QED BY <1>1, <1>2, LoanEndsInd

LEMMA RecoverInd ==
  ASSUME IndInv, NEW s \in Session, NEW a \in Application, Recover(s, a) PROVE IndInv'
<1> DEFINE locks == {Lock("members", Borrower[a], "share"), Lock("loans", a, "update")}
<1>1. /\ \A l \in locks : l.mode \in Modes
      /\ Lock("loans", a, "update") \in locks
      /\ \E mode \in Modes : Lock("members", Borrower[a], mode) \in locks
  BY LockMode DEF Modes
<1>2. LoanEnds(s, locks, a, "recovered") /\ debt[a] = "written_off" /\ txn[s] = Resting
  BY DEF Recover, LoanEnds, RunUpdate
<1> HIDE DEF locks
<1> QED BY <1>1, <1>2, LoanEndsInd

LEMMA SettleInd ==
  ASSUME IndInv, NEW s \in Session, NEW x \in Member, SettleExit(s, x) PROVE IndInv'
<1> DEFINE locks == ExitLocks(x) \cup {Lock("loans", a, "update") : a \in Owing(x)}
           w == [NoWrites EXCEPT !.member = Set(x, "exited"), !.balance = Set(x, 0),
                                 !.loan = SetAll(Owing(x), "closed")]
           rows == Received(x)
           t == Updating(locks, w, rows, "release")
<1>1. /\ DOMAIN w = Tables
      /\ DOMAIN w.stage = {} /\ DOMAIN w.guar = {}
      /\ DOMAIN w.member = {x} /\ w.member[x] = "exited"
      /\ DOMAIN w.balance = {x} /\ w.balance[x] = 0
      /\ DOMAIN w.loan = Owing(x) /\ \A a \in Owing(x) : w.loan[a] = "closed"
  BY DEF Tables, NoWrites, Nothing, Set, SetAll
<1>2. /\ t.state = "updating" /\ t.locks = locks /\ t.writes = w
      /\ t.rows = rows /\ t.change = "release"
  BY DEF Updating
<1>3. \A l \in locks : l.mode \in Modes
  BY LockMode DEF Modes, ExitLocks
<1>4. /\ RunUpdate(s, locks, w, rows, "release") /\ member[x] = "active" /\ GivenBy(x) = {}
      /\ \A a \in Of(x) : ~InFlight(a) /\ debt[a] # "written_off"
  BY DEF SettleExit
<1>5. /\ Holds(t, "members", x, "update") /\ Holds(t, "deposit", x, "update")
      /\ HoldsAny(t, "members", x)
      /\ \A a \in Owing(x) : Holds(t, "loans", a, "update")
      /\ Falls(t) = rows /\ Links(t) = {}
  BY <1>2 DEF Holds, HoldsAny, Modes, ExitLocks, Falls, Links
<1>6. /\ rows \subseteq Guarantee
      /\ \A g \in rows : Live(g) /\ ~FreshRow(g) /\ guar[g].app \in Of(x) /\ g \in LiveFor(guar[g].app)
      /\ \A a \in Of(x) : LiveFor(a) \subseteq rows
  BY LiveRows DEF Received
<1>7. \A a \in Of(x) : debt[a] = "active" \/ LiveFor(a) = {}
  <2> SUFFICES ASSUME NEW a \in Of(x), debt[a] # "active" PROVE LiveFor(a) = {}
    OBVIOUS
  <2>1. a \in Application /\ debt[a] \in {"none", "closed", "recovered"}
        /\ stage[a] \in {"none", "rejected", "disbursed"}
    BY <1>4 DEF IndInv, TablesTyped, Of, InFlight
  <2>2. CASE debt[a] = "none"
    BY <2>1, <2>2 DEF IndInv, TablesAgree, Promises, EndedDischargesAll
  <2>3. CASE debt[a] # "none"
    BY <2>1, <2>3 DEF IndInv, Promises, EndedDischargesAll
  <2> QED BY <2>2, <2>3
<1>8. Owing(x) \subseteq Application /\ \A a \in Owing(x) : a \in Of(x) /\ Borrower[a] = x /\ debt[a] = "active"
  BY DEF Owing, Of
<1>9. \A a \in Of(x) : debt[a] = "active" => a \in Owing(x)
  BY DEF Owing
<1>10. Cardinality(GivenBy(x)) <= 0
  BY <1>4, FS_EmptySet
<1> HIDE DEF locks, w, t, rows
<1>11. BalanceSound(t)
  <2>1. DOMAIN t.writes.balance = {x} /\ t.writes.balance[x] = 0
    BY <1>1, <1>2
  <2> QED BY <1>4, <1>5, <1>10, <2>1 DEF BalanceSound
<1>12. MemberSound(t)
  BY <1>1, <1>2, <1>4, <1>5, <1>6, <1>9 DEF MemberSound
<1>13. StageSound(t) /\ LinkSound(t)
  BY <1>1, <1>2, <1>5 DEF StageSound, LinkSound
<1>14. LoanSound(t)
  BY <1>1, <1>2, <1>5, <1>6, <1>8 DEF LoanSound
<1>15. FallSound(t)
  BY <1>1, <1>2, <1>5, <1>6, <1>7, <1>9 DEF FallSound
<1>16. WritesTyped(w)
  BY <1>1, <1>8 DEF WritesTyped
<1> QED BY <1>1, <1>3, <1>4, <1>6, <1>11, <1>12, <1>13, <1>14, <1>15, <1>16, RunUpdateInd DEF t

-----------------------------------------------------------------------------
(* The rows of an UPDATE, an unlocked read, and the end of a failed one.   *)

\* Rows that ceased to be live since they were found drop out: those that
\* are left are still all that the transaction had to release or to link.
LEMMA UpdateRowsInd ==
  ASSUME IndInv, NEW s \in Session, UpdateRows(s) PROVE IndInv'
<1> DEFINE t == txn[s]
           new == [g \in {h \in t.rows : Live(h)} |->
                     IF t.change = "link" THEN Linked(g) ELSE Released(g)]
           w == [t.writes EXCEPT !.guar = new]
           locks == t.locks \cup RowLocks(t.rows)
           u == Pending(locks, w)
           left == {h \in t.rows : Live(h)}
<1>1. /\ t.state = "updating" /\ Holding(t)
      /\ TxnTyped(t) /\ BalanceSound(t) /\ MemberSound(t) /\ StageSound(t) /\ LoanSound(t)
      /\ FallSound(t) /\ LinkSound(t)
  BY DEF UpdateRows, IndInv, Sound, WritesSound, Holding
<1>2. /\ t.rows \subseteq Guarantee /\ t.change \in {"release", "link"}
      /\ DOMAIN t.writes = Tables
      /\ DOMAIN t.writes.balance \subseteq Member /\ DOMAIN t.writes.member \subseteq Member
      /\ DOMAIN t.writes.stage \subseteq Application /\ DOMAIN t.writes.loan \subseteq Application
      /\ \A l \in t.locks : l.mode \in Modes
      /\ \A g \in t.rows : ~FreshRow(g)
  BY <1>1 DEF TxnTyped, WritesTyped
<1>3. /\ UNCHANGED tables /\ txn' = [txn EXCEPT ![s] = u] /\ Free(s, RowLocks(t.rows))
  BY DEF UpdateRows, Pending
<1>4. /\ u.state = "pending" /\ u.locks = locks /\ u.writes = w
      /\ Holding(u) /\ u # Resting
  BY DEF Pending, Holding, Resting
<1>5. /\ w.balance = t.writes.balance /\ w.member = t.writes.member
      /\ w.stage = t.writes.stage /\ w.loan = t.writes.loan
      /\ DOMAIN w.guar = left /\ DOMAIN w = Tables
      /\ \A g \in left : w.guar[g] = IF t.change = "link" THEN Linked(g) ELSE Released(g)
  BY <1>2 DEF Tables
<1>6. \A l \in locks : l.mode \in Modes
  BY <1>2, LockMode DEF RowLocks, Modes
<1>7. /\ \A table, key, mode : Holds(t, table, key, mode) => Holds(u, table, key, mode)
      /\ \A table, key : HoldsAny(t, table, key) => HoldsAny(u, table, key)
      /\ \A g \in left : HoldsRow(u, g)
  BY <1>4 DEF Holds, HoldsAny, HoldsRow, RowLocks
<1>8. \A g \in left : /\ guar[g] \in RowType /\ g \in Guarantee /\ Live(g) /\ ~FreshRow(g)
                      /\ guar[g].app \in Application
  BY <1>2 DEF IndInv, TablesTyped, RowTyped, Live, FreshRow
<1> HIDE DEF t, w, u, locks
<1>9. \A g \in left :
        /\ w.guar[g] \in RowType
        /\ w.guar[g].app = guar[g].app /\ w.guar[g].by = guar[g].by
        /\ w.guar[g].version = guar[g].version + 1
        /\ t.change = "link" => w.guar[g].linked /\ w.guar[g].status = guar[g].status
        /\ t.change = "release" => w.guar[g].linked = guar[g].linked /\ w.guar[g].status = "released"
  <2> TAKE g \in left
  <2>1. CASE t.change = "link"
    BY <2>1, <1>5, <1>8, LinkedRow
  <2>2. CASE t.change = "release"
    BY <2>2, <1>5, <1>8, ReleasedRow
  <2> QED BY <2>1, <2>2, <1>2
<1>10. Falls(u) = Falls(t) \cap left
  BY <1>1, <1>2, <1>4, <1>5, <1>8, <1>9 DEF Falls, Live
<1>11. \A g \in Links(t) \cap left : guar[g].status = "active" => g \in Links(u)
  BY <1>1, <1>2, <1>4, <1>5, <1>9 DEF Links
<1>12. \A a : LiveFor(a) \subseteq Falls(t) => LiveFor(a) \subseteq Falls(u)
  BY <1>1, <1>10 DEF Falls, LiveFor
<1>13. BalanceSound(u)
  BY <1>1, <1>4, <1>5, <1>7 DEF BalanceSound
<1>14. MemberSound(u)
  BY <1>1, <1>4, <1>5, <1>7, <1>12 DEF MemberSound
<1>15. StageSound(u)
  <2>1. ASSUME NEW a, Disburses(t, a) PROVE Disburses(u, a)
    <3>1. LiveFor(a) \subseteq Links(u)
      BY <2>1, <1>1, <1>11 DEF Disburses, LiveFor, Links
    <3> QED BY <2>1, <3>1, <1>4, <1>5, <1>7, <1>10 DEF Disburses
  <2> QED BY <2>1, <1>1, <1>4, <1>5, <1>7, <1>12 DEF StageSound
<1>16. LoanSound(u)
  BY <1>1, <1>4, <1>5, <1>7, <1>12 DEF LoanSound
<1>17. FallSound(u)
  BY <1>1, <1>4, <1>5, <1>7, <1>10 DEF FallSound
<1>18. LinkSound(u)
  BY <1>4 DEF LinkSound
<1>19. RowsSound(u)
  <2> SUFFICES ASSUME NEW g \in left PROVE Keeps(u, g)
    BY <1>4, <1>5, <1>7, <1>8, <1>9 DEF RowsSound
  <2>1. CASE t.change = "release"
    BY <2>1, <1>4, <1>8, <1>9 DEF Keeps
  <2>2. CASE t.change = "link"
    <3>1. guar[g].app \in DOMAIN t.writes.stage /\ t.writes.stage[guar[g].app] = "disbursed"
      BY <2>2, <1>1 DEF LinkSound, Links
    <3> QED BY <2>2, <3>1, <1>4, <1>5, <1>8, <1>9 DEF Keeps
  <2> QED BY <2>1, <2>2, <1>2
<1>20. Sound(u)
  <2>1. TxnTyped(u)
    BY <1>2, <1>4, <1>5, <1>6, <1>8 DEF TxnTyped, WritesTyped
  <2>2. ProbeSound(u)
    BY <1>4 DEF ProbeSound
  <2> QED BY <2>1, <2>2, <1>13, <1>14, <1>15, <1>16, <1>17, <1>18, <1>19 DEF Sound, WritesSound
<1>21. \A r \in Session \ {s} : Holding(txn[r]) =>
         Compatible(txn[r].locks, u.locks) /\ Compatible(u.locks, txn[r].locks)
  <2> SUFFICES ASSUME NEW r \in Session \ {s}, Holding(txn[r])
               PROVE  Compatible(txn[r].locks, locks) /\ Compatible(locks, txn[r].locks)
    BY <1>4
  <2>1. \A l \in RowLocks(t.rows) : l.mode \in Modes
    BY LockMode DEF RowLocks, Modes
  <2>2. /\ Compatible(txn[r].locks, RowLocks(t.rows))
        /\ Compatible(RowLocks(t.rows), txn[r].locks)
    BY <1>3, <2>1, FreeCompatible
  <2>3. Compatible(txn[r].locks, t.locks) /\ Compatible(t.locks, txn[r].locks)
    BY <1>1 DEF IndInv, LocksExclude, t
  <2> QED BY <2>2, <2>3 DEF Compatible, locks
<1> QED BY <1>3, <1>20, <1>21, StepInd

LEMMA ProbeInd ==
  ASSUME IndInv, NEW s \in Session, NEW g \in Guarantee, Probe(s, g) PROVE IndInv'
<1> DEFINE t == [state |-> "probed", g |-> g, linked |-> guar[g].linked, version |-> guar[g].version]
<1>1. txn' = [txn EXCEPT ![s] = t] /\ UNCHANGED tables /\ ~FreshRow(g)
  BY DEF Probe
<1>2. /\ t.state = "probed" /\ t.g = g /\ t.linked = guar[g].linked
      /\ t.version = guar[g].version /\ t # Resting
  BY DEF Resting
<1>3. guar[g].version \in Nat
  BY DEF IndInv, TablesTyped, RowTyped, RowType
<1> HIDE DEF t
<1>4. Sound(t) /\ ~Holding(t)
  BY <1>1, <1>2, <1>3 DEF Sound, TxnTyped, ProbeSound, WritesSound, Holding
<1> QED BY <1>1, <1>4, StepInd

LEMMA IdleSound == Sound(Resting) /\ ~Holding(Resting)
BY DEF Sound, TxnTyped, ProbeSound, WritesSound, Holding, Resting

LEMMA AbortInd ==
  ASSUME IndInv, NEW s \in Session, Abort(s) PROVE IndInv'
BY IdleSound, StepInd DEF Abort

-----------------------------------------------------------------------------
(* The commit of one transaction, and those still in progress.             *)

\* A row that exists stays with its application and guarantor, its version
\* grows with every change, and one that was released stays so.
RowMovesOn(g) ==
  /\ guar'[g].app = guar[g].app /\ guar'[g].by = guar[g].by /\ guar'[g].status # "none"
  /\ guar'[g] = guar[g] \/ guar'[g].version > guar[g].version
  /\ Live(g)' => Live(g)
  /\ guar[g].status = "active" /\ Live(g)' => guar'[g].status = "active"

\* What a commit changes, and under which locks of its transaction t.
Effects(t) ==
  /\ \A x \in Member : balance'[x] # balance[x] => Holds(t, "deposit", x, "update")
  /\ \A x \in Member : member'[x] # member[x] => Holds(t, "members", x, "update")
  /\ \A a \in Application : stage'[a] # stage[a] =>
       /\ Holds(t, "applications", a, "update")
       /\ InFlight(a) \/ HoldsAny(t, "members", Borrower[a])
  /\ \A a \in Application : debt'[a] # debt[a] =>
       /\ HoldsAny(t, "members", Borrower[a])
       /\ IF debt[a] = "none" THEN Holds(t, "applications", a, "update")
                              ELSE Holds(t, "loans", a, "update")
  /\ \A g \in Guarantee : guar'[g] # guar[g] => HoldsRow(t, g)
  /\ \A g \in Guarantee : Live(g)' /\ ~Live(g) =>
       LET a == guar'[g].app IN
       /\ Holds(t, "deposit", guar'[g].by, "update")
       /\ Holds(t, "applications", a, "update")
       /\ HoldsAny(t, "members", Borrower[a])
       /\ debt[a] = "none" \/ Holds(t, "loans", a, "update")
  /\ \A g \in Guarantee : Live(g) /\ ~Live(g)' =>
       LET a == guar[g].app IN
       \/ Holds(t, "applications", a, "update")
       \/ debt[a] # "none" /\ Holds(t, "loans", a, "update")
  /\ \A g \in Guarantee : ~FreshRow(g) => RowMovesOn(g)

LEMMA CommitWrites ==
  ASSUME IndInv, NEW r \in Session, Commit(r)
  PROVE  LET w == txn[r].writes IN
         /\ DOMAIN balance' = Member /\ DOMAIN member' = Member
         /\ DOMAIN stage' = Application /\ DOMAIN debt' = Application
         /\ DOMAIN guar' = Guarantee
         /\ \A x \in Member :
              /\ balance'[x] = IF x \in DOMAIN w.balance THEN w.balance[x] ELSE balance[x]
              /\ member'[x] = IF x \in DOMAIN w.member THEN w.member[x] ELSE member[x]
         /\ \A a \in Application :
              /\ stage'[a] = IF a \in DOMAIN w.stage THEN w.stage[a] ELSE stage[a]
              /\ debt'[a] = IF a \in DOMAIN w.loan THEN w.loan[a] ELSE debt[a]
         /\ \A g \in Guarantee : guar'[g] = IF g \in DOMAIN w.guar THEN w.guar[g] ELSE guar[g]
         /\ txn' = [txn EXCEPT ![r] = Resting]
BY DEF IndInv, TablesTyped, Commit, Written

LEMMA CommitSound ==
  ASSUME IndInv, NEW r \in Session, Commit(r)
  PROVE  LET t == txn[r] IN
         /\ t.state = "pending" /\ Holding(t) /\ WritesTyped(t.writes)
         /\ BalanceSound(t) /\ MemberSound(t) /\ StageSound(t) /\ LoanSound(t)
         /\ FallSound(t) /\ RowsSound(t)
BY DEF IndInv, Sound, TxnTyped, WritesSound, Holding, Commit

LEMMA CommitRow ==
  ASSUME IndInv, NEW r \in Session, Commit(r), NEW g \in DOMAIN txn[r].writes.guar
  PROVE  /\ g \in Guarantee /\ guar'[g] = txn[r].writes.guar[g] /\ guar'[g] \in RowType
         /\ HoldsRow(txn[r], g)
         /\ FreshRow(g) => Inserts(txn[r], g)
         /\ ~FreshRow(g) => Keeps(txn[r], g)
<1>1. g \in Guarantee
  BY CommitSound DEF WritesTyped
<1> QED BY <1>1, CommitWrites, CommitSound DEF RowsSound

LEMMA CommitEffects ==
  ASSUME IndInv, NEW r \in Session, Commit(r) PROVE Effects(txn[r])
<1> DEFINE t == txn[r]
           w == t.writes
<1>1. /\ t.state = "pending" /\ WritesTyped(w)
      /\ BalanceSound(t) /\ MemberSound(t) /\ StageSound(t) /\ LoanSound(t)
      /\ FallSound(t) /\ RowsSound(t)
  BY CommitSound
<1>2. /\ \A x \in Member :
           /\ balance'[x] = IF x \in DOMAIN w.balance THEN w.balance[x] ELSE balance[x]
           /\ member'[x] = IF x \in DOMAIN w.member THEN w.member[x] ELSE member[x]
      /\ \A a \in Application :
           /\ stage'[a] = IF a \in DOMAIN w.stage THEN w.stage[a] ELSE stage[a]
           /\ debt'[a] = IF a \in DOMAIN w.loan THEN w.loan[a] ELSE debt[a]
      /\ \A g \in Guarantee : g \notin DOMAIN w.guar => guar'[g] = guar[g]
  BY CommitWrites
<1>3. \A g \in DOMAIN w.guar :
        /\ g \in Guarantee /\ guar'[g] = w.guar[g] /\ guar'[g] \in RowType
        /\ HoldsRow(t, g)
        /\ FreshRow(g) => Inserts(t, g)
        /\ ~FreshRow(g) => Keeps(t, g)
  BY CommitRow
<1>4. /\ \A g \in Guarantee : guar[g] \in RowType /\ RowTyped(guar[g])
      /\ \A a \in Application : stage[a] = "disbursed" <=> debt[a] # "none"
  BY DEF IndInv, TablesTyped, RowTyped, TablesAgree
<1> HIDE DEF t
<1>5. \A x \in Member : balance'[x] # balance[x] => Holds(t, "deposit", x, "update")
  BY <1>1, <1>2 DEF BalanceSound
<1>6. \A x \in Member : member'[x] # member[x] => Holds(t, "members", x, "update")
  BY <1>1, <1>2 DEF MemberSound
<1>7. \A a \in Application : stage'[a] # stage[a] =>
        /\ Holds(t, "applications", a, "update")
        /\ InFlight(a) \/ HoldsAny(t, "members", Borrower[a])
  BY <1>1, <1>2 DEF StageSound, InFlight, Disburses
<1>8. ASSUME NEW a \in Application, debt'[a] # debt[a]
      PROVE  /\ HoldsAny(t, "members", Borrower[a])
             /\ IF debt[a] = "none" THEN Holds(t, "applications", a, "update")
                                    ELSE Holds(t, "loans", a, "update")
  <2>1. a \in DOMAIN w.loan
    BY <1>2, <1>8
  <2>2. CASE a \in DOMAIN w.stage /\ w.stage[a] = "disbursed"
    <3>1. Holds(t, "applications", a, "update") /\ stage[a] = "approved"
      BY <2>2, <1>1 DEF StageSound, Disburses
    <3> QED BY <2>1, <3>1, <1>1, <1>4 DEF LoanSound
  <2>3. CASE ~(a \in DOMAIN w.stage /\ w.stage[a] = "disbursed")
    BY <2>1, <2>3, <1>1 DEF LoanSound
  <2> QED BY <2>2, <2>3
<1>9. \A g \in Guarantee : guar'[g] # guar[g] => HoldsRow(t, g)
  BY <1>2, <1>3
<1>10. ASSUME NEW g \in Guarantee, Live(g)', ~Live(g)
       PROVE  LET a == guar'[g].app IN
              /\ Holds(t, "deposit", guar'[g].by, "update")
              /\ Holds(t, "applications", a, "update")
              /\ HoldsAny(t, "members", Borrower[a])
              /\ debt[a] = "none" \/ Holds(t, "loans", a, "update")
  <2>1. g \in DOMAIN w.guar
    BY <1>2, <1>10 DEF Live
  <2>2. FreshRow(g) /\ Inserts(t, g) /\ guar'[g] = w.guar[g]
    BY <2>1, <1>3, <1>10 DEF Keeps
  <2> QED BY <2>2, <1>4 DEF Inserts, HoldsAny, Modes
<1>11. ASSUME NEW g \in Guarantee, Live(g), ~Live(g)'
       PROVE  LET a == guar[g].app IN
              \/ Holds(t, "applications", a, "update")
              \/ debt[a] # "none" /\ Holds(t, "loans", a, "update")
  <2>1. g \in DOMAIN w.guar /\ ~FreshRow(g)
    BY <1>2, <1>11 DEF Live, FreshRow
  <2>2. guar'[g].status = "released" /\ guar'[g] = w.guar[g]
    BY <2>1, <1>3, <1>11 DEF Keeps, Live
  <2>3. g \in Falls(t)
    BY <2>1, <2>2, <1>1 DEF Falls
  <2> QED BY <2>3, <1>1 DEF FallSound, LoanSound
<1>12. ASSUME NEW g \in Guarantee, ~FreshRow(g) PROVE RowMovesOn(g)
  <2>1. CASE g \in DOMAIN w.guar
    <3>1. Keeps(t, g) /\ guar'[g] = w.guar[g] /\ guar[g].version \in Nat
      BY <2>1, <1>3, <1>4, <1>12 DEF RowType
    <3> QED BY <3>1 DEF RowMovesOn, Keeps, Live
  <2>2. CASE g \notin DOMAIN w.guar
    BY <2>2, <1>2, <1>12 DEF RowMovesOn, Live, FreshRow
  <2> QED BY <2>1, <2>2
<1> QED BY <1>5, <1>6, <1>7, <1>8, <1>9, <1>10, <1>11, <1>12 DEF Effects, t

\* What a transaction that holds locks can still rely on after the commit of
\* another.
Undisturbed(t) ==
  /\ \A x \in Member : Holds(t, "deposit", x, "update") =>
       balance'[x] = balance[x] /\ GivenBy(x)' \subseteq GivenBy(x)
  /\ \A x \in Member : HoldsAny(t, "members", x) => member'[x] = member[x]
  /\ \A a \in Application : Holds(t, "applications", a, "update") =>
       /\ stage'[a] = stage[a] /\ LiveFor(a)' \subseteq LiveFor(a)
       /\ debt[a] = "none" => debt'[a] = "none" /\ LiveFor(a)' = LiveFor(a)
  /\ \A a \in Application : Holds(t, "loans", a, "update") /\ debt[a] # "none" =>
       debt'[a] = debt[a] /\ LiveFor(a)' \subseteq LiveFor(a)
  /\ \A a \in Application : Holds(t, "members", Borrower[a], "update") =>
       /\ debt'[a] = debt[a] /\ LiveFor(a)' \subseteq LiveFor(a)
       /\ InFlight(a) \/ stage'[a] = stage[a]
  /\ \A g \in Guarantee : HoldsRow(t, g) => guar'[g] = guar[g]
  /\ \A g \in Guarantee : ~FreshRow(g) => RowMovesOn(g)

LEMMA OthersUndisturbed ==
  ASSUME IndInv, NEW r \in Session, NEW s \in Session, r # s,
         Holding(txn[r]), Holding(txn[s]), Effects(txn[r])
  PROVE  Undisturbed(txn[s])
<1> DEFINE t == txn[s]
           u == txn[r]
<1>1. LocksExclude
  BY DEF IndInv
<1>2. \A table, key : Holds(t, table, key, "update") =>
        ~HoldsAny(u, table, key) /\ ~Holds(u, table, key, "update")
  BY <1>1, UpdateExcludes
<1>3. \A table, key : HoldsAny(t, table, key) => ~Holds(u, table, key, "update")
  <2> SUFFICES ASSUME NEW table, NEW key, Holds(u, table, key, "update"), HoldsAny(t, table, key)
               PROVE  FALSE
    OBVIOUS
  <2> QED BY <1>1, UpdateExcludes
<1>4. \A g : HoldsRow(t, g) => ~HoldsRow(u, g)
  BY <1>1, RowExcludes
<1> HIDE DEF t, u
<1>5. Effects(u)
  BY DEF u
<1>6. \A g \in Guarantee : Live(g) /\ Live(g)' => guar'[g].by = guar[g].by /\ guar'[g].app = guar[g].app
  BY <1>5 DEF Effects, RowMovesOn, Live, FreshRow
<1>7. ASSUME NEW x \in Member, Holds(t, "deposit", x, "update")
      PROVE  balance'[x] = balance[x] /\ GivenBy(x)' \subseteq GivenBy(x)
  <2>1. balance'[x] = balance[x]
    BY <1>2, <1>5, <1>7 DEF Effects
  <2>2. \A g \in Guarantee : Live(g)' /\ ~Live(g) => guar'[g].by # x
    BY <1>2, <1>5, <1>7 DEF Effects
  <2> QED BY <2>1, <2>2, <1>6 DEF GivenBy
<1>8. ASSUME NEW a \in Application,
             \A g \in Guarantee : Live(g)' /\ ~Live(g) => guar'[g].app # a
      PROVE  LiveFor(a)' \subseteq LiveFor(a)
  BY <1>6, <1>8 DEF LiveFor
<1>9. \A x \in Member : HoldsAny(t, "members", x) => member'[x] = member[x]
  BY <1>3, <1>5 DEF Effects
<1>10. ASSUME NEW a \in Application, Holds(t, "applications", a, "update")
       PROVE  /\ stage'[a] = stage[a] /\ LiveFor(a)' \subseteq LiveFor(a)
              /\ debt[a] = "none" => debt'[a] = "none" /\ LiveFor(a)' = LiveFor(a)
  <2>1. stage'[a] = stage[a] /\ (debt[a] = "none" => debt'[a] = "none")
    BY <1>2, <1>5, <1>10 DEF Effects
  <2>2. \A g \in Guarantee : Live(g)' /\ ~Live(g) => guar'[g].app # a
    BY <1>2, <1>5, <1>10 DEF Effects
  <2>3. debt[a] = "none" => \A g \in Guarantee : Live(g) /\ ~Live(g)' => guar[g].app # a
    BY <1>2, <1>5, <1>10 DEF Effects
  <2>4. debt[a] = "none" => LiveFor(a) \subseteq LiveFor(a)'
    BY <2>3, <1>6 DEF LiveFor
  <2> QED BY <2>1, <2>2, <2>4, <1>8
<1>11. ASSUME NEW a \in Application, Holds(t, "loans", a, "update"), debt[a] # "none"
       PROVE  debt'[a] = debt[a] /\ LiveFor(a)' \subseteq LiveFor(a)
  <2>1. debt'[a] = debt[a]
    BY <1>2, <1>5, <1>11 DEF Effects
  <2>2. \A g \in Guarantee : Live(g)' /\ ~Live(g) => guar'[g].app # a
    BY <1>2, <1>5, <1>11 DEF Effects
  <2> QED BY <2>1, <2>2, <1>8
<1>12. ASSUME NEW a \in Application, Holds(t, "members", Borrower[a], "update")
       PROVE  /\ debt'[a] = debt[a] /\ LiveFor(a)' \subseteq LiveFor(a)
              /\ InFlight(a) \/ stage'[a] = stage[a]
  <2>1. debt'[a] = debt[a] /\ (InFlight(a) \/ stage'[a] = stage[a])
    BY <1>2, <1>5, <1>12 DEF Effects
  <2>2. \A g \in Guarantee : Live(g)' /\ ~Live(g) => guar'[g].app # a
    BY <1>2, <1>5, <1>12 DEF Effects
  <2> QED BY <2>1, <2>2, <1>8
<1>13. \A g \in Guarantee : HoldsRow(t, g) => guar'[g] = guar[g]
  BY <1>4, <1>5 DEF Effects
<1>14. \A g \in Guarantee : ~FreshRow(g) => RowMovesOn(g)
  BY <1>5 DEF Effects
<1> QED BY <1>7, <1>9, <1>10, <1>11, <1>12, <1>13, <1>14 DEF Undisturbed, t

\* What a transaction has checked is still true after the commit of another.
LEMMA SoundStays ==
  ASSUME IndInv, NEW r \in Session, NEW s \in Session, r # s, Commit(r)
  PROVE  Sound(txn[s])'
<1>0. PICK t : t = txn[s]
  OBVIOUS
<1>1. txn'[s] = t
  BY <1>0 DEF Commit, IndInv
<1>2. Sound(t)
  BY <1>0 DEF IndInv
<1>3. \A g \in Guarantee : ~FreshRow(g) => RowMovesOn(g)
  BY CommitEffects DEF Effects
<1>4. Holding(t) => Undisturbed(t)
  BY <1>0, CommitEffects, CommitSound, OthersUndisturbed
<1>5. \A g \in Guarantee : guar[g].version \in Nat /\ guar'[g].version \in Nat
  <2> SUFFICES ASSUME NEW g \in Guarantee PROVE guar[g].version \in Nat /\ guar'[g].version \in Nat
    OBVIOUS
  <2>1. guar[g] \in RowType
    BY DEF IndInv, TablesTyped, RowTyped
  <2>2. guar'[g] \in RowType
    BY <2>1, CommitWrites, CommitRow
  <2> QED BY <2>1, <2>2 DEF RowType
<1>6. TxnTyped(txn[s])'
  BY <1>1, <1>2, <1>3 DEF Sound, TxnTyped, WritesTyped, FreshRow, RowMovesOn, Holding
<1>7. ProbeSound(txn[s])'
  <2> SUFFICES ASSUME t.state = "probed"
               PROVE  /\ t.g \in Guarantee /\ ~FreshRow(t.g)'
                      /\ t.version \in Nat /\ t.version <= guar'[t.g].version
                      /\ t.version = guar'[t.g].version => t.linked = guar'[t.g].linked
    BY <1>1 DEF ProbeSound, FreshRow
  <2>1. /\ t.g \in Guarantee /\ ~FreshRow(t.g) /\ t.version \in Nat
        /\ t.version <= guar[t.g].version
        /\ t.version = guar[t.g].version => t.linked = guar[t.g].linked
    BY <1>2 DEF Sound, ProbeSound
  <2>2. RowMovesOn(t.g) /\ guar[t.g].version \in Nat /\ guar'[t.g].version \in Nat
    BY <2>1, <1>3, <1>5
  <2>3. ~FreshRow(t.g)'
    BY <2>2 DEF RowMovesOn, FreshRow
  <2>4. CASE guar'[t.g] = guar[t.g]
    BY <2>1, <2>3, <2>4
  <2>5. CASE guar'[t.g].version > guar[t.g].version
    BY <2>1, <2>2, <2>3, <2>5
  <2> QED BY <2>2, <2>4, <2>5 DEF RowMovesOn
<1>8. WritesSound(txn[s])'
  <2> SUFFICES ASSUME Holding(t)
               PROVE  /\ BalanceSound(txn[s])' /\ MemberSound(txn[s])' /\ StageSound(txn[s])'
                      /\ LoanSound(txn[s])' /\ FallSound(txn[s])' /\ LinkSound(txn[s])'
                      /\ RowsSound(txn[s])'
    BY <1>1 DEF WritesSound, Holding
  <2>1. /\ BalanceSound(t) /\ MemberSound(t) /\ StageSound(t) /\ LoanSound(t)
        /\ FallSound(t) /\ LinkSound(t) /\ RowsSound(t) /\ WritesTyped(t.writes)
    BY <1>2 DEF Sound, WritesSound, TxnTyped
  <2>2. Undisturbed(t)
    BY <1>4
  <2>3. /\ \A x : GivenBy(x) \subseteq Guarantee /\ GivenBy(x)' \subseteq Guarantee
        /\ \A a : LiveFor(a) \subseteq Guarantee
    BY DEF GivenBy, LiveFor
  <2>4. Falls(t) = Falls(txn[s])' /\ Links(t) = Links(txn[s])'
    BY <1>1 DEF Falls, Links
  <2>5. /\ Borrower \in [Application -> Member] /\ Requested \in [Application -> Nat \ {0}]
        /\ balance \in [Member -> Nat]
    BY CollateralAssumption DEF IndInv, TablesTyped
  <2>6. BalanceSound(txn[s])'
    <3> SUFFICES ASSUME NEW x \in DOMAIN t.writes.balance
                 PROVE  /\ Holds(t, "deposit", x, "update") /\ HoldsAny(t, "members", x)
                        /\ member'[x] = "active" /\ t.writes.balance[x] \in Nat
                        /\ Cardinality(GivenBy(x)') <= t.writes.balance[x]
      BY <1>1 DEF BalanceSound, Holds, HoldsAny
    <3>1. x \in Member
      BY <2>1 DEF WritesTyped
    <3>2. GivenBy(x)' \subseteq GivenBy(x) /\ member'[x] = member[x]
      BY <2>1, <2>2, <3>1 DEF BalanceSound, Undisturbed
    <3>3. Cardinality(GivenBy(x)') \in Nat /\ Cardinality(GivenBy(x)) \in Nat
          /\ Cardinality(GivenBy(x)') <= Cardinality(GivenBy(x))
      BY <2>3, <3>2, GuaranteeSets
    <3> QED BY <2>1, <3>2, <3>3 DEF BalanceSound
  <2>7. MemberSound(txn[s])'
    <3> SUFFICES ASSUME NEW x \in DOMAIN t.writes.member
                 PROVE  /\ GivenBy(x)' = {}
                        /\ \A a \in Of(x) : /\ ~InFlight(a)' /\ debt'[a] # "written_off"
                                            /\ debt'[a] = "active" => a \in DOMAIN t.writes.loan
                                            /\ LiveFor(a)' \subseteq Falls(t)
      BY <1>1, <2>1, <2>4 DEF MemberSound, Holds, Of
    <3>1. x \in Member /\ Holds(t, "deposit", x, "update") /\ Holds(t, "members", x, "update")
      BY <2>1 DEF WritesTyped, MemberSound
    <3>2. GivenBy(x)' = {}
      BY <2>1, <2>2, <3>1 DEF MemberSound, Undisturbed
    <3>3. ASSUME NEW a \in Of(x)
          PROVE  /\ ~InFlight(a)' /\ debt'[a] # "written_off"
                 /\ debt'[a] = "active" => a \in DOMAIN t.writes.loan
                 /\ LiveFor(a)' \subseteq Falls(t)
      <4>1. a \in Application /\ Borrower[a] = x
        BY DEF Of
      <4>2. debt'[a] = debt[a] /\ LiveFor(a)' \subseteq LiveFor(a) /\ (InFlight(a) \/ stage'[a] = stage[a])
        BY <2>2, <3>1, <4>1 DEF Undisturbed
      <4> QED BY <2>1, <4>2 DEF MemberSound, InFlight
    <3> QED BY <3>2, <3>3
  <2>8. StageSound(txn[s])'
    <3> SUFFICES ASSUME NEW a \in DOMAIN t.writes.stage
                 PROVE  /\ Holds(t, "applications", a, "update")
                        /\ \/ /\ t.writes.stage[a] = "open" /\ stage'[a] = "none"
                              /\ HoldsAny(t, "members", Borrower[a]) /\ member'[Borrower[a]] = "active"
                           \/ t.writes.stage[a] = "approved" /\ stage'[a] = "open"
                           \/ /\ t.writes.stage[a] = "rejected" /\ stage'[a] = "open"
                              /\ LiveFor(a)' \subseteq Falls(t)
                           \/ t.writes.stage[a] = "disbursed" /\ Disburses(txn[s], a)'
      BY <1>1, <2>4 DEF StageSound, Holds, HoldsAny
    <3>1. a \in Application /\ Holds(t, "applications", a, "update") /\ Borrower[a] \in Member
      BY <2>1, <2>5 DEF WritesTyped, StageSound
    <3>2. /\ stage'[a] = stage[a] /\ LiveFor(a)' \subseteq LiveFor(a)
          /\ debt[a] = "none" => debt'[a] = "none" /\ LiveFor(a)' = LiveFor(a)
          /\ HoldsAny(t, "members", Borrower[a]) => member'[Borrower[a]] = member[Borrower[a]]
      BY <2>2, <3>1 DEF Undisturbed
    <3>3. ASSUME Disburses(t, a) PROVE Disburses(txn[s], a)'
      <4>1. debt[a] = "none"
        BY <3>1, <3>3 DEF Disburses, IndInv, TablesAgree
      <4>2. LiveFor(a)' = LiveFor(a)
        BY <3>2, <4>1
      <4>3. \A g \in LiveFor(a) : guar[g].status = "active" /\ g \in Guarantee
                                   /\ g \in LiveFor(a)'
        BY <3>3, <2>3, <4>2 DEF Disburses
      <4>4. \A g \in LiveFor(a) : guar'[g].status = "active"
        BY <4>3, <1>3 DEF RowMovesOn, FreshRow, LiveFor
      <4>5. balance'[Borrower[a]] = balance[Borrower[a]]
        BY <2>2, <3>1, <3>3 DEF Undisturbed, Disburses
      <4>6. Eligible(a, {})' = Eligible(a, {})
        BY <4>2, <4>5 DEF Eligible
      <4> QED BY <1>1, <2>4, <3>1, <3>2, <3>3, <4>2, <4>4, <4>6 DEF Disburses, Holds
    <3> QED BY <2>1, <3>2, <3>3 DEF StageSound
  <2>9. LoanSound(txn[s])'
    <3> SUFFICES ASSUME NEW a \in DOMAIN t.writes.loan
                 PROVE  /\ HoldsAny(t, "members", Borrower[a])
                        /\ \/ /\ t.writes.loan[a] = "active"
                              /\ a \in DOMAIN t.writes.stage /\ t.writes.stage[a] = "disbursed"
                           \/ /\ Holds(t, "loans", a, "update")
                              /\ \/ /\ t.writes.loan[a] = "closed" /\ debt'[a] = "active"
                                    /\ LiveFor(a)' \subseteq Falls(t)
                                 \/ /\ t.writes.loan[a] = "recovered" /\ debt'[a] = "written_off"
                                    /\ LiveFor(a)' \subseteq Falls(t)
                                 \/ t.writes.loan[a] = "written_off" /\ debt'[a] = "active"
                                 \/ /\ t.writes.loan[a] = "active" /\ debt'[a] = "closed"
                                    /\ member'[Borrower[a]] = "active"
      BY <1>1, <2>4 DEF LoanSound, Holds, HoldsAny
    <3>1. a \in Application /\ Borrower[a] \in Member /\ HoldsAny(t, "members", Borrower[a])
      BY <2>1, <2>5 DEF WritesTyped, LoanSound
    <3>2. /\ member'[Borrower[a]] = member[Borrower[a]]
          /\ Holds(t, "loans", a, "update") /\ debt[a] # "none" =>
               debt'[a] = debt[a] /\ LiveFor(a)' \subseteq LiveFor(a)
      BY <2>2, <3>1 DEF Undisturbed
    <3> QED BY <2>1, <3>1, <3>2 DEF LoanSound
  <2>10. FallSound(txn[s])'
    <3> SUFFICES ASSUME NEW g \in Falls(t)
                 PROVE  /\ ~FreshRow(g)'
                        /\ \/ /\ Holds(t, "applications", guar'[g].app, "update")
                              /\ stage'[guar'[g].app] # "disbursed"
                           \/ /\ Holds(t, "loans", guar'[g].app, "update")
                              /\ guar'[g].app \in DOMAIN t.writes.loan
                              /\ t.writes.loan[guar'[g].app] \in {"closed", "recovered"}
                           \/ /\ t.state = "pending"
                              /\ Holds(t, "applications", guar'[g].app, "update")
                              /\ Holds(t, "loans", guar'[g].app, "update")
                              /\ \E h \in Guarantee :
                                   /\ DOMAIN t.writes.guar = {g, h} /\ FreshRow(h)'
                                   /\ t.writes.guar[h].app = guar'[g].app
                                   /\ t.writes.guar[h].status = "active"
      BY <1>1, <2>4 DEF FallSound, Holds
    <3>1. g \in Guarantee /\ ~FreshRow(g)
      BY <1>2, <2>1 DEF FallSound, Falls, WritesTyped, Sound, TxnTyped, Holding
    <3>2. guar'[g].app = guar[g].app /\ ~FreshRow(g)' /\ guar[g].app \in Application
      BY <3>1, <1>3 DEF RowMovesOn, FreshRow, IndInv, TablesTyped, RowTyped
    <3>3. Holds(t, "applications", guar[g].app, "update") => stage'[guar[g].app] = stage[guar[g].app]
      BY <2>2, <3>2 DEF Undisturbed
    <3>4. t.state = "pending" => \A h \in Guarantee : DOMAIN t.writes.guar = {g, h} /\ FreshRow(h) => FreshRow(h)'
      BY <2>1, <2>2 DEF RowsSound, Undisturbed, FreshRow
    <3> QED BY <2>1, <3>2, <3>3, <3>4 DEF FallSound
  <2>11. LinkSound(txn[s])'
    <3> SUFFICES ASSUME t.state = "updating", NEW g \in Links(t)
                 PROVE  /\ guar'[g].app \in DOMAIN t.writes.stage
                        /\ t.writes.stage[guar'[g].app] = "disbursed"
      BY <1>1, <2>4 DEF LinkSound
    <3>1. g \in Guarantee /\ ~FreshRow(g)
      BY <1>2 DEF Links, Sound, TxnTyped
    <3> QED BY <2>1, <3>1, <1>3 DEF LinkSound, RowMovesOn
  <2>12. RowsSound(txn[s])'
    <3> SUFFICES ASSUME t.state = "pending", NEW g \in DOMAIN t.writes.guar
                 PROVE  /\ t.writes.guar[g] \in RowType /\ HoldsRow(t, g)
                        /\ IF FreshRow(g)' THEN Inserts(txn[s], g)' ELSE Keeps(txn[s], g)'
      BY <1>1 DEF RowsSound, HoldsRow, Holds
    <3>1. /\ t.writes.guar[g] \in RowType /\ HoldsRow(t, g) /\ g \in Guarantee
          /\ \A h \in DOMAIN t.writes.guar : guar'[h] = guar[h]
      BY <2>1, <2>2 DEF RowsSound, WritesTyped, Undisturbed
    <3>2. FreshRow(g)' = FreshRow(g)
      BY <3>1 DEF FreshRow
    <3>3. CASE FreshRow(g)
      <4>0. PICK row : row = t.writes.guar[g]
        OBVIOUS
      <4>1. Inserts(t, g)
        BY <2>1, <3>3 DEF RowsSound
      <4>2. /\ row.app \in Application /\ row.by \in Member
            /\ Holds(t, "applications", row.app, "update")
            /\ HoldsAny(t, "members", row.by) /\ Holds(t, "deposit", row.by, "update")
        BY <4>0, <4>1 DEF Inserts, HoldsAny, Modes
      <4>3. /\ stage'[row.app] = stage[row.app] /\ member'[row.by] = member[row.by]
            /\ balance'[row.by] = balance[row.by] /\ GivenBy(row.by)' \subseteq GivenBy(row.by)
        BY <2>2, <4>2 DEF Undisturbed
      <4>4. /\ Cardinality(GivenBy(row.by)') \in Nat /\ Cardinality(GivenBy(row.by)) \in Nat
            /\ Cardinality(GivenBy(row.by)') <= Cardinality(GivenBy(row.by))
        BY <2>3, <4>3, GuaranteeSets
      <4>5. \A h : /\ Cardinality(GivenBy(row.by)' \ {h}) \in Nat /\ Cardinality(GivenBy(row.by) \ {h}) \in Nat
                   /\ Cardinality(GivenBy(row.by)' \ {h}) <= Cardinality(GivenBy(row.by) \ {h})
        <5> TAKE h
        <5>1. GivenBy(row.by)' \ {h} \subseteq GivenBy(row.by) \ {h}
              /\ GivenBy(row.by) \ {h} \subseteq Guarantee
          BY <4>3, <2>3
        <5>2. GivenBy(row.by)' \ {h} \subseteq Guarantee
          BY <5>1
        <5> QED BY <5>1, <5>2, GuaranteeSets
      <4>6. balance[row.by] \in Nat
        BY <4>2, <2>5
      <4>7. \A h \in DOMAIN t.writes.guar : h \in LinkedTo(row.app) => h \in LinkedTo(row.app)'
        <5> SUFFICES ASSUME NEW h \in DOMAIN t.writes.guar, h \in LinkedTo(row.app)
                     PROVE  h \in LinkedTo(row.app)'
          OBVIOUS
        <5>1. guar'[h] = guar[h]
          BY <3>1
        <5> QED BY <5>1 DEF LinkedTo, LiveFor, Live
      <4>8. Inserts(txn[s], g)'
        <5>1. CASE row.status = "pledged"
          BY <4>0, <1>1, <4>1, <4>3, <4>4, <4>6, <5>1 DEF Inserts, Holds
        <5>2. CASE row.status = "active"
          <6>1. PICK h \in Guarantee : /\ h # g /\ DOMAIN t.writes.guar = {h, g}
                       /\ t.writes.guar[h].status = "released"
                       /\ h \in LinkedTo(row.app)
                       /\ Cardinality(GivenBy(row.by) \ {h}) < balance[row.by]
            BY <4>0, <4>1, <5>2 DEF Inserts
          <6>2. h \in LinkedTo(row.app)' /\ Cardinality(GivenBy(row.by)' \ {h}) < balance'[row.by]
            BY <6>1, <4>3, <4>5, <4>6, <4>7
          <6> QED BY <4>0, <1>1, <4>1, <4>3, <5>2, <6>1, <6>2 DEF Inserts, Holds
        <5> QED BY <4>0, <4>1, <5>1, <5>2 DEF Inserts
      <4> QED BY <3>1, <3>2, <3>3, <4>8
    <3>4. CASE ~FreshRow(g)
      <4>1. Keeps(t, g)
        BY <2>1, <3>4 DEF RowsSound
      <4>2. Keeps(txn[s], g)'
        BY <1>1, <3>1, <4>1 DEF Keeps, Live
      <4> QED BY <3>1, <3>2, <3>4, <4>2
    <3> QED BY <3>3, <3>4
  <2> QED BY <2>6, <2>7, <2>8, <2>9, <2>10, <2>11, <2>12
<1> QED BY <1>6, <1>7, <1>8 DEF Sound

-----------------------------------------------------------------------------
(* The commit of a sound transaction, and the tables.                      *)

\* A row that is live for a after the commit was live for it and is not
\* released, or it has just been inserted.
LEMMA LiveAfter ==
  ASSUME IndInv, NEW r \in Session, Commit(r), NEW g \in Guarantee, Live(g)'
  PROVE  \/ /\ Live(g) /\ g \notin Falls(txn[r])
            /\ guar'[g].app = guar[g].app /\ guar'[g].by = guar[g].by
         \/ /\ FreshRow(g) /\ g \in DOMAIN txn[r].writes.guar /\ Inserts(txn[r], g)
            /\ guar'[g] = txn[r].writes.guar[g]
<1> DEFINE t == txn[r]
<1>1. CASE g \notin DOMAIN t.writes.guar
  <2>1. guar'[g] = guar[g]
    BY <1>1, CommitWrites
  <2>2. g \notin Falls(t)
    BY <1>1, CommitSound DEF Falls
  <2> QED BY <2>1, <2>2 DEF Live
<1>2. CASE g \in DOMAIN t.writes.guar /\ FreshRow(g)
  BY <1>2, CommitRow
<1>3. CASE g \in DOMAIN t.writes.guar /\ ~FreshRow(g)
  <2>1. Keeps(t, g) /\ guar'[g] = t.writes.guar[g]
    BY <1>3, CommitRow
  <2>2. g \notin Falls(t)
    BY <2>1, CommitSound DEF Falls, Live
  <2> QED BY <2>1, <2>2 DEF Keeps
<1> QED BY <1>1, <1>2, <1>3

\* A row that was live and is not released is live still.
LEMMA LiveBefore ==
  ASSUME IndInv, NEW r \in Session, Commit(r), NEW g \in Guarantee, Live(g), g \notin Falls(txn[r])
  PROVE  Live(g)' /\ guar'[g].app = guar[g].app
<1> DEFINE t == txn[r]
<1>1. CASE g \notin DOMAIN t.writes.guar
  BY <1>1, CommitWrites DEF Live
<1>2. CASE g \in DOMAIN t.writes.guar
  <2>1. Keeps(t, g) /\ guar'[g] = t.writes.guar[g]
    BY <1>2, CommitRow DEF Live, FreshRow
  <2>2. guar'[g].status # "released"
    BY <1>2, <2>1, CommitSound DEF Falls
  <2> QED BY <2>1, <2>2 DEF Keeps, Live
<1> QED BY <1>1, <1>2

\* A transaction that inserts a guarantee writes no other table.
LEMMA InsertsOnly ==
  ASSUME IndInv, NEW r \in Session, Commit(r), NEW h \in Guarantee, Inserts(txn[r], h)
  PROVE  /\ \A x \in Member : balance'[x] = balance[x] /\ member'[x] = member[x]
         /\ \A a \in Application : stage'[a] = stage[a] /\ debt'[a] = debt[a]
BY CommitWrites DEF Inserts

\* A guarantee is inserted for an open application, or for one whose loan
\* still has a guarantee.
LEMMA InsertedFor ==
  ASSUME IndInv, NEW r \in Session, Commit(r), NEW h \in Guarantee, Inserts(txn[r], h)
  PROVE  LET row == txn[r].writes.guar[h] IN
         \/ stage[row.app] = "open" /\ row.status = "pledged" /\ ~row.linked
         \/ /\ stage[row.app] = "disbursed" /\ row.status = "active" /\ row.linked
            /\ LiveFor(row.app) # {}
BY DEF Inserts, LinkedTo, LiveFor, IndInv, TablesAgree

LEMMA TablesTypedStep ==
  ASSUME IndInv, NEW r \in Session, Commit(r) PROVE TablesTyped'
<1> DEFINE t == txn[r]
           w == t.writes
<1>1. /\ WritesTyped(w)
      /\ BalanceSound(t) /\ MemberSound(t) /\ StageSound(t) /\ LoanSound(t)
  BY CommitSound
<1>2. TablesTyped
  BY DEF IndInv
<1> HIDE DEF t
<1>3. /\ balance' = Written(balance, w.balance) /\ member' = Written(member, w.member)
      /\ stage' = Written(stage, w.stage) /\ debt' = Written(debt, w.loan)
  BY DEF Commit, t
<1>4. balance' \in [Member -> Nat]
  BY <1>1, <1>2, <1>3 DEF TablesTyped, Written, BalanceSound
<1>5. member' \in [Member -> {"active", "exited"}]
  BY <1>1, <1>2, <1>3 DEF TablesTyped, Written, MemberSound
<1>6. stage' \in [Application -> {"none", "open", "approved", "rejected", "disbursed"}]
  BY <1>1, <1>2, <1>3 DEF TablesTyped, Written, StageSound
<1>7. debt' \in [Application -> {"none", "active", "closed", "written_off", "recovered"}]
  BY <1>1, <1>2, <1>3 DEF TablesTyped, Written, LoanSound
<1>8. ASSUME NEW g \in Guarantee PROVE RowTyped(guar'[g])
  <2>1. CASE g \notin DOMAIN w.guar
    BY <2>1, <1>2, CommitWrites DEF TablesTyped, t
  <2>2. CASE g \in DOMAIN w.guar /\ FreshRow(g)
    BY <2>2, CommitRow DEF RowTyped, Inserts, t
  <2>3. CASE g \in DOMAIN w.guar /\ ~FreshRow(g)
    <3>1. Keeps(t, g) /\ guar'[g] = w.guar[g] /\ guar'[g] \in RowType
      BY <2>3, CommitRow DEF t
    <3>2. RowTyped(guar[g])
      BY <1>2 DEF TablesTyped
    <3> QED BY <3>1, <3>2 DEF RowTyped, Keeps, Live
  <2> QED BY <2>1, <2>2, <2>3
<1>9. DOMAIN guar' = Guarantee
  BY CommitWrites
<1> QED BY <1>4, <1>5, <1>6, <1>7, <1>8, <1>9 DEF TablesTyped, RowTyped

LEMMA TablesAgreeStep ==
  ASSUME IndInv, NEW r \in Session, Commit(r) PROVE TablesAgree'
<1>0. PICK t : t = txn[r]
  OBVIOUS
<1> DEFINE w == t.writes
<1>1. StageSound(t) /\ LoanSound(t)
  BY <1>0, CommitSound
<1>2. TablesAgree /\ TablesTyped
  BY DEF IndInv
<1>3. \A a \in Application :
        /\ stage'[a] = IF a \in DOMAIN w.stage THEN w.stage[a] ELSE stage[a]
        /\ debt'[a] = IF a \in DOMAIN w.loan THEN w.loan[a] ELSE debt[a]
  BY <1>0, CommitWrites
<1>4. \A a \in Application : stage[a] = "disbursed" <=> debt[a] # "none"
  BY <1>2 DEF TablesAgree
<1>5. ASSUME NEW a \in Application PROVE stage'[a] = "disbursed" <=> debt'[a] # "none"
  <2>1. CASE a \in DOMAIN w.stage
    <3>1. CASE w.stage[a] = "disbursed"
      BY <2>1, <3>1, <1>1, <1>3 DEF StageSound, Disburses
    <3>2. CASE w.stage[a] # "disbursed"
      <4>1. stage[a] \in {"none", "open"} /\ stage'[a] = w.stage[a] /\ debt[a] = "none"
        BY <2>1, <3>2, <1>1, <1>3, <1>4 DEF StageSound
      <4>2. a \notin DOMAIN w.loan
        BY <3>2, <4>1, <1>1 DEF LoanSound
      <4> QED BY <3>2, <4>1, <4>2, <1>3
    <3> QED BY <3>1, <3>2
  <2>2. CASE a \notin DOMAIN w.stage
    BY <2>2, <1>1, <1>3, <1>4 DEF LoanSound
  <2> QED BY <2>1, <2>2
<1>6. \A a \in Application : stage[a] = "disbursed" => stage'[a] = "disbursed"
  BY <1>1, <1>3 DEF StageSound, Disburses
<1>7. ASSUME NEW g \in Guarantee, Live(g)', guar'[g].linked
      PROVE  stage'[guar'[g].app] = "disbursed"
  <2>1. CASE FreshRow(g) /\ g \in DOMAIN w.guar /\ Inserts(t, g)
    <3>1. guar'[g] = w.guar[g] /\ w.guar[g].app \in Application
      BY <1>0, <2>1, CommitRow DEF Inserts
    <3> QED BY <1>0, <1>6, <1>7, <2>1, <3>1, InsertedFor
  <2>2. CASE Live(g) /\ guar'[g].app = guar[g].app
    <3>1. guar[g].app \in Application
      BY <1>2, <2>2 DEF TablesTyped, RowTyped, Live
    <3>2. CASE guar[g].linked
      BY <1>2, <1>6, <2>2, <3>1, <3>2 DEF TablesAgree
    <3>3. CASE ~guar[g].linked
      <4>1. g \in DOMAIN w.guar
        BY <1>0, <1>7, <3>3, CommitWrites
      <4>2. Keeps(t, g) /\ guar'[g] = w.guar[g]
        BY <1>0, <2>2, <4>1, CommitRow DEF Live, FreshRow
      <4> QED BY <1>3, <1>7, <2>2, <3>1, <3>3, <4>2 DEF Keeps
    <3> QED BY <3>2, <3>3
  <2> QED BY <1>0, <1>7, <2>1, <2>2, LiveAfter
<1>8. ASSUME NEW a \in Application, stage'[a] = "none" PROVE LiveFor(a)' = {}
  <2>1. stage[a] = "none"
    BY <1>1, <1>3, <1>8 DEF StageSound
  <2> SUFFICES ASSUME NEW g \in Guarantee, Live(g)', guar'[g].app = a PROVE FALSE
    BY DEF LiveFor
  <2>2. CASE FreshRow(g) /\ g \in DOMAIN w.guar /\ Inserts(t, g)
    BY <1>0, <2>1, <2>2, CommitRow, InsertedFor
  <2>3. CASE Live(g) /\ guar'[g].app = guar[g].app
    BY <1>2, <2>1, <2>3 DEF TablesAgree, LiveFor
  <2> QED BY <1>0, <2>2, <2>3, LiveAfter
<1> QED BY <1>5, <1>7, <1>8 DEF TablesAgree

LEMMA OneMore ==
  ASSUME NEW S \in SUBSET Guarantee, NEW T \in SUBSET Guarantee, NEW h \in Guarantee,
         S \subseteq T \cup {h}
  PROVE  /\ Cardinality(S) \in Nat /\ Cardinality(T) \in Nat
         /\ Cardinality(S) <= Cardinality(T) + 1
<1>1. IsFiniteSet(T)
  BY CollateralAssumption, FS_Subset
<1>2. IsFiniteSet(T \cup {h}) /\ Cardinality(T \cup {h}) <= Cardinality(T) + 1
      /\ Cardinality(T) \in Nat
  BY <1>1, FS_AddElement, FS_CardinalityType
<1>3. T \cup {h} \in SUBSET Guarantee
  OBVIOUS
<1>4. Cardinality(S) \in Nat /\ Cardinality(T \cup {h}) \in Nat /\ Cardinality(S) <= Cardinality(T \cup {h})
  BY <1>3, GuaranteeSets
<1> QED BY <1>2, <1>4

LEMMA CoveredStep ==
  ASSUME IndInv, NEW r \in Session, Commit(r) PROVE GuaranteesAreCovered'
<1>0. PICK t : t = txn[r]
  OBVIOUS
<1> DEFINE w == t.writes
<1> SUFFICES ASSUME NEW x \in Member PROVE Cardinality(GivenBy(x)') <= balance'[x]
  BY DEF GuaranteesAreCovered
<1>1. /\ Cardinality(GivenBy(x)) <= balance[x] /\ balance[x] \in Nat
      /\ GivenBy(x) \subseteq Guarantee /\ GivenBy(x)' \subseteq Guarantee
  BY DEF IndInv, Promises, GuaranteesAreCovered, TablesTyped, GivenBy
<1>2. CASE \E h \in Guarantee : FreshRow(h) /\ h \in DOMAIN w.guar /\ Inserts(t, h) /\ w.guar[h].by = x
  <2>1. PICK h \in Guarantee : FreshRow(h) /\ h \in DOMAIN w.guar /\ Inserts(t, h) /\ w.guar[h].by = x
    BY <1>2
  <2>2. balance'[x] = balance[x]
    BY <1>0, <2>1, InsertsOnly
  <2>3. CASE DOMAIN w.guar = {h} /\ Cardinality(GivenBy(x)) < balance[x]
    <3>1. GivenBy(x)' \subseteq GivenBy(x) \cup {h}
      BY <1>0, <2>3, LiveAfter DEF GivenBy
    <3>2. /\ Cardinality(GivenBy(x)') \in Nat /\ Cardinality(GivenBy(x)) \in Nat
          /\ Cardinality(GivenBy(x)') <= Cardinality(GivenBy(x)) + 1
      BY <1>1, <3>1, OneMore
    <3> QED BY <1>1, <2>2, <2>3, <3>2
  <2>4. CASE \E g \in Guarantee : /\ g # h /\ DOMAIN w.guar = {g, h} /\ ~FreshRow(g)
                                  /\ w.guar[g].status = "released"
                                  /\ Cardinality(GivenBy(x) \ {g}) < balance[x]
    <3>1. PICK g \in Guarantee : /\ g # h /\ DOMAIN w.guar = {g, h} /\ ~FreshRow(g)
                                 /\ w.guar[g].status = "released"
                                 /\ Cardinality(GivenBy(x) \ {g}) < balance[x]
      BY <2>4
    <3>2. ~Live(g)'
      BY <1>0, <3>1, CommitRow DEF Live
    <3>3. GivenBy(x)' \subseteq (GivenBy(x) \ {g}) \cup {h}
      BY <1>0, <3>1, <3>2, LiveAfter DEF GivenBy
    <3>4. GivenBy(x) \ {g} \subseteq Guarantee
      BY <1>1
    <3>5. /\ Cardinality(GivenBy(x)') \in Nat /\ Cardinality(GivenBy(x) \ {g}) \in Nat
          /\ Cardinality(GivenBy(x)') <= Cardinality(GivenBy(x) \ {g}) + 1
      BY <1>1, <3>3, <3>4, OneMore
    <3> QED BY <1>1, <2>2, <3>1, <3>5
  <2> QED BY <2>1, <2>3, <2>4 DEF Inserts, LinkedTo, LiveFor, Live, FreshRow
<1>3. CASE \A h \in Guarantee : ~(FreshRow(h) /\ h \in DOMAIN w.guar /\ Inserts(t, h) /\ w.guar[h].by = x)
  <2>1. GivenBy(x)' \subseteq GivenBy(x)
    BY <1>0, <1>3, LiveAfter DEF GivenBy
  <2>2. /\ Cardinality(GivenBy(x)') \in Nat /\ Cardinality(GivenBy(x)) \in Nat
        /\ Cardinality(GivenBy(x)') <= Cardinality(GivenBy(x))
    BY <1>1, <2>1, GuaranteeSets
  <2>3. balance'[x] \in Nat /\ Cardinality(GivenBy(x)) <= balance'[x]
    BY <1>0, <1>1, CommitWrites, CommitSound DEF BalanceSound
  <2> QED BY <2>2, <2>3
<1> QED BY <1>2, <1>3

\* If every live guarantee of an application is released, and none inserted,
\* none is left.
LEMMA AllFall ==
  ASSUME IndInv, NEW r \in Session, Commit(r), NEW a, LiveFor(a) \subseteq Falls(txn[r]),
         \A h \in Guarantee : Inserts(txn[r], h) => txn[r].writes.guar[h].app # a
  PROVE  LiveFor(a)' = {}
<1> SUFFICES ASSUME NEW g \in Guarantee, Live(g)', guar'[g].app = a PROVE FALSE
  BY DEF LiveFor
<1> QED BY LiveAfter DEF LiveFor

LEMMA DischargesStep ==
  ASSUME IndInv, NEW r \in Session, Commit(r) PROVE EndedDischargesAll'
<1>0. PICK t : t = txn[r]
  OBVIOUS
<1> DEFINE w == t.writes
<1> SUFFICES ASSUME NEW a \in Application, stage'[a] = "rejected" \/ debt'[a] \in {"closed", "recovered"}
             PROVE  LiveFor(a)' = {}
  BY DEF EndedDischargesAll
<1>1. /\ StageSound(t) /\ LoanSound(t)
      /\ stage'[a] = IF a \in DOMAIN w.stage THEN w.stage[a] ELSE stage[a]
      /\ debt'[a] = IF a \in DOMAIN w.loan THEN w.loan[a] ELSE debt[a]
  BY <1>0, CommitWrites, CommitSound
<1>2. /\ stage[a] = "rejected" \/ debt[a] \in {"closed", "recovered"} => LiveFor(a) = {}
      /\ debt[a] # "none" => stage[a] = "disbursed"
  BY DEF IndInv, Promises, EndedDischargesAll, TablesAgree
<1>3. LiveFor(a) \subseteq Falls(t)
  <2>1. CASE stage'[a] = "rejected"
    BY <1>1, <1>2, <2>1 DEF StageSound
  <2>2. CASE debt'[a] \in {"closed", "recovered"}
    BY <1>1, <1>2, <2>2 DEF LoanSound
  <2> QED BY <2>1, <2>2
<1>4. ASSUME NEW h \in Guarantee, Inserts(t, h), w.guar[h].app = a PROVE FALSE
  <2>1. stage'[a] = stage[a] /\ debt'[a] = debt[a]
    BY <1>0, <1>4, InsertsOnly
  <2>2. stage[a] = "open" \/ (stage[a] = "disbursed" /\ LiveFor(a) # {})
    BY <1>0, <1>4, InsertedFor
  <2> QED BY <1>2, <2>1, <2>2
<1> QED BY <1>0, <1>3, <1>4, AllFall

LEMMA ConsentedStep ==
  ASSUME IndInv, NEW r \in Session, Commit(r) PROVE LoanGuaranteesConsented'
<1>0. PICK t : t = txn[r]
  OBVIOUS
<1> DEFINE w == t.writes
<1> SUFFICES ASSUME NEW a \in Application, stage'[a] = "disbursed",
                    NEW g \in Guarantee, Live(g)', guar'[g].app = a
             PROVE  guar'[g].status = "active" /\ guar'[g].linked
  BY DEF LoanGuaranteesConsented, LiveFor
<1>1. /\ StageSound(t) /\ t.state = "pending"
      /\ stage'[a] = IF a \in DOMAIN w.stage THEN w.stage[a] ELSE stage[a]
  BY <1>0, CommitWrites, CommitSound
<1>2. CASE FreshRow(g) /\ g \in DOMAIN w.guar /\ Inserts(t, g) /\ guar'[g] = w.guar[g]
  BY <1>0, <1>2, InsertsOnly, InsertedFor
<1>3. CASE Live(g) /\ guar'[g].app = guar[g].app
  <2>1. g \in LiveFor(a)
    BY <1>3 DEF LiveFor
  <2>2. CASE a \in DOMAIN w.stage
    <3>1. Disburses(t, a)
      BY <1>1, <2>2 DEF StageSound
    <3>2. g \in Links(t)
      BY <2>1, <3>1 DEF Disburses
    <3> QED BY <1>0, <1>1, <3>2, CommitRow DEF Links
  <2>3. CASE a \notin DOMAIN w.stage
    <3>1. guar[g].status = "active" /\ guar[g].linked
      BY <1>1, <2>1, <2>3 DEF IndInv, Promises, LoanGuaranteesConsented
    <3>2. CASE g \notin DOMAIN w.guar
      BY <1>0, <3>1, <3>2, CommitWrites
    <3>3. CASE g \in DOMAIN w.guar
      <4>1. Keeps(t, g) /\ guar'[g] = w.guar[g]
        BY <1>0, <3>1, <3>3, CommitRow DEF FreshRow
      <4> QED BY <3>1, <4>1 DEF Keeps, Live
    <3> QED BY <3>2, <3>3
  <2> QED BY <2>2, <2>3
<1> QED BY <1>0, <1>2, <1>3, LiveAfter

LEMMA ExitedStep ==
  ASSUME IndInv, NEW r \in Session, Commit(r) PROVE ExitedIsClear'
<1>0. PICK t : t = txn[r]
  OBVIOUS
<1> DEFINE w == t.writes
<1> SUFFICES ASSUME NEW x \in Member, member'[x] = "exited"
             PROVE  /\ balance'[x] = 0 /\ GivenBy(x)' = {}
                    /\ \A a \in Of(x) : /\ ~(stage'[a] \in {"open", "approved"})
                                        /\ debt'[a] \notin {"active", "written_off"}
                                        /\ LiveFor(a)' = {}
  BY DEF ExitedIsClear, Of, InFlight
<1>1. /\ BalanceSound(t) /\ MemberSound(t) /\ StageSound(t) /\ LoanSound(t)
      /\ balance'[x] = IF x \in DOMAIN w.balance THEN w.balance[x] ELSE balance[x]
      /\ member'[x] = IF x \in DOMAIN w.member THEN w.member[x] ELSE member[x]
      /\ \A a \in Application :
           /\ stage'[a] = IF a \in DOMAIN w.stage THEN w.stage[a] ELSE stage[a]
           /\ debt'[a] = IF a \in DOMAIN w.loan THEN w.loan[a] ELSE debt[a]
  BY <1>0, CommitWrites, CommitSound
<1>2. \A a \in Of(x) : a \in Application /\ Borrower[a] = x
  BY DEF Of
<1>3. CASE x \in DOMAIN w.member
  <2>1. \A h \in Guarantee : ~Inserts(t, h)
    BY <1>3 DEF Inserts
  <2>2. balance'[x] = 0 /\ GivenBy(x) = {}
    BY <1>1, <1>3 DEF MemberSound
  <2>3. GivenBy(x)' = {}
    <3> SUFFICES ASSUME NEW g \in Guarantee, Live(g)', guar'[g].by = x PROVE FALSE
      BY DEF GivenBy
    <3> QED BY <1>0, <2>1, <2>2, LiveAfter DEF GivenBy
  <2>4. ASSUME NEW a \in Of(x)
        PROVE  /\ ~(stage'[a] \in {"open", "approved"})
               /\ debt'[a] \notin {"active", "written_off"} /\ LiveFor(a)' = {}
    <3>1. /\ stage'[a] = stage[a] /\ ~InFlight(a)
          /\ debt'[a] \notin {"active", "written_off"}
          /\ LiveFor(a) \subseteq Falls(t)
      BY <1>1, <1>2, <1>3 DEF MemberSound
    <3> QED BY <1>0, <2>1, <3>1, AllFall DEF InFlight
  <2> QED BY <2>2, <2>3, <2>4
<1>4. CASE x \notin DOMAIN w.member
  <2>1. /\ member[x] = "exited" /\ balance[x] = 0 /\ GivenBy(x) = {}
        /\ \A a \in Of(x) : /\ ~InFlight(a) /\ debt[a] \notin {"active", "written_off"}
                            /\ LiveFor(a) = {}
    BY <1>1, <1>4 DEF IndInv, Promises, ExitedIsClear
  <2>2. balance'[x] = 0
    BY <1>1, <2>1 DEF BalanceSound
  <2>3. GivenBy(x)' = {}
    <3> SUFFICES ASSUME NEW g \in Guarantee, Live(g)', guar'[g].by = x PROVE FALSE
      BY DEF GivenBy
    <3> QED BY <1>0, <2>1, LiveAfter DEF GivenBy, Inserts
  <2>5. ASSUME NEW a \in Of(x)
        PROVE  /\ ~(stage'[a] \in {"open", "approved"})
               /\ debt'[a] \notin {"active", "written_off"} /\ LiveFor(a)' = {}
    <3>1. stage'[a] = stage[a] /\ debt'[a] = debt[a]
      BY <1>1, <1>2, <2>1 DEF StageSound, LoanSound, Disburses, InFlight
    <3>2. LiveFor(a) = {} /\ ~InFlight(a) /\ debt[a] \notin {"active", "written_off"}
      BY <2>1
    <3>3. ASSUME NEW h \in Guarantee, Inserts(t, h), w.guar[h].app = a PROVE FALSE
      BY <1>0, <3>2, <3>3, InsertedFor DEF InFlight
    <3>4. LiveFor(a)' = {}
      BY <1>0, <3>2, <3>3, AllFall
    <3> QED BY <3>1, <3>2, <3>4 DEF InFlight
  <2> QED BY <2>2, <2>3, <2>5
<1> QED BY <1>3, <1>4

LEMMA CommitInd ==
  ASSUME IndInv, NEW r \in Session, Commit(r) PROVE IndInv'
<1>1. txn' = [txn EXCEPT ![r] = Resting] /\ DOMAIN txn' = Session
  BY DEF Commit, IndInv
<1>2. TablesTyped' /\ TablesAgree'
  BY TablesTypedStep, TablesAgreeStep
<1>3. Promises'
  BY CoveredStep, DischargesStep, ConsentedStep, ExitedStep DEF Promises
<1>4. LocksExclude'
  <2>1. ~Holding(Resting)
    BY IdleSound
  <2> QED BY <1>1, <2>1 DEF IndInv, LocksExclude, Holding
<1>5. ASSUME NEW s \in Session PROVE Sound(txn[s])'
  <2>1. CASE s = r
    <3>1. txn'[r] = Resting
      BY <1>1 DEF IndInv
    <3> QED BY <2>1, <3>1 DEF Sound, TxnTyped, ProbeSound, WritesSound, Holding, Resting
  <2>2. CASE s # r
    BY <2>2, SoundStays
  <2> QED BY <2>1, <2>2
<1> QED BY <1>1, <1>2, <1>3, <1>4, <1>5 DEF IndInv

-----------------------------------------------------------------------------
(* Theorems.                                                               *)

LEMMA NextInd == ASSUME IndInv, [CollateralNext]_collateralVars PROVE IndInv'
<1>1. CASE UNCHANGED collateralVars
  BY <1>1, StutterInd
<1>2. ASSUME NEW s \in Session, UpdateRows(s) \/ Commit(s) \/ Abort(s) \/ Release(s)
      PROVE  IndInv'
  BY <1>2, UpdateRowsInd, CommitInd, AbortInd, ReleaseInd
<1>3. ASSUME NEW s \in Session, NEW a \in Application,
             \/ CreateApplication(s, a) \/ Approve(s, a) \/ Reject(s, a) \/ Disburse(s, a)
             \/ Repay(s, a) \/ WriteOff(s, a) \/ Recover(s, a) \/ Reopen(s, a)
             \/ \E g \in Guarantee, n \in Member : PledgeGuarantee(s, a, g, n)
      PROVE  IndInv'
  BY <1>3, CreateInd, ApproveInd, RejectInd, DisburseInd, RepayInd, WriteOffInd, RecoverInd,
     ReopenInd, PledgeInd
<1>4. ASSUME NEW s \in Session, NEW g \in Guarantee,
             Consent(s, g) \/ Probe(s, g) \/ \E n \in Member : Substitute(s, g, n)
      PROVE  IndInv'
  BY <1>4, ConsentInd, ProbeInd, SubstituteInd
<1>5. ASSUME NEW s \in Session, NEW x \in Member, Deposit(s, x) \/ Withdraw(s, x) \/ SettleExit(s, x)
      PROVE  IndInv'
  BY <1>5, DepositInd, WithdrawInd, SettleInd
<1> QED BY <1>1, <1>2, <1>3, <1>4, <1>5 DEF CollateralNext

LEMMA Inductive == CollateralSpec => []IndInv
<1>1. IndInv /\ [CollateralNext]_collateralVars => IndInv'
  BY NextInd
<1> QED BY InitInd, <1>1, PTL DEF CollateralSpec

\* The tables keep their types, and a loan exists exactly behind a disbursed
\* application.
THEOREM TypeCorrect == CollateralSpec => [](TablesTyped /\ TablesAgree)
<1>1. IndInv => TablesTyped /\ TablesAgree
  BY DEF IndInv
<1> QED BY <1>1, Inductive, PTL

\* However pledges, substitutions, withdrawals and releases interleave, what
\* a member guarantees never exceeds its deposits.
THEOREM Covered == CollateralSpec => []GuaranteesAreCovered
<1>1. IndInv => GuaranteesAreCovered
  BY DEF IndInv, Promises
<1> QED BY <1>1, Inductive, PTL

\* A loan that is closed or recovered, and an application that is rejected,
\* has discharged every guarantor.
THEOREM Discharged == CollateralSpec => []EndedDischargesAll
<1>1. IndInv => EndedDischargesAll
  BY DEF IndInv, Promises
<1> QED BY <1>1, Inductive, PTL

\* Behind a disbursed loan every live guarantee is consented and linked.
THEOREM Consented == CollateralSpec => []LoanGuaranteesConsented
<1>1. IndInv => LoanGuaranteesConsented
  BY DEF IndInv, Promises
<1> QED BY <1>1, Inductive, PTL

\* An exited member has no money, no obligation and no obligation to it.
THEOREM ExitedClear == CollateralSpec => []ExitedIsClear
<1>1. IndInv => ExitedIsClear
  BY DEF IndInv, Promises
<1> QED BY <1>1, Inductive, PTL

\* Only a commit changes the tables.
LEMMA OnlyCommitWrites ==
  ASSUME [CollateralNext]_collateralVars, ~\E s \in Session : Commit(s) PROVE UNCHANGED tables
<1>1. \A s, locks, writes : RunIdle(s, locks, writes) \/ Run(s, locks, writes) => UNCHANGED tables
  BY DEF RunIdle, Run
<1>2. \A s, locks, writes, rows, change : RunUpdate(s, locks, writes, rows, change) => UNCHANGED tables
  BY DEF RunUpdate
<1>3. CASE UNCHANGED collateralVars
  BY <1>3 DEF collateralVars, tables
<1>4. ASSUME NEW s \in Session, UpdateRows(s) \/ Abort(s) \/ Release(s) PROVE UNCHANGED tables
  BY <1>1, <1>4 DEF UpdateRows, Abort, Release
<1>5. ASSUME NEW s \in Session, NEW a \in Application,
             \/ CreateApplication(s, a) \/ Approve(s, a) \/ Reject(s, a) \/ Disburse(s, a)
             \/ Repay(s, a) \/ WriteOff(s, a) \/ Recover(s, a) \/ Reopen(s, a)
             \/ \E g \in Guarantee, n \in Member : PledgeGuarantee(s, a, g, n)
      PROVE  UNCHANGED tables
  BY <1>1, <1>2, <1>5 DEF CreateApplication, Approve, Reject, Disburse, Repay, WriteOff, Recover,
     Reopen, PledgeGuarantee, LoanEnds
<1>6. ASSUME NEW s \in Session, NEW g \in Guarantee,
             Consent(s, g) \/ Probe(s, g) \/ \E n \in Member : Substitute(s, g, n)
      PROVE  UNCHANGED tables
  BY <1>1, <1>6 DEF Consent, Probe, Substitute
<1>7. ASSUME NEW s \in Session, NEW x \in Member, Deposit(s, x) \/ Withdraw(s, x) \/ SettleExit(s, x)
      PROVE  UNCHANGED tables
  BY <1>1, <1>2, <1>7 DEF Deposit, Withdraw, SettleExit
<1> QED BY <1>3, <1>4, <1>5, <1>6, <1>7 DEF CollateralNext

\* While a loan is outstanding only a substitution removes a guarantee of it.
LEMMA ShrinkStep ==
  ASSUME IndInv, [CollateralNext]_collateralVars, NEW a \in Application,
         debt[a] \in {"active", "written_off"}, debt'[a] \in {"active", "written_off"}
  PROVE  Cardinality(LiveFor(a)') >= Cardinality(LiveFor(a))
<1>1. CASE UNCHANGED tables
  <2>1. LiveFor(a)' = LiveFor(a)
    BY <1>1 DEF tables, LiveFor, Live
  <2>2. Cardinality(LiveFor(a)) \in Nat
    BY GuaranteeSets DEF LiveFor
  <2> QED BY <2>1, <2>2
<1>2. ASSUME NEW r \in Session, Commit(r)
      PROVE  Cardinality(LiveFor(a)') >= Cardinality(LiveFor(a))
  <2>0. PICK t : t = txn[r]
    OBVIOUS
  <2>1. LiveFor(a) \in SUBSET Guarantee /\ LiveFor(a)' \in SUBSET Guarantee
    BY DEF LiveFor
  <2>2. stage[a] = "disbursed" /\ FallSound(t)
    BY <1>2, <2>0, CommitSound DEF IndInv, TablesAgree
  <2>3. CASE LiveFor(a) \cap Falls(t) = {}
    <3>1. LiveFor(a) \subseteq LiveFor(a)'
      BY <1>2, <2>0, <2>3, LiveBefore DEF LiveFor
    <3> QED BY <2>1, <3>1, GuaranteeSets
  <2>4. ASSUME NEW g \in LiveFor(a) \cap Falls(t)
        PROVE  Cardinality(LiveFor(a)') >= Cardinality(LiveFor(a))
    <3>1. guar[g].app = a /\ g \in Guarantee /\ Live(g)
      BY DEF LiveFor
    <3>2. ~(a \in DOMAIN t.writes.loan /\ t.writes.loan[a] \in {"closed", "recovered"})
      BY <1>2, <2>0, CommitWrites
    <3>3. PICK h \in Guarantee : /\ DOMAIN t.writes.guar = {g, h} /\ FreshRow(h)
                                 /\ t.writes.guar[h].app = a /\ t.writes.guar[h].status = "active"
      BY <2>2, <3>1, <3>2 DEF FallSound
    <3>4. h # g /\ h \notin LiveFor(a)
      BY <3>1, <3>3 DEF LiveFor, Live, FreshRow
    <3>5. h \in LiveFor(a)'
      BY <1>2, <2>0, <3>3, CommitRow DEF LiveFor, Live
    <3>6. (LiveFor(a) \ {g}) \cup {h} \subseteq LiveFor(a)'
      <4>1. ASSUME NEW k \in LiveFor(a), k # g PROVE k \in LiveFor(a)'
        <5>1. k \notin DOMAIN t.writes.guar /\ k \in Guarantee
          BY <2>1, <3>3, <3>4, <4>1
        <5>2. guar'[k] = guar[k]
          BY <1>2, <2>0, <5>1, CommitWrites
        <5> QED BY <5>1, <5>2 DEF LiveFor, Live
      <4> QED BY <3>5, <4>1
    <3>7. IsFiniteSet(LiveFor(a)) /\ IsFiniteSet(LiveFor(a) \ {g})
      BY <2>1, CollateralAssumption, FS_Subset
    <3>8. Cardinality(LiveFor(a) \ {g}) = Cardinality(LiveFor(a)) - 1
          /\ Cardinality(LiveFor(a)) \in Nat /\ Cardinality(LiveFor(a) \ {g}) \in Nat
      BY <3>7, FS_RemoveElement, FS_CardinalityType
    <3>9. Cardinality((LiveFor(a) \ {g}) \cup {h}) = Cardinality(LiveFor(a) \ {g}) + 1
      BY <3>4, <3>7, FS_AddElement
    <3>10. Cardinality((LiveFor(a) \ {g}) \cup {h}) <= Cardinality(LiveFor(a)')
      <4>1. (LiveFor(a) \ {g}) \cup {h} \in SUBSET Guarantee
        BY <2>1, <3>3
      <4> QED BY <2>1, <3>6, <4>1, GuaranteeSets
    <3>11. Cardinality(LiveFor(a)') \in Nat
      BY <2>1, GuaranteeSets
    <3> QED BY <3>8, <3>9, <3>10, <3>11
  <2> QED BY <2>3, <2>4
<1> QED BY <1>1, <1>2, OnlyCommitWrites

\* While a loan is outstanding its collateral never shrinks.
THEOREM NeverShrinks == CollateralSpec => CollateralNeverShrinks
<1>1. ASSUME IndInv, [CollateralNext]_collateralVars
      PROVE  [\A a \in Application :
                debt[a] \in {"active", "written_off"} /\ debt'[a] \in {"active", "written_off"}
                  => Cardinality(LiveFor(a)') >= Cardinality(LiveFor(a))]_collateralVars
  BY <1>1, ShrinkStep
<1> QED BY <1>1, Inductive, PTL DEF CollateralSpec, CollateralNeverShrinks

LEMMA DisbursedStep ==
  ASSUME IndInv, [CollateralNext]_collateralVars, NEW a \in Application,
         stage[a] # "disbursed", stage'[a] = "disbursed"
  PROVE  Requested[a] <= Eligible(a, {})'
<1>1. ~UNCHANGED tables
  BY DEF tables
<1>2. PICK r \in Session : Commit(r)
  BY <1>1, OnlyCommitWrites
<1>3. PICK t : t = txn[r]
  OBVIOUS
<1>4. a \in DOMAIN t.writes.stage /\ Disburses(t, a)
  BY <1>2, <1>3, CommitWrites, CommitSound DEF StageSound
<1>5. balance'[Borrower[a]] = balance[Borrower[a]]
  BY <1>2, <1>3, <1>4, CommitWrites, CollateralAssumption DEF Disburses
<1>6. LiveFor(a) \subseteq LiveFor(a)'
  BY <1>2, <1>3, <1>4, LiveBefore DEF LiveFor, Disburses
<1>7. \A h \in Guarantee : ~Inserts(t, h)
  BY <1>4 DEF Inserts
<1>8. LiveFor(a)' \subseteq LiveFor(a)
  BY <1>2, <1>3, <1>7, LiveAfter DEF LiveFor
<1>9. Eligible(a, {})' = Eligible(a, {})
  BY <1>5, <1>6, <1>8 DEF Eligible
<1> QED BY <1>4, <1>9 DEF Disburses

\* At the commit of a disbursement the deposits and guarantees of that moment
\* carry the loan.
THEOREM CoveredDisbursement == CollateralSpec => CoveredWhenDisbursed
<1>1. ASSUME IndInv, [CollateralNext]_collateralVars
      PROVE  [\A a \in Application :
                stage[a] # "disbursed" /\ stage'[a] = "disbursed" => Requested[a] <= Eligible(a, {})']_collateralVars
  BY <1>1, DisbursedStep
<1> QED BY <1>1, Inductive, PTL DEF CollateralSpec, CoveredWhenDisbursed
=============================================================================
