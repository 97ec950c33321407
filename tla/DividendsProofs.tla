--------------------------- MODULE DividendsProofs ---------------------------
(***************************************************************************)
(* Proofs about Dividends for any members, rates, balances, quorum, batch  *)
(* size and number of runs, and any finite set of declarations.            *)
(*                                                                         *)
(* A year is paid out once.  Only a batch grants money, and only to a      *)
(* declaration it holds FOR SHARE, which was not rejected when the batch   *)
(* took it.  A run works on a declaration that was approved once, and the  *)
(* row of one that is held is not voided; so what has claims is approved   *)
(* or distributed, and of such declarations the unique index admits one.   *)
(*                                                                         *)
(* Money is conserved.  A batch grants to unclaimed members only, so the   *)
(* total granted under a declaration grows by exactly what the batch       *)
(* credits or owes; the final check that stores "distributed" compares     *)
(* that total, which never falls again.                                    *)
(***************************************************************************)
EXTENDS Dividends, SetLemmas, TLAPS

RowsTyped ==
  /\ DOMAIN declared = Declaration /\ DOMAIN run = Run
  /\ DOMAIN claims = Declaration
  /\ \A d \in Declaration : DOMAIN claims[d] = Member

Decided == {"approved", "distributed"}
OnDeclaration == {"verifying", "comparing", "paying", "disposing", "locked", "finishing"}

\* Whatever run w is at, its declaration has been through the vote; the one
\* a batch holds is not voided.
WorksOnApproved(w) ==
  /\ w.step \in OnDeclaration =>
       w.d \in Declaration /\ declared[w.d].status \in Decided \union {"rejected"}
  /\ w.step = "locked" => declared[w.d].status \in Decided

RunsOnApproved == \A r \in Run : WorksOnApproved(run[r])
ClaimsOnDecided == \A d \in Declaration : HasClaims(d) => declared[d].status \in Decided
OneLive == \A d, e \in Live : d = e

IndInv == RowsTyped /\ RunsOnApproved /\ ClaimsOnDecided /\ OneLive

LEMMA InitInd == Init => IndInv
<1> SUFFICES ASSUME Init PROVE IndInv
  OBVIOUS
<1>1. RowsTyped
  BY DEF Init, RowsTyped
<1>2. \A r \in Run : run[r].step = "idle"
  BY DEF Init, Idle
<1>3. RunsOnApproved
  BY <1>2 DEF RunsOnApproved, WorksOnApproved, OnDeclaration
<1>4. ClaimsOnDecided
  BY DEF Init, ClaimsOnDecided, HasClaims, NoClaim
<1>5. OneLive
  BY DEF Init, OneLive, Live, NoRow
<1> QED BY <1>1, <1>3, <1>4, <1>5 DEF IndInv

LEMMA PaidOnce == IndInv => YearPaidOnce
  BY DEF IndInv, ClaimsOnDecided, OneLive, YearPaidOnce, Granted, HasClaims, Live, Decided

\* A step of one session, the others where they were.
OneRun(r) == DOMAIN run' = Run /\ \A q \in Run \ {r} : run'[q] = run[q]

LEMMA RunInd ==
  ASSUME IndInv, UNCHANGED <<declared, claims>>, NEW r \in Run, OneRun(r), WorksOnApproved(run'[r])
  PROVE  IndInv'
<1>1. RowsTyped'
  BY DEF IndInv, RowsTyped, OneRun
<1>2. RunsOnApproved'
  BY DEF IndInv, OneRun, RunsOnApproved, WorksOnApproved
<1>3. ClaimsOnDecided' /\ OneLive'
  BY DEF IndInv, ClaimsOnDecided, HasClaims, OneLive, Live
<1> QED BY <1>1, <1>2, <1>3 DEF IndInv

LEMMA IdleWorks == WorksOnApproved(Idle)
  BY DEF WorksOnApproved, Idle, OnDeclaration

\* A declaration whose row changes; to be rejected, no batch holds it.
OneRow(d) == DOMAIN declared' = Declaration /\ \A e \in Declaration \ {d} : declared'[e] = declared[e]

LEMMA RowInd ==
  ASSUME IndInv, UNCHANGED claims, NEW d \in Declaration, OneRow(d),
         declared[d].status \in {"approved", "distributed", "rejected"} =>
           declared'[d].status \in {"approved", "distributed", "rejected"},
         declared'[d].status \notin Decided => ~HasClaims(d) /\ \A r \in Run : ~HoldsDeclaration(r, d),
         d \in Live \/ Live = {},
         \A r \in Run : run'[r] = run[r] \/ run'[r] = Idle, DOMAIN run' = Run
  PROVE  IndInv'
<1>1. RowsTyped'
  BY DEF IndInv, RowsTyped, OneRow
<1>2. \A e \in Declaration : e # d => declared'[e] = declared[e]
  BY DEF OneRow
<1>3. RunsOnApproved'
  <2> SUFFICES ASSUME NEW r \in Run PROVE WorksOnApproved(run[r])' 
    BY DEF RunsOnApproved
  <2>1. CASE run'[r] = Idle
    BY <2>1 DEF WorksOnApproved, Idle, OnDeclaration
  <2>2. CASE run'[r] = run[r]
    BY <1>2, <2>2 DEF IndInv, RunsOnApproved, WorksOnApproved, OnDeclaration, HoldsDeclaration, Decided
  <2> QED BY <2>1, <2>2
<1>4. ClaimsOnDecided'
  BY <1>2 DEF IndInv, ClaimsOnDecided, HasClaims, Decided
<1>5. OneLive'
  BY <1>2 DEF IndInv, OneLive, Live
<1> QED BY <1>1, <1>3, <1>4, <1>5 DEF IndInv

LEMMA InsertInd ==
  ASSUME IndInv, NEW r \in Run, NEW d \in Declaration, InsertDeclaration(r, d) PROVE IndInv'
<1>1. /\ UNCHANGED claims /\ OneRow(d) /\ Live = {}
      /\ declared[d].status = "none" /\ declared'[d].status = "declared"
  BY DEF InsertDeclaration, books, NoRow, Row, OneRow, IndInv, RowsTyped
<1>2. (\A q \in Run : run'[q] = run[q] \/ run'[q] = Idle) /\ DOMAIN run' = Run
  BY DEF InsertDeclaration, IndInv, RowsTyped
<1>3. ~HasClaims(d) /\ \A q \in Run : ~HoldsDeclaration(q, d)
  BY <1>1 DEF IndInv, ClaimsOnDecided, RunsOnApproved, WorksOnApproved, HoldsDeclaration, Decided
<1> QED BY <1>1, <1>2, <1>3, RowInd

LEMMA VoteInd ==
  ASSUME IndInv, NEW d \in Declaration, NEW u \in User, NEW approve \in BOOLEAN,
         CastVote(d, u, approve)
  PROVE  IndInv'
<1>1. declared[d].status = "declared" /\ UNCHANGED <<claims, run>> /\ OneRow(d)
  BY DEF CastVote, books, OneRow, IndInv, RowsTyped
<1>2. ~HasClaims(d) /\ \A q \in Run : ~HoldsDeclaration(q, d)
  BY <1>1 DEF IndInv, ClaimsOnDecided, RunsOnApproved, WorksOnApproved, HoldsDeclaration, Decided
<1>3. d \in Live /\ DOMAIN run' = Run
  BY <1>1 DEF Live, IndInv, RowsTyped
<1> QED BY <1>1, <1>2, <1>3, RowInd

LEMMA VoidInd ==
  ASSUME IndInv, NEW d \in Declaration, VoidDeclaration(d) PROVE IndInv'
<1>1. /\ UNCHANGED <<claims, run>> /\ OneRow(d)
      /\ declared[d].status \in {"declared", "approved"} /\ declared'[d].status = "rejected"
      /\ ~HasClaims(d) /\ \A q \in Run : ~HoldsDeclaration(q, d)
  BY DEF VoidDeclaration, Voidable, books, WithStatus, Row, OneRow, IndInv, RowsTyped
<1>2. d \in Live /\ DOMAIN run' = Run
  BY <1>1 DEF Live, IndInv, RowsTyped
<1> QED BY <1>1, <1>2, RowInd

LEMMA OpenInd ==
  ASSUME IndInv, NEW r \in Run, NEW d \in Declaration, NEW u \in User, OpenDistribution(r, d, u)
  PROVE  IndInv'
<1>1. /\ UNCHANGED <<declared, claims>> /\ OneRun(r) /\ declared[d].status = "approved"
      /\ run'[r].step \in {"paying", "verifying"} /\ run'[r].d = d
  BY DEF OpenDistribution, books, OneRun, IndInv, RowsTyped
<1> QED BY <1>1, RunInd DEF WorksOnApproved, Decided

LEMMA DeclareInd ==
  ASSUME IndInv, NEW r \in Run, NEW u \in User, BeginDeclare(r, u) PROVE IndInv'
<1>1. UNCHANGED <<declared, claims>> /\ OneRun(r) /\ run'[r].step = "declaring"
  BY DEF BeginDeclare, books, OneRun, IndInv, RowsTyped
<1> QED BY <1>1, RunInd DEF WorksOnApproved, OnDeclaration

LEMMA AddInd ==
  ASSUME IndInv, NEW r \in Run, AddBatch(r) PROVE IndInv'
<1>1. UNCHANGED <<declared, claims>> /\ OneRun(r) /\ run[r].step \in {"declaring", "verifying"}
  BY DEF AddBatch, books, OneRun, IndInv, RowsTyped
<1>2. CASE run[r].step = "declaring"
  <2>1. run'[r].step \in {"declaring", "inserting"}
    BY <1>2 DEF AddBatch, IndInv, RowsTyped
  <2> QED BY <1>1, <2>1, RunInd DEF WorksOnApproved, OnDeclaration
<1>3. CASE run[r].step = "verifying"
  <2>1. run'[r].step \in {"verifying", "comparing"} /\ run'[r].d = run[r].d
    BY <1>3 DEF AddBatch, IndInv, RowsTyped
  <2>2. WorksOnApproved(run'[r])
    BY <1>3, <2>1 DEF WorksOnApproved, IndInv, RunsOnApproved, OnDeclaration
  <2> QED BY <1>1, <2>2, RunInd
<1> QED BY <1>1, <1>2, <1>3

LEMMA CompareInd ==
  ASSUME IndInv, NEW r \in Run, Compare(r) PROVE IndInv'
<1> DEFINE agree == run[r].totals = declared[run[r].d].totals
<1>1. UNCHANGED <<declared, claims>> /\ OneRun(r) /\ run[r].step = "comparing"
  BY DEF Compare, books, OneRun, IndInv, RowsTyped
<1>2. CASE agree
  <2>1. run'[r].step = "paying" /\ run'[r].d = run[r].d
    BY <1>2 DEF Compare, IndInv, RowsTyped
  <2>2. WorksOnApproved(run'[r])
    BY <1>1, <2>1 DEF WorksOnApproved, IndInv, RunsOnApproved, OnDeclaration
  <2> QED BY <1>1, <2>2, RunInd
<1>3. CASE ~agree
  <2>1. run'[r] = Idle
    BY <1>3 DEF Compare, IndInv, RowsTyped
  <2> QED BY <1>1, <2>1, IdleWorks, RunInd
<1> QED BY <1>2, <1>3

\* The batch takes the row FOR SHARE after it has looked at the status.
LEMMA ScanInd ==
  ASSUME IndInv, NEW r \in Run, Scan(r) PROVE IndInv'
<1>1. /\ UNCHANGED <<declared, claims>> /\ OneRun(r)
      /\ run'[r].step = "locked" /\ run'[r].d = run[r].d
      /\ run[r].step \in {"paying", "disposing"} /\ declared[run[r].d].status # "rejected"
  BY DEF Scan, StillDeclared, books, OneRun, IndInv, RowsTyped
<1>2. WorksOnApproved(run'[r])
  BY <1>1 DEF WorksOnApproved, IndInv, RunsOnApproved, OnDeclaration, Decided
<1> QED BY <1>1, <1>2, RunInd

\* A batch: it grants under the declaration it holds.
LEMMA GrantInd ==
  ASSUME IndInv, UNCHANGED declared, NEW r \in Run, run[r].step = "locked",
         run[r].pass \in {"paying", "disposing"}, run' = [run EXCEPT ![r] = NextPass(run[r])],
         DOMAIN claims' = Declaration, DOMAIN claims'[run[r].d] = Member,
         \A e \in Declaration : e # run[r].d => claims'[e] = claims[e]
  PROVE  IndInv'
<1>1. declared[run[r].d].status \in Decided /\ run[r].d \in Declaration
  BY DEF IndInv, RunsOnApproved, WorksOnApproved, OnDeclaration
<1>2. OneRun(r) /\ run'[r] = NextPass(run[r])
  BY DEF IndInv, RowsTyped, OneRun
<1>3. run'[r].d = run[r].d /\ run'[r].step \in {"paying", "disposing", "finishing"}
  BY <1>2 DEF NextPass
<1>4. RowsTyped'
  BY <1>1, <1>2 DEF IndInv, RowsTyped, OneRun
<1>5. RunsOnApproved'
  BY <1>1, <1>2, <1>3 DEF IndInv, OneRun, RunsOnApproved, WorksOnApproved
<1>6. ClaimsOnDecided'
  BY <1>1 DEF IndInv, ClaimsOnDecided, HasClaims
<1>7. OneLive'
  BY DEF IndInv, OneLive, Live
<1> QED BY <1>4, <1>5, <1>6, <1>7 DEF IndInv

LEMMA PayInd ==
  ASSUME IndInv, NEW r \in Run, PayBatch(r) PROVE IndInv'
<1>1. /\ run[r].step = "locked" /\ run[r].pass = "paying" /\ UNCHANGED declared
      /\ run' = [run EXCEPT ![r] = NextPass(run[r])]
  BY DEF PayBatch
<1>2. run[r].d \in Declaration
  BY <1>1 DEF IndInv, RunsOnApproved, WorksOnApproved, OnDeclaration
<1>3. /\ DOMAIN claims' = Declaration /\ DOMAIN claims'[run[r].d] = Member
      /\ \A e \in Declaration : e # run[r].d => claims'[e] = claims[e]
  BY <1>2 DEF PayBatch, IndInv, RowsTyped
<1> QED BY <1>1, <1>3, GrantInd

LEMMA DisposeInd ==
  ASSUME IndInv, NEW r \in Run, DisposeUnclaimed(r) PROVE IndInv'
<1>1. /\ run[r].step = "locked" /\ run[r].pass = "disposing" /\ UNCHANGED declared
      /\ run' = [run EXCEPT ![r] = NextPass(run[r])]
  BY DEF DisposeUnclaimed
<1>2. run[r].d \in Declaration
  BY <1>1 DEF IndInv, RunsOnApproved, WorksOnApproved, OnDeclaration
<1>3. /\ DOMAIN claims' = Declaration /\ DOMAIN claims'[run[r].d] = Member
      /\ \A e \in Declaration : e # run[r].d => claims'[e] = claims[e]
  BY <1>2 DEF DisposeUnclaimed, IndInv, RowsTyped
<1> QED BY <1>1, <1>3, GrantInd

LEMMA FinishInd ==
  ASSUME IndInv, NEW r \in Run, FinishDistribution(r) PROVE IndInv'
<1> DEFINE d == run[r].d
<1>1. /\ UNCHANGED claims /\ OneRun(r) /\ run'[r] = Idle /\ run[r].step = "finishing"
  BY DEF FinishDistribution, books, OneRun, IndInv, RowsTyped
<1>2. CASE Reconciles(d) /\ declared[d].status = "approved"
  <2>1. d \in Declaration /\ d \in Live
    BY <1>1, <1>2 DEF IndInv, RunsOnApproved, WorksOnApproved, OnDeclaration, Live
  <2>2. OneRow(d) /\ declared'[d].status = "distributed"
    BY <1>2, <2>1 DEF FinishDistribution, WithStatus, Row, OneRow, IndInv, RowsTyped
  <2>3. (\A q \in Run : run'[q] = run[q] \/ run'[q] = Idle) /\ DOMAIN run' = Run
    BY <1>1 DEF OneRun
  <2> HIDE DEF d
  <2> QED BY <1>1, <2>1, <2>2, <2>3, RowInd DEF Decided
<1>3. CASE ~(Reconciles(d) /\ declared[d].status = "approved")
  <2>1. UNCHANGED declared
    BY <1>3 DEF FinishDistribution
  <2> QED BY <1>1, <2>1, IdleWorks, RunInd
<1> QED BY <1>2, <1>3

LEMMA AbandonInd ==
  ASSUME IndInv, NEW r \in Run, Abandon(r) PROVE IndInv'
<1>1. UNCHANGED <<declared, claims>> /\ OneRun(r) /\ run'[r] = Idle
  BY DEF Abandon, books, OneRun, IndInv, RowsTyped
<1> QED BY <1>1, IdleWorks, RunInd

\* Steps that leave declarations, claims and runs alone.
LEMMA AroundInd ==
  ASSUME IndInv, UNCHANGED <<declared, claims, run>> PROVE IndInv'
  BY DEF IndInv, RowsTyped, RunsOnApproved, WorksOnApproved, ClaimsOnDecided, HasClaims, OneLive, Live

LEMMA NextInd == IndInv /\ [Next]_vars => IndInv'
<1> SUFFICES ASSUME IndInv, [Next]_vars PROVE IndInv'
  OBVIOUS
<1>1. ASSUME NEW r \in Rate, Configure(r) PROVE IndInv'
  BY <1>1, AroundInd DEF Configure, books
<1>2. CASE ClosePeriod \/ UNCHANGED vars
  BY <1>2, AroundInd DEF ClosePeriod, books, vars
<1>3. ASSUME NEW m \in Member, PostInterest(m) \/ SettleExit(m) PROVE IndInv'
  BY <1>3, AroundInd DEF PostInterest, SettleExit, books
<1> HIDE DEF IndInv
<1> QED
  BY <1>1, <1>2, <1>3, DeclareInd, InsertInd, VoteInd, VoidInd, OpenInd, AddInd, CompareInd, ScanInd,
     PayInd, DisposeInd, FinishInd, AbandonInd, Zenon DEF Next

\* However runs, votes and voids interleave and die, no member is granted
\* money under two declarations of the year, and a voided one grants none.
THEOREM YearIsPaidOnce == Spec => []YearPaidOnce
  BY InitInd, NextInd, PaidOnce, PTL DEF Spec

-----------------------------------------------------------------------------
(* Money is conserved and a distributed declaration is honoured.           *)

Pair == [share : Nat, deposit : Nat]
RateRow == [dividend : Nat, rebate : Nat]
ClaimRow == {c \in [how : {"none", "paid", "unclaimed"}, amount : Nat] : c.how = "none" => c.amount = 0}

AmountsTyped ==
  /\ days \in [Member -> Pair] /\ credited \in [Member -> Pair] /\ payable \in Nat
  /\ claims \in [Declaration -> [Member -> ClaimRow]]

\* Every rate that is or will be paid at was configured.
RatesTyped ==
  /\ rate \in RateRow
  /\ \A d \in Declaration : declared[d].status # "none" => declared[d].rate \in RateRow
  /\ \A r \in Run : run[r].step \in {"declaring", "inserting"} => run[r].rate \in RateRow

Honoured(d) ==
  declared[d].status = "distributed" =>
    /\ Paid(declared[d].totals) \in Nat /\ declared[d].totals.members \in Nat
    /\ GrantedTotal(d) >= Paid(declared[d].totals)
    /\ Cardinality(Granted(d)) >= declared[d].totals.members

Accounts == [m \in Member |-> credited[m].share + credited[m].deposit]
Grants == [d \in Declaration |-> GrantedTotal(d)]
Conserved == Sum(Accounts, Member) + payable = Sum(Grants, Declaration)

PaidInv ==
  /\ IndInv /\ AmountsTyped /\ RatesTyped /\ Conserved
  /\ \A d \in Declaration : Honoured(d)

LEMMA SumIsSumOf == \A f, S : Sum(f, S) = SumOf(f, S)
  BY DEF Sum, SumOf

LEMMA MembersFinite == IsFiniteSet(Member) /\ \A S : S \subseteq Member => IsFiniteSet(S)
<1>1. IsFiniteSet(Member)
  BY ConstantsAssumption, FS_Interval DEF Member
<1> QED BY <1>1, FS_Subset

LEMMA CentsIsNat ==
  ASSUME NEW n \in Nat, NEW d \in Nat \ {0}
  PROVE  Cents(n, d) \in Nat
<1>1. PICK a, b : a = 2 * n + d /\ b = 2 * d
  OBVIOUS
<1>2. a \in Nat /\ b \in Nat /\ b > 0
  BY <1>1
<1>3. a \div b \in Nat
  BY <1>2
<1> QED BY <1>1, <1>3 DEF Cents

LEMMA AmountIsNat ==
  ASSUME NEW n \in Nat, NEW p \in Nat
  PROVE  Amount(n, p) \in Nat
<1>1. n * p \in Nat
  OBVIOUS
<1> QED BY <1>1, CentsIsNat DEF Amount

\* What member m is entitled to, and how it is split over the accounts.
LEMMA EntitlementSplit ==
  ASSUME NEW m \in Member, days[m] \in Pair, NEW r \in RateRow
  PROVE  /\ Total(Entitlement(m, r)) \in Nat
         /\ Credit(m, Entitlement(m, r)) \in Pair
         /\ Credit(m, Entitlement(m, r)).share + Credit(m, Entitlement(m, r)).deposit
              = Total(Entitlement(m, r))
<1>1. PICK e : e = Entitlement(m, r)
  OBVIOUS
<1>2. e.dividend \in Nat /\ e.rebate \in Nat
  BY <1>1, ConstantsAssumption, CentsIsNat, AmountIsNat DEF Entitlement, Pair, RateRow
<1>3. Total(e) \in Nat /\ Total(e) = e.dividend + e.rebate
  BY <1>2 DEF Total
<1>4. Payout[m] \in {"shares", "deposits", "default"}
  BY ConstantsAssumption
<1>5. /\ Credit(m, e) \in Pair
      /\ Credit(m, e).share + Credit(m, e).deposit = Total(e)
  BY <1>2, <1>3, <1>4 DEF Credit, Pair
<1> QED BY <1>1, <1>3, <1>5

Grant(d, S, amount, how) ==
  [claims EXCEPT ![d] = [m \in Member |-> IF m \in S THEN [how |-> how, amount |-> amount[m]] ELSE @[m]]]

\* Members S are granted amounts under declaration d: nobody twice, so that
\* the total granted grows by what they are granted.
LEMMA Granting ==
  ASSUME AmountsTyped, NEW d \in Declaration, NEW S, S \subseteq Unclaimed(d),
         NEW amount, \A m \in S : amount[m] \in Nat, NEW how \in {"paid", "unclaimed"},
         claims' = Grant(d, S, amount, how)
  PROVE  /\ claims' \in [Declaration -> [Member -> ClaimRow]]
         /\ Sum(Grants, Declaration)' = Sum(Grants, Declaration) + SumOf(amount, S)
         /\ Sum(Grants, Declaration) \in Int /\ SumOf(amount, S) \in Nat
         /\ \A e \in Declaration :
              /\ GrantedTotal(e)' >= GrantedTotal(e) /\ GrantedTotal(e)' \in Nat /\ GrantedTotal(e) \in Nat
              /\ Granted(e) \subseteq Granted(e)'
<1> DEFINE old == [m \in Member |-> claims[d][m].amount]
           gain == [m \in Member |-> IF m \in S THEN amount[m] ELSE 0]
           new == [m \in Member |-> claims'[d][m].amount]
<1>1. S \subseteq Member /\ \A m \in S : claims[d][m].how = "none"
  BY DEF Unclaimed
<1>2. IsFiniteSet(Member) /\ IsFiniteSet(S)
  BY <1>1, MembersFinite
<1>3. claims'[d] = [m \in Member |-> IF m \in S THEN [how |-> how, amount |-> amount[m]] ELSE claims[d][m]]
  BY DEF AmountsTyped, Grant
<1>4. \A e \in Declaration : e # d => claims'[e] = claims[e]
  BY DEF AmountsTyped, Grant
<1>5. \A m \in S : [how |-> how, amount |-> amount[m]] \in ClaimRow
  BY DEF ClaimRow
<1>6. \A e \in Declaration, m \in Member : claims[e][m] \in ClaimRow
  BY DEF AmountsTyped
<1>7. claims' \in [Declaration -> [Member -> ClaimRow]]
  <2>1. claims'[d] \in [Member -> ClaimRow]
    BY <1>3, <1>5, <1>6
  <2> QED BY <2>1 DEF AmountsTyped, Grant
<1>8. \A m \in Member : old[m] \in Nat /\ gain[m] \in Nat /\ new[m] = old[m] + gain[m]
  <2> SUFFICES ASSUME NEW m \in Member PROVE old[m] \in Nat /\ gain[m] \in Nat /\ new[m] = old[m] + gain[m]
    OBVIOUS
  <2>1. old[m] \in Nat /\ (m \in S => old[m] = 0)
    BY <1>1, <1>6 DEF ClaimRow
  <2> QED BY <1>3, <2>1
<1>9. \A m \in S : gain[m] = amount[m]
  BY <1>1
<1>10. \A m \in Member \ S : gain[m] = 0
  OBVIOUS
<1> HIDE DEF old, gain, new
<1>11. SumOf(gain, Member) = SumOf(amount, S) /\ SumOf(amount, S) \in Nat
  <2>1. \A m \in Member : gain[m] \in Int
    BY <1>8
  <2>2. SumOf(gain, Member) = SumOf(gain, S)
    BY ONLY <1>1, <1>2, <1>10, <2>1, SumOnPart
  <2>3. SumOf(gain, S) = SumOf(amount, S)
    BY ONLY <1>2, <1>9, SumSame
  <2>4. SumOf(amount, S) \in Nat
    BY ONLY <1>2, \A m \in S : amount[m] \in Nat, SumIsNat
  <2> QED BY <2>2, <2>3, <2>4
<1>12. /\ SumOf(new, Member) = SumOf(old, Member) + SumOf(gain, Member)
       /\ SumOf(old, Member) \in Nat
  <2>1. \A m \in Member : old[m] \in Int
    BY <1>8
  <2>2. \A m \in Member : gain[m] \in Int
    BY <1>8
  <2>3. \A m \in Member : new[m] = old[m] + gain[m]
    BY <1>8
  <2>4. \A m \in Member : old[m] \in Nat
    BY <1>8
  <2>5. SumOf(new, Member) = SumOf(old, Member) + SumOf(gain, Member)
    BY ONLY <1>2, <2>1, <2>2, <2>3, SumPlus
  <2>6. SumOf(old, Member) \in Nat
    BY ONLY <1>2, <2>4, SumIsNat
  <2> QED BY <2>5, <2>6
<1>13. GrantedTotal(d) = SumOf(old, Member) /\ GrantedTotal(d)' = SumOf(new, Member)
  BY SumIsSumOf DEF GrantedTotal, old, new, Member
<1>14. \A e \in Declaration : e # d => GrantedTotal(e)' = GrantedTotal(e)
  BY <1>4 DEF GrantedTotal, Member
<1>15. \A e \in Declaration : GrantedTotal(e) \in Nat
  <2> SUFFICES ASSUME NEW e \in Declaration PROVE GrantedTotal(e) \in Nat
    OBVIOUS
  <2>1. PICK f : f = [m \in Member |-> claims[e][m].amount]
    OBVIOUS
  <2>2. \A m \in Member : f[m] \in Nat
    BY <1>6, <2>1 DEF ClaimRow
  <2>3. SumOf(f, Member) \in Nat
    BY ONLY <1>2, <2>2, SumIsNat
  <2> QED BY <2>1, <2>3, SumIsSumOf DEF GrantedTotal
<1>16. GrantedTotal(d)' = GrantedTotal(d) + SumOf(amount, S)
  BY <1>11, <1>12, <1>13
<1>17. \A e \in Declaration : GrantedTotal(e)' >= GrantedTotal(e) /\ GrantedTotal(e)' \in Nat
  BY <1>11, <1>14, <1>15, <1>16
<1>18. \A e \in Declaration : Granted(e) \subseteq Granted(e)'
  <2>1. \A e \in Declaration, m \in Member : claims[e][m].how # "none" => claims'[e][m].how # "none"
    BY <1>1, <1>3, <1>4
  <2> QED BY <2>1 DEF Granted, Member
<1>19. /\ Sum(Grants, Declaration)' = Sum(Grants, Declaration) + SumOf(amount, S)
       /\ Sum(Grants, Declaration) \in Int
  <2>1. PICK f, g : f = Grants /\ g = [e \in Declaration |-> GrantedTotal(e)']
    OBVIOUS
  <2>2. Grants' = g
    BY <2>1 DEF Grants
  <2>3. \A e \in Declaration : f[e] \in Int
    BY <1>15, <2>1 DEF Grants
  <2>4. \A e \in Declaration : g[e] \in Int
    BY <1>17, <2>1
  <2>5. \A e \in Declaration \ {d} : g[e] = f[e]
    BY <1>14, <2>1 DEF Grants
  <2>6. IsFiniteSet(Declaration)
    BY ConstantsAssumption
  <2>7. SumOf(g, Declaration) = SumOf(f, Declaration) + g[d] - f[d]
    BY ONLY <2>3, <2>4, <2>5, <2>6, d \in Declaration, SumChanged
  <2>8. SumOf(f, Declaration) \in Int
    BY ONLY <2>3, <2>6, SumIsInt
  <2>9. g[d] = f[d] + SumOf(amount, S) /\ f[d] \in Int /\ SumOf(amount, S) \in Int
    BY <1>11, <1>15, <1>16, <2>1 DEF Grants
  <2>10. SumOf(g, Declaration) = SumOf(f, Declaration) + SumOf(amount, S)
    BY ONLY <2>7, <2>8, <2>9
  <2>11. Sum(Grants, Declaration)' = SumOf(g, Declaration)
    BY <2>2, SumIsSumOf
  <2> QED BY <2>1, <2>8, <2>10, <2>11, SumIsSumOf
<1> QED BY <1>7, <1>11, <1>15, <1>17, <1>18, <1>19

LEMMA PaidInit == Init => PaidInv
<1> SUFFICES ASSUME Init PROVE PaidInv
  OBVIOUS
<1>1. IndInv
  BY InitInd
<1>2. AmountsTyped
  BY ConstantsAssumption DEF Init, AmountsTyped, Pair, ClaimRow, NoClaim
<1>3. RatesTyped
  BY DEF Init, RatesTyped, RateRow, NoRate, NoRow, Idle
<1>4. \A d \in Declaration : Honoured(d)
  BY DEF Init, Honoured, NoRow
<1>5. Conserved
  <2>1. PICK f, g : f = Accounts /\ g = Grants
    OBVIOUS
  <2>2. \A m \in Member : f[m] = 0
    BY <2>1 DEF Init, Accounts
  <2>3. \A d \in Declaration : g[d] = 0
    <3> SUFFICES ASSUME NEW d \in Declaration PROVE g[d] = 0
      OBVIOUS
    <3>1. PICK h : h = [m \in Member |-> claims[d][m].amount]
      OBVIOUS
    <3>2. \A m \in Member : h[m] = 0
      BY <3>1 DEF Init, NoClaim
    <3>3. SumOf(h, Member) = 0
      BY ONLY <3>2, MembersFinite, SumZero
    <3> QED BY <2>1, <3>1, <3>3, SumIsSumOf DEF Grants, GrantedTotal
  <2>4. SumOf(f, Member) = 0
    BY ONLY <2>2, MembersFinite, SumZero
  <2>5. SumOf(g, Declaration) = 0
    BY <2>3, ConstantsAssumption, SumZero
  <2> QED BY <2>1, <2>4, <2>5, SumIsSumOf DEF Init, Conserved
<1> QED BY <1>1, <1>2, <1>3, <1>4, <1>5 DEF PaidInv

\* A step that grants nothing.
LEMMA PaidAround ==
  ASSUME PaidInv, IndInv', UNCHANGED <<claims, credited, payable>>,
         days' \in [Member -> Pair], RatesTyped',
         \A d \in Declaration :
           \/ declared'[d].status # "distributed"
           \/ declared'[d].status = declared[d].status /\ declared'[d].totals = declared[d].totals
           \/ Reconciles(d) /\ declared'[d].totals = declared[d].totals
  PROVE  PaidInv'
<1>1. AmountsTyped'
  BY DEF PaidInv, AmountsTyped, Member
<1>2. Conserved'
  BY DEF PaidInv, Conserved, Accounts, Grants, GrantedTotal, Member
<1>3. \A d \in Declaration : Granted(d)' = Granted(d) /\ GrantedTotal(d)' = GrantedTotal(d)
  BY DEF Granted, GrantedTotal, Member
<1>4. ASSUME NEW d \in Declaration PROVE Honoured(d)'
  <2>1. CASE declared'[d].status # "distributed"
    BY <2>1 DEF Honoured
  <2>2. CASE declared'[d].status = declared[d].status /\ declared'[d].totals = declared[d].totals
    BY <1>3, <2>2 DEF PaidInv, Honoured, Paid
  <2>3. CASE Reconciles(d) /\ declared'[d].totals = declared[d].totals
    <3>1. GrantedTotal(d) \in Nat
      <4>1. PICK f : f = [m \in Member |-> claims[d][m].amount]
        OBVIOUS
      <4>2. \A m \in Member : f[m] \in Nat
        BY <4>1 DEF PaidInv, AmountsTyped, ClaimRow
      <4>3. SumOf(f, Member) \in Nat
        BY ONLY <4>2, MembersFinite, SumIsNat
      <4> QED BY <4>1, <4>3, SumIsSumOf DEF GrantedTotal
    <3>2. Cardinality(Granted(d)) \in Nat
      BY MembersFinite, FS_CardinalityType DEF Granted
    <3> QED BY <1>3, <2>3, <3>1, <3>2 DEF Honoured, Reconciles, Paid
  <2> QED BY <2>1, <2>2, <2>3
<1> QED BY <1>1, <1>2, <1>4 DEF PaidInv

\* Steps of a session that grants nothing and stores no declaration.
LEMMA PaidRun ==
  ASSUME PaidInv, IndInv', UNCHANGED <<claims, credited, payable, days, declared, rate>>, NEW r \in Run,
         \A q \in Run \ {r} : run'[q] = run[q],
         run'[r].step \in {"declaring", "inserting"} => run'[r].rate \in RateRow
  PROVE  PaidInv'
<1>1. RatesTyped'
  BY DEF PaidInv, RatesTyped
<1>2. days' \in [Member -> Pair]
  BY DEF PaidInv, AmountsTyped
<1> QED BY <1>1, <1>2, PaidAround

\* A declaration row is stored or moves on; runs stay or go idle.
LEMMA PaidRow ==
  ASSUME PaidInv, IndInv', UNCHANGED <<claims, credited, payable, days, rate>>, NEW d \in Declaration,
         OneRow(d), declared'[d].rate \in RateRow,
         \/ declared'[d].status # "distributed"
         \/ Reconciles(d) /\ declared'[d].totals = declared[d].totals,
         \A r \in Run : run'[r] = run[r] \/ run'[r] = Idle
  PROVE  PaidInv'
<1>1. RatesTyped'
  BY DEF PaidInv, RatesTyped, OneRow, Idle
<1>2. days' \in [Member -> Pair]
  BY DEF PaidInv, AmountsTyped
<1>3. \A e \in Declaration \ {d} : declared'[e] = declared[e]
  BY DEF OneRow
<1> QED BY <1>1, <1>2, <1>3, PaidAround

\* A batch grants the due members what they are owed.
LEMMA PaidGrant ==
  ASSUME PaidInv, IndInv', UNCHANGED <<declared, rate>>, NEW r \in Run, run[r].step = "locked",
         run[r].pass \in {"paying", "disposing"}, run' = [run EXCEPT ![r] = NextPass(run[r])],
         NEW d, d = run[r].d, NEW S, S \subseteq Unclaimed(d),
         NEW amount, \A m \in S : amount[m] \in Nat, NEW how \in {"paid", "unclaimed"},
         claims' = Grant(d, S, amount, how),
         days' \in [Member -> Pair], credited' \in [Member -> Pair], payable' \in Nat,
         Sum(Accounts, Member) \in Int,
         Sum(Accounts, Member)' + payable' = Sum(Accounts, Member) + payable + Sum(amount, S)
  PROVE  PaidInv'
<1>1. d \in Declaration
  BY DEF PaidInv, IndInv, RunsOnApproved, WorksOnApproved, OnDeclaration
<1>2. Sum(Accounts, Member)' + payable' = Sum(Accounts, Member) + payable + SumOf(amount, S)
  BY SumIsSumOf
<1>3. AmountsTyped
  BY DEF PaidInv
<1>4. /\ claims' \in [Declaration -> [Member -> ClaimRow]]
      /\ Sum(Grants, Declaration)' = Sum(Grants, Declaration) + SumOf(amount, S)
      /\ Sum(Grants, Declaration) \in Int /\ SumOf(amount, S) \in Nat
      /\ \A e \in Declaration :
           /\ GrantedTotal(e)' >= GrantedTotal(e) /\ GrantedTotal(e)' \in Nat /\ GrantedTotal(e) \in Nat
           /\ Granted(e) \subseteq Granted(e)'
  BY <1>1, <1>3, Granting
<1>5. AmountsTyped'
  BY <1>4 DEF AmountsTyped, Member
<1>6. RatesTyped'
  <2>1. run'[r].step \in {"paying", "disposing", "finishing"}
    BY DEF PaidInv, IndInv, RowsTyped, NextPass
  <2>2. \A q \in Run \ {r} : run'[q] = run[q]
    BY DEF PaidInv, IndInv, RowsTyped
  <2> QED BY <2>1, <2>2 DEF PaidInv, RatesTyped
<1>7. Conserved'
  <2>1. Sum(Accounts, Member) + payable = Sum(Grants, Declaration) /\ payable \in Nat
    BY DEF PaidInv, Conserved, AmountsTyped
  <2>2. Sum(Accounts, Member)' + payable' = Sum(Grants, Declaration)'
    BY <1>2, <1>4, <2>1
  <2> QED BY <2>2 DEF Conserved, Member
<1>8. \A e \in Declaration : Honoured(e)'
  <2> SUFFICES ASSUME NEW e \in Declaration PROVE Honoured(e)'
    OBVIOUS
  <2>1. PICK a, b : a = Granted(e) /\ b = Granted(e)'
    OBVIOUS
  <2>2. a \subseteq b /\ b \subseteq Member
    BY <1>4, <2>1 DEF Granted, Member
  <2>3. Cardinality(a) <= Cardinality(b) /\ Cardinality(a) \in Nat /\ Cardinality(b) \in Nat
    BY <2>2, MembersFinite, FS_Subset, FS_CardinalityType
  <2>4. PICK x, y, p, n : /\ x = GrantedTotal(e) /\ y = GrantedTotal(e)'
                          /\ p = Paid(declared[e].totals) /\ n = declared[e].totals.members
    OBVIOUS
  <2>5. y >= x /\ x \in Nat /\ y \in Nat
    BY <1>4, <2>4
  <2>6. declared[e].status = "distributed" => p \in Nat /\ n \in Nat /\ x >= p /\ Cardinality(a) >= n
    BY <2>1, <2>4 DEF PaidInv, Honoured
  <2>7. declared[e].status = "distributed" => p \in Nat /\ n \in Nat /\ y >= p /\ Cardinality(b) >= n
    BY ONLY <2>3, <2>5, <2>6
  <2>8. declared[e]' = declared[e]
    OBVIOUS
  <2> QED BY <2>1, <2>4, <2>7, <2>8 DEF Honoured, Paid
<1> QED BY <1>5, <1>6, <1>7, <1>8 DEF PaidInv

\* What a locked batch owes the due members, and where it goes.
LEMMA OwedIs ==
  ASSUME PaidInv, NEW r \in Run, run[r].step = "locked", NEW d, d = run[r].d, NEW m \in Member
  PROVE  /\ Total(Owed(m, d)) \in Nat /\ Credit(m, Owed(m, d)) \in Pair
         /\ Credit(m, Owed(m, d)).share + Credit(m, Owed(m, d)).deposit = Total(Owed(m, d))
<1>1. d \in Declaration /\ declared[d].status \in Decided
  BY DEF PaidInv, IndInv, RunsOnApproved, WorksOnApproved, OnDeclaration
<1>2. declared[d].rate \in RateRow /\ days[m] \in Pair
  BY <1>1 DEF PaidInv, RatesTyped, AmountsTyped, Decided
<1> QED BY <1>2, EntitlementSplit DEF Owed

LEMMA AccountsAre ==
  ASSUME AmountsTyped
  PROVE  (\A m \in Member : Accounts[m] \in Int) /\ Sum(Accounts, Member) \in Int
<1>1. \A m \in Member : Accounts[m] \in Int
  BY DEF AmountsTyped, Accounts, Pair
<1> HIDE DEF Accounts
<1>2. SumOf(Accounts, Member) \in Int
  BY ONLY <1>1, MembersFinite, SumIsInt
<1> QED BY <1>1, <1>2, SumIsSumOf

\* Each due member's accounts grow by what the member is granted.
LEMMA PayPaid ==
  ASSUME PaidInv, IndInv', NEW r \in Run, PayBatch(r) PROVE PaidInv'
<1>1. PICK d, S : d = run[r].d /\ S = Due(run[r].rows, d)
  OBVIOUS
<1>2. /\ run[r].step = "locked" /\ run[r].pass = "paying"
      /\ UNCHANGED <<declared, rate, payable>> /\ run' = [run EXCEPT ![r] = NextPass(run[r])]
      /\ claims' = [claims EXCEPT ![d] = [m \in Member |->
           IF m \in S THEN [how |-> "paid", amount |-> Total(Owed(m, d))] ELSE @[m]]]
      /\ credited' = [m \in Member |->
           IF m \in S THEN [share |-> credited[m].share + Credit(m, Owed(m, d)).share,
                            deposit |-> credited[m].deposit + Credit(m, Owed(m, d)).deposit]
           ELSE credited[m]]
      /\ days' = [m \in Member |->
           IF m \in S THEN [share |-> days[m].share + OnAccounts(m, Credit(m, Owed(m, d))).share,
                            deposit |-> days[m].deposit
                                          + OnAccounts(m, Credit(m, Owed(m, d))).deposit]
           ELSE days[m]]
  BY <1>1 DEF PayBatch
<1>3. S \subseteq Member
  BY <1>1 DEF Due, Unclaimed
<1>4. \A m \in Member : /\ Total(Owed(m, d)) \in Nat /\ Credit(m, Owed(m, d)) \in Pair
                        /\ Credit(m, Owed(m, d)).share + Credit(m, Owed(m, d)).deposit = Total(Owed(m, d))
  BY <1>1, <1>2, OwedIs
<1>5. PICK C, K, T : /\ C = [m \in Member |-> Credit(m, Owed(m, d))]
                     /\ K = [m \in Member |-> OnAccounts(m, C[m])]
                     /\ T = [m \in Member |-> Total(Owed(m, d))]
  OBVIOUS
<1>6. \A m \in Member : /\ C[m] \in Pair /\ K[m] \in Pair /\ T[m] \in Nat
                        /\ C[m].share + C[m].deposit = T[m]
  BY <1>4, <1>5 DEF OnAccounts, Pair
<1>7. credited \in [Member -> Pair] /\ days \in [Member -> Pair] /\ payable \in Nat
  BY DEF PaidInv, AmountsTyped
<1>8. /\ credited' = [m \in Member |->
           IF m \in S THEN [share |-> credited[m].share + C[m].share,
                            deposit |-> credited[m].deposit + C[m].deposit]
           ELSE credited[m]]
      /\ days' = [m \in Member |->
           IF m \in S THEN [share |-> days[m].share + K[m].share,
                            deposit |-> days[m].deposit + K[m].deposit]
           ELSE days[m]]
  BY <1>2, <1>5
<1>9. credited' \in [Member -> Pair] /\ days' \in [Member -> Pair]
  BY ONLY <1>6, <1>7, <1>8 DEF Pair
<1>10. Sum(Accounts, Member)' = Sum(Accounts, Member) + Sum(T, S) /\ Sum(Accounts, Member) \in Int
  <2>1. PICK f, g, a : /\ f = Accounts /\ g = [m \in Member |-> credited'[m].share + credited'[m].deposit]
                       /\ a = [m \in Member |-> IF m \in S THEN T[m] ELSE 0]
    OBVIOUS
  <2>2. Accounts' = g
    BY <2>1 DEF Accounts, Member
  <2>3. \A m \in Member : f[m] \in Int
    BY <2>1, AccountsAre DEF PaidInv
  <2>4. \A m \in Member : a[m] \in Int
    BY <1>6, <2>1
  <2>5. \A m \in Member : g[m] = f[m] + a[m]
    <3> SUFFICES ASSUME NEW m \in Member PROVE g[m] = f[m] + a[m]
      OBVIOUS
    <3>1. credited[m] \in Pair /\ f[m] = credited[m].share + credited[m].deposit
      BY <1>7, <2>1 DEF Accounts
    <3>2. CASE m \in S
      BY <1>6, <1>8, <2>1, <3>1, <3>2 DEF Pair
    <3>3. CASE m \notin S
      BY <1>8, <2>1, <3>1, <3>3 DEF Pair
    <3> QED BY <3>2, <3>3
  <2>6. SumOf(g, Member) = SumOf(f, Member) + SumOf(a, Member)
    BY ONLY <2>3, <2>4, <2>5, MembersFinite, SumPlus
  <2>7. \A m \in Member \ S : a[m] = 0
    BY <2>1
  <2>8. \A m \in S : a[m] = T[m]
    BY <1>3, <2>1
  <2>9. SumOf(a, Member) = SumOf(a, S)
    BY ONLY <1>3, <2>4, <2>7, MembersFinite, SumOnPart
  <2>10. SumOf(a, S) = SumOf(T, S)
    BY ONLY <1>3, <2>8, MembersFinite, SumSame
  <2>11. Sum(Accounts, Member)' = SumOf(g, Member)
    BY <2>2, SumIsSumOf DEF Member
  <2>12. Sum(Accounts, Member) \in Int
    BY AccountsAre DEF PaidInv
  <2> QED BY <2>1, <2>6, <2>9, <2>10, <2>11, <2>12, SumIsSumOf
<1>11. Sum(Accounts, Member)' + payable' = Sum(Accounts, Member) + payable + Sum(T, S)
  <2>1. Sum(T, S) \in Int
    <3>1. \A m \in S : T[m] \in Int
      BY <1>3, <1>6
    <3>2. IsFiniteSet(S)
      BY <1>3, MembersFinite
    <3>3. SumOf(T, S) \in Int
      BY ONLY <3>1, <3>2, SumIsInt
    <3> QED BY <3>3, SumIsSumOf
  <2> QED BY <1>2, <1>7, <1>10, <2>1
<1>12. /\ S \subseteq Unclaimed(d) /\ \A m \in S : T[m] \in Nat
       /\ claims' = Grant(d, S, T, "paid")
  BY <1>1, <1>2, <1>3, <1>5, <1>6 DEF Due, Grant
<1>13. payable' \in Nat
  BY <1>2, <1>7
<1> QED BY ONLY PaidInv, IndInv', <1>1, <1>2, <1>9, <1>10, <1>11, <1>12, <1>13, PaidGrant

\* The due members' money is owed as unclaimed.
LEMMA DisposePaid ==
  ASSUME PaidInv, IndInv', NEW r \in Run, DisposeUnclaimed(r) PROVE PaidInv'
<1>1. PICK d, S : d = run[r].d /\ S = Due(run[r].rows, d)
  OBVIOUS
<1>2. PICK T : T = [m \in Member |-> Total(Owed(m, d))]
  OBVIOUS
<1>3. /\ run[r].step = "locked" /\ run[r].pass = "disposing"
      /\ UNCHANGED <<declared, rate, days, credited>> /\ run' = [run EXCEPT ![r] = NextPass(run[r])]
      /\ claims' = [claims EXCEPT ![d] = [m \in Member |->
           IF m \in S THEN [how |-> "unclaimed", amount |-> Total(Owed(m, d))] ELSE @[m]]]
      /\ payable' = payable + Sum(T, S)
  BY <1>1, <1>2 DEF DisposeUnclaimed
<1>4. S \subseteq Member
  BY <1>1 DEF Due, Unclaimed
<1>5. \A m \in Member : Total(Owed(m, d)) \in Nat
  BY <1>1, <1>3, OwedIs
<1>6. Sum(T, S) \in Nat
  <2>1. \A m \in S : T[m] \in Nat
    BY <1>2, <1>4, <1>5
  <2>2. IsFiniteSet(S)
    BY <1>4, MembersFinite
  <2>3. SumOf(T, S) \in Nat
    BY ONLY <2>1, <2>2, SumIsNat
  <2> QED BY <2>3, SumIsSumOf
<1>7. credited' \in [Member -> Pair] /\ days' \in [Member -> Pair] /\ payable \in Nat /\ payable' \in Nat
  BY <1>3, <1>6 DEF PaidInv, AmountsTyped
<1>8. Sum(Accounts, Member) \in Int /\ Sum(Accounts, Member)' = Sum(Accounts, Member)
  BY <1>3, AccountsAre DEF PaidInv, Accounts, Member
<1>9. Sum(Accounts, Member)' + payable' = Sum(Accounts, Member) + payable + Sum(T, S)
  BY <1>3, <1>6, <1>7, <1>8
<1>10. /\ S \subseteq Unclaimed(d) /\ \A m \in S : T[m] \in Nat
       /\ claims' = Grant(d, S, T, "unclaimed")
  BY <1>1, <1>2, <1>3, <1>4, <1>5 DEF Due, Grant
<1> QED BY ONLY PaidInv, IndInv', <1>1, <1>3, <1>7, <1>8, <1>9, <1>10, PaidGrant

LEMMA InsertPaid ==
  ASSUME PaidInv, IndInv', NEW r \in Run, NEW d \in Declaration, InsertDeclaration(r, d) PROVE PaidInv'
<1>1. run[r].rate \in RateRow
  BY DEF InsertDeclaration, PaidInv, RatesTyped
<1>2. OneRow(d) /\ declared'[d].rate \in RateRow /\ declared'[d].status = "declared"
  BY <1>1 DEF InsertDeclaration, PaidInv, IndInv, RowsTyped, OneRow, Row
<1>3. \A q \in Run : run'[q] = run[q] \/ run'[q] = Idle
  BY DEF InsertDeclaration, PaidInv, IndInv, RowsTyped
<1> QED BY <1>2, <1>3, PaidRow DEF InsertDeclaration, books

LEMMA VotePaid ==
  ASSUME PaidInv, IndInv', NEW d \in Declaration, NEW u \in User, NEW approve \in BOOLEAN,
         CastVote(d, u, approve)
  PROVE  PaidInv'
<1>1. declared[d].status = "declared" /\ declared[d].rate \in RateRow
  BY DEF CastVote, PaidInv, RatesTyped
<1>2. OneRow(d) /\ declared'[d].rate \in RateRow /\ declared'[d].status # "distributed"
  BY <1>1 DEF CastVote, PaidInv, IndInv, RowsTyped, OneRow, Row
<1> QED BY <1>2, PaidRow DEF CastVote, books

LEMMA VoidPaid ==
  ASSUME PaidInv, IndInv', NEW d \in Declaration, VoidDeclaration(d) PROVE PaidInv'
<1>1. declared[d].rate \in RateRow
  BY DEF VoidDeclaration, Voidable, PaidInv, RatesTyped
<1>2. OneRow(d) /\ declared'[d].rate \in RateRow /\ declared'[d].status # "distributed"
  BY <1>1 DEF VoidDeclaration, PaidInv, IndInv, RowsTyped, OneRow, WithStatus, Row
<1> QED BY <1>2, PaidRow DEF VoidDeclaration, books

LEMMA FinishPaid ==
  ASSUME PaidInv, IndInv', NEW r \in Run, FinishDistribution(r) PROVE PaidInv'
<1> DEFINE d == run[r].d
<1>1. (\A q \in Run \ {r} : run'[q] = run[q]) /\ run'[r] = Idle
  BY DEF FinishDistribution, PaidInv, IndInv, RowsTyped
<1>2. UNCHANGED <<claims, credited, payable, days, rate>>
  BY DEF FinishDistribution, books
<1>3. CASE Reconciles(d) /\ declared[d].status = "approved"
  <2>1. d \in Declaration /\ declared[d].rate \in RateRow
    BY <1>3 DEF FinishDistribution, PaidInv, IndInv, RunsOnApproved, WorksOnApproved, OnDeclaration, RatesTyped
  <2>2. declared' = [declared EXCEPT ![d] = WithStatus(declared[d], "distributed")]
    BY <1>3 DEF FinishDistribution
  <2>3. OneRow(d) /\ declared'[d].rate \in RateRow /\ declared'[d].totals = declared[d].totals
    BY <2>1, <2>2 DEF PaidInv, IndInv, RowsTyped, OneRow, WithStatus, Row
  <2>4. \A q \in Run : run'[q] = run[q] \/ run'[q] = Idle
    BY <1>1
  <2> HIDE DEF d
  <2> QED BY <1>2, <1>3, <2>1, <2>3, <2>4, PaidRow
<1>4. CASE ~(Reconciles(d) /\ declared[d].status = "approved")
  <2>1. UNCHANGED declared
    BY <1>4 DEF FinishDistribution
  <2> QED BY <1>1, <1>2, <2>1, PaidRun DEF Idle
<1> QED BY <1>3, <1>4

\* The steps of a session that leave declarations and books alone.
LEMMA RunPaid ==
  ASSUME PaidInv, IndInv', NEW r \in Run,
         \/ \E u \in User : BeginDeclare(r, u)
         \/ \E d \in Declaration, u \in User : OpenDistribution(r, d, u)
         \/ AddBatch(r) \/ Compare(r) \/ Scan(r) \/ Abandon(r)
  PROVE  PaidInv'
<1>1. UNCHANGED <<claims, credited, payable, days, declared, rate>>
  BY DEF BeginDeclare, OpenDistribution, AddBatch, Compare, Scan, Abandon, books
<1>2. \A q \in Run \ {r} : run'[q] = run[q]
  BY DEF BeginDeclare, OpenDistribution, AddBatch, Compare, Scan, Abandon, PaidInv, IndInv, RowsTyped
<1>3. run'[r].step \in {"declaring", "inserting"} => run'[r].rate \in RateRow
  <2>1. ASSUME NEW u \in User, BeginDeclare(r, u) PROVE run'[r].rate \in RateRow
    BY <2>1 DEF BeginDeclare, PaidInv, IndInv, RowsTyped, RatesTyped
  <2>2. ASSUME NEW d \in Declaration, NEW u \in User, OpenDistribution(r, d, u)
        PROVE  run'[r].step \in {"paying", "verifying"}
    BY <2>2 DEF OpenDistribution, PaidInv, IndInv, RowsTyped
  <2>3. CASE AddBatch(r)
    <3>1. CASE run[r].step = "declaring"
      <4>1. run'[r].rate = run[r].rate
        BY <2>3, <3>1 DEF AddBatch, PaidInv, IndInv, RowsTyped
      <4> QED BY <3>1, <4>1 DEF PaidInv, RatesTyped
    <3>2. CASE run[r].step = "verifying"
      BY <2>3, <3>2 DEF AddBatch, PaidInv, IndInv, RowsTyped
    <3> QED BY <2>3, <3>1, <3>2 DEF AddBatch
  <2>4. CASE Compare(r)
    BY <2>4 DEF Compare, Idle, PaidInv, IndInv, RowsTyped
  <2>5. CASE Scan(r)
    BY <2>5 DEF Scan, PaidInv, IndInv, RowsTyped
  <2>6. CASE Abandon(r)
    BY <2>6 DEF Abandon, Idle, PaidInv, IndInv, RowsTyped
  <2> QED BY <2>1, <2>2, <2>3, <2>4, <2>5, <2>6
<1> QED BY <1>1, <1>2, <1>3, PaidRun

\* The configuration, the calendar and the members around the runs.
LEMMA AroundPaid ==
  ASSUME PaidInv, IndInv',
         \/ \E q \in Rate : Configure(q)
         \/ \E m \in Member : PostInterest(m) \/ SettleExit(m)
         \/ ClosePeriod \/ UNCHANGED vars
  PROVE  PaidInv'
<1>1. UNCHANGED <<claims, credited, payable, declared, run>>
  BY DEF Configure, PostInterest, SettleExit, ClosePeriod, vars, books
<1>2. rate' \in RateRow
  <2>1. ASSUME NEW q \in Rate, Configure(q) PROVE rate' \in RateRow
    BY <2>1, ConstantsAssumption DEF Configure, RateRow
  <2>2. rate' = rate => rate' \in RateRow
    BY DEF PaidInv, RatesTyped
  <2> QED BY <2>1, <2>2 DEF PostInterest, SettleExit, ClosePeriod, vars
<1>3. days' \in [Member -> Pair]
  <2>1. days \in [Member -> Pair]
    BY DEF PaidInv, AmountsTyped
  <2>2. ASSUME NEW m \in Member, PostInterest(m) PROVE days' \in [Member -> Pair]
    <3>1. [days[m] EXCEPT !.deposit = @ + Interest] \in Pair
      BY <2>1, ConstantsAssumption DEF Pair
    <3>2. days' = [days EXCEPT ![m] = [days[m] EXCEPT !.deposit = @ + Interest]]
      BY <2>2 DEF PostInterest
    <3> QED BY <2>1, <3>1, <3>2
  <2> QED BY <2>1, <2>2 DEF Configure, SettleExit, ClosePeriod, vars, books
<1>4. RatesTyped'
  BY <1>1, <1>2 DEF PaidInv, RatesTyped
<1> QED BY <1>1, <1>3, <1>4, PaidAround

LEMMA PaidNext == PaidInv /\ [Next]_vars => PaidInv'
<1> SUFFICES ASSUME PaidInv, [Next]_vars PROVE PaidInv'
  OBVIOUS
<1>1. IndInv'
  BY NextInd DEF PaidInv
<1> HIDE DEF PaidInv, IndInv
<1> QED
  BY ONLY PaidInv, <1>1, [Next]_vars, RunPaid, InsertPaid, VotePaid, VoidPaid, PayPaid, DisposePaid, FinishPaid,
          AroundPaid, Zenon DEF Next

LEMMA PaidReconciles == PaidInv => DistributedReconciles
<1> SUFFICES ASSUME PaidInv PROVE DistributedReconciles
  OBVIOUS
<1>1. Sum(Accounts, Member) + payable = Sum(Grants, Declaration)
  BY DEF PaidInv, Conserved
<1> QED BY <1>1 DEF PaidInv, Honoured, DistributedReconciles, Accounts, Grants

\* Whatever run, exit, void or interest posting comes between the batches, a
\* distributed declaration has granted at least what was approved, to as many
\* members, and every cent granted is on an account of its member or owed.
THEOREM GrantsReconcile == Spec => []DistributedReconciles
  BY PaidInit, PaidNext, PaidReconciles, PTL DEF Spec

=============================================================================
