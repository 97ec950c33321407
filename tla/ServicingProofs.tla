--------------------------- MODULE ServicingProofs ---------------------------
(***************************************************************************)
(* Theorems about Servicing, for every schedule, any officers and runners  *)
(* of the arrears job, and any numbers of days and repayments.             *)
(*                                                                         *)
(* Two facts carry most of them.  A payment raises the paid amounts by no  *)
(* more than its cash (PayTotal), hence so does the replay of any set of   *)
(* repayments (ReplayBacked).  And every handler moves the loan row by     *)
(* exactly what it adds to the append-only history (StandingGrows,         *)
(* StandingShrinks, AccrualAdds), so row and history stay reconciled.      *)
(***************************************************************************)
EXTENDS Servicing, SetLemmas, TLAPS

-----------------------------------------------------------------------------
(* The schedule: what a payment does to the paid amounts.                  *)

\* No installment shows a negative amount paid, or more than it is for.
Within(p) == p \in [Installment -> Int] /\ \A i \in Installment : 0 <= p[i] /\ p[i] <= TotalDue(i)

LEMMA SumIsSumOf == \A f, S : Sum(f, S) = SumOf(f, S)
  BY DEF Sum, SumOf

LEMMA ScheduleIsFinite ==
  /\ IsFiniteSet(Installment) /\ \A S : S \subseteq Installment => IsFiniteSet(S)
  /\ Installment \in SUBSET Nat
<1>1. IsFiniteSet(Installment)
  BY ConstantsAssumption, FS_Interval DEF Installment
<1>2. \A S : S \subseteq Installment => IsFiniteSet(S)
  BY <1>1, FS_Subset
<1> QED BY <1>1, <1>2, ConstantsAssumption DEF Installment

LEMMA AmountsDue ==
  \A i \in Installment : PrincipalDue[i] \in Nat /\ InterestDue[i] \in Nat /\ TotalDue(i) \in Nat
                         /\ TotalDue(i) = PrincipalDue[i] + InterestDue[i] /\ Due[i] \in Nat
  BY ConstantsAssumption DEF TotalDue

\* What installments that came before i leave open is an integer.
LEMMA OpenSums ==
  ASSUME NEW p, Within(p), NEW S, S \subseteq Installment
  PROVE  /\ Sum(Open(p), S) \in Int
         /\ \A i \in Installment : Open(p)[i] \in Int /\ Open(p)[i] = TotalDue(i) - p[i] /\ 0 <= Open(p)[i]
<1>1. \A i \in Installment : Open(p)[i] \in Int /\ Open(p)[i] = TotalDue(i) - p[i] /\ 0 <= Open(p)[i]
  BY AmountsDue DEF Open, Within
<1>2. IsFiniteSet(S)
  BY ScheduleIsFinite
<1>3. SumOf(Open(p), S) \in Int
  BY <1>1, <1>2, SumIsInt
<1> QED BY <1>1, <1>3, SumIsSumOf

\* What payment `cash` adds to installment i.
Before(p, d, i) == Sum(Open(p), {j \in DueBy(d) : j < i})
Added(p, d, cash) ==
  [i \in Installment |->
     IF i \in DueBy(d) THEN Max({0, Min({Open(p)[i], cash - Before(p, d, i)})}) ELSE 0]

LEMMA AddedIs ==
  ASSUME NEW p, Within(p), NEW d, NEW cash \in Int, NEW i \in Installment
  PROVE  /\ Before(p, d, i) \in Int
         /\ Added(p, d, cash)[i] \in Int
         /\ 0 <= Added(p, d, cash)[i] /\ Added(p, d, cash)[i] <= Open(p)[i]
         /\ Added(p, d, cash)[i] = 0 \/ Added(p, d, cash)[i] <= cash - Before(p, d, i)
         /\ i \notin DueBy(d) => Added(p, d, cash)[i] = 0
         /\ Pay(p, d, cash)[i] = p[i] + Added(p, d, cash)[i]
<1>1. PICK o, b : o = Open(p)[i] /\ b = Before(p, d, i)
  OBVIOUS
<1>2. o \in Int /\ 0 <= o
  BY <1>1, OpenSums
<1>3. b \in Int
  <2>1. {j \in DueBy(d) : j < i} \subseteq Installment
    BY DEF DueBy
  <2> QED BY <1>1, <2>1, OpenSums DEF Before
<1>4. PICK least : least = Min({o, cash - b})
  OBVIOUS
<1>5. least = IF o <= cash - b THEN o ELSE cash - b
  BY <1>2, <1>3, <1>4, MinOfTwo
<1>6. Max({0, least}) = IF 0 >= least THEN 0 ELSE least
  BY <1>2, <1>3, <1>5, MaxOfTwo
<1>7. Added(p, d, cash)[i] = IF i \in DueBy(d) THEN Max({0, least}) ELSE 0
  BY <1>1, <1>4 DEF Added
<1>8. Pay(p, d, cash)[i] = IF i \in DueBy(d) THEN p[i] + Max({0, least}) ELSE p[i]
  BY <1>1, <1>4 DEF Pay, Before
<1>9. p[i] \in Int
  BY DEF Within
<1> QED BY <1>1, <1>2, <1>3, <1>5, <1>6, <1>7, <1>8, <1>9

\* A payment leaves the paid amounts within the schedule.
LEMMA PayWithin ==
  ASSUME NEW p, Within(p), NEW d, NEW cash \in Int
  PROVE  Within(Pay(p, d, cash))
<1>1. ASSUME NEW i \in Installment
      PROVE  /\ Pay(p, d, cash)[i] \in Int
             /\ 0 <= Pay(p, d, cash)[i] /\ Pay(p, d, cash)[i] <= TotalDue(i)
  <2>1. PICK a, o : a = Added(p, d, cash)[i] /\ o = Open(p)[i]
    OBVIOUS
  <2>2. a \in Int /\ 0 <= a /\ a <= o /\ Pay(p, d, cash)[i] = p[i] + a
    BY <2>1, AddedIs
  <2>3. o = TotalDue(i) - p[i] /\ o \in Int
    BY <2>1, OpenSums
  <2>4. p[i] \in Int /\ 0 <= p[i] /\ TotalDue(i) \in Int
    BY AmountsDue DEF Within
  <2> QED BY <2>2, <2>3, <2>4
<1>2. Pay(p, d, cash) = [i \in Installment |-> Pay(p, d, cash)[i]]
  BY DEF Pay
<1> QED BY <1>1, <1>2 DEF Within

\* Cash is used once: the installments together gain no more than was paid.
LEMMA AddedTotal ==
  ASSUME NEW p, Within(p), NEW d, NEW cash \in Nat
  PROVE  SumOf(Added(p, d, cash), Installment) <= cash
<1> DEFINE inc == Added(p, d, cash)
           open == Open(p)
           D(n) == {j \in DueBy(d) : j <= n}
           Good(n) == SumOf(inc, D(n)) <= cash /\ SumOf(inc, D(n)) <= SumOf(open, D(n))
           N == {n \in Nat : n <= Installments /\ ~Good(n)}
<1>1. \A n : D(n) \subseteq Installment /\ IsFiniteSet(D(n))
  BY ScheduleIsFinite DEF DueBy
<1>2. \A i \in Installment : /\ inc[i] \in Int /\ open[i] \in Int
                             /\ 0 <= inc[i] /\ inc[i] <= open[i]
                             /\ inc[i] = 0 \/ inc[i] <= cash - Before(p, d, i)
                             /\ i \notin DueBy(d) => inc[i] = 0
  BY AddedIs, OpenSums
<1>3. \A n : SumOf(inc, D(n)) \in Int /\ SumOf(open, D(n)) \in Int
  <2> HIDE DEF inc, open, D
  <2> QED BY <1>1, <1>2, SumIsInt
<1>4. \A j \in DueBy(d) : j \in Nat
  BY ScheduleIsFinite DEF DueBy
<1>5. \A j, n \in Nat : (j < n + 1 <=> j <= n) /\ (j <= n + 1 <=> j <= n \/ j = n + 1)
                        /\ ~(n + 1 <= n)
  OBVIOUS
<1>6. \A n \in Nat : n + 1 \in DueBy(d) => D(n + 1) = D(n) \union {n + 1} /\ n + 1 \notin D(n)
  <2> SUFFICES ASSUME NEW n \in Nat, n + 1 \in DueBy(d)
               PROVE  D(n + 1) = D(n) \union {n + 1} /\ n + 1 \notin D(n)
    OBVIOUS
  <2>1. \A j \in DueBy(d) : j <= n + 1 <=> j <= n \/ j = n + 1
    BY <1>4, <1>5
  <2>2. D(n + 1) = D(n) \union {n + 1}
    BY <2>1, Zenon
  <2>3. n + 1 \notin D(n)
    BY <1>5
  <2> QED BY <2>2, <2>3
<1>7. \A n \in Nat : n + 1 \notin DueBy(d) => D(n + 1) = D(n)
  BY <1>4, <1>5, Zenon
<1>8. \A n \in Nat : n + 1 \in Installment => Before(p, d, n + 1) = SumOf(open, D(n))
  <2> SUFFICES ASSUME NEW n \in Nat, n + 1 \in Installment
               PROVE  Before(p, d, n + 1) = SumOf(open, D(n))
    OBVIOUS
  <2>1. {j \in DueBy(d) : j < n + 1} = D(n)
    BY <1>4, <1>5, Zenon
  <2> QED BY <2>1, SumIsSumOf DEF Before
<1>9. Good(0)
  <2>1. D(0) = {}
    BY ConstantsAssumption DEF DueBy, Installment
  <2>2. SumOf(inc, D(0)) = 0 /\ SumOf(open, D(0)) = 0
    BY <2>1, FS_EmptySet, SumUnfolds
  <2> QED BY <2>2
<1>10. ASSUME NEW n \in Nat, n + 1 <= Installments, Good(n) PROVE Good(n + 1)
  <2>1. CASE n + 1 \notin DueBy(d)
    BY <1>7, <1>10, <2>1
  <2>2. CASE n + 1 \in DueBy(d)
    <3>1. n + 1 \in Installment
      BY <2>2 DEF DueBy
    <3>2. PICK k : k = n + 1
      OBVIOUS
    <3>3. D(k) = D(n) \union {k} /\ k \notin D(n) /\ k \in Installment
      BY <1>6, <2>2, <3>1, <3>2
    <3>4. SumOf(inc, D(k)) = SumOf(inc, D(n)) + inc[k] /\ SumOf(open, D(k)) = SumOf(open, D(n)) + open[k]
      <4> HIDE DEF inc, open, D
      <4> QED BY <1>1, <1>2, <3>3, SumAdd
    <3>5. Before(p, d, k) = SumOf(open, D(n))
      BY <1>8, <3>1, <3>2
    <3>6. /\ inc[k] \in Int /\ open[k] \in Int /\ inc[k] <= open[k]
          /\ inc[k] = 0 \/ inc[k] <= cash - SumOf(open, D(n))
      BY <1>2, <3>3, <3>5
    <3>7. SumOf(inc, D(n)) \in Int /\ SumOf(open, D(n)) \in Int
      BY <1>3
    <3>8. SumOf(inc, D(n)) <= cash /\ SumOf(inc, D(n)) <= SumOf(open, D(n))
      BY <1>10
    <3> HIDE DEF inc, open, D
    <3>9. SumOf(inc, D(k)) <= cash /\ SumOf(inc, D(k)) <= SumOf(open, D(k))
      BY <3>4, <3>6, <3>7, <3>8
    <3> QED BY <3>2, <3>9
  <2> QED BY <2>1, <2>2
<1>11. N = {}
  <2> HIDE DEF Good
  <2> SUFFICES ASSUME N # {} PROVE FALSE
    OBVIOUS
  <2>1. PICK n \in Nat : n = Min(N) /\ n \in N /\ \A m \in N : n <= m
    BY LeastElement
  <2>2. n <= Installments /\ ~Good(n) /\ n # 0
    BY <1>9, <2>1
  <2>3. n - 1 \in Nat /\ n - 1 \notin N /\ (n - 1) + 1 = n
    BY <2>1, <2>2
  <2>4. Good(n - 1)
    BY <2>2, <2>3, ConstantsAssumption
  <2>5. Good((n - 1) + 1)
    BY <1>10, <2>2, <2>3, <2>4
  <2> QED BY <2>2, <2>3, <2>5
<1>12. Good(Installments)
  <2> HIDE DEF Good
  <2> QED BY <1>11, ConstantsAssumption
<1>13. D(Installments) = DueBy(d)
  BY ConstantsAssumption DEF DueBy, Installment
<1>14. SumOf(inc, Installment) = SumOf(inc, DueBy(d))
  <2>1. DueBy(d) \subseteq Installment
    BY DEF DueBy
  <2> HIDE DEF inc
  <2> QED BY <1>2, <2>1, ScheduleIsFinite, SumOnPart
<1> QED BY <1>12, <1>13, <1>14

LEMMA PayTotal ==
  ASSUME NEW p, Within(p), NEW d, NEW cash \in Nat
  PROVE  /\ Sum(p, Installment) \in Int /\ Sum(Pay(p, d, cash), Installment) \in Int
         /\ Sum(Pay(p, d, cash), Installment) <= Sum(p, Installment) + cash
<1> DEFINE inc == Added(p, d, cash)
           q == Pay(p, d, cash)
<1>1. /\ \A i \in Installment : inc[i] \in Int
      /\ \A i \in Installment : p[i] \in Int
      /\ \A i \in Installment : q[i] = p[i] + inc[i]
  BY AddedIs DEF Within
<1>2. SumOf(inc, Installment) <= cash
  BY AddedTotal
<1> HIDE DEF inc, q
<1>3. SumOf(q, Installment) = SumOf(p, Installment) + SumOf(inc, Installment)
  <2>1. IsFiniteSet(Installment)
    BY ScheduleIsFinite
  <2> QED BY ONLY <1>1, <2>1, SumPlus
<1>4. SumOf(p, Installment) \in Int /\ SumOf(inc, Installment) \in Int
  BY <1>1, ScheduleIsFinite, SumIsInt
<1>5. SumOf(q, Installment) \in Int /\ SumOf(q, Installment) <= SumOf(p, Installment) + cash
  BY <1>2, <1>3, <1>4
<1> QED BY <1>4, <1>5, SumIsSumOf DEF q

-----------------------------------------------------------------------------
(* The replay of the repayments that stand.                                *)

RepaymentRow == [day : Day, penalties : Int, interest : Nat, principal : Nat]
Cash == [k \in DOMAIN repayments |-> CashOf(k)]
Blank == [i \in Installment |-> 0]

LEMMA RowsOfRepayments ==
  ASSUME repayments \in Seq(RepaymentRow)
  PROVE  \A k \in DOMAIN repayments :
           /\ repayments[k].day \in Day /\ repayments[k].day \in Nat
           /\ repayments[k].penalties \in Int
           /\ repayments[k].interest \in Nat /\ repayments[k].principal \in Nat
<1>1. \A k \in DOMAIN repayments : repayments[k] \in RepaymentRow
  OBVIOUS
<1>2. Day \subseteq Nat
  BY ConstantsAssumption DEF Day
<1> QED BY <1>1, <1>2 DEF RepaymentRow

LEMMA RepaymentsAreFinite ==
  ASSUME repayments \in Seq(RepaymentRow)
  PROVE  /\ IsFiniteSet(DOMAIN repayments) /\ DOMAIN repayments \in SUBSET Nat
         /\ \A S : S \subseteq DOMAIN repayments => IsFiniteSet(S) /\ S \in SUBSET Nat
<1>1. DOMAIN repayments = 1 .. Len(repayments) /\ Len(repayments) \in Nat
  OBVIOUS
<1>2. IsFiniteSet(DOMAIN repayments)
  BY <1>1, FS_Interval
<1>3. DOMAIN repayments \in SUBSET Nat
  BY <1>1
<1> HIDE <1>1
<1> QED BY <1>2, <1>3, FS_Subset

\* The latest of some repayments is one of them.
LEMMA LatestExists ==
  ASSUME repayments \in Seq(RepaymentRow), NEW S, S \subseteq DOMAIN repayments, S # {}
  PROVE  Latest(S) \in S
<1> DEFINE Days == {repayments[k].day : k \in S}
           Last == {k \in S : repayments[k].day = Max(Days)}
<1>1. IsFiniteSet(S) /\ S \in SUBSET Nat
  BY RepaymentsAreFinite
<1>2. \A k \in S : repayments[k].day \in Nat
  BY RowsOfRepayments
<1>3. Days \in SUBSET Nat /\ Days # {}
  BY <1>2
<1>4. IsFiniteSet(Days)
  <2>1. Days \subseteq Day
    BY RowsOfRepayments
  <2>2. IsFiniteSet(Day)
    BY ConstantsAssumption, FS_Interval DEF Day
  <2> HIDE DEF Days
  <2> QED BY <2>1, <2>2, FS_Subset
<1>5. PICK m : m = Max(Days) /\ m \in Days /\ \A e \in Days : m >= e
  <2> HIDE DEF Days
  <2> QED BY <1>3, <1>4, GreatestElement
<1>6. Last \in SUBSET Nat /\ Last # {} /\ IsFiniteSet(Last) /\ Last \subseteq S
  <2>1. Last \subseteq S
    OBVIOUS
  <2>2. Last # {}
    BY <1>5
  <2> HIDE DEF Last
  <2> QED BY <1>1, <2>1, <2>2, FS_Subset
<1>7. PICK k : k \in Last /\ \A l \in Last : k >= l
  <2> HIDE DEF Last
  <2> QED BY <1>6, GreatestElement
<1>8. k \in S /\ k \in Nat /\ repayments[k].day = m
  BY <1>1, <1>5, <1>7
<1>9. ASSUME NEW l \in S
       PROVE  \/ repayments[l].day < repayments[k].day
              \/ repayments[l].day = repayments[k].day /\ l <= k
  <2>1. repayments[l].day \in Days /\ repayments[l].day \in Nat /\ l \in Nat
    BY <1>1, <1>2
  <2>2. m >= repayments[l].day /\ m \in Nat
    BY <1>3, <1>5, <2>1
  <2>3. repayments[l].day = m => k >= l
    BY <1>5, <1>7
  <2> HIDE DEF Days
  <2> QED BY <1>8, <2>1, <2>2, <2>3
<1> QED BY <1>8, <1>9 DEF Latest

Replays(g, S) ==
  g = [s \in SUBSET S |-> IF s = {} THEN Blank ELSE PayAgain(Latest(s), g[s \ {Latest(s)}])]

LEMMA ReplayAt ==
  ASSUME NEW S, NEW g, Replays(g, S), NEW s \in SUBSET S
  PROVE  /\ s = {} => g[s] = Blank
         /\ s # {} => g[s] = PayAgain(Latest(s), g[s \ {Latest(s)}])
  BY DEF Replays

\* The replay has one outcome at most,
LEMMA ReplaysAgree ==
  ASSUME repayments \in Seq(RepaymentRow),
         NEW S, NEW T, S \subseteq DOMAIN repayments,
         NEW g, NEW h, Replays(g, S), Replays(h, T),
         NEW w, w \subseteq S, w \subseteq T, IsFiniteSet(w)
  PROVE  g[w] = h[w]
<1> DEFINE B == {s \in SUBSET w : g[s] # h[s]}
<1> SUFFICES ASSUME B # {} PROVE FALSE
  OBVIOUS
<1>1. \A s \in B : s \subseteq w
  OBVIOUS
<1>2. PICK s \in B : \A x \in s : s \ {x} \notin B
  <2> HIDE DEF B
  <2> QED BY <1>1, SmallestSubset
<1>3. s \in SUBSET S /\ s \in SUBSET T /\ s \in SUBSET w /\ g[s] # h[s]
  BY <1>2
<1>4. CASE s = {}
  <2>1. g[s] = Blank
    BY <1>3, <1>4, ReplayAt
  <2>2. h[s] = Blank
    BY <1>3, <1>4, ReplayAt
  <2> QED BY <1>3, <2>1, <2>2
<1>5. CASE s # {}
  <2>1. PICK x : x = Latest(s) /\ x \in s
    BY <1>3, <1>5, LatestExists
  <2>2. \A k, U : Replays(k, U) /\ s \in SUBSET U => k[s] = PayAgain(x, k[s \ {x}])
    <3> SUFFICES ASSUME NEW k, NEW U, Replays(k, U), s \in SUBSET U
                 PROVE  k[s] = PayAgain(x, k[s \ {x}])
      OBVIOUS
    <3>1. k[s] = PayAgain(Latest(s), k[s \ {Latest(s)}])
      BY ONLY <1>5, Replays(k, U), s \in SUBSET U, ReplayAt
    <3>2. x = Latest(s)
      BY <2>1
    <3> QED BY ONLY <3>1, <3>2
  <2>3. s \ {x} \notin B
    BY <1>2, <2>1
  <2>4. g[s \ {x}] = h[s \ {x}]
    BY <2>3, <1>3
  <2> QED BY <1>3, <2>2, <2>4
<1> QED BY <1>4, <1>5

\* and it has one.
LEMMA ReplaysExist ==
  ASSUME repayments \in Seq(RepaymentRow), NEW S, S \subseteq DOMAIN repayments, IsFiniteSet(S)
  PROVE  \E g : Replays(g, S)
<1> DEFINE B == {s \in SUBSET S : ~\E g : Replays(g, s)}
<1> SUFFICES ASSUME B # {} PROVE FALSE
  OBVIOUS
<1>1. \A s \in B : s \subseteq S
  OBVIOUS
<1>2. PICK T \in B : IsFiniteSet(T) /\ \A t : t \subseteq T /\ t # T => t \notin B
  <2> HIDE DEF B
  <2> QED BY <1>1, SmallestSubset
<1>3. T \in SUBSET S /\ ~\E g : Replays(g, T)
  BY <1>2
<1>4. \A u : u \subseteq T /\ u # T => \E g : Replays(g, u)
  BY <1>2
<1> DEFINE V(s) == (CHOOSE g : Replays(g, s))[s]
           G == [s \in SUBSET T |-> IF s = {} THEN Blank ELSE PayAgain(Latest(s), V(s \ {Latest(s)}))]
<1>5. ASSUME NEW u \in SUBSET T, u # T
      PROVE  V(u) = IF u = {} THEN Blank ELSE PayAgain(Latest(u), V(u \ {Latest(u)}))
  <2> DEFINE g == CHOOSE g : Replays(g, u)
  <2>1. Replays(g, u)
    BY <1>4, <1>5
  <2>2. V(u) = g[u]
    OBVIOUS
  <2>3. CASE u = {}
    <3> HIDE DEF g, V
    <3> QED BY <2>1, <2>2, <2>3, ReplayAt
  <2>4. ASSUME u # {} PROVE V(u) = PayAgain(Latest(u), V(u \ {Latest(u)}))
    <3>1. PICK x : x = Latest(u) /\ x \in u
      BY <1>3, <2>4, LatestExists
    <3> DEFINE w == u \ {x}
               h == CHOOSE h : Replays(h, w)
    <3>2. w \subseteq T /\ w # T /\ IsFiniteSet(w) /\ w \subseteq u
      BY <1>2, <1>5, <3>1, FS_Subset
    <3>3. Replays(h, w)
      <4> HIDE DEF w
      <4> QED BY <1>4, <3>2
    <3>4. V(w) = h[w]
      OBVIOUS
    <3>7. u \subseteq DOMAIN repayments
      BY <1>3
    <3>5. g[w] = h[w]
      <4> HIDE DEF g, h, w, V, G
      <4> QED BY <2>1, <3>2, <3>3, <3>7, ReplaysAgree
    <3> HIDE DEF V, g, h
    <3>6. g[u] = PayAgain(x, g[w])
      BY <2>1, <2>4, <3>1, ReplayAt
    <3> QED BY <2>2, <3>1, <3>4, <3>5, <3>6
  <2> QED BY <2>3, <2>4
<1>6. \A s \in SUBSET T : s # {} => G[s \ {Latest(s)}] = V(s \ {Latest(s)})
  <2> HIDE DEF V
  <2> SUFFICES ASSUME NEW s \in SUBSET T, s # {} PROVE G[s \ {Latest(s)}] = V(s \ {Latest(s)})
    OBVIOUS
  <2>1. Latest(s) \in s
    BY <1>3, LatestExists
  <2>2. s \ {Latest(s)} \in SUBSET T /\ s \ {Latest(s)} # T
    BY <2>1
  <2> QED BY <1>5, <2>2
<1>7. \A s \in SUBSET T :
        (IF s = {} THEN Blank ELSE PayAgain(Latest(s), V(s \ {Latest(s)})))
          = (IF s = {} THEN Blank ELSE PayAgain(Latest(s), G[s \ {Latest(s)}]))
  <2> HIDE DEF G, V
  <2> QED BY <1>6
<1>8. G = [s \in SUBSET T |-> IF s = {} THEN Blank ELSE PayAgain(Latest(s), G[s \ {Latest(s)}])]
  <2> HIDE DEF V
  <2> QED BY <1>7
<1> QED BY <1>3, <1>8 DEF Replays

\* The replay of some repayments stays within the schedule, and shows no more
\* paid than they brought in.
LEMMA ReplayBacked ==
  ASSUME repayments \in Seq(RepaymentRow), NEW a, DOMAIN a = DOMAIN repayments
  PROVE  /\ Within(Replay(a))
         /\ Sum(Replay(a), Installment) <= SumOf(Cash, Surviving(a))
<1> DEFINE S == Surviving(a)
           g == CHOOSE g : Replays(g, S)
           Good(s) == Within(g[s]) /\ Sum(g[s], Installment) <= SumOf(Cash, s)
           B == {s \in SUBSET S : ~Good(s)}
<1>1. S \subseteq DOMAIN repayments /\ IsFiniteSet(S)
  <2>1. S \subseteq DOMAIN repayments
    BY DEF Surviving
  <2> HIDE DEF S
  <2> QED BY <2>1, RepaymentsAreFinite
<1>2. Replays(g, S)
  <2> HIDE DEF S
  <2> QED BY <1>1, ReplaysExist
<1>3. Replay(a) = g[S]
  BY DEF Replay, MapThenFoldSet, Replays, Blank
<1>4. \A k \in DOMAIN repayments : Cash[k] \in Nat /\ Cash[k] = CashOf(k)
  BY RowsOfRepayments DEF Cash, CashOf
<1>5. Good({})
  <2>1. g[{}] = Blank
    BY <1>2, ReplayAt
  <2>2. \A i \in Installment : Blank[i] = 0
    BY DEF Blank
  <2>3. Within(Blank)
    <3>1. Blank \in [Installment -> Int]
      BY DEF Blank
    <3> QED BY <3>1, <2>2, AmountsDue DEF Within
  <2>4. Sum(Blank, Installment) = 0
    BY <2>2, ScheduleIsFinite, SumZero, SumIsSumOf
  <2>5. SumOf(Cash, {}) = 0
    BY FS_EmptySet, SumUnfolds
  <2> HIDE DEF g
  <2> QED BY <2>1, <2>3, <2>4, <2>5
<1> HIDE DEF g, S
<1>6. B = {}
  <2> SUFFICES ASSUME B # {} PROVE FALSE
    OBVIOUS
  <2>1. \A s \in B : s \subseteq S
    OBVIOUS
  <2>2. PICK s \in B : IsFiniteSet(s) /\ \A x \in s : s \ {x} \notin B
    <3> HIDE DEF B
    <3> QED BY <1>1, <2>1, SmallestSubset
  <2>3. s \subseteq S /\ ~Good(s) /\ s # {}
    BY <1>5, <2>2
  <2>4. PICK x : x = Latest(s) /\ x \in s
    BY <1>1, <2>3, LatestExists
  <2>5. Good(s \ {x})
    BY <2>2, <2>3, <2>4
  <2>6. PICK p : p = g[s \ {x}]
    OBVIOUS
  <2>7. Within(p) /\ Sum(p, Installment) <= SumOf(Cash, s \ {x})
    BY <2>5, <2>6
  <2>8. g[s] = Pay(p, repayments[x].day, CashOf(x))
    BY <1>2, <2>3, <2>4, <2>6, ReplayAt DEF PayAgain
  <2>9. CashOf(x) \in Nat /\ Cash[x] = CashOf(x) /\ \A k \in s : Cash[k] \in Int
    BY <1>1, <1>4, <2>3, <2>4
  <2>10. SumOf(Cash, s) = Cash[x] + SumOf(Cash, s \ {x})
    BY <2>2, <2>4, <2>9, SumRemove
  <2>11. SumOf(Cash, s \ {x}) \in Int
    <3>1. IsFiniteSet(s \ {x}) /\ s \ {x} \subseteq s
      BY <2>2, FS_Subset
    <3> QED BY <2>9, <3>1, SumIsInt
  <2>12. Within(g[s])
    BY <2>7, <2>8, <2>9, PayWithin
  <2>13. PICK q : q = Pay(p, repayments[x].day, CashOf(x))
    OBVIOUS
  <2>14. /\ Sum(p, Installment) \in Int /\ Sum(q, Installment) \in Int
         /\ Sum(q, Installment) <= Sum(p, Installment) + CashOf(x)
    BY <2>7, <2>9, <2>13, PayTotal
  <2>15. Sum(q, Installment) <= SumOf(Cash, s)
    BY <2>7, <2>9, <2>10, <2>11, <2>14
  <2> QED BY <2>3, <2>8, <2>12, <2>13, <2>15
<1>7. Good(S)
  BY <1>6
<1> QED BY <1>3, <1>7 DEF S

-----------------------------------------------------------------------------
(* Types.                                                                  *)

Statuses == {"active", "closed", "written_off"}
LoanRow == [status : Statuses, balance : Int, penalty : Int, npl : BOOLEAN]
RequestRow ==
  [status : {"pending_approval", "posted"}, maker : User, balance : Int, penalty : Int,
   loanStatus : Statuses]
AdjustmentRow == {NoAdjustment} \union RequestRow
ProposalRow ==
  [status : {"requested", "approved", "posted"}, by : User, balance : Int, penalty : Int,
   approve : SUBSET User, reject : SUBSET User]
WriteOffRow == {NoWriteOff} \union ProposalRow
ScanRow == [step : {"scanned"}, asOf : Day, dpd : Int, arrears : Int, unclaimed : BOOLEAN]

TypeOK ==
  /\ day \in Day
  /\ loan \in LoanRow
  /\ guarantee \in {"none", "live", "released"}
  /\ Within(paid)
  /\ repayments \in Seq(RepaymentRow)
  /\ adjustments \in Seq(AdjustmentRow) /\ Len(adjustments) = Len(repayments)
  /\ accrued \in [Day -> Int]
  /\ writeOff \in WriteOffRow
  /\ recovered \in Int
  /\ exited \in BOOLEAN
  /\ job \in [Job -> {Idle} \union ScanRow]

LEMMA InterestUnpaidIsNat ==
  ASSUME NEW p, Within(p), NEW d
  PROVE  /\ InterestUnpaid(p, d) \in Nat
         /\ \A i \in Installment : Max({InterestDue[i] - p[i], 0}) \in Nat
                                   /\ Max({InterestDue[i] - p[i], 0}) >= InterestDue[i] - p[i]
<1> DEFINE f == [i \in Installment |-> Max({InterestDue[i] - p[i], 0})]
<1>1. ASSUME NEW i \in Installment
      PROVE  /\ Max({InterestDue[i] - p[i], 0}) \in Nat
             /\ Max({InterestDue[i] - p[i], 0}) >= InterestDue[i] - p[i]
  <2>1. PICK n : n = InterestDue[i] - p[i]
    OBVIOUS
  <2>2. n \in Int
    BY <2>1, AmountsDue DEF Within
  <2>3. Max({n, 0}) = IF n >= 0 THEN n ELSE 0
    BY <2>2, MaxOfTwo
  <2> QED BY <2>1, <2>2, <2>3
<1>2. \A i \in Installment : f[i] \in Nat
  BY <1>1
<1>3. Unpaid(p, d) \subseteq Installment /\ IsFiniteSet(Unpaid(p, d))
  BY ScheduleIsFinite DEF Unpaid, DueBy
<1>4. SumOf(f, Unpaid(p, d)) \in Nat
  <2> HIDE DEF f
  <2>1. \A i \in Unpaid(p, d) : f[i] \in Nat
    BY <1>2, <1>3
  <2> QED BY <1>3, <2>1, SumIsNat
<1> QED BY <1>1, <1>4, SumIsSumOf DEF InterestUnpaid

\* An allocation splits the whole amount, and its interest is at most what is unpaid.
LEMMA AllocationSplits ==
  ASSUME TypeOK, NEW d \in Day, NEW amount \in Nat,
         NEW r, r = Allocation(amount, d)
  PROVE  /\ r \in RepaymentRow /\ r.day = d
         /\ r.interest + r.principal \in Nat
         /\ r.penalties <= loan.penalty
         /\ r.interest = r.interest + r.principal \/ r.interest = InterestUnpaid(paid, d)
<1>1. PICK pen, int, u : /\ pen = Min({amount, loan.penalty}) /\ u = InterestUnpaid(paid, d)
                         /\ int = Min({amount - pen, u})
  OBVIOUS
<1>2. loan.penalty \in Int
  BY DEF TypeOK, LoanRow
<1>3. pen = IF amount <= loan.penalty THEN amount ELSE loan.penalty
  BY <1>1, <1>2, MinOfTwo
<1>4. u \in Nat
  BY <1>1, InterestUnpaidIsNat DEF TypeOK
<1>5. pen \in Int /\ amount - pen \in Nat
  BY <1>2, <1>3
<1>6. int = IF amount - pen <= u THEN amount - pen ELSE u
  <2>1. PICK rest : rest = amount - pen
    OBVIOUS
  <2>2. rest \in Int /\ u \in Int
    BY <1>4, <1>5, <2>1
  <2>3. Min({rest, u}) = IF rest <= u THEN rest ELSE u
    BY ONLY MinOfTwo, <2>2
  <2> QED BY ONLY <1>1, <2>1, <2>3
<1>7. r = [day |-> d, penalties |-> pen, interest |-> int, principal |-> amount - pen - int]
  BY <1>1 DEF Allocation
<1>8. int \in Nat /\ amount - pen - int \in Nat /\ int + (amount - pen - int) = amount - pen
  BY <1>4, <1>5, <1>6
<1>9. r \in RepaymentRow
  BY <1>5, <1>7, <1>8 DEF RepaymentRow
<1>10. r.interest = int /\ r.principal = amount - pen - int /\ r.penalties = pen /\ r.day = d
  BY <1>7
<1>11. r.interest + r.principal = amount - pen
  BY <1>8, <1>10
<1>12. r.penalties <= loan.penalty
  BY <1>2, <1>3, <1>10
<1>13. int = amount - pen \/ int = u
  BY <1>6
<1> QED BY <1>1, <1>5, <1>9, <1>10, <1>11, <1>12, <1>13

LEMMA TypeInit == Init => TypeOK
<1> SUFFICES ASSUME Init PROVE TypeOK
  OBVIOUS
<1>1. Within(paid)
  <2>1. paid \in [Installment -> Int] /\ \A i \in Installment : paid[i] = 0
    BY DEF Init
  <2> QED BY <2>1, AmountsDue DEF Within
<1>2. Principal \in Int
  <2>1. \A i \in Installment : PrincipalDue[i] \in Int
    BY AmountsDue
  <2> QED BY <2>1, ScheduleIsFinite, SumIsInt, SumIsSumOf DEF Principal
<1>3. loan \in LoanRow
  BY <1>2 DEF Init, Loan, LoanRow, Statuses
<1>4. day \in Day /\ accrued \in [Day -> Int]
  BY ConstantsAssumption DEF Init, Day
<1>5. repayments \in Seq(RepaymentRow) /\ adjustments \in Seq(AdjustmentRow) /\ Len(adjustments) = Len(repayments)
  BY DEF Init
<1>6. job \in [Job -> {Idle} \union ScanRow]
  BY DEF Init
<1>7. guarantee \in {"none", "live", "released"} /\ recovered \in Int
  BY DEF Init
<1>8. exited \in BOOLEAN /\ writeOff \in WriteOffRow
  BY DEF Init, WriteOffRow
<1> QED BY <1>1, <1>3, <1>4, <1>5, <1>6, <1>7, <1>8 DEF TypeOK

LEMMA ScanTyped ==
  ASSUME TypeOK
  PROVE  Scan \in ScanRow
<1>1. DaysPastDue(day) \in Int
  <2> DEFINE D == {Due[i] : i \in Unpaid(paid, day)}
  <2>1. CASE Unpaid(paid, day) = {}
    BY <2>1 DEF DaysPastDue
  <2>2. CASE Unpaid(paid, day) # {}
    <3>1. D \in SUBSET Nat /\ D # {}
      BY <2>2, AmountsDue DEF Unpaid, DueBy
    <3>2. Min(D) \in Nat
      <4> HIDE DEF D
      <4> QED BY <3>1, LeastElement
    <3>3. day \in Int
      BY ConstantsAssumption DEF TypeOK, Day
    <3>4. DaysPastDue(day) = day - Min(D)
      BY <2>2 DEF DaysPastDue
    <3> HIDE DEF D
    <3> QED BY <3>2, <3>3, <3>4
  <2> QED BY <2>1, <2>2
<1>2. Sum(Open(paid), Unpaid(paid, day)) \in Int
  <2>1. Unpaid(paid, day) \subseteq Installment
    BY DEF Unpaid, DueBy
  <2> QED BY <2>1, OpenSums DEF TypeOK
<1> QED BY <1>1, <1>2 DEF Scan, ScanRow, TypeOK

\* What an accrual adds: the loan's penalty and the day's claim grow alike.
LEMMA ProcessAccrues ==
  ASSUME TypeOK, NEW s \in ScanRow, Process(s)
  PROVE  \E amount \in Int :
           /\ loan' \in LoanRow /\ loan'.status = "active" /\ loan.status = "active"
           /\ loan'.balance = loan.balance /\ loan'.penalty = loan.penalty + amount
           /\ accrued' \in [Day -> Int]
           /\ accrued'[s.asOf] = accrued[s.asOf] + amount
           /\ \A d \in Day \ {s.asOf} : accrued'[d] = accrued[d]
<1>1. PICK basis \in Basis(s) :
        /\ loan' = Loan(loan.status, loan.balance,
                        loan.penalty + IF Accrues(s, basis) THEN DailyPenalty(basis) ELSE 0, s.dpd > NplDays)
        /\ accrued' = [accrued EXCEPT ![s.asOf] =
                         IF @ = 0 THEN IF Accrues(s, basis) THEN DailyPenalty(basis) ELSE 0 ELSE @]
  BY DEF Process
<1>2. PICK amount : amount = IF Accrues(s, basis) THEN DailyPenalty(basis) ELSE 0
  OBVIOUS
<1>3. loan.balance \in Int /\ loan.penalty \in Int /\ loan.status \in Statuses
  BY DEF TypeOK, LoanRow
<1>4. basis \in Int
  BY <1>3 DEF Basis, ScanRow
<1>5. DailyPenalty(basis) \in Int
  <2>1. PICK n : n = 2 * PenaltyDivisor
    OBVIOUS
  <2>2. n \in Nat /\ n > 0
    BY <2>1, ConstantsAssumption
  <2>3. PICK m : m = 2 * basis + PenaltyDivisor
    OBVIOUS
  <2>4. m \in Int
    BY <1>4, <2>3, ConstantsAssumption
  <2>5. m \div n \in Int
    BY <2>2, <2>4
  <2> QED BY <2>1, <2>3, <2>5 DEF DailyPenalty
<1>6. amount \in Int
  BY <1>2, <1>5
<1>7. amount # 0 => accrued[s.asOf] = 0
  BY <1>2 DEF Accrues, Claims
<1>8. s.asOf \in Day /\ s.dpd \in Int
  BY DEF ScanRow
<1>9. accrued \in [Day -> Int]
  BY DEF TypeOK
<1>10. accrued' = [accrued EXCEPT ![s.asOf] = IF accrued[s.asOf] = 0 THEN amount ELSE accrued[s.asOf]]
  BY <1>1, <1>2, <1>8, <1>9
<1>11. accrued' \in [Day -> Int]
  BY <1>6, <1>8, <1>9, <1>10
<1>12. accrued'[s.asOf] = accrued[s.asOf] + amount
  BY <1>6, <1>7, <1>8, <1>9, <1>10
<1>13. \A d \in Day \ {s.asOf} : accrued'[d] = accrued[d]
  BY <1>9, <1>10
<1>14. loan' = Loan(loan.status, loan.balance, loan.penalty + amount, s.dpd > NplDays)
  BY <1>1, <1>2
<1>15. loan.status = "active"
  BY DEF Process, StillActive
<1>16. (s.dpd > NplDays) \in BOOLEAN
  OBVIOUS
<1>17. loan' \in LoanRow /\ loan'.status = "active" /\ loan'.balance = loan.balance /\ loan'.penalty = loan.penalty + amount
  BY <1>3, <1>6, <1>14, <1>15, <1>16 DEF Loan, LoanRow
<1> QED BY <1>6, <1>11, <1>12, <1>13, <1>15, <1>17

LEMMA TypeRepayment ==
  ASSUME TypeOK, NEW d \in Day, NEW amount \in Nat, RecordRepayment(d, amount)
  PROVE  TypeOK'
<1>1. PICK r : r = Allocation(amount, d)
  OBVIOUS
<1>2. r \in RepaymentRow /\ r.interest + r.principal \in Nat
  BY <1>1, AllocationSplits
<1>3. /\ repayments' = Append(repayments, r)
      /\ paid' = Pay(paid, d, r.interest + r.principal)
      /\ loan' = Closed \/ loan' = Loan("active", loan.balance - r.principal, loan.penalty - r.penalties, loan.npl)
      /\ guarantee' \in {Discharged, guarantee}
  BY <1>1 DEF RecordRepayment
<1>4. Within(paid)'
  <2>1. Within(Pay(paid, d, r.interest + r.principal))
    BY <1>2, PayWithin DEF TypeOK
  <2> QED BY <1>3, <2>1 DEF Within
<1>5. loan' \in LoanRow
  <2>1. loan.balance \in Int /\ loan.penalty \in Int /\ loan.npl \in BOOLEAN
    BY DEF TypeOK, LoanRow
  <2>2. r.principal \in Int /\ r.penalties \in Int
    BY <1>2 DEF RepaymentRow
  <2>3. loan.balance - r.principal \in Int /\ loan.penalty - r.penalties \in Int
    BY <2>1, <2>2
  <2>4. Closed \in LoanRow
    BY DEF Closed, Loan, LoanRow, Statuses
  <2>5. \A b, n \in Int : Loan("active", b, n, loan.npl) \in LoanRow
    BY <2>1 DEF Loan, LoanRow, Statuses
  <2> QED BY <1>3, <2>3, <2>4, <2>5
<1>6. /\ repayments' \in Seq(RepaymentRow)
      /\ adjustments' \in Seq(AdjustmentRow) /\ Len(adjustments') = Len(repayments')
  <2>1. adjustments' = Append(adjustments, NoAdjustment) /\ NoAdjustment \in AdjustmentRow
    BY DEF RecordRepayment, AdjustmentRow
  <2>2. repayments \in Seq(RepaymentRow) /\ adjustments \in Seq(AdjustmentRow) /\ Len(adjustments) = Len(repayments)
    BY DEF TypeOK
  <2> QED BY <1>2, <1>3, <2>1, <2>2
<1>7. guarantee' \in {"none", "live", "released"}
  BY <1>3 DEF TypeOK, Discharged
<1> QED BY <1>4, <1>5, <1>6, <1>7 DEF TypeOK, RecordRepayment

\* Repayment k has a request a checker may decide.
LEMMA PendingRow ==
  ASSUME TypeOK, NEW u, NEW k \in DOMAIN repayments, Decides(u, k)
  PROVE  /\ k \in DOMAIN adjustments /\ adjustments[k] \in RequestRow
         /\ adjustments[k].status = "pending_approval"
<1>1. adjustments[k].status = "pending_approval"
  BY DEF Decides
<1>2. DOMAIN adjustments = DOMAIN repayments
  BY DEF TypeOK
<1>3. adjustments[k] \in AdjustmentRow
  BY <1>2 DEF TypeOK
<1>4. adjustments[k] # NoAdjustment
  BY <1>1 DEF NoAdjustment
<1> QED BY <1>1, <1>2, <1>3, <1>4 DEF AdjustmentRow

\* The approved request counts as posted, the others are as they were.
LEMMA ApprovalPosts ==
  ASSUME TypeOK, NEW u, NEW k \in DOMAIN repayments, Decides(u, k),
         NEW a, a = [adjustments EXCEPT ![k].status = "posted"]
  PROVE  /\ a \in Seq(AdjustmentRow) /\ Len(a) = Len(adjustments) /\ DOMAIN a = DOMAIN repayments
         /\ Posted(a) = Posted(adjustments) \union {k} /\ k \notin Posted(adjustments)
<1>1. /\ k \in DOMAIN adjustments /\ adjustments[k] \in RequestRow
      /\ adjustments[k].status = "pending_approval"
  BY PendingRow
<1>2. adjustments \in Seq(AdjustmentRow) /\ DOMAIN adjustments = DOMAIN repayments
  BY DEF TypeOK
<1>3. PICK row : row = [adjustments[k] EXCEPT !.status = "posted"]
  OBVIOUS
<1>4. row \in RequestRow /\ row.status = "posted"
  BY <1>1, <1>3 DEF RequestRow
<1>5. a = [adjustments EXCEPT ![k] = row]
  BY <1>3
<1>6. row \in AdjustmentRow
  BY <1>4 DEF AdjustmentRow
<1>7. a \in Seq(AdjustmentRow) /\ Len(a) = Len(adjustments) /\ DOMAIN a = DOMAIN adjustments
  BY <1>1, <1>2, <1>5, <1>6
<1>8. a[k] = row /\ \A l \in DOMAIN adjustments \ {k} : a[l] = adjustments[l]
  BY <1>1, <1>2, <1>5
<1>9. Posted(a) = Posted(adjustments) \union {k}
  BY <1>1, <1>4, <1>7, <1>8 DEF Posted
<1>10. k \notin Posted(adjustments)
  BY <1>1 DEF Posted
<1> QED BY <1>2, <1>7, <1>9, <1>10

LEMMA TypeApproval ==
  ASSUME TypeOK, NEW u, NEW k \in DOMAIN repayments, ApproveAdjustment(u, k)
  PROVE  TypeOK'
<1>1. PICK a : a = [adjustments EXCEPT ![k].status = "posted"]
  OBVIOUS
<1>2. a \in Seq(AdjustmentRow) /\ Len(a) = Len(adjustments) /\ DOMAIN a = DOMAIN repayments
  <2>1. Decides(u, k)
    BY DEF ApproveAdjustment
  <2> QED BY <1>1, <2>1, ApprovalPosts
<1>3. /\ adjustments' = a /\ paid' = Replay(a)
      /\ loan' = Loan("active", loan.balance + repayments[k].principal,
                      loan.penalty + repayments[k].penalties, loan.npl)
  BY <1>1 DEF ApproveAdjustment
<1>4. Within(paid)'
  <2>1. Within(Replay(a))
    BY <1>2, ReplayBacked DEF TypeOK
  <2> QED BY <1>3, <2>1 DEF Within
<1>5. loan' \in LoanRow
  <2>1. loan.balance \in Int /\ loan.penalty \in Int /\ loan.npl \in BOOLEAN
    BY DEF TypeOK, LoanRow
  <2>2. repayments[k].principal \in Int /\ repayments[k].penalties \in Int
    BY RowsOfRepayments DEF TypeOK
  <2> QED BY <1>3, <2>1, <2>2 DEF Loan, LoanRow, Statuses
<1> QED BY <1>2, <1>3, <1>4, <1>5 DEF TypeOK, ApproveAdjustment, ledger

LEMMA TypeRequest ==
  ASSUME TypeOK, NEW u \in User, NEW k \in DOMAIN repayments,
         RequestAdjustment(u, k) \/ RejectAdjustment(u, k)
  PROVE  TypeOK'
<1>1. PICK row : adjustments' = [adjustments EXCEPT ![k] = row] /\ row \in AdjustmentRow
  <2>1. CASE RequestAdjustment(u, k)
    <3>1. loan.balance \in Int /\ loan.penalty \in Int /\ loan.status \in Statuses
      BY DEF TypeOK, LoanRow
    <3>2. [status |-> "pending_approval", maker |-> u, balance |-> loan.balance,
           penalty |-> loan.penalty, loanStatus |-> loan.status] \in AdjustmentRow
      BY <3>1 DEF AdjustmentRow, RequestRow
    <3> QED BY <2>1, <3>2 DEF RequestAdjustment
  <2>2. CASE RejectAdjustment(u, k)
    BY <2>2 DEF RejectAdjustment, AdjustmentRow
  <2> QED BY <2>1, <2>2
<1>2. adjustments \in Seq(AdjustmentRow) /\ Len(adjustments) = Len(repayments)
  BY DEF TypeOK
<1>3. adjustments' \in Seq(AdjustmentRow) /\ Len(adjustments') = Len(adjustments)
  BY <1>1, <1>2
<1>4. UNCHANGED <<day, loan, guarantee, paid, ledger, writeOff, exited, job>>
  BY DEF RequestAdjustment, RejectAdjustment
<1> QED BY <1>3, <1>4 DEF TypeOK, ledger, Within

\* The live write-off after a step of the committee.
LEMMA TypeCommittee ==
  ASSUME TypeOK, NEW u \in User,
         \/ RequestWriteOff(u)
         \/ \E side \in {"approve", "reject"} : CastVote(u, side)
         \/ PostWriteOff(u)
  PROVE  TypeOK'
<1>1. loan.balance \in Int /\ loan.penalty \in Int /\ loan.npl \in BOOLEAN
  BY DEF TypeOK, LoanRow
<1>2. writeOff.status \in {"requested", "approved", "posted"} => writeOff \in ProposalRow
  BY DEF TypeOK, WriteOffRow, NoWriteOff
<1>3. CASE RequestWriteOff(u)
  <2>1. writeOff' \in WriteOffRow
    BY <1>1, <1>3 DEF RequestWriteOff, WriteOffRow, ProposalRow
  <2> QED BY <1>3, <2>1 DEF RequestWriteOff, TypeOK, ledger, Within
<1>4. ASSUME NEW side \in {"approve", "reject"}, CastVote(u, side)
      PROVE  TypeOK'
  <2>1. PICK w : w = [writeOff EXCEPT ![side] = @ \union {u}] /\ writeOff' = Decided(w)
    BY <1>4 DEF CastVote
  <2>2. w \in ProposalRow
    <3>1. CASE side = "approve"
      BY <1>2, <1>4, <2>1, <3>1 DEF CastVote, ProposalRow
    <3>2. CASE side = "reject"
      BY <1>2, <1>4, <2>1, <3>2 DEF CastVote, ProposalRow
    <3> QED BY <3>1, <3>2
  <2>3. [w EXCEPT !.status = "approved"] \in ProposalRow
    BY <2>2 DEF ProposalRow
  <2>4. Decided(w) \in {NoWriteOff, w, [w EXCEPT !.status = "approved"]}
    BY DEF Decided
  <2>5. writeOff' \in WriteOffRow
    BY <2>1, <2>2, <2>3, <2>4 DEF WriteOffRow
  <2> QED BY <1>4, <2>5 DEF CastVote, TypeOK, ledger, Within
<1>5. CASE PostWriteOff(u)
  <2>1. writeOff' \in WriteOffRow
    BY <1>2, <1>5 DEF PostWriteOff, WriteOffRow, ProposalRow
  <2>2. loan' \in LoanRow
    BY <1>1, <1>5 DEF PostWriteOff, Loan, LoanRow, Statuses
  <2> QED BY <1>5, <2>1, <2>2 DEF PostWriteOff, TypeOK, ledger, Within
<1> QED BY <1>3, <1>4, <1>5

LEMMA TypeJob ==
  ASSUME TypeOK, NEW s \in ScanRow, Process(s),
         job' \in [Job -> {Idle} \union ScanRow]
  PROVE  TypeOK'
<1>1. loan' \in LoanRow /\ accrued' \in [Day -> Int]
  BY ProcessAccrues
<1> QED BY <1>1 DEF Process, TypeOK, Within

LEMMA ScannedRow ==
  ASSUME TypeOK, NEW j \in Job, job[j].step = "scanned"
  PROVE  job[j] \in ScanRow
  BY DEF TypeOK, Idle

LEMMA TypeNext == TypeOK /\ [Next]_vars => TypeOK'
<1> SUFFICES ASSUME TypeOK, [Next]_vars
             PROVE  TypeOK'
  OBVIOUS
<1>1. CASE UNCHANGED vars
  BY <1>1 DEF vars, TypeOK, Within
<1>2. CASE NextDay
  <2>1. day' \in Day
    BY <1>2, ConstantsAssumption DEF NextDay, TypeOK, Day
  <2> QED BY <1>2, <2>1 DEF NextDay, TypeOK, ledger, Within
<1>3. ASSUME NEW d \in Day, NEW amount \in 1 .. Payoff(d) + 1, RecordRepayment(d, amount)
      PROVE  TypeOK'
  <2>1. amount \in Nat
    OBVIOUS
  <2> QED BY <1>3, <2>1, TypeRepayment
<1>4. ASSUME NEW u \in User, Officers(u)
      PROVE  TypeOK'
  BY <1>4, TypeApproval, TypeRequest, TypeCommittee DEF Officers
<1>5. CASE VoidWriteOff
  <2>1. writeOff' \in WriteOffRow
    BY <1>5 DEF VoidWriteOff, WriteOffRow
  <2> QED BY <1>5, <2>1 DEF VoidWriteOff, TypeOK, ledger, Within
<1>6. ASSUME NEW amount \in 1 .. Claim, RecordRecovery(amount)
      PROVE  TypeOK'
  <2>1. recovered' \in Int /\ guarantee' \in {"none", "live", "released"}
    BY <1>6 DEF RecordRecovery, TypeOK, Discharged
  <2> QED BY <1>6, <2>1 DEF RecordRecovery, TypeOK, Within
<1>7. CASE Settle
  <2>1. loan' \in LoanRow /\ guarantee' \in {"none", "live", "released"}
    BY <1>7 DEF Settle, TypeOK, Discharged, Closed, Loan, LoanRow, Statuses
  <2> QED BY <1>7, <2>1 DEF Settle, TypeOK, ledger, Within
<1>8. ASSUME NEW j \in Job, ScanArrears(j) \/ ApplyArrears(j) \/ SkipLoan(j)
      PROVE  TypeOK'
  <2>1. job' \in [Job -> {Idle} \union ScanRow]
    BY <1>8, ScanTyped DEF ScanArrears, ApplyArrears, SkipLoan, TypeOK
  <2>2. CASE ApplyArrears(j)
    <3>1. job[j] \in ScanRow /\ Process(job[j])
      BY <2>2, ScannedRow DEF ApplyArrears
    <3> QED BY <2>1, <3>1, TypeJob
  <2>3. CASE ScanArrears(j) \/ SkipLoan(j)
    BY <2>1, <2>3 DEF ScanArrears, SkipLoan, TypeOK, ledger, Within
  <2> QED BY <1>8, <2>2, <2>3
<1>9. CASE RunArrears
  <2>1. job' \in [Job -> {Idle} \union ScanRow]
    BY <1>9 DEF RunArrears, TypeOK
  <2> QED BY <1>9, <2>1, ScanTyped, TypeJob DEF RunArrears
<1> QED
  BY <1>1, <1>2, <1>3, <1>4, <1>5, <1>6, <1>7, <1>8, <1>9 DEF Next

Part == {"penalties", "interest", "principal"}

\* The legs of one kind that stand, as a sum over a set of repayments.
LEMMA StandingIs ==
  ASSUME TypeOK, NEW part \in Part
  PROVE  /\ Standing(part) = SumOf(Legs(part), DOMAIN repayments \ Posted(adjustments))
         /\ Standing(part) \in Int
         /\ \A k \in DOMAIN repayments : Legs(part)[k] = repayments[k][part] /\ Legs(part)[k] \in Int
<1>1. Standing(part) = SumOf(Legs(part), DOMAIN repayments \ Posted(adjustments))
  BY SumIsSumOf DEF Standing, Reversed, Posted
<1>2. \A k \in DOMAIN repayments : Legs(part)[k] = repayments[k][part] /\ Legs(part)[k] \in Int
  BY RowsOfRepayments DEF Legs, Part, TypeOK
<1>3. IsFiniteSet(DOMAIN repayments \ Posted(adjustments))
  BY RepaymentsAreFinite DEF TypeOK
<1>4. SumOf(Legs(part), DOMAIN repayments \ Posted(adjustments)) \in Int
  <2>1. \A k \in DOMAIN repayments \ Posted(adjustments) : Legs(part)[k] \in Int
    BY <1>2
  <2> QED BY <1>3, <2>1, SumIsInt
<1> QED BY <1>1, <1>2, <1>4

\* A new repayment stands.
LEMMA StandingGrows ==
  ASSUME TypeOK, NEW r \in RepaymentRow, NEW part \in Part,
         repayments' = Append(repayments, r),
         adjustments' = Append(adjustments, NoAdjustment)
  PROVE  /\ Standing(part)' = Standing(part) + r[part]
         /\ Posted(adjustments') = Posted(adjustments)
<1>1. PICK n : n = Len(repayments) + 1
  OBVIOUS
<1>2. PICK f, g, S : /\ f = Legs(part) /\ g = Legs(part)'
                     /\ S = DOMAIN repayments \ Posted(adjustments)
  OBVIOUS
<1>3. /\ repayments \in Seq(RepaymentRow) /\ adjustments \in Seq(AdjustmentRow)
      /\ Len(adjustments) = Len(repayments)
  BY DEF TypeOK
<1>4. /\ DOMAIN repayments' = DOMAIN repayments \union {n} /\ n \notin DOMAIN repayments
      /\ repayments'[n] = r /\ \A k \in DOMAIN repayments : repayments'[k] = repayments[k]
  BY <1>1, <1>3
<1>5. /\ DOMAIN adjustments' = DOMAIN adjustments \union {n} /\ n \notin DOMAIN adjustments
      /\ adjustments'[n] = NoAdjustment /\ \A k \in DOMAIN adjustments : adjustments'[k] = adjustments[k]
  BY <1>1, <1>3
<1>6. Posted(adjustments') = Posted(adjustments)
  BY <1>5 DEF Posted, NoAdjustment
<1>7. n \notin Posted(adjustments)
  BY <1>5 DEF Posted
<1>8. DOMAIN repayments' \ Posted(adjustments') = S \union {n} /\ n \notin S
  BY <1>2, <1>4, <1>6, <1>7
<1>9. g[n] = r[part] /\ \A k \in S : g[k] = f[k]
  BY <1>2, <1>4 DEF Legs
<1>10. r[part] \in Int /\ \A k \in S : f[k] \in Int
  BY <1>2, StandingIs DEF RepaymentRow, Part
<1>11. IsFiniteSet(S)
  BY <1>2, RepaymentsAreFinite DEF TypeOK
<1>12. SumOf(g, S \union {n}) = SumOf(g, S) + g[n]
  BY <1>8, <1>9, <1>10, <1>11, SumAdd
<1>13. SumOf(g, S) = SumOf(f, S)
  BY <1>9, <1>11, SumSame
<1>14. Standing(part)' = SumOf(g, S \union {n})
  <2>1. Standing(part)' = SumOf(Legs(part)', DOMAIN repayments' \ Posted(adjustments'))
    BY SumIsSumOf DEF Standing, Reversed, Posted
  <2> QED BY <1>2, <1>8, <2>1
<1>15. Standing(part) = SumOf(f, S)
  BY <1>2, StandingIs
<1> QED BY <1>6, <1>9, <1>12, <1>13, <1>14, <1>15

\* An approved adjustment takes its repayment's legs out.
LEMMA StandingShrinks ==
  ASSUME TypeOK, NEW u, NEW k \in DOMAIN repayments, NEW part \in Part,
         ApproveAdjustment(u, k)
  PROVE  Standing(part)' = Standing(part) - repayments[k][part]
<1>1. PICK f, S : f = Legs(part) /\ S = DOMAIN repayments \ Posted(adjustments)
  OBVIOUS
<1>2. Posted(adjustments') = Posted(adjustments) \union {k} /\ k \notin Posted(adjustments)
  <2>1. Decides(u, k) /\ adjustments' = [adjustments EXCEPT ![k].status = "posted"]
    BY DEF ApproveAdjustment
  <2> QED BY <2>1, ApprovalPosts
<1>3. repayments' = repayments
  BY DEF ApproveAdjustment, ledger
<1>4. k \in S /\ DOMAIN repayments' \ Posted(adjustments') = S \ {k} /\ IsFiniteSet(S)
  BY <1>1, <1>2, <1>3, RepaymentsAreFinite DEF TypeOK
<1>5. \A l \in S : f[l] \in Int
  BY <1>1, StandingIs
<1>6. f[k] = repayments[k][part] /\ f[k] \in Int
  BY <1>1, StandingIs
<1>7. SumOf(f, S) = f[k] + SumOf(f, S \ {k})
  BY <1>4, <1>5, SumRemove
<1>8. SumOf(f, S \ {k}) \in Int
  <2>1. IsFiniteSet(S \ {k}) /\ \A l \in S \ {k} : f[l] \in Int
    BY <1>4, <1>5, FS_Subset
  <2> QED BY <2>1, SumIsInt
<1>9. Standing(part)' = SumOf(f, S \ {k})
  <2>1. Standing(part)' = SumOf(Legs(part)', DOMAIN repayments' \ Posted(adjustments'))
    BY SumIsSumOf DEF Standing, Reversed, Posted
  <2>2. Legs(part)' = f
    BY <1>1, <1>3 DEF Legs
  <2> QED BY <1>4, <2>1, <2>2
<1>10. Standing(part) = SumOf(f, S)
  BY <1>1, StandingIs
<1> QED BY <1>6, <1>7, <1>8, <1>9, <1>10

LEMMA StandingStays ==
  ASSUME repayments' = repayments, Posted(adjustments') = Posted(adjustments), NEW part
  PROVE  Standing(part)' = Standing(part)
  BY DEF Standing, Reversed, Posted, Legs

\* Requesting or rejecting an adjustment posts none and touches no posted one
\* (corrections.py request_repayment_adjustment, reject_repayment_adjustment).
LEMMA RequestsPostNothing ==
  ASSUME NEW u, NEW k,
         RequestAdjustment(u, k) \/ RejectAdjustment(u, k)
  PROVE  Posted(adjustments') = Posted(adjustments)
<1>1. PICK row : adjustments' = [adjustments EXCEPT ![k] = row] /\ row.status # "posted"
  BY DEF RequestAdjustment, RejectAdjustment, NoAdjustment
<1>2. adjustments[k].status # "posted"
  BY DEF RequestAdjustment, RejectAdjustment, Decides, NoAdjustment
<1>3. DOMAIN adjustments' = DOMAIN adjustments
  BY <1>1
<1>4. ASSUME NEW l \in DOMAIN adjustments
      PROVE  adjustments'[l].status = "posted" <=> adjustments[l].status = "posted"
  BY <1>1, <1>2
<1> QED BY <1>3, <1>4 DEF Posted

\* A day's accrual raises what the accruals sum to by its amount.
LEMMA AccrualAdds ==
  ASSUME TypeOK, NEW d \in Day, NEW amount \in Int, accrued' \in [Day -> Int],
         accrued'[d] = accrued[d] + amount,
         \A e \in Day \ {d} : accrued'[e] = accrued[e]
  PROVE  Sum(accrued, Day)' = Sum(accrued, Day) + amount /\ Sum(accrued, Day) \in Int
<1>1. PICK f, g : f = accrued /\ g = accrued'
  OBVIOUS
<1>2. IsFiniteSet(Day)
  BY ConstantsAssumption, FS_Interval DEF Day
<1>3. (\A e \in Day : f[e] \in Int) /\ (\A e \in Day : g[e] \in Int)
      /\ (\A e \in Day \ {d} : g[e] = f[e]) /\ g[d] = f[d] + amount
  BY <1>1 DEF TypeOK
<1>4. SumOf(g, Day) = SumOf(f, Day) + g[d] - f[d]
  BY <1>2, <1>3, SumChanged
<1>5. SumOf(f, Day) \in Int /\ f[d] \in Int
  BY <1>2, <1>3, SumIsInt
<1>6. Sum(accrued, Day)' = SumOf(g, Day) /\ Sum(accrued, Day) = SumOf(f, Day)
  <2>1. Sum(accrued, Day)' = Sum(g, Day)
    BY <1>1 DEF Day
  <2> QED BY <1>1, <2>1, SumIsSumOf
<1> QED BY <1>3, <1>4, <1>5, <1>6

LEMMA OwedTyped ==
  ASSUME TypeOK
  PROVE  /\ Principal \in Int /\ Sum(accrued, Day) \in Int
         /\ OwedPrincipal \in Int /\ OwedPenalty \in Int
         /\ Standing("principal") \in Int /\ Standing("penalties") \in Int
         /\ OwedPrincipal = Principal - Standing("principal")
         /\ OwedPenalty = Sum(accrued, Day) - Standing("penalties")
<1>1. Principal \in Int
  <2>1. \A i \in Installment : PrincipalDue[i] \in Int
    BY AmountsDue
  <2> QED BY <2>1, ScheduleIsFinite, SumIsInt, SumIsSumOf DEF Principal
<1>2. Sum(accrued, Day) \in Int
  <2>1. IsFiniteSet(Day) /\ \A e \in Day : accrued[e] \in Int
    BY ConstantsAssumption, FS_Interval DEF Day, TypeOK
  <2> QED BY <2>1, SumIsInt, SumIsSumOf
<1>3. Standing("principal") \in Int /\ Standing("penalties") \in Int
  BY StandingIs DEF Part
<1> QED BY <1>1, <1>2, <1>3 DEF OwedPrincipal, OwedPenalty

-----------------------------------------------------------------------------
(* A written-off loan is terminal.                                         *)

WrittenOff == loan.status = "written_off"
Settled ==
  UNCHANGED <<loan, paid, repayments, accrued>> /\ Posted(adjustments') = Posted(adjustments)

LEMMA FinalStep ==
  ASSUME WrittenOff, [Next]_vars
  PROVE  Settled
<1>1. CASE UNCHANGED vars
  BY <1>1 DEF Settled, vars, Posted
<1>2. CASE NextDay
  BY <1>2 DEF Settled, NextDay, ledger
<1>3. CASE \E d \in Day : \E amount \in 1 .. Payoff(d) + 1 : RecordRepayment(d, amount)
  BY <1>3 DEF RecordRepayment, Serviceable, WrittenOff
<1>4. ASSUME NEW u \in User, Officers(u)
      PROVE  Settled
  <2>1. CASE \E k \in DOMAIN repayments : RequestAdjustment(u, k)
    BY <2>1 DEF RequestAdjustment, Adjustable, WrittenOff
  <2>2. CASE \E k \in DOMAIN repayments : ApproveAdjustment(u, k)
    BY <2>2 DEF ApproveAdjustment, Adjustable, WrittenOff
  <2>3. CASE \E k \in DOMAIN repayments : RejectAdjustment(u, k)
    BY <2>3, RequestsPostNothing DEF Settled, RejectAdjustment, ledger
  <2>4. CASE RequestWriteOff(u)
    BY <2>4 DEF RequestWriteOff, WrittenOff
  <2>5. CASE \E side \in {"approve", "reject"} : CastVote(u, side)
    BY <2>5 DEF Settled, CastVote, ledger
  <2>6. CASE PostWriteOff(u)
    BY <2>6 DEF PostWriteOff, WrittenOff
  <2> QED
    BY <1>4, <2>1, <2>2, <2>3, <2>4, <2>5, <2>6 DEF Officers
<1>5. CASE VoidWriteOff
  BY <1>5 DEF Settled, VoidWriteOff, ledger
<1>6. CASE \E amount \in 1 .. Claim : RecordRecovery(amount)
  BY <1>6 DEF Settled, RecordRecovery
<1>7. CASE Settle
  BY <1>7 DEF Settled, Settle, ledger, WrittenOff
<1>8. ASSUME NEW j \in Job, ScanArrears(j) \/ ApplyArrears(j) \/ SkipLoan(j)
      PROVE  Settled
  BY <1>8 DEF Settled, ScanArrears, ApplyArrears, SkipLoan, Process, StillActive, ledger,
                    WrittenOff
<1>9. CASE RunArrears
  BY <1>9 DEF RunArrears, Process, StillActive, WrittenOff
<1> QED
  BY <1>1, <1>2, <1>3, <1>4, <1>5, <1>6, <1>7, <1>8, <1>9 DEF Next

\* No handler changes the loan row, the schedule, the repayments, the accruals
\* or a posted adjustment once the loan is written off, not even the arrears
\* job that scanned it while it was active (domain/lending.py loan_transition).
THEOREM WrittenOffStaysFinal == Spec => WrittenOffIsFinal
<1>1. [Next]_vars => [WrittenOff => Settled]_vars
  BY FinalStep
<1> QED
  BY <1>1, PTL DEF Spec, WrittenOffIsFinal, WrittenOff, Settled

-----------------------------------------------------------------------------
(* Guarantors discharged stay out of it: the loan they stood behind is     *)
(* never owed again.                                                       *)

DischargedNotActive == guarantee = "released" => loan.status # "active"
ClosedOwesNothing == loan.status = "closed" => loan.balance = 0 /\ loan.penalty = 0
StatusKnown == loan.status \in {"active", "closed", "written_off"}
EndInv == DischargedNotActive /\ ClosedOwesNothing /\ StatusKnown

LEMMA EndInit == Init => EndInv
  BY DEF Init, EndInv, DischargedNotActive, ClosedOwesNothing, StatusKnown, Loan

LEMMA EndNext == EndInv /\ [Next]_vars => EndInv'
<1> SUFFICES ASSUME EndInv, [Next]_vars
             PROVE  EndInv'
  OBVIOUS
<1> USE DEF EndInv, DischargedNotActive, ClosedOwesNothing, StatusKnown
<1>1. CASE UNCHANGED vars
  BY <1>1 DEF vars
<1>2. CASE NextDay
  BY <1>2 DEF NextDay
<1>3. ASSUME NEW d \in Day, NEW amount \in 1 .. Payoff(d) + 1, RecordRepayment(d, amount)
      PROVE  EndInv'
  BY <1>3 DEF RecordRepayment, Serviceable, Discharged, Closed, Loan
<1>4. ASSUME NEW u \in User, Officers(u)
      PROVE  EndInv'
  <2>1. ASSUME NEW k \in DOMAIN repayments, ApproveAdjustment(u, k)
        PROVE  EndInv'
    <3>1. loan'.status = "active" /\ guarantee' = guarantee
      BY <2>1 DEF ApproveAdjustment, Loan
    <3>2. loan.status \in {"active", "closed"}
      BY <2>1 DEF ApproveAdjustment, Adjustable
    <3> QED
      BY <2>1, <3>1, <3>2 DEF ApproveAdjustment, Reopens, Reopenable
  <2>2. CASE \E k \in DOMAIN repayments : RequestAdjustment(u, k) \/ RejectAdjustment(u, k)
    BY <2>2 DEF RequestAdjustment, RejectAdjustment
  <2>3. CASE RequestWriteOff(u) \/ \E side \in {"approve", "reject"} : CastVote(u, side)
    BY <2>3 DEF RequestWriteOff, CastVote
  <2>4. CASE PostWriteOff(u)
    BY <2>4 DEF PostWriteOff, Loan
  <2> QED
    BY <1>4, <2>1, <2>2, <2>3, <2>4 DEF Officers
<1>5. CASE VoidWriteOff
  BY <1>5 DEF VoidWriteOff
<1>6. CASE \E amount \in 1 .. Claim : RecordRecovery(amount)
  BY <1>6 DEF RecordRecovery
<1>7. CASE Settle
  BY <1>7 DEF Settle, Closed, Loan
<1>8. ASSUME NEW j \in Job, ScanArrears(j) \/ ApplyArrears(j) \/ SkipLoan(j)
      PROVE  EndInv'
  BY <1>8 DEF ScanArrears, ApplyArrears, SkipLoan, Process, StillActive, Loan
<1>9. CASE RunArrears
  BY <1>9 DEF RunArrears, Process, StillActive, Loan
<1> QED
  BY <1>1, <1>2, <1>3, <1>4, <1>5, <1>6, <1>7, <1>8, <1>9 DEF Next

\* Guarantees are never released under an active loan, and a closed loan owes
\* nothing: closure, exit and full recovery are the only ways to discharge,
\* and no adjustment reopens what was discharged (loans.py _close_loan,
\* corrections.py _released_guarantees_exist).
THEOREM DischargedNeverOwed == Spec => []EndInv
  BY EndInit, EndNext, PTL DEF Spec

-----------------------------------------------------------------------------
(* The loan row and the history.                                           *)

ExitEnds == exited => loan.status # "active"
ClaimFixed == WrittenOff => writeOff.status = "posted"
BooksInv ==
  TypeOK /\ EndInv /\ ExitEnds /\ ClaimFixed
  /\ BooksReconcile /\ ClaimIsWhatWasOwed /\ DischargedMeansSettled

LEMMA BooksInit == Init => BooksInv
<1> SUFFICES ASSUME Init PROVE BooksInv
  OBVIOUS
<1>1. TypeOK /\ EndInv
  BY TypeInit, EndInit
<1>2. ExitEnds /\ ClaimFixed /\ ClaimIsWhatWasOwed /\ DischargedMeansSettled
  BY DEF Init, ExitEnds, ClaimFixed, WrittenOff, ClaimIsWhatWasOwed, DischargedMeansSettled, Loan
<1>3. BooksReconcile
  <2>1. \A part : Standing(part) = 0
    <3> SUFFICES ASSUME NEW part PROVE Standing(part) = 0
      OBVIOUS
    <3>1. DOMAIN repayments \ Reversed = {}
      BY DEF Init
    <3> QED BY <3>1, FS_EmptySet, SumUnfolds, SumIsSumOf DEF Standing
  <2>2. Sum(accrued, Day) = 0
    <3>1. IsFiniteSet(Day) /\ \A d \in Day : accrued[d] = 0
      BY ConstantsAssumption, FS_Interval DEF Day, Init
    <3> QED BY <3>1, SumZero, SumIsSumOf
  <2>3. OwedPrincipal = Principal /\ OwedPenalty = 0
    BY <1>1, <2>1, <2>2, OwedTyped DEF OwedPrincipal, OwedPenalty
  <2>4. loan.balance = Principal /\ loan.penalty = 0
    BY DEF Init, Loan
  <2> QED BY <2>3, <2>4 DEF BooksReconcile
<1> QED BY <1>1, <1>2, <1>3 DEF BooksInv

\* A repayment takes its legs off the row and adds them to the history.
LEMMA BooksRepayment ==
  ASSUME BooksInv, TypeOK', EndInv', NEW d \in Day, NEW amount \in Nat, RecordRepayment(d, amount)
  PROVE  BooksInv'
<1>1. TypeOK
  BY DEF BooksInv
<1>2. PICK r : r = Allocation(amount, d)
  OBVIOUS
<1>3. r \in RepaymentRow
  BY <1>1, <1>2, AllocationSplits
<1>4. /\ repayments' = Append(repayments, r) /\ adjustments' = Append(adjustments, NoAdjustment)
      /\ UNCHANGED <<accrued, writeOff, recovered, exited>>
      /\ loan.status = "active"
      /\ \/ loan' = Closed /\ loan.balance - r.principal = 0 /\ loan.penalty - r.penalties = 0
            /\ guarantee' = Discharged
         \/ loan' = Loan("active", loan.balance - r.principal, loan.penalty - r.penalties, loan.npl)
            /\ guarantee' = guarantee
  BY <1>2 DEF RecordRepayment, Serviceable
<1>5. /\ loan'.balance = loan.balance - r.principal /\ loan'.penalty = loan.penalty - r.penalties
      /\ loan'.status \in {"active", "closed"}
      /\ loan'.status = "closed" => loan'.balance = 0 /\ loan'.penalty = 0
      /\ loan'.status = "active" => guarantee' = guarantee
  <2>1. CASE loan' = Closed
    BY <1>4, <2>1 DEF Closed, Loan
  <2>2. CASE loan' # Closed
    BY <1>4, <2>2 DEF Closed, Loan
  <2> QED BY <2>1, <2>2
<1>6. /\ Standing("principal")' = Standing("principal") + r.principal
      /\ Standing("penalties")' = Standing("penalties") + r.penalties
  BY <1>1, <1>3, <1>4, StandingGrows DEF Part
<1>7. r.principal \in Int /\ r.penalties \in Int /\ loan.balance \in Int /\ loan.penalty \in Int
  BY <1>1, <1>3 DEF RepaymentRow, TypeOK, LoanRow
<1>8. ~exited /\ loan.balance = OwedPrincipal /\ loan.penalty = OwedPenalty
  BY <1>4 DEF BooksInv, ExitEnds, BooksReconcile
<1>9. OwedPrincipal' = OwedPrincipal - r.principal /\ OwedPenalty' = OwedPenalty - r.penalties
  <2>1. OwedPrincipal' = Principal - Standing("principal")' /\ OwedPenalty' = Sum(accrued, Day) - Standing("penalties")'
    BY <1>4 DEF OwedPrincipal, OwedPenalty, Principal, Installment, Day
  <2> QED BY <1>1, <1>6, <1>7, <2>1, OwedTyped
<1>10. BooksReconcile'
  BY <1>5, <1>7, <1>8, <1>9 DEF BooksReconcile
<1>11. loan.status = "active" /\ ~(guarantee = "released")
  BY <1>4 DEF BooksInv, EndInv, DischargedNotActive
<1>12. DischargedMeansSettled'
  BY <1>4, <1>5, <1>11 DEF DischargedMeansSettled
<1>13. ExitEnds' /\ ClaimFixed' /\ ClaimIsWhatWasOwed'
  BY <1>4, <1>5, <1>8 DEF ExitEnds, ClaimFixed, WrittenOff, ClaimIsWhatWasOwed
<1> QED BY <1>10, <1>12, <1>13 DEF BooksInv

\* An approved adjustment gives both back.
LEMMA BooksApproval ==
  ASSUME BooksInv, TypeOK', EndInv', NEW u, NEW k \in DOMAIN repayments, ApproveAdjustment(u, k)
  PROVE  BooksInv'
<1>1. TypeOK
  BY DEF BooksInv
<1>2. PICK r : r = repayments[k]
  OBVIOUS
<1>3. /\ UNCHANGED <<repayments, accrued, guarantee, writeOff, recovered, exited>>
      /\ ~exited /\ loan.status # "written_off"
      /\ loan' = Loan("active", loan.balance + r.principal, loan.penalty + r.penalties, loan.npl)
  BY <1>2 DEF ApproveAdjustment, Adjustable, ledger
<1>4. loan'.balance = loan.balance + r.principal /\ loan'.penalty = loan.penalty + r.penalties /\ loan'.status = "active"
  BY <1>3 DEF Loan
<1>5. /\ Standing("principal")' = Standing("principal") - r.principal
      /\ Standing("penalties")' = Standing("penalties") - r.penalties
  BY <1>1, <1>2, StandingShrinks DEF Part
<1>6. r.principal \in Int /\ r.penalties \in Int /\ loan.balance \in Int /\ loan.penalty \in Int
  BY <1>1, <1>2, RowsOfRepayments DEF TypeOK, LoanRow
<1>7. loan.balance = OwedPrincipal /\ loan.penalty = OwedPenalty
  BY <1>3 DEF BooksInv, BooksReconcile
<1>8. OwedPrincipal' = OwedPrincipal + r.principal /\ OwedPenalty' = OwedPenalty + r.penalties
  <2>1. OwedPrincipal' = Principal - Standing("principal")' /\ OwedPenalty' = Sum(accrued, Day) - Standing("penalties")'
    BY <1>3 DEF OwedPrincipal, OwedPenalty, Principal, Installment, Day
  <2> QED BY <1>1, <1>5, <1>6, <2>1, OwedTyped
<1>9. BooksReconcile'
  BY <1>4, <1>7, <1>8 DEF BooksReconcile
<1>10. ExitEnds' /\ ClaimFixed' /\ ClaimIsWhatWasOwed'
  BY <1>3, <1>4 DEF ExitEnds, ClaimFixed, WrittenOff, ClaimIsWhatWasOwed
<1>11. DischargedMeansSettled'
  BY <1>4 DEF EndInv, DischargedNotActive, DischargedMeansSettled
<1> QED BY <1>9, <1>10, <1>11 DEF BooksInv

\* An accrual adds the same to the row and to the claims.
LEMMA BooksAccrual ==
  ASSUME BooksInv, TypeOK', EndInv', NEW s \in ScanRow, Process(s)
  PROVE  BooksInv'
<1>1. TypeOK
  BY DEF BooksInv
<1>2. PICK amount \in Int :
        /\ loan' \in LoanRow /\ loan'.status = "active" /\ loan.status = "active"
        /\ loan'.balance = loan.balance /\ loan'.penalty = loan.penalty + amount
        /\ accrued' \in [Day -> Int]
        /\ accrued'[s.asOf] = accrued[s.asOf] + amount
        /\ \A d \in Day \ {s.asOf} : accrued'[d] = accrued[d]
  BY <1>1, ProcessAccrues
<1>3. UNCHANGED <<repayments, adjustments, guarantee, writeOff, recovered, exited>>
  BY DEF Process
<1>4. Sum(accrued, Day)' = Sum(accrued, Day) + amount
  <2>1. s.asOf \in Day
    BY DEF ScanRow
  <2> QED BY <1>1, <1>2, <2>1, AccrualAdds
<1>5. \A part : Standing(part)' = Standing(part)
  BY <1>3, StandingStays
<1>6. OwedPrincipal' = OwedPrincipal /\ OwedPenalty' = OwedPenalty + amount
  <2>1. OwedPrincipal' = Principal - Standing("principal") /\ OwedPenalty' = Sum(accrued, Day)' - Standing("penalties")
    BY <1>5 DEF OwedPrincipal, OwedPenalty, Principal, Installment
  <2> QED BY <1>1, <1>4, <2>1, OwedTyped
<1>7. ~exited /\ loan.balance = OwedPrincipal /\ loan.penalty = OwedPenalty
  BY <1>2 DEF BooksInv, ExitEnds, BooksReconcile
<1>8. BooksReconcile'
  BY <1>2, <1>6, <1>7 DEF BooksReconcile
<1>9. ExitEnds' /\ ClaimFixed' /\ ClaimIsWhatWasOwed'
  BY <1>2, <1>3, <1>7 DEF ExitEnds, ClaimFixed, WrittenOff, ClaimIsWhatWasOwed
<1>10. DischargedMeansSettled'
  BY <1>2 DEF EndInv, DischargedNotActive, DischargedMeansSettled
<1> QED BY <1>8, <1>9, <1>10 DEF BooksInv

\* Steps that leave the history and the amounts alone.
LEMMA BooksStay ==
  ASSUME BooksInv, TypeOK', EndInv',
         UNCHANGED <<loan, repayments, accrued, exited>>, Posted(adjustments') = Posted(adjustments),
         ClaimFixed',
         WrittenOff => UNCHANGED <<writeOff>>,
         DischargedMeansSettled'
  PROVE  BooksInv'
<1>1. OwedPrincipal' = OwedPrincipal /\ OwedPenalty' = OwedPenalty
  BY StandingStays DEF OwedPrincipal, OwedPenalty, Principal, Installment, Day
<1> QED BY <1>1 DEF BooksInv, ExitEnds, BooksReconcile, ClaimIsWhatWasOwed, WrittenOff

LEMMA ClaimTyped ==
  ASSUME BooksInv
  PROVE  Claim \in Int /\ recovered \in Int
  BY DEF BooksInv, TypeOK, WriteOffRow, ProposalRow, NoWriteOff, Claim

LEMMA BooksNext == BooksInv /\ [Next]_vars => BooksInv'
<1> SUFFICES ASSUME BooksInv, [Next]_vars
             PROVE  BooksInv'
  OBVIOUS
<1>0. TypeOK' /\ EndInv'
  BY TypeNext, EndNext DEF BooksInv
<1> USE <1>0
<1>1. ASSUME UNCHANGED <<loan, guarantee, repayments, accrued, writeOff, recovered, exited>>,
             Posted(adjustments') = Posted(adjustments)
      PROVE  BooksInv'
  BY <1>1, BooksStay DEF BooksInv, DischargedMeansSettled, ClaimFixed, WrittenOff, Claim
<1>2. CASE UNCHANGED vars \/ NextDay
  BY <1>1, <1>2 DEF vars, NextDay, ledger, Posted
<1>3. ASSUME NEW d \in Day, NEW amount \in 1 .. Payoff(d) + 1, RecordRepayment(d, amount)
      PROVE  BooksInv'
  <2>1. amount \in Nat
    OBVIOUS
  <2> QED BY <1>3, <2>1, BooksRepayment
<1>4. ASSUME NEW u \in User, Officers(u)
      PROVE  BooksInv'
  <2>1. ASSUME NEW k \in DOMAIN repayments, ApproveAdjustment(u, k)
        PROVE  BooksInv'
    BY <2>1, BooksApproval
  <2>2. ASSUME NEW k \in DOMAIN repayments, RequestAdjustment(u, k) \/ RejectAdjustment(u, k)
        PROVE  BooksInv'
    BY <1>1, <2>2, RequestsPostNothing DEF RequestAdjustment, RejectAdjustment, ledger
  <2>3. CASE RequestWriteOff(u) \/ \E side \in {"approve", "reject"} : CastVote(u, side)
    <3>1. /\ UNCHANGED <<loan, guarantee, repayments, accrued, adjustments, recovered, exited>>
          /\ ~WrittenOff /\ writeOff.status # "posted"
      BY <2>3 DEF RequestWriteOff, CastVote, ledger, BooksInv, ClaimFixed, WrittenOff, NoWriteOff
    <3>2. ClaimFixed' /\ DischargedMeansSettled'
      BY <3>1 DEF BooksInv, ClaimFixed, WrittenOff, DischargedMeansSettled
    <3>3. Posted(adjustments') = Posted(adjustments)
      BY <3>1
    <3> QED BY <3>1, <3>2, <3>3, BooksStay
  <2>4. CASE PostWriteOff(u)
    <3>1. /\ loan.status = "active" /\ loan' = Loan("written_off", 0, 0, loan.npl)
          /\ loan.balance = writeOff.balance /\ loan.penalty = writeOff.penalty
          /\ writeOff.status = "approved" /\ writeOff' = [writeOff EXCEPT !.status = "posted"]
          /\ UNCHANGED <<repayments, accrued, adjustments, guarantee, recovered, exited>>
      BY <2>4 DEF PostWriteOff, SnapshotHolds, ledger
    <3>2. writeOff \in ProposalRow
      BY <3>1 DEF BooksInv, TypeOK, WriteOffRow, NoWriteOff
    <3>3. writeOff'.status = "posted" /\ writeOff'.balance = loan.balance /\ writeOff'.penalty = loan.penalty
      BY <3>1, <3>2 DEF ProposalRow
    <3>4. OwedPrincipal' = OwedPrincipal /\ OwedPenalty' = OwedPenalty
      BY <3>1, StandingStays DEF OwedPrincipal, OwedPenalty, Principal, Installment, Day
    <3>5. ~exited /\ loan.balance = OwedPrincipal /\ loan.penalty = OwedPenalty /\ guarantee # "released"
      BY <3>1 DEF BooksInv, ExitEnds, BooksReconcile, EndInv, DischargedNotActive
    <3>6. loan'.status = "written_off"
      BY <3>1 DEF Loan
    <3> QED BY <3>1, <3>3, <3>4, <3>5, <3>6
            DEF BooksInv, ExitEnds, ClaimFixed, WrittenOff, BooksReconcile, ClaimIsWhatWasOwed,
                DischargedMeansSettled
  <2> QED BY <1>4, <2>1, <2>2, <2>3, <2>4 DEF Officers
<1>5. CASE VoidWriteOff
  <2>1. /\ UNCHANGED <<loan, guarantee, repayments, accrued, adjustments, recovered, exited>>
        /\ ~WrittenOff
    BY <1>5 DEF VoidWriteOff, ledger, BooksInv, ClaimFixed
  <2>2. ClaimFixed' /\ DischargedMeansSettled'
    BY <2>1 DEF BooksInv, ClaimFixed, WrittenOff, DischargedMeansSettled
  <2>3. Posted(adjustments') = Posted(adjustments)
    BY <2>1
  <2> QED BY <2>1, <2>2, <2>3, BooksStay
<1>6. ASSUME NEW amount \in 1 .. Claim, RecordRecovery(amount)
      PROVE  BooksInv'
  <2>1. /\ UNCHANGED <<loan, repayments, accrued, adjustments, writeOff, exited>>
        /\ recovered' = recovered + amount /\ amount <= Claim - recovered
        /\ loan.status = "written_off"
        /\ guarantee' = IF recovered + amount = Claim THEN Discharged ELSE guarantee
    BY <1>6 DEF RecordRecovery, FullyRecovered
  <2>2. amount \in Int /\ 1 <= amount /\ Claim \in Int /\ recovered \in Int
    BY ClaimTyped
  <2>3. guarantee # "released"
    BY <2>1, <2>2 DEF BooksInv, DischargedMeansSettled
  <2>4. Claim' = Claim
    BY <2>1 DEF Claim
  <2>5. DischargedMeansSettled' /\ ClaimFixed'
    BY <2>1, <2>3, <2>4 DEF DischargedMeansSettled, BooksInv, ClaimFixed, WrittenOff
  <2>6. Posted(adjustments') = Posted(adjustments)
    BY <2>1
  <2> QED BY <2>1, <2>5, <2>6, BooksStay
<1>7. CASE Settle
  <2>1. /\ UNCHANGED <<repayments, accrued, adjustments, writeOff, recovered>>
        /\ exited' = TRUE /\ Claim = recovered
        /\ loan' = IF loan.status = "active" THEN Closed ELSE loan
    BY <1>7 DEF Settle, ledger
  <2>2. Claim' = Claim
    BY <2>1 DEF Claim
  <2>3. OwedPrincipal' = OwedPrincipal /\ OwedPenalty' = OwedPenalty
    BY <2>1, StandingStays DEF OwedPrincipal, OwedPenalty, Principal, Installment, Day
  <2>4. \/ loan'.status = "closed" /\ loan'.balance = 0 /\ loan'.penalty = 0
        \/ loan'.status = "written_off" /\ loan' = loan
    BY <2>1 DEF BooksInv, EndInv, StatusKnown, ClosedOwesNothing, Closed, Loan
  <2>5. DischargedMeansSettled'
    BY <2>1, <2>2, <2>4 DEF DischargedMeansSettled
  <2> QED BY <2>1, <2>3, <2>4, <2>5
          DEF BooksInv, ExitEnds, ClaimFixed, WrittenOff, BooksReconcile, ClaimIsWhatWasOwed
<1>8. ASSUME NEW j \in Job, ScanArrears(j) \/ ApplyArrears(j) \/ SkipLoan(j)
      PROVE  BooksInv'
  <2>1. CASE ApplyArrears(j)
    <3>1. job[j] \in ScanRow /\ Process(job[j])
      BY <2>1, ScannedRow DEF ApplyArrears, BooksInv
    <3> QED BY <3>1, BooksAccrual
  <2>2. CASE ScanArrears(j) \/ SkipLoan(j)
    BY <1>1, <2>2 DEF ScanArrears, SkipLoan, ledger, Posted
  <2> QED BY <1>8, <2>1, <2>2
<1>9. CASE RunArrears
  <2>1. Scan \in ScanRow /\ Process(Scan)
    BY <1>9, ScanTyped DEF RunArrears, BooksInv
  <2> QED BY <2>1, BooksAccrual
<1> QED
  BY <1>2, <1>3, <1>4, <1>5, <1>6, <1>7, <1>8, <1>9 DEF Next

-----------------------------------------------------------------------------
(* The schedule and the cash.                                              *)

\* The interest of installment i that its paid amount covers.
Covered(p) == [i \in Installment |-> Min({InterestDue[i], p[i]})]

LEMMA CoveredIs ==
  ASSUME NEW p, Within(p), NEW i \in Installment
  PROVE  Covered(p)[i] \in Int /\ Covered(p)[i] = IF InterestDue[i] <= p[i] THEN InterestDue[i] ELSE p[i]
<1>1. PICK n, m : n = InterestDue[i] /\ m = p[i]
  OBVIOUS
<1>2. n \in Int /\ m \in Int
  BY <1>1, AmountsDue DEF Within
<1>3. Min({n, m}) = IF n <= m THEN n ELSE m
  BY <1>2, MinOfTwo
<1>4. Covered(p)[i] = Min({n, m})
  BY <1>1 DEF Covered
<1> QED BY <1>1, <1>2, <1>3, <1>4

\* What a payment adds to the interest covered is no more than its cash, and
\* no more than the interest of the installments due that was unpaid.
LEMMA CoverGained ==
  ASSUME NEW p, Within(p), NEW d, NEW cash \in Nat
  PROVE  /\ Sum(Covered(Pay(p, d, cash)), Installment) <= Sum(Covered(p), Installment) + cash
         /\ Sum(Covered(Pay(p, d, cash)), Installment)
              <= Sum(Covered(p), Installment) + InterestUnpaid(p, d)
         /\ Sum(Covered(p), Installment) \in Int
         /\ Sum(Covered(Pay(p, d, cash)), Installment) \in Int
<1> DEFINE q == Pay(p, d, cash)
           e == Covered(p)
           c == Covered(q)
           inc == Added(p, d, cash)
           gain == [i \in Installment |-> c[i] - e[i]]
           due == [i \in Installment |-> Max({InterestDue[i] - p[i], 0})]
           h == [i \in Installment |-> IF i \in Unpaid(p, d) THEN due[i] ELSE 0]
<1>1. Within(q)
  BY PayWithin
<1>2. \A i \in Installment : /\ e[i] \in Int /\ c[i] \in Int /\ gain[i] \in Int /\ c[i] = e[i] + gain[i]
                             /\ inc[i] \in Int /\ due[i] \in Int /\ h[i] \in Int
  <2> SUFFICES ASSUME NEW i \in Installment
               PROVE  /\ e[i] \in Int /\ c[i] \in Int /\ gain[i] \in Int /\ c[i] = e[i] + gain[i]
                      /\ inc[i] \in Int /\ due[i] \in Int /\ h[i] \in Int
    OBVIOUS
  <2>1. e[i] \in Int /\ c[i] \in Int
    <3> HIDE DEF q
    <3> QED BY <1>1, CoveredIs
  <2>2. inc[i] \in Int
    BY AddedIs
  <2>3. due[i] \in Int
    BY InterestUnpaidIsNat
  <2>4. gain[i] = c[i] - e[i] /\ h[i] = IF i \in Unpaid(p, d) THEN due[i] ELSE 0
    OBVIOUS
  <2> HIDE DEF e, c, inc, due, gain, h
  <2> QED BY <2>1, <2>2, <2>3, <2>4
<1>3. ASSUME NEW i \in Installment
      PROVE  gain[i] <= inc[i] /\ gain[i] <= h[i]
  <2>1. PICK n, m, k, x, y : /\ n = InterestDue[i] /\ m = p[i] /\ k = q[i] /\ x = inc[i]
                             /\ y = due[i]
    OBVIOUS
  <2>2. n \in Nat /\ m \in Int /\ x \in Int /\ 0 <= m /\ 0 <= x /\ k = m + x
    BY <2>1, AmountsDue, AddedIs DEF Within
  <2>3. y \in Nat /\ y >= n - m
    BY <2>1, InterestUnpaidIsNat
  <2>4. e[i] = IF n <= m THEN n ELSE m
    BY <2>1, CoveredIs
  <2>5. c[i] = IF n <= k THEN n ELSE k
    <3> HIDE DEF q
    <3> QED BY <1>1, <2>1, CoveredIs
  <2>6. gain[i] = c[i] - e[i]
    OBVIOUS
  <2>7. h[i] = IF i \in Unpaid(p, d) THEN y ELSE 0
    BY <2>1
  <2>8. i \notin Unpaid(p, d) => x = 0 \/ n <= m
    <3>1. CASE i \notin DueBy(d)
      BY <2>1, <3>1, AddedIs
    <3>2. ASSUME i \in DueBy(d), i \notin Unpaid(p, d)
          PROVE  n <= m
      <4>1. ~(p[i] < TotalDue(i))
        BY <3>2 DEF Unpaid
      <4>2. TotalDue(i) \in Nat /\ PrincipalDue[i] \in Nat /\ TotalDue(i) = PrincipalDue[i] + InterestDue[i]
        BY AmountsDue
      <4> QED BY <2>1, <2>2, <4>1, <4>2
    <3> QED BY <3>1, <3>2
  <2> HIDE DEF e, c, gain, h, inc, due, q
  <2>9. gain[i] <= x
    BY <2>2, <2>4, <2>5, <2>6
  <2>10. gain[i] <= y
    BY <2>2, <2>3, <2>4, <2>5, <2>6
  <2>11. x = 0 \/ n <= m => gain[i] <= 0
    BY <2>2, <2>4, <2>5, <2>6
  <2> QED BY <2>1, <2>7, <2>8, <2>9, <2>10, <2>11
<1>4. Unpaid(p, d) \subseteq Installment /\ IsFiniteSet(Installment) /\ IsFiniteSet(Unpaid(p, d))
  BY ScheduleIsFinite DEF Unpaid, DueBy
<1>5. \A i \in Unpaid(p, d) : h[i] = due[i]
  BY <1>4
<1>6. \A i \in Installment \ Unpaid(p, d) : h[i] = 0
  OBVIOUS
<1>7. SumOf(inc, Installment) <= cash
  BY AddedTotal
<1>8. InterestUnpaid(p, d) = SumOf(due, Unpaid(p, d))
  BY SumIsSumOf DEF InterestUnpaid
<1>9. Sum(e, Installment) = SumOf(e, Installment) /\ Sum(c, Installment) = SumOf(c, Installment)
  BY SumIsSumOf
<1> HIDE DEF q, e, c, inc, gain, due, h
<1>10. SumOf(c, Installment) = SumOf(e, Installment) + SumOf(gain, Installment)
  <2>1. (\A i \in Installment : e[i] \in Int) /\ (\A i \in Installment : gain[i] \in Int)
        /\ (\A i \in Installment : c[i] = e[i] + gain[i])
    BY <1>2
  <2> QED BY ONLY <1>4, <2>1, SumPlus
<1>11. SumOf(gain, Installment) <= SumOf(inc, Installment)
  BY <1>2, <1>3, <1>4, SumOrdered
<1>12. SumOf(gain, Installment) <= SumOf(h, Installment)
  BY <1>2, <1>3, <1>4, SumOrdered
<1>13. SumOf(h, Installment) = SumOf(h, Unpaid(p, d))
  BY <1>2, <1>4, <1>6, SumOnPart
<1>14. SumOf(h, Unpaid(p, d)) = SumOf(due, Unpaid(p, d))
  BY <1>4, <1>5, SumSame
<1>15. SumOf(e, Installment) \in Int /\ SumOf(c, Installment) \in Int
       /\ SumOf(gain, Installment) \in Int /\ SumOf(inc, Installment) \in Int
  BY <1>2, <1>4, SumIsInt
<1>16. InterestUnpaid(p, d) \in Int
  BY InterestUnpaidIsNat
<1>17. /\ SumOf(c, Installment) <= SumOf(e, Installment) + cash
       /\ SumOf(c, Installment) <= SumOf(e, Installment) + InterestUnpaid(p, d)
  BY <1>7, <1>8, <1>10, <1>11, <1>12, <1>13, <1>14, <1>15, <1>16
<1> QED BY <1>9, <1>15, <1>17 DEF c, e, q

ScheduleInv == TypeOK /\ CashBacksSchedule /\ PrepaymentLeavesInterest

LEMMA PrepaymentIs ==
  PrepaymentLeavesInterest <=>
    (Posted(adjustments) = {} => Sum(Covered(paid), Installment) <= Standing("interest"))
  BY DEF PrepaymentLeavesInterest, Covered, Reversed, Posted

LEMMA ScheduleInit == Init => ScheduleInv
<1> SUFFICES ASSUME Init PROVE ScheduleInv
  OBVIOUS
<1>1. TypeOK
  BY TypeInit
<1>2. \A part : Standing(part) = 0
  <2> SUFFICES ASSUME NEW part PROVE Standing(part) = 0
    OBVIOUS
  <2>1. DOMAIN repayments \ Reversed = {}
    BY DEF Init
  <2> QED BY <2>1, FS_EmptySet, SumUnfolds, SumIsSumOf DEF Standing
<1>3. \A i \in Installment : paid[i] = 0 /\ Covered(paid)[i] = 0
  <2> SUFFICES ASSUME NEW i \in Installment PROVE paid[i] = 0 /\ Covered(paid)[i] = 0
    OBVIOUS
  <2>1. paid[i] = 0
    BY DEF Init
  <2>2. Covered(paid)[i] = IF InterestDue[i] <= paid[i] THEN InterestDue[i] ELSE paid[i]
    BY <1>1, CoveredIs DEF TypeOK
  <2> QED BY <2>1, <2>2, AmountsDue
<1>4. Sum(paid, Installment) = 0 /\ Sum(Covered(paid), Installment) = 0
  BY <1>3, ScheduleIsFinite, SumZero, SumIsSumOf
<1>5. CashBacksSchedule
  BY <1>2, <1>4 DEF CashBacksSchedule
<1>6. PrepaymentLeavesInterest
  BY <1>2, <1>4, PrepaymentIs
<1> QED BY <1>1, <1>5, <1>6 DEF ScheduleInv

LEMMA ScheduleRepayment ==
  ASSUME ScheduleInv, NEW d \in Day, NEW amount \in Nat, RecordRepayment(d, amount)
  PROVE  CashBacksSchedule' /\ PrepaymentLeavesInterest'
<1>1. TypeOK /\ Within(paid)
  BY DEF ScheduleInv, TypeOK
<1>2. PICK r : r = Allocation(amount, d)
  OBVIOUS
<1>3. PICK cash : cash = r.interest + r.principal
  OBVIOUS
<1>4. /\ r \in RepaymentRow /\ cash \in Nat
      /\ r.interest = cash \/ r.interest = InterestUnpaid(paid, d)
  BY <1>1, <1>2, <1>3, AllocationSplits
<1>5. PICK q : q = Pay(paid, d, cash)
  OBVIOUS
<1>6. /\ paid' = q
      /\ repayments' = Append(repayments, r) /\ adjustments' = Append(adjustments, NoAdjustment)
  BY <1>2, <1>3, <1>5 DEF RecordRepayment
<1>7. /\ Standing("interest")' = Standing("interest") + r.interest
      /\ Standing("principal")' = Standing("principal") + r.principal
      /\ Posted(adjustments') = Posted(adjustments)
  BY <1>1, <1>4, <1>6, StandingGrows DEF Part
<1>8. Standing("interest") \in Int /\ Standing("principal") \in Int
  BY <1>1, StandingIs DEF Part
<1>9. r.interest \in Int /\ r.principal \in Int
  BY <1>4 DEF RepaymentRow
<1>10. /\ Sum(paid, Installment) \in Int /\ Sum(q, Installment) \in Int
       /\ Sum(q, Installment) <= Sum(paid, Installment) + cash
  BY <1>1, <1>4, <1>5, PayTotal
<1>11. CashBacksSchedule'
  <2>1. Sum(paid, Installment) <= Standing("interest") + Standing("principal")
    BY DEF ScheduleInv, CashBacksSchedule
  <2>2. Sum(q, Installment) <= Standing("interest")' + Standing("principal")'
    BY <1>3, <1>7, <1>8, <1>9, <1>10, <2>1
  <2>3. Sum(paid, Installment)' = Sum(q, Installment)
    BY <1>6 DEF Installment
  <2> QED BY <2>2, <2>3 DEF CashBacksSchedule
<1>12. PrepaymentLeavesInterest'
  <2>1. ASSUME Posted(adjustments) = {}
        PROVE  Sum(Covered(q), Installment) <= Standing("interest")'
    <3>1. Sum(Covered(paid), Installment) <= Standing("interest")
      BY <2>1, PrepaymentIs DEF ScheduleInv
    <3>2. /\ Sum(Covered(q), Installment) <= Sum(Covered(paid), Installment) + cash
          /\ Sum(Covered(q), Installment) <= Sum(Covered(paid), Installment) + InterestUnpaid(paid, d)
          /\ Sum(Covered(paid), Installment) \in Int /\ Sum(Covered(q), Installment) \in Int
      BY <1>1, <1>4, <1>5, CoverGained
    <3>3. Sum(Covered(q), Installment) <= Sum(Covered(paid), Installment) + r.interest
      BY <1>4, <3>2
    <3> QED BY <1>7, <1>8, <1>9, <3>1, <3>2, <3>3
  <2>2. Sum(Covered(paid), Installment)' = Sum(Covered(q), Installment)
    BY <1>6 DEF Installment, Covered
  <2>3. PrepaymentLeavesInterest' <=>
          (Posted(adjustments)' = {} => Sum(Covered(paid), Installment)' <= Standing("interest")')
    BY DEF PrepaymentLeavesInterest, Covered, Reversed, Posted
  <2>4. Posted(adjustments)' = {} => Sum(Covered(paid), Installment)' <= Standing("interest")'
    BY ONLY <1>7, <2>1, <2>2
  <2> QED BY ONLY <2>3, <2>4
<1> QED BY <1>11, <1>12

\* The replay pays no more than the repayments that stand brought in.
LEMMA ScheduleApproval ==
  ASSUME ScheduleInv, TypeOK', NEW u, NEW k \in DOMAIN repayments, ApproveAdjustment(u, k)
  PROVE  CashBacksSchedule' /\ PrepaymentLeavesInterest'
<1>1. TypeOK
  BY DEF ScheduleInv
<1>2. PICK a, R : a = adjustments' /\ R = Replay(a)
  OBVIOUS
<1>3. /\ paid' = R /\ repayments' = repayments /\ DOMAIN a = DOMAIN repayments
      /\ Posted(a) # {}
  <2>1. a = [adjustments EXCEPT ![k].status = "posted"] /\ Decides(u, k)
        /\ paid' = Replay(a) /\ repayments' = repayments
    BY <1>2 DEF ApproveAdjustment, ledger
  <2>2. /\ a \in Seq(AdjustmentRow) /\ DOMAIN a = DOMAIN repayments
        /\ Posted(a) = Posted(adjustments) \union {k}
    BY ONLY <1>1, <2>1, k \in DOMAIN repayments, ApprovalPosts
  <2> QED BY <1>2, <2>1, <2>2
<1>4. Sum(R, Installment) <= SumOf(Cash, Surviving(a))
  BY <1>1, <1>2, <1>3, ReplayBacked DEF TypeOK
<1>5. PICK f, g, S : /\ f = Legs("interest") /\ g = Legs("principal")
                     /\ S = DOMAIN repayments \ Posted(a)
  OBVIOUS
<1>6. Surviving(a) = S /\ S \subseteq DOMAIN repayments
  BY <1>3, <1>5 DEF Surviving
<1>7. /\ \A l \in S : f[l] \in Int
      /\ \A l \in S : g[l] \in Int
      /\ \A l \in S : Cash[l] = f[l] + g[l]
  <2>1. \A l \in DOMAIN repayments : /\ f[l] = repayments[l].interest /\ f[l] \in Int
                                     /\ g[l] = repayments[l].principal /\ g[l] \in Int
    BY <1>1, <1>5, StandingIs DEF Part
  <2> QED BY <1>6, <2>1 DEF Cash, CashOf
<1>8. IsFiniteSet(S)
  BY <1>1, <1>6, RepaymentsAreFinite DEF TypeOK
<1>9. SumOf(Cash, S) = SumOf(f, S) + SumOf(g, S)
  BY ONLY <1>7, <1>8, SumPlus
<1>10. Standing("interest")' = SumOf(f, S) /\ Standing("principal")' = SumOf(g, S)
  <2>1. \A part : Standing(part)' = SumOf(Legs(part)', DOMAIN repayments' \ Posted(adjustments'))
    BY SumIsSumOf DEF Standing, Reversed, Posted
  <2>2. Legs("interest")' = f /\ Legs("principal")' = g
    BY <1>3, <1>5 DEF Legs
  <2> QED BY <1>2, <1>3, <1>5, <2>1, <2>2
<1>11. Sum(paid, Installment)' = Sum(R, Installment)
  BY <1>3 DEF Installment
<1>12. CashBacksSchedule'
  BY <1>4, <1>6, <1>9, <1>10, <1>11 DEF CashBacksSchedule
<1>13. PrepaymentLeavesInterest'
  BY <1>2, <1>3 DEF PrepaymentLeavesInterest, Reversed, Posted
<1> QED BY <1>12, <1>13

LEMMA ScheduleStays ==
  ASSUME ScheduleInv, UNCHANGED <<paid, repayments>>, Posted(adjustments') = Posted(adjustments)
  PROVE  CashBacksSchedule' /\ PrepaymentLeavesInterest'
<1>1. \A part : Standing(part)' = Standing(part)
  BY StandingStays
<1>2. Reversed' = Reversed
  BY DEF Reversed, Posted
<1> QED BY <1>1, <1>2 DEF ScheduleInv, CashBacksSchedule, PrepaymentLeavesInterest, Installment

LEMMA ScheduleNext == ScheduleInv /\ [Next]_vars => ScheduleInv'
<1> SUFFICES ASSUME ScheduleInv, [Next]_vars
             PROVE  CashBacksSchedule' /\ PrepaymentLeavesInterest'
  BY TypeNext DEF ScheduleInv
<1>1. TypeOK'
  BY TypeNext DEF ScheduleInv
<1>2. ASSUME NEW d \in Day, NEW amount \in 1 .. Payoff(d) + 1, RecordRepayment(d, amount)
      PROVE  CashBacksSchedule' /\ PrepaymentLeavesInterest'
  <2>1. amount \in Nat
    OBVIOUS
  <2> QED BY <1>2, <2>1, ScheduleRepayment
<1>3. ASSUME NEW u \in User, Officers(u)
      PROVE  CashBacksSchedule' /\ PrepaymentLeavesInterest'
  <2>1. ASSUME NEW k \in DOMAIN repayments, ApproveAdjustment(u, k)
        PROVE  CashBacksSchedule' /\ PrepaymentLeavesInterest'
    BY <1>1, <2>1, ScheduleApproval
  <2>2. ASSUME NEW k \in DOMAIN repayments, RequestAdjustment(u, k) \/ RejectAdjustment(u, k)
        PROVE  CashBacksSchedule' /\ PrepaymentLeavesInterest'
    BY <2>2, RequestsPostNothing, ScheduleStays DEF RequestAdjustment, RejectAdjustment, ledger
  <2>3. CASE \/ RequestWriteOff(u) \/ PostWriteOff(u)
             \/ \E side \in {"approve", "reject"} : CastVote(u, side)
    <3>1. UNCHANGED <<paid, repayments, adjustments>>
      BY <2>3 DEF RequestWriteOff, PostWriteOff, CastVote, ledger
    <3>2. Posted(adjustments') = Posted(adjustments)
      BY <3>1
    <3> QED BY <3>1, <3>2, ScheduleStays
  <2> QED BY <1>3, <2>1, <2>2, <2>3 DEF Officers
<1>4. CASE \/ UNCHANGED vars \/ NextDay \/ VoidWriteOff \/ Settle \/ RunArrears
           \/ \E amount \in 1 .. Claim : RecordRecovery(amount)
           \/ \E j \in Job : ScanArrears(j) \/ ApplyArrears(j) \/ SkipLoan(j)
  <2>1. UNCHANGED <<paid, repayments, adjustments>>
    BY <1>4 DEF vars, NextDay, VoidWriteOff, Settle, RunArrears, Process, RecordRecovery, ScanArrears,
                ApplyArrears, SkipLoan, ledger
  <2>2. Posted(adjustments') = Posted(adjustments)
    BY <2>1
  <2> QED BY <2>1, <2>2, ScheduleStays
<1> QED
  BY <1>2, <1>3, <1>4 DEF Next

-----------------------------------------------------------------------------
(* The theorems.                                                           *)

\* The rows keep their types: no installment shows a negative amount paid or
\* more than it is for, not even after a replay (corrections.py
\* _rebuild_schedule_paid_amounts).
THEOREM ServicingTyped == Spec => []TypeOK
  BY TypeInit, TypeNext, PTL DEF Spec

LEMMA BooksHold == Spec => []BooksInv
  BY BooksInit, BooksNext, PTL DEF Spec

\* Until the loan is written off or netted, its balance and penalty are what
\* the history says, whatever the order of repayments, adjustments and two
\* runners of the arrears job (corrections.py _reconstructed_balance,
\* arrears.py _accrue_penalty).
THEOREM LoanReconciles == Spec => []BooksReconcile
<1>1. BooksInv => BooksReconcile
  BY DEF BooksInv
<1> QED BY <1>1, BooksHold, PTL

\* The claim a committee wrote off is what was owed when it was posted, and
\* stays so (corrections.py post_write_off).
THEOREM ClaimStaysOwed == Spec => []ClaimIsWhatWasOwed
<1>1. BooksInv => ClaimIsWhatWasOwed
  BY DEF BooksInv
<1> QED BY <1>1, BooksHold, PTL

\* Discharged guarantors stood behind a loan that is settled: closed owing
\* nothing, or written off and recovered in full (corrections.py
\* record_recovery_receipt, member_exits.py).
THEOREM DischargeSettles == Spec => []DischargedMeansSettled
<1>1. BooksInv => DischargedMeansSettled
  BY DEF BooksInv
<1> QED BY <1>1, BooksHold, PTL

LEMMA ScheduleHolds == Spec => []ScheduleInv
  BY ScheduleInit, ScheduleNext, PTL DEF Spec

\* The schedule never shows more paid than the repayments that stand brought
\* in (corrections.py _rebuild_schedule_paid_amounts).
THEOREM ScheduleIsBacked == Spec => []CashBacksSchedule
<1>1. ScheduleInv => CashBacksSchedule
  BY DEF ScheduleInv
<1> QED BY <1>1, ScheduleHolds, PTL

\* While nothing was adjusted, interest the schedule shows as paid was
\* collected as interest (loans.py record_repayment, _interest_due).
THEOREM InterestIsCollected == Spec => []PrepaymentLeavesInterest
<1>1. ScheduleInv => PrepaymentLeavesInterest
  BY DEF ScheduleInv
<1> QED BY <1>1, ScheduleHolds, PTL
=============================================================================
