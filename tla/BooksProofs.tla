----------------------------- MODULE BooksProofs -----------------------------
(***************************************************************************)
(* Proofs about Books for any members, officers, amounts, fees, transfers, *)
(* exits and pledges, and any finite set of members.                       *)
(*                                                                         *)
(* Legs.  Every kind of posting is a sum of single legs, so its total and  *)
(* what it does to an account follow from two facts: a leg's total is its  *)
(* amount (LegTotal), and totals add (PlusTotal).  Moves says what a       *)
(* posting does to the accounts that are mirrored elsewhere: deposits,     *)
(* shares and the receivable, and nothing to the clearing account.         *)
(*                                                                         *)
(* Money.  A step keeps the books when it moves a member's balances and    *)
(* loan by what its legs move (MoneyMoved); a transfer, whose two sides    *)
(* clear only together, has a lemma of its own (SharesTransferred).        *)
(*                                                                         *)
(* Requests.  A transfer asks for no more than its maker saw, and an open  *)
(* exit's snapshot pays for itself.  A settlement without equity posts     *)
(* nothing, so this is what shows that no loan is closed without a leg.    *)
(***************************************************************************)
EXTENDS Books, SetLemmas, TLAPS

Total(x) == Sum(x, Account)
Subledgers == {"member.deposits", "member.shares", "loans.receivable", "clearing.share_transfers"}

LEMMA SumIsSumOf == \A f, S : Sum(f, S) = SumOf(f, S)
  BY DEF Sum, SumOf

-----------------------------------------------------------------------------
(* Legs and their totals.                                                  *)

LEMMA FiveFinite == \A a, b, c, d, e : IsFiniteSet({a, b, c, d, e})
<1> SUFFICES ASSUME NEW a, NEW b, NEW c, NEW d, NEW e PROVE IsFiniteSet({a, b, c, d, e})
  OBVIOUS
<1>1. IsFiniteSet({a} \union {b})
  BY FS_Singleton, FS_AddElement
<1>2. IsFiniteSet(({a} \union {b}) \union {c})
  BY <1>1, FS_AddElement
<1>3. IsFiniteSet((({a} \union {b}) \union {c}) \union {d})
  BY <1>2, FS_AddElement
<1>4. IsFiniteSet(((({a} \union {b}) \union {c}) \union {d}) \union {e})
  BY <1>3, FS_AddElement
<1>5. {a, b, c, d, e} = ((({a} \union {b}) \union {c}) \union {d}) \union {e}
  OBVIOUS
<1> QED BY <1>4, <1>5

LEMMA AccountFinite == IsFiniteSet(Account)
<1> DEFINE A == {"cash.mpesa", "cash.bank", "loans.receivable", "member.deposits", "member.shares"}
           B == {"liability.unclaimed_dividends", "income.interest", "income.penalties",
                 "income.fees", "income.bad_debt_recoveries"}
           C == {"interest.expense", "expense.dividends", "expense.rebates",
                 "expense.loan_writeoffs", "clearing.share_transfers"}
<1>1. IsFiniteSet(A) /\ IsFiniteSet(B) /\ IsFiniteSet(C)
  BY FiveFinite
<1>2. Account = (A \union B) \union C
  BY DEF Account
<1> HIDE DEF A, B, C
<1> QED BY <1>1, <1>2, FS_Union

LEMMA LegTotal ==
  ASSUME NEW a \in Account, NEW n \in Int
  PROVE  /\ Leg(a, n) \in [Account -> Int] /\ Total(Leg(a, n)) = n
         /\ \A b \in Account : Leg(a, n)[b] = IF b = a THEN n ELSE 0
<1> DEFINE f == Leg(a, n)
           z == [b \in Account |-> 0]
<1>1. f \in [Account -> Int] /\ \A b \in Account : f[b] = IF b = a THEN n ELSE 0
  BY DEF Leg
<1>2. f[a] = n /\ z[a] = 0
  BY <1>1
<1>3. \A b \in Account : f[b] \in Int
  BY <1>1
<1>4. \A b \in Account : z[b] \in Int
  OBVIOUS
<1>5. \A b \in Account : z[b] = 0
  OBVIOUS
<1>6. \A b \in Account \ {a} : f[b] = z[b]
  BY <1>1
<1> HIDE DEF f, z
<1>7. SumOf(f, Account) = SumOf(z, Account) + f[a] - z[a]
  BY ONLY <1>3, <1>4, <1>6, a \in Account, AccountFinite, SumChanged
<1>8. SumOf(z, Account) = 0
  BY ONLY <1>5, AccountFinite, SumZero
<1>9. SumOf(f, Account) = n
  BY ONLY <1>2, <1>7, <1>8, n \in Int
<1> QED BY <1>1, <1>9, SumIsSumOf DEF Total, f

LEMMA PlusTotal ==
  ASSUME NEW x \in [Account -> Int], NEW y \in [Account -> Int]
  PROVE  /\ Plus(x, y) \in [Account -> Int] /\ Total(Plus(x, y)) = Total(x) + Total(y)
         /\ Total(x) \in Int /\ Total(y) \in Int
         /\ \A a \in Account : Plus(x, y)[a] = x[a] + y[a]
<1>1. PICK h : h = Plus(x, y)
  OBVIOUS
<1>2. h \in [Account -> Int]
  BY <1>1 DEF Plus
<1>3. \A a \in Account : h[a] = x[a] + y[a]
  BY <1>1 DEF Plus
<1>4. \A a \in Account : x[a] \in Int
  OBVIOUS
<1>5. \A a \in Account : y[a] \in Int
  OBVIOUS
<1>6. SumOf(h, Account) = SumOf(x, Account) + SumOf(y, Account)
  BY ONLY <1>3, <1>4, <1>5, AccountFinite, SumPlus
<1>7. SumOf(x, Account) \in Int
  BY ONLY <1>4, AccountFinite, SumIsInt
<1>8. SumOf(y, Account) \in Int
  BY ONLY <1>5, AccountFinite, SumIsInt
<1> QED BY <1>1, <1>2, <1>3, <1>6, <1>7, <1>8, SumIsSumOf DEF Total

\* Legs that balance, raise deposits by d, shares by s and the receivable by r.
Moves(legs, d, s, r) ==
  /\ legs \in [Account -> Int] /\ Total(legs) = 0
  /\ legs["member.deposits"] = -d /\ legs["member.shares"] = -s
  /\ legs["loans.receivable"] = r /\ legs["clearing.share_transfers"] = 0

At(a, b, n) == IF a = b THEN n ELSE 0

LEMMA EntryMoves ==
  ASSUME NEW dr \in Account, NEW cr \in Account, NEW n \in Int
  PROVE  /\ Entry(dr, cr, n) \in [Account -> Int] /\ Total(Entry(dr, cr, n)) = 0
         /\ \A b \in Account : Entry(dr, cr, n)[b] = At(b, dr, n) + At(b, cr, -n)
<1>1. PICK x, y : x = Leg(dr, n) /\ y = Leg(cr, -n)
  OBVIOUS
<1>2. x \in [Account -> Int] /\ Total(x) = n /\ \A b \in Account : x[b] = At(b, dr, n)
  BY <1>1, LegTotal DEF At
<1>3. y \in [Account -> Int] /\ Total(y) = -n /\ \A b \in Account : y[b] = At(b, cr, -n)
  <2>1. -n \in Int
    OBVIOUS
  <2> QED BY <1>1, <2>1, LegTotal DEF At
<1>4. Entry(dr, cr, n) = Plus(x, y)
  BY <1>1 DEF Entry
<1> QED BY <1>2, <1>3, <1>4, PlusTotal

LEMMA CashAccount == \A c : Cash(c) \in Account \ Subledgers /\ Subledgers \subseteq Account
  BY DEF Cash, Account, Subledgers

LEMMA SimpleLegs ==
  ASSUME NEW n \in Int, NEW c
  PROVE  /\ Moves(DepositLegs(n, c), n, 0, 0) /\ Moves(WithdrawalLegs(n, c), -n, 0, 0)
         /\ Moves(ShareTopupLegs(n, c), 0, n, 0) /\ Moves(DisbursementLegs(n, c), 0, 0, n)
         /\ Moves(DepositInterestLegs(n), n, 0, 0) /\ Moves(WriteOffLegs(n), 0, 0, -n)
         /\ Moves(RecoveryLegs(n, c), 0, 0, 0) /\ Moves(FeeLegs(n, c), 0, 0, 0)
<1>1. PICK k : k = Cash(c) /\ k \in Account \ Subledgers
  BY CashAccount
<1>2. \A b \in Subledgers : b \in Account
  BY CashAccount
<1>3. ASSUME NEW dr \in Account, NEW cr \in Account
      PROVE  /\ Entry(dr, cr, n) \in [Account -> Int] /\ Total(Entry(dr, cr, n)) = 0
             /\ \A b \in Subledgers : Entry(dr, cr, n)[b] = At(b, dr, n) + At(b, cr, -n)
  BY <1>2, EntryMoves
<1>4. "member.deposits" # k /\ "member.shares" # k /\ "loans.receivable" # k /\ "clearing.share_transfers" # k
  BY <1>1 DEF Subledgers
<1>5. Moves(Entry(k, "member.deposits", n), n, 0, 0)
  <2>1. k \in Account /\ "member.deposits" \in Account
    BY <1>1 DEF Account
  <2>2. /\ Entry(k, "member.deposits", n) \in [Account -> Int] /\ Total(Entry(k, "member.deposits", n)) = 0
        /\ \A b \in Subledgers : Entry(k, "member.deposits", n)[b] = At(b, k, n) + At(b, "member.deposits", -n)
    BY ONLY <1>3, <2>1
  <2>3. \A b \in Subledgers : At(b, k, n) + At(b, "member.deposits", -n) =
          IF b = "member.deposits" THEN -n ELSE IF b = "member.shares" THEN 0
          ELSE IF b = "loans.receivable" THEN 0 ELSE 0
    BY <1>4 DEF At, Subledgers
  <2> QED BY <2>2, <2>3 DEF Moves, Subledgers
<1>6. Moves(Entry("member.deposits", k, n), -n, 0, 0)
  <2>1. "member.deposits" \in Account /\ k \in Account
    BY <1>1 DEF Account
  <2>2. /\ Entry("member.deposits", k, n) \in [Account -> Int] /\ Total(Entry("member.deposits", k, n)) = 0
        /\ \A b \in Subledgers : Entry("member.deposits", k, n)[b] = At(b, "member.deposits", n) + At(b, k, -n)
    BY ONLY <1>3, <2>1
  <2>3. \A b \in Subledgers : At(b, "member.deposits", n) + At(b, k, -n) =
          IF b = "member.deposits" THEN n ELSE IF b = "member.shares" THEN 0
          ELSE IF b = "loans.receivable" THEN 0 ELSE 0
    BY <1>4 DEF At, Subledgers
  <2> QED BY <2>2, <2>3 DEF Moves, Subledgers
<1>7. Moves(Entry(k, "member.shares", n), 0, n, 0)
  <2>1. k \in Account /\ "member.shares" \in Account
    BY <1>1 DEF Account
  <2>2. /\ Entry(k, "member.shares", n) \in [Account -> Int] /\ Total(Entry(k, "member.shares", n)) = 0
        /\ \A b \in Subledgers : Entry(k, "member.shares", n)[b] = At(b, k, n) + At(b, "member.shares", -n)
    BY ONLY <1>3, <2>1
  <2>3. \A b \in Subledgers : At(b, k, n) + At(b, "member.shares", -n) =
          IF b = "member.deposits" THEN 0 ELSE IF b = "member.shares" THEN -n
          ELSE IF b = "loans.receivable" THEN 0 ELSE 0
    BY <1>4 DEF At, Subledgers
  <2> QED BY <2>2, <2>3 DEF Moves, Subledgers
<1>8. Moves(Entry("loans.receivable", k, n), 0, 0, n)
  <2>1. "loans.receivable" \in Account /\ k \in Account
    BY <1>1 DEF Account
  <2>2. /\ Entry("loans.receivable", k, n) \in [Account -> Int] /\ Total(Entry("loans.receivable", k, n)) = 0
        /\ \A b \in Subledgers : Entry("loans.receivable", k, n)[b] = At(b, "loans.receivable", n) + At(b, k, -n)
    BY ONLY <1>3, <2>1
  <2>3. \A b \in Subledgers : At(b, "loans.receivable", n) + At(b, k, -n) =
          IF b = "member.deposits" THEN 0 ELSE IF b = "member.shares" THEN 0
          ELSE IF b = "loans.receivable" THEN n ELSE 0
    BY <1>4 DEF At, Subledgers
  <2> QED BY <2>2, <2>3 DEF Moves, Subledgers
<1>9. Moves(Entry("interest.expense", "member.deposits", n), n, 0, 0)
  <2>1. "interest.expense" \in Account /\ "member.deposits" \in Account
    BY <1>1 DEF Account
  <2>2. /\ Entry("interest.expense", "member.deposits", n) \in [Account -> Int] /\ Total(Entry("interest.expense", "member.deposits", n)) = 0
        /\ \A b \in Subledgers : Entry("interest.expense", "member.deposits", n)[b] = At(b, "interest.expense", n) + At(b, "member.deposits", -n)
    BY ONLY <1>3, <2>1
  <2>3. \A b \in Subledgers : At(b, "interest.expense", n) + At(b, "member.deposits", -n) =
          IF b = "member.deposits" THEN -n ELSE IF b = "member.shares" THEN 0
          ELSE IF b = "loans.receivable" THEN 0 ELSE 0
    BY <1>4 DEF At, Subledgers
  <2> QED BY <2>2, <2>3 DEF Moves, Subledgers
<1>10. Moves(Entry("expense.loan_writeoffs", "loans.receivable", n), 0, 0, -n)
  <2>1. "expense.loan_writeoffs" \in Account /\ "loans.receivable" \in Account
    BY <1>1 DEF Account
  <2>2. /\ Entry("expense.loan_writeoffs", "loans.receivable", n) \in [Account -> Int] /\ Total(Entry("expense.loan_writeoffs", "loans.receivable", n)) = 0
        /\ \A b \in Subledgers : Entry("expense.loan_writeoffs", "loans.receivable", n)[b] = At(b, "expense.loan_writeoffs", n) + At(b, "loans.receivable", -n)
    BY ONLY <1>3, <2>1
  <2>3. \A b \in Subledgers : At(b, "expense.loan_writeoffs", n) + At(b, "loans.receivable", -n) =
          IF b = "member.deposits" THEN 0 ELSE IF b = "member.shares" THEN 0
          ELSE IF b = "loans.receivable" THEN -n ELSE 0
    BY <1>4 DEF At, Subledgers
  <2> QED BY <2>2, <2>3 DEF Moves, Subledgers
<1>11. Moves(Entry(k, "income.bad_debt_recoveries", n), 0, 0, 0)
  <2>1. k \in Account /\ "income.bad_debt_recoveries" \in Account
    BY <1>1 DEF Account
  <2>2. /\ Entry(k, "income.bad_debt_recoveries", n) \in [Account -> Int] /\ Total(Entry(k, "income.bad_debt_recoveries", n)) = 0
        /\ \A b \in Subledgers : Entry(k, "income.bad_debt_recoveries", n)[b] = At(b, k, n) + At(b, "income.bad_debt_recoveries", -n)
    BY ONLY <1>3, <2>1
  <2>3. \A b \in Subledgers : At(b, k, n) + At(b, "income.bad_debt_recoveries", -n) =
          IF b = "member.deposits" THEN 0 ELSE IF b = "member.shares" THEN 0
          ELSE IF b = "loans.receivable" THEN 0 ELSE 0
    BY <1>4 DEF At, Subledgers
  <2> QED BY <2>2, <2>3 DEF Moves, Subledgers
<1>12. Moves(Entry(k, "income.fees", n), 0, 0, 0)
  <2>1. k \in Account /\ "income.fees" \in Account
    BY <1>1 DEF Account
  <2>2. /\ Entry(k, "income.fees", n) \in [Account -> Int] /\ Total(Entry(k, "income.fees", n)) = 0
        /\ \A b \in Subledgers : Entry(k, "income.fees", n)[b] = At(b, k, n) + At(b, "income.fees", -n)
    BY ONLY <1>3, <2>1
  <2>3. \A b \in Subledgers : At(b, k, n) + At(b, "income.fees", -n) =
          IF b = "member.deposits" THEN 0 ELSE IF b = "member.shares" THEN 0
          ELSE IF b = "loans.receivable" THEN 0 ELSE 0
    BY <1>4 DEF At, Subledgers
  <2> QED BY <2>2, <2>3 DEF Moves, Subledgers
<1> QED
  BY <1>1, <1>5, <1>6, <1>7, <1>8, <1>9, <1>10, <1>11, <1>12 DEF DepositLegs, WithdrawalLegs, ShareTopupLegs,
     DisbursementLegs, DepositInterestLegs, WriteOffLegs, RecoveryLegs, FeeLegs

\* Four legs together.
LEMMA LegIs ==
  ASSUME NEW f \in Account, NEW n \in Int, NEW z, z = Leg(f, n)
  PROVE  z \in [Account -> Int] /\ Total(z) = n /\ \A e \in Account : z[e] = At(e, f, n)
<1>1. z \in [Account -> Int] /\ Total(z) = n
  BY LegTotal
<1>2. \A e \in Account : Leg(f, n)[e] = IF e = f THEN n ELSE 0
  BY LegTotal
<1> QED BY <1>1, <1>2 DEF At

LEMMA PlusIs ==
  ASSUME NEW x \in [Account -> Int], NEW y \in [Account -> Int], NEW z, z = Plus(x, y)
  PROVE  /\ z \in [Account -> Int] /\ Total(z) = Total(x) + Total(y)
         /\ \A a \in Account : z[a] = x[a] + y[a]
  BY PlusTotal

LEMMA FourLegs ==
  ASSUME NEW a \in Account, NEW b \in Account, NEW c \in Account, NEW d \in Account,
         NEW i \in Int, NEW j \in Int, NEW k \in Int, NEW l \in Int
  PROVE  LET legs == Plus(Plus(Leg(a, i), Leg(b, j)), Plus(Leg(c, k), Leg(d, l)))
         IN  /\ legs \in [Account -> Int] /\ Total(legs) = i + j + k + l
             /\ \A e \in Account : legs[e] = At(e, a, i) + At(e, b, j) + At(e, c, k) + At(e, d, l)
<1>1. PICK x, y, u, v : x = Leg(a, i) /\ y = Leg(b, j) /\ u = Leg(c, k) /\ v = Leg(d, l)
  OBVIOUS
<1>2. x \in [Account -> Int] /\ Total(x) = i /\ \A e \in Account : x[e] = At(e, a, i)
  <2>1. x = Leg(a, i)
    BY <1>1
  <2>2. /\ Leg(a, i) \in [Account -> Int] /\ Total(Leg(a, i)) = i
        /\ \A e \in Account : Leg(a, i)[e] = At(e, a, i)
    BY LegIs
  <2> QED BY ONLY <2>1, <2>2, Zenon
<1>3. y \in [Account -> Int] /\ Total(y) = j /\ \A e \in Account : y[e] = At(e, b, j)
  <2>1. y = Leg(b, j)
    BY <1>1
  <2>2. /\ Leg(b, j) \in [Account -> Int] /\ Total(Leg(b, j)) = j
        /\ \A e \in Account : Leg(b, j)[e] = At(e, b, j)
    BY LegIs
  <2> QED BY ONLY <2>1, <2>2, Zenon
<1>4. u \in [Account -> Int] /\ Total(u) = k /\ \A e \in Account : u[e] = At(e, c, k)
  <2>1. u = Leg(c, k)
    BY <1>1
  <2>2. /\ Leg(c, k) \in [Account -> Int] /\ Total(Leg(c, k)) = k
        /\ \A e \in Account : Leg(c, k)[e] = At(e, c, k)
    BY LegIs
  <2> QED BY ONLY <2>1, <2>2, Zenon
<1>5. v \in [Account -> Int] /\ Total(v) = l /\ \A e \in Account : v[e] = At(e, d, l)
  <2>1. v = Leg(d, l)
    BY <1>1
  <2>2. /\ Leg(d, l) \in [Account -> Int] /\ Total(Leg(d, l)) = l
        /\ \A e \in Account : Leg(d, l)[e] = At(e, d, l)
    BY LegIs
  <2> QED BY ONLY <2>1, <2>2, Zenon
<1>6. PICK p, q, r : p = Plus(x, y) /\ q = Plus(u, v) /\ r = Plus(p, q)
  OBVIOUS
<1>7. p \in [Account -> Int] /\ Total(p) = i + j /\ \A e \in Account : p[e] = x[e] + y[e]
  BY <1>2, <1>3, <1>6, PlusIs
<1>8. q \in [Account -> Int] /\ Total(q) = k + l /\ \A e \in Account : q[e] = u[e] + v[e]
  BY <1>4, <1>5, <1>6, PlusIs
<1>9. r \in [Account -> Int] /\ Total(r) = Total(p) + Total(q) /\ \A e \in Account : r[e] = p[e] + q[e]
  BY <1>6, <1>7, <1>8, PlusIs
<1>10. Total(r) = i + j + k + l
  BY <1>7, <1>8, <1>9
<1>11. \A e \in Account : r[e] = At(e, a, i) + At(e, b, j) + At(e, c, k) + At(e, d, l)
  <2> SUFFICES ASSUME NEW e \in Account
               PROVE  r[e] = At(e, a, i) + At(e, b, j) + At(e, c, k) + At(e, d, l)
    OBVIOUS
  <2>1. x[e] \in Int /\ y[e] \in Int /\ u[e] \in Int /\ v[e] \in Int
    BY <1>2, <1>3, <1>4, <1>5
  <2>2. r[e] = x[e] + y[e] + u[e] + v[e]
    BY <1>7, <1>8, <1>9, <2>1
  <2> QED BY <1>2, <1>3, <1>4, <1>5, <2>2
<1> QED BY <1>1, <1>6, <1>9, <1>10, <1>11

LEMMA ThreeLegs ==
  ASSUME NEW a \in Account, NEW b \in Account, NEW c \in Account,
         NEW i \in Int, NEW j \in Int, NEW k \in Int
  PROVE  LET legs == Plus(Plus(Leg(a, i), Leg(b, j)), Leg(c, k))
         IN  /\ legs \in [Account -> Int] /\ Total(legs) = i + j + k
             /\ \A e \in Account : legs[e] = At(e, a, i) + At(e, b, j) + At(e, c, k)
<1>1. PICK x, y, u : x = Leg(a, i) /\ y = Leg(b, j) /\ u = Leg(c, k)
  OBVIOUS
<1>2. x \in [Account -> Int] /\ Total(x) = i /\ \A e \in Account : x[e] = At(e, a, i)
  <2>1. x = Leg(a, i)
    BY <1>1
  <2>2. /\ Leg(a, i) \in [Account -> Int] /\ Total(Leg(a, i)) = i
        /\ \A e \in Account : Leg(a, i)[e] = At(e, a, i)
    BY LegIs
  <2> QED BY ONLY <2>1, <2>2, Zenon
<1>3. y \in [Account -> Int] /\ Total(y) = j /\ \A e \in Account : y[e] = At(e, b, j)
  <2>1. y = Leg(b, j)
    BY <1>1
  <2>2. /\ Leg(b, j) \in [Account -> Int] /\ Total(Leg(b, j)) = j
        /\ \A e \in Account : Leg(b, j)[e] = At(e, b, j)
    BY LegIs
  <2> QED BY ONLY <2>1, <2>2, Zenon
<1>4. u \in [Account -> Int] /\ Total(u) = k /\ \A e \in Account : u[e] = At(e, c, k)
  <2>1. u = Leg(c, k)
    BY <1>1
  <2>2. /\ Leg(c, k) \in [Account -> Int] /\ Total(Leg(c, k)) = k
        /\ \A e \in Account : Leg(c, k)[e] = At(e, c, k)
    BY LegIs
  <2> QED BY ONLY <2>1, <2>2, Zenon
<1>5. PICK p, q : p = Plus(x, y) /\ q = Plus(p, u)
  OBVIOUS
<1>6. p \in [Account -> Int] /\ Total(p) = i + j /\ \A e \in Account : p[e] = x[e] + y[e]
  BY <1>2, <1>3, <1>5, PlusIs
<1>7. q \in [Account -> Int] /\ Total(q) = Total(p) + Total(u) /\ \A e \in Account : q[e] = p[e] + u[e]
  BY <1>4, <1>5, <1>6, PlusIs
<1>8. \A e \in Account : q[e] = At(e, a, i) + At(e, b, j) + At(e, c, k)
  <2> SUFFICES ASSUME NEW e \in Account
               PROVE  q[e] = At(e, a, i) + At(e, b, j) + At(e, c, k)
    OBVIOUS
  <2>1. x[e] \in Int /\ y[e] \in Int /\ u[e] \in Int
    BY <1>2, <1>3, <1>4
  <2>2. q[e] = x[e] + y[e] + u[e]
    BY <1>6, <1>7, <2>1
  <2> QED BY <1>2, <1>3, <1>4, <2>2
<1> QED BY <1>1, <1>4, <1>5, <1>6, <1>7, <1>8

LEMMA RepaymentMoves ==
  ASSUME NEW r, r.penalty \in Int, r.interest \in Int, r.principal \in Int
  PROVE  Moves(RepaymentLegs(r), 0, 0, -r.principal)
<1>1. PICK k, i, j, l, t : /\ k = Cash(r.channel) /\ i = r.penalty /\ j = r.interest /\ l = r.principal
                           /\ t = r.penalty + r.interest + r.principal
  OBVIOUS
<1>2. k \in Account /\ k \notin Subledgers /\ i \in Int /\ j \in Int /\ l \in Int /\ t = i + j + l
  BY <1>1, CashAccount
<1>3. t \in Int /\ -i \in Int /\ -j \in Int /\ -l \in Int /\ t + (-i) + (-j) + (-l) = 0
  BY <1>2
<1>4. "income.penalties" \in Account /\ "income.interest" \in Account /\ "loans.receivable" \in Account
  BY DEF Account
<1>5. PICK legs : legs = Plus(Plus(Leg(k, t), Leg("income.penalties", -i)),
                              Plus(Leg("income.interest", -j), Leg("loans.receivable", -l)))
  OBVIOUS
<1>6. RepaymentLegs(r) = legs
  BY <1>1, <1>5 DEF RepaymentLegs
<1>7. /\ legs \in [Account -> Int] /\ Total(legs) = t + (-i) + (-j) + (-l)
      /\ \A e \in Account : legs[e] = At(e, k, t) + At(e, "income.penalties", -i)
                                      + At(e, "income.interest", -j) + At(e, "loans.receivable", -l)
  BY <1>2, <1>3, <1>4, <1>5, FourLegs
<1>8. Moves(legs, 0, 0, -l)
  BY <1>2, <1>3, <1>7 DEF Moves, At, Subledgers, Account
<1> QED BY <1>1, <1>6, <1>8

\* What a payment kept by the member adds to an account of hers.
LEMMA DividendMoves ==
  ASSUME NEW d \in Int, NEW b \in Int, NEW to \in Retention, NEW too \in Retention
  PROVE  Moves(DividendLegs(d, b, to, too), d - Share(to, d) + b - Share(too, b),
               Share(to, d) + Share(too, b), 0)
<1>1. /\ "expense.dividends" \in Account /\ "expense.rebates" \in Account
      /\ to \in Account /\ too \in Account /\ -d \in Int /\ -b \in Int
      /\ d + b + (-d) + (-b) = 0
  BY DEF Account, Retention
<1>2. PICK legs : legs = DividendLegs(d, b, to, too)
  OBVIOUS
<1>3. /\ legs \in [Account -> Int] /\ Total(legs) = d + b + (-d) + (-b)
      /\ \A e \in Account : legs[e] = At(e, "expense.dividends", d) + At(e, "expense.rebates", b)
                                      + At(e, to, -d) + At(e, too, -b)
  BY <1>1, <1>2, FourLegs DEF DividendLegs
<1>4. Total(legs) = 0
  BY <1>1, <1>3
<1>5. /\ legs["member.deposits"] = At("member.deposits", to, -d) + At("member.deposits", too, -b)
      /\ legs["member.shares"] = At("member.shares", to, -d) + At("member.shares", too, -b)
      /\ legs["loans.receivable"] = 0 /\ legs["clearing.share_transfers"] = 0
  BY <1>3 DEF At, Account, Retention
<1>6. /\ legs["member.deposits"] = -(d - Share(to, d) + b - Share(too, b))
      /\ legs["member.shares"] = -(Share(to, d) + Share(too, b))
  BY <1>5 DEF At, Share, Retention
<1> QED BY <1>2, <1>3, <1>4, <1>5, <1>6 DEF Moves

LEMMA UnclaimedMoves ==
  ASSUME NEW d \in Int, NEW b \in Int
  PROVE  Moves(UnclaimedLegs(d, b), 0, 0, 0)
<1>1. /\ "expense.dividends" \in Account /\ "expense.rebates" \in Account
      /\ "liability.unclaimed_dividends" \in Account /\ -d \in Int /\ -b \in Int
      /\ d + b + (-d) + (-b) = 0
  BY DEF Account
<1>2. PICK legs, to : /\ to = "liability.unclaimed_dividends"
                      /\ legs = DividendLegs(d, b, to, to)
  OBVIOUS
<1>3. /\ legs \in [Account -> Int] /\ Total(legs) = d + b + (-d) + (-b)
      /\ \A e \in Account : legs[e] = At(e, "expense.dividends", d) + At(e, "expense.rebates", b)
                                      + At(e, to, -d) + At(e, to, -b)
  BY <1>1, <1>2, FourLegs DEF DividendLegs
<1>4. Moves(legs, 0, 0, 0)
  BY <1>1, <1>2, <1>3 DEF Moves, At, Account
<1> QED BY <1>2, <1>4 DEF UnclaimedLegs

ExitSum(s) == s.shares + s.deposits - s.principal - s.interest - s.penalty - s.fee
LEMMA ExitMoves ==
  ASSUME NEW s, NEW c, s.shares \in Int, s.deposits \in Int, s.principal \in Int,
         s.interest \in Int, s.penalty \in Int, s.fee \in Int
  PROVE  Moves(ExitLegs(s, c), -s.deposits, -s.shares, -s.principal)
<1>1. PICK k, sh, dp, pr, it, pn, fe :
        /\ k = Cash(c) /\ sh = s.shares /\ dp = s.deposits /\ pr = s.principal
        /\ it = s.interest /\ pn = s.penalty /\ fe = s.fee
  OBVIOUS
<1>2. /\ k \in Account /\ k \notin Subledgers
      /\ sh \in Int /\ dp \in Int /\ pr \in Int /\ it \in Int /\ pn \in Int /\ fe \in Int
  BY <1>1, CashAccount
<1>3. PICK n, p, i, q, f : /\ n = -(sh + dp - pr - it - pn - fe) /\ p = -pr /\ i = -it
                           /\ q = -pn /\ f = -fe
  OBVIOUS
<1>4. /\ n \in Int /\ p \in Int /\ i \in Int /\ q \in Int /\ f \in Int
      /\ (sh + dp + p + i) + (q + f + n) = 0
  BY <1>2, <1>3
<1>5. PICK x, y, legs : /\ x = Plus(Plus(Leg("member.shares", sh), Leg("member.deposits", dp)),
                                    Plus(Leg("loans.receivable", p), Leg("income.interest", i)))
                        /\ y = Plus(Plus(Leg("income.penalties", q), Leg("income.fees", f)), Leg(k, n))
                        /\ legs = Plus(x, y)
  OBVIOUS
<1>6. ExitLegs(s, c) = legs
  BY <1>1, <1>3, <1>5 DEF ExitLegs
<1>7. /\ x \in [Account -> Int] /\ Total(x) = sh + dp + p + i
      /\ \A e \in Account : x[e] = At(e, "member.shares", sh) + At(e, "member.deposits", dp)
                                   + At(e, "loans.receivable", p) + At(e, "income.interest", i)
  <2>1. /\ "member.shares" \in Account /\ "member.deposits" \in Account
        /\ "loans.receivable" \in Account /\ "income.interest" \in Account
    BY DEF Account
  <2>2. x = Plus(Plus(Leg("member.shares", sh), Leg("member.deposits", dp)),
                 Plus(Leg("loans.receivable", p), Leg("income.interest", i)))
    BY <1>5
  <2>3. sh \in Int /\ dp \in Int /\ p \in Int /\ i \in Int
    BY <1>2, <1>4
  <2> QED BY ONLY <2>1, <2>2, <2>3, FourLegs
<1>8. /\ y \in [Account -> Int] /\ Total(y) = q + f + n
      /\ \A e \in Account : y[e] = At(e, "income.penalties", q) + At(e, "income.fees", f) + At(e, k, n)
  <2>1. "income.penalties" \in Account /\ "income.fees" \in Account
    BY DEF Account
  <2> QED BY <1>2, <1>4, <1>5, <2>1, ThreeLegs
<1>9. legs \in [Account -> Int] /\ Total(legs) = Total(x) + Total(y)
      /\ \A e \in Account : legs[e] = x[e] + y[e]
  BY <1>5, <1>7, <1>8, PlusIs
<1>10. Total(legs) = 0
  BY <1>4, <1>7, <1>8, <1>9
<1>11. \A e \in Subledgers : e \in Account /\ y[e] = 0
  BY <1>2, <1>8 DEF At, Subledgers, Account
<1>12. /\ x["member.deposits"] = dp /\ x["member.shares"] = sh
       /\ x["loans.receivable"] = p /\ x["clearing.share_transfers"] = 0
  BY <1>2, <1>4, <1>7 DEF At, Account
<1>13. \A e \in Subledgers : legs[e] = x[e] + 0
  BY <1>9, <1>11
<1>14. Moves(legs, -dp, -sh, -pr)
  BY <1>2, <1>3, <1>4, <1>9, <1>10, <1>12, <1>13 DEF Moves, Subledgers
<1> QED BY <1>1, <1>6, <1>14

LEMMA MirrorMoves ==
  ASSUME NEW legs, NEW r \in Int, Moves(legs, 0, 0, r)
  PROVE  Moves(Mirror(legs), 0, 0, -r)
<1>1. legs \in [Account -> Int] /\ SumOf(legs, Account) = 0
  BY SumIsSumOf DEF Moves, Total
<1>2. PICK g : g = Mirror(legs)
  OBVIOUS
<1>3. g \in [Account -> Int] /\ \A e \in Account : g[e] = -legs[e]
  BY <1>1, <1>2 DEF Mirror
<1>4. PICK h : h = Plus(legs, g)
  OBVIOUS
<1>5. Total(h) = Total(legs) + Total(g) /\ Total(legs) \in Int /\ Total(g) \in Int
      /\ \A a \in Account : h[a] = legs[a] + g[a]
  BY <1>1, <1>3, <1>4, PlusTotal
<1>6. \A e \in Account : h[e] = 0
  BY <1>1, <1>3, <1>5
<1>7. SumOf(h, Account) = 0
  BY ONLY <1>6, AccountFinite, SumZero
<1>8. Total(g) = 0
  BY <1>1, <1>5, <1>7, SumIsSumOf DEF Total
<1>9. \A e \in Subledgers : e \in Account
  BY CashAccount
<1> QED BY <1>2, <1>3, <1>8, <1>9 DEF Moves, Subledgers

\* The two sides of a transfer; only together do they clear.
LEMMA TransferLegs ==
  ASSUME NEW n \in Int
  PROVE  /\ TransferOutLegs(n) \in [Account -> Int] /\ Total(TransferOutLegs(n)) = 0
         /\ TransferInLegs(n) \in [Account -> Int] /\ Total(TransferInLegs(n)) = 0
         /\ TransferOutLegs(n)["member.shares"] = n /\ TransferInLegs(n)["member.shares"] = -n
         /\ TransferOutLegs(n)["clearing.share_transfers"] = -n
         /\ TransferInLegs(n)["clearing.share_transfers"] = n
         /\ \A a \in {"member.deposits", "loans.receivable"} :
              TransferOutLegs(n)[a] = 0 /\ TransferInLegs(n)[a] = 0
<1>1. "member.shares" \in Account /\ "clearing.share_transfers" \in Account /\ "member.deposits" \in Account
      /\ "loans.receivable" \in Account
  BY DEF Account
<1>2. PICK x, y : x = TransferOutLegs(n) /\ y = TransferInLegs(n)
  OBVIOUS
<1>3. /\ x \in [Account -> Int] /\ Total(x) = 0
      /\ \A b \in Account : x[b] = At(b, "member.shares", n) + At(b, "clearing.share_transfers", -n)
  <2>1. /\ Entry("member.shares", "clearing.share_transfers", n) \in [Account -> Int]
        /\ Total(Entry("member.shares", "clearing.share_transfers", n)) = 0
        /\ \A b \in Account : Entry("member.shares", "clearing.share_transfers", n)[b]
              = At(b, "member.shares", n) + At(b, "clearing.share_transfers", -n)
    BY ONLY <1>1, n \in Int, EntryMoves
  <2>2. x = Entry("member.shares", "clearing.share_transfers", n)
    BY <1>2 DEF TransferOutLegs
  <2> QED BY ONLY <2>1, <2>2, Zenon
<1>4. /\ y \in [Account -> Int] /\ Total(y) = 0
      /\ \A b \in Account : y[b] = At(b, "clearing.share_transfers", n) + At(b, "member.shares", -n)
  <2>1. /\ Entry("clearing.share_transfers", "member.shares", n) \in [Account -> Int]
        /\ Total(Entry("clearing.share_transfers", "member.shares", n)) = 0
        /\ \A b \in Account : Entry("clearing.share_transfers", "member.shares", n)[b]
              = At(b, "clearing.share_transfers", n) + At(b, "member.shares", -n)
    BY ONLY <1>1, n \in Int, EntryMoves
  <2>2. y = Entry("clearing.share_transfers", "member.shares", n)
    BY <1>2 DEF TransferInLegs
  <2> QED BY ONLY <2>1, <2>2, Zenon
<1> QED BY <1>1, <1>2, <1>3, <1>4 DEF At

-----------------------------------------------------------------------------
(* The inductive invariant.                                                *)

LoanRow == [state : {"none", "applied", "active", "closed", "written_off"},
            principal : Nat, interest : Nat, penalty : Nat]
ReceiptRow == [penalty : Nat, interest : Nat, principal : Nat, channel : Channel \union {"none"}]
Snapshot == [shares : Nat, deposits : Nat, principal : Nat, interest : Nat, penalty : Nat, fee : Nat]
TransferRow == [state : {"pending"}, from : Member, to : Member, amount : Nat, maker : User, before : Nat]
ExitRow == [state : {"requested", "approved", "settled"}, member : Member, by : User,
            snapshot : Snapshot, approvals : SUBSET User, rejections : SUBSET User, refund : Int]

StandingInv ==
  /\ status \in [Member -> {"active", "arrears", "dormant", "exited"}]
  /\ receipt \in [Member -> ReceiptRow]
  /\ exitFee \in Nat

Owed(l) == IF l.state = "active" THEN l.principal ELSE 0
LoanWell(l) == l \in LoanRow /\ (l.state # "active" => l.principal = 0)

\* The balances, the loans and the ledger.
MoneyInv ==
  /\ deposit \in [Member -> Int] /\ share \in [Member -> Int]
  /\ ledger \in [Member -> [Account -> Int]] /\ posted \in Nat
  /\ loan \in [Member -> LoanRow] /\ \A m \in Member : LoanWell(loan[m])
  /\ \A m \in Member : /\ ledger[m]["member.deposits"] = -deposit[m]
                       /\ ledger[m]["member.shares"] = -share[m]
                       /\ ledger[m]["loans.receivable"] = Owed(loan[m])
                       /\ share[m] >= 0 /\ deposit[m] >= Pledged[m] /\ deposit[m] >= 0
  /\ \A m \in Member : Total(ledger[m]) = 0
  /\ Sum(Clearing, Member) = 0

\* A request for a transfer never asks for more than was there.
TransferInv ==
  /\ transfer \in [Transfer -> TransferRow \union [state : {"none", "posted", "rejected"}]]
  /\ \A t \in Transfer : transfer[t].state = "pending" => transfer[t].amount <= transfer[t].before

\* What an exit was voted on pays for itself, and its votes are not its requester's.
VoteStands(row) ==
  /\ NetPayable(row.snapshot) >= 0 /\ row.by \notin row.approvals
  /\ row.state # "requested" => Cardinality(row.approvals) >= Quorum
  /\ row.state = "settled" => row.refund = NetPayable(row.snapshot)
ExitInv ==
  /\ exit \in [Exit -> ExitRow \union [state : {"none", "rejected"}]]
  /\ \A x \in Exit : exit[x].state \in {"requested", "approved", "settled"} => VoteStands(exit[x])
  /\ \A x \in Exit : exit[x].state = "settled" => status[exit[x].member] = "exited"

BooksInv == StandingInv /\ MoneyInv /\ TransferInv /\ ExitInv

-----------------------------------------------------------------------------
(* A posting keeps the ledger balanced.                                    *)

\* m's ledger after legs that raise her deposits by d, shares by s, receivable by r.
LedgerMoved(m, d, s, r) ==
  /\ ledger' \in [Member -> [Account -> Int]] /\ posted' \in Nat
  /\ \A k \in Member : Total(ledger'[k]) = 0
  /\ Sum(Clearing', Member) = 0
  /\ \A k \in Member \ {m} : ledger'[k] = ledger[k]
  /\ ledger'[m]["member.deposits"] = ledger[m]["member.deposits"] - d
  /\ ledger'[m]["member.shares"] = ledger[m]["member.shares"] - s
  /\ ledger'[m]["loans.receivable"] = ledger[m]["loans.receivable"] + r

LEMMA SubledgersAreAccounts ==
  /\ "member.deposits" \in Account /\ "member.shares" \in Account
  /\ "loans.receivable" \in Account /\ "clearing.share_transfers" \in Account
  BY DEF Account

LEMMA Posted ==
  ASSUME MoneyInv, NEW m \in Member, NEW legs, NEW d \in Int, NEW s \in Int, NEW r \in Int,
         Moves(legs, d, s, r), Post(m, legs)
  PROVE  LedgerMoved(m, d, s, r)
<1>1. /\ ledger \in [Member -> [Account -> Int]] /\ posted \in Nat
      /\ \A k \in Member : Total(ledger[k]) = 0
      /\ Sum(Clearing, Member) = 0
  BY DEF MoneyInv
<1>2. posted' = posted + 1 /\ ledger' = [ledger EXCEPT ![m] = Plus(@, legs)]
  BY DEF Post
<1>3. legs \in [Account -> Int] /\ Total(legs) = 0
  BY DEF Moves
<1>4. PICK row : row = ledger[m]
  OBVIOUS
<1>5. row \in [Account -> Int] /\ Total(row) = 0
  BY <1>1, <1>4
<1>6. PICK new : new = Plus(row, legs)
  OBVIOUS
<1>7. /\ new \in [Account -> Int] /\ Total(new) = Total(row) + Total(legs)
      /\ \A a \in Account : new[a] = row[a] + legs[a]
  BY <1>3, <1>5, <1>6, PlusIs
<1>8. Total(new) = 0
  BY <1>3, <1>5, <1>7
<1>9. ledger' = [ledger EXCEPT ![m] = new]
  BY <1>2, <1>4, <1>6
<1>10. /\ ledger' \in [Member -> [Account -> Int]] /\ ledger'[m] = new
       /\ \A k \in Member \ {m} : ledger'[k] = ledger[k]
  BY <1>1, <1>7, <1>9
<1>11. \A k \in Member : Total(ledger'[k]) = 0
  BY <1>1, <1>8, <1>10
<1>12. \A a \in {"member.deposits", "member.shares", "loans.receivable", "clearing.share_transfers"} :
         ledger'[m][a] = ledger[m][a] + legs[a]
  BY <1>4, <1>7, <1>10, SubledgersAreAccounts
<1>13. ledger'[m]["clearing.share_transfers"] = ledger[m]["clearing.share_transfers"]
  <2>1. legs["clearing.share_transfers"] = 0
    BY DEF Moves
  <2>2. row["clearing.share_transfers"] \in Int
    BY <1>5, SubledgersAreAccounts
  <2> QED BY <1>4, <1>12, <2>1, <2>2
<1>14. Clearing' = Clearing
  <2>1. \A k \in Member : ledger'[k]["clearing.share_transfers"] = ledger[k]["clearing.share_transfers"]
    BY <1>10, <1>13
  <2> QED BY <2>1 DEF Clearing
<1>15. \A a \in {"member.deposits", "member.shares", "loans.receivable"} : row[a] \in Int
  BY <1>5, SubledgersAreAccounts
<1>16. /\ ledger'[m]["member.deposits"] = ledger[m]["member.deposits"] - d
       /\ ledger'[m]["member.shares"] = ledger[m]["member.shares"] - s
       /\ ledger'[m]["loans.receivable"] = ledger[m]["loans.receivable"] + r
  BY <1>4, <1>12, <1>15 DEF Moves
<1>17. Sum(Clearing', Member) = 0
  BY <1>1, <1>14
<1>18. posted' \in Nat
  BY <1>1, <1>2
<1> QED BY <1>10, <1>11, <1>16, <1>17, <1>18 DEF LedgerMoved

LEMMA NothingPosted ==
  ASSUME MoneyInv, NEW m \in Member, UNCHANGED <<ledger, posted>>
  PROVE  LedgerMoved(m, 0, 0, 0)
<1>1. /\ ledger \in [Member -> [Account -> Int]] /\ posted \in Nat
      /\ \A k \in Member : Total(ledger[k]) = 0
      /\ Sum(Clearing, Member) = 0
  BY DEF MoneyInv
<1>2. Clearing' = Clearing
  BY DEF Clearing
<1>3. \A a \in {"member.deposits", "member.shares", "loans.receivable"} : ledger[m][a] \in Int
  BY <1>1, SubledgersAreAccounts
<1> QED BY <1>1, <1>2, <1>3 DEF LedgerMoved

\* new is old with d more for m.
Grows(old, new, m, d) ==
  /\ new \in [Member -> Int] /\ new[m] = old[m] + d
  /\ \A k \in Member \ {m} : new[k] = old[k]

\* Money is kept when every account of m moves with her ledger.
LEMMA MoneyMoved ==
  ASSUME MoneyInv, NEW m \in Member, NEW d \in Int, NEW s \in Int, NEW r \in Int,
         LedgerMoved(m, d, s, r), Grows(deposit, deposit', m, d), Grows(share, share', m, s),
         NEW l, WithLoan(m, l), LoanWell(l), Owed(l) = Owed(loan[m]) + r,
         deposit[m] + d >= Pledged[m], deposit[m] + d >= 0, share[m] + s >= 0
  PROVE  MoneyInv'
<1>1. /\ deposit' \in [Member -> Int] /\ deposit'[m] = deposit[m] + d
      /\ \A k \in Member \ {m} : deposit'[k] = deposit[k]
  BY DEF Grows
<1>2. /\ share' \in [Member -> Int] /\ share'[m] = share[m] + s
      /\ \A k \in Member \ {m} : share'[k] = share[k]
  BY DEF Grows
<1>3. loan' = [loan EXCEPT ![m] = l] /\ loan \in [Member -> LoanRow]
  BY DEF WithLoan, MoneyInv
<1>4. /\ loan' \in [Member -> LoanRow] /\ loan'[m] = l
      /\ \A k \in Member \ {m} : loan'[k] = loan[k]
  BY <1>3 DEF LoanWell
<1>5. \A k \in Member : LoanWell(loan'[k])
  BY <1>4 DEF MoneyInv
<1>6. /\ ledger' \in [Member -> [Account -> Int]] /\ posted' \in Nat
      /\ \A k \in Member : Total(ledger'[k]) = 0
      /\ Sum(Clearing', Member) = 0
  BY DEF LedgerMoved
<1>7. /\ ledger[m]["member.deposits"] = -deposit[m]
      /\ ledger[m]["member.shares"] = -share[m]
      /\ ledger[m]["loans.receivable"] = Owed(loan[m])
      /\ deposit[m] \in Int /\ share[m] \in Int /\ Owed(loan[m]) \in Int
  <2>1. loan[m] \in LoanRow
    BY <1>3
  <2>2. Owed(loan[m]) \in Int
    BY <2>1 DEF Owed, LoanRow
  <2> QED BY <2>2 DEF MoneyInv
<1>8. /\ ledger'[m]["member.deposits"] = -deposit'[m]
      /\ ledger'[m]["member.shares"] = -share'[m]
      /\ ledger'[m]["loans.receivable"] = Owed(loan'[m])
      /\ share'[m] >= 0 /\ deposit'[m] >= Pledged[m] /\ deposit'[m] >= 0
  <2>1. /\ ledger'[m]["member.deposits"] = ledger[m]["member.deposits"] - d
        /\ ledger'[m]["member.shares"] = ledger[m]["member.shares"] - s
        /\ ledger'[m]["loans.receivable"] = ledger[m]["loans.receivable"] + r
    BY DEF LedgerMoved
  <2> QED BY <1>1, <1>2, <1>4, <1>7, <2>1
<1>9. \A k \in Member \ {m} :
        /\ ledger'[k]["member.deposits"] = -deposit'[k]
        /\ ledger'[k]["member.shares"] = -share'[k]
        /\ ledger'[k]["loans.receivable"] = Owed(loan'[k])
        /\ share'[k] >= 0 /\ deposit'[k] >= Pledged[k] /\ deposit'[k] >= 0
  <2>1. \A k \in Member \ {m} : ledger'[k] = ledger[k]
    BY DEF LedgerMoved
  <2> QED BY <1>1, <1>2, <1>4, <2>1 DEF MoneyInv
<1>10. \A k \in Member :
        /\ ledger'[k]["member.deposits"] = -deposit'[k]
        /\ ledger'[k]["member.shares"] = -share'[k]
        /\ ledger'[k]["loans.receivable"] = Owed(loan'[k])
        /\ share'[k] >= 0 /\ deposit'[k] >= Pledged[k] /\ deposit'[k] >= 0
  BY <1>8, <1>9
<1>11. (\A k \in Member : LoanWell(loan[k]))' /\ (\A k \in Member :
        /\ ledger[k]["member.deposits"] = -deposit[k]
        /\ ledger[k]["member.shares"] = -share[k]
        /\ ledger[k]["loans.receivable"] = Owed(loan[k])
        /\ share[k] >= 0 /\ deposit[k] >= Pledged[k] /\ deposit[k] >= 0)'
  BY <1>5, <1>10 DEF LoanWell, Owed
<1>12. (\A k \in Member : Total(ledger[k]) = 0)' /\ (Sum(Clearing, Member) = 0)'
  BY <1>6
<1> QED BY <1>1, <1>2, <1>4, <1>6, <1>11, <1>12 DEF MoneyInv

\* An account moves by d, or not at all.
LEMMA AccountMoves ==
  ASSUME NEW m \in Member, NEW d \in Int, NEW old \in [Member -> Int]
  PROVE  Grows(old, [old EXCEPT ![m] = @ + d], m, d) /\ Grows(old, old, m, 0)
  BY DEF Grows

LEMMA MoneyTyped ==
  ASSUME MoneyInv, NEW m \in Member
  PROVE  /\ deposit \in [Member -> Int] /\ share \in [Member -> Int] /\ deposit[m] \in Nat
         /\ share[m] \in Nat /\ Pledged[m] \in Nat /\ deposit[m] >= Pledged[m]
         /\ loan[m] \in LoanRow /\ LoanWell(loan[m]) /\ Owed(loan[m]) \in Nat
<1>1. Pledged \in [Member -> Nat]
  BY BooksAssumption
<1> QED BY <1>1 DEF MoneyInv, Owed, LoanRow

\* The transaction of a member who keeps her loan.
LEMMA AccountsMoved ==
  ASSUME MoneyInv, NEW m \in Member, NEW d \in Int, NEW s \in Int, NEW legs,
         Moves(legs, d, s, 0), Post(m, legs), UNCHANGED loan,
         Grows(deposit, deposit', m, d), Grows(share, share', m, s),
         deposit[m] + d >= Pledged[m], share[m] + s >= 0
  PROVE  MoneyInv'
<1>2. LedgerMoved(m, d, s, 0)
  BY ONLY MoneyInv, m \in Member, d \in Int, s \in Int, 0 \in Int, Moves(legs, d, s, 0), Post(m, legs), Posted
<1>3. WithLoan(m, loan[m])
  BY DEF WithLoan, MoneyInv
<1>4. LoanWell(loan[m]) /\ Owed(loan[m]) = Owed(loan[m]) + 0 /\ deposit[m] + d >= 0
  BY MoneyTyped
<1>5. PICK l : l = loan[m]
  OBVIOUS
<1>6. WithLoan(m, l) /\ LoanWell(l) /\ Owed(l) = Owed(loan[m]) + 0
  BY <1>3, <1>4, <1>5
<1> QED BY <1>2, <1>4, <1>6, MoneyMoved

LEMMA AccountGrows ==
  ASSUME MoneyInv, NEW m \in Member, NEW n \in Int
  PROVE  /\ deposit' = [deposit EXCEPT ![m] = @ + n] => Grows(deposit, deposit', m, n)
         /\ share' = [share EXCEPT ![m] = @ + n] => Grows(share, share', m, n)
         /\ deposit' = deposit => Grows(deposit, deposit', m, 0)
         /\ share' = share => Grows(share, share', m, 0)
<1>1. deposit \in [Member -> Int] /\ share \in [Member -> Int]
  BY MoneyTyped
<1> QED BY <1>1, AccountMoves

\* The transaction of a member that moves only her loan.
LEMMA LoanMoved ==
  ASSUME MoneyInv, NEW m \in Member, NEW r \in Int, NEW legs, NEW l,
         \/ Moves(legs, 0, 0, r) /\ Post(m, legs)
         \/ r = 0 /\ UNCHANGED <<ledger, posted>>,
         WithLoan(m, l), LoanWell(l), Owed(l) = Owed(loan[m]) + r, UNCHANGED balances
  PROVE  MoneyInv'
<1>1. Grows(deposit, deposit', m, 0) /\ Grows(share, share', m, 0)
  <2>1. deposit \in [Member -> Int] /\ share \in [Member -> Int]
    BY MoneyTyped
  <2>2. deposit' = deposit /\ share' = share
    BY DEF balances
  <2> QED BY <2>1, <2>2, AccountMoves
<1>2. LedgerMoved(m, 0, 0, r)
  BY Posted, NothingPosted
<1>3. deposit[m] + 0 >= Pledged[m] /\ deposit[m] + 0 >= 0 /\ share[m] + 0 >= 0
  BY MoneyTyped
<1> QED BY <1>1, <1>2, <1>3, MoneyMoved

LEMMA MoneySame ==
  ASSUME MoneyInv, UNCHANGED <<balances, loan, ledger, posted>>
  PROVE  MoneyInv'
<1>1. /\ deposit' = deposit /\ share' = share /\ loan' = loan /\ ledger' = ledger
      /\ posted' = posted
  BY DEF balances
<1>2. Clearing' = Clearing
  BY <1>1 DEF Clearing
<1>3. (Sum(Clearing, Member) = 0)' /\ (\A m \in Member : Total(ledger[m]) = 0)'
  BY <1>1, <1>2 DEF MoneyInv
<1>4. (\A m \in Member : LoanWell(loan[m]))' /\ (\A k \in Member :
        /\ ledger[k]["member.deposits"] = -deposit[k]
        /\ ledger[k]["member.shares"] = -share[k]
        /\ ledger[k]["loans.receivable"] = Owed(loan[k])
        /\ share[k] >= 0 /\ deposit[k] >= Pledged[k] /\ deposit[k] >= 0)'
  BY <1>1 DEF MoneyInv
<1>5. /\ deposit' \in [Member -> Int] /\ share' \in [Member -> Int]
      /\ ledger' \in [Member -> [Account -> Int]] /\ posted' \in Nat
      /\ loan' \in [Member -> LoanRow]
  BY <1>1 DEF MoneyInv
<1> QED BY <1>3, <1>4, <1>5 DEF MoneyInv

\* Requests are untouched, and nobody comes back from an exit.
LEMMA RequestsKept ==
  ASSUME TransferInv, ExitInv, UNCHANGED requests,
         \A m \in Member : status[m] = "exited" => status'[m] = "exited"
  PROVE  TransferInv' /\ ExitInv'
<1>1. transfer' = transfer /\ exit' = exit
  BY DEF requests
<1>2. TransferInv'
  BY <1>1 DEF TransferInv
<1>3. \A x \in Exit : exit[x].state = "settled" => exit[x].member \in Member
  BY DEF ExitInv, ExitRow
<1>4. (\A x \in Exit : exit[x].state = "settled" => status[exit[x].member] = "exited")'
  BY <1>1, <1>3 DEF ExitInv
<1>5. (\A x \in Exit : exit[x].state \in {"requested", "approved", "settled"} => VoteStands(exit[x]))'
  BY <1>1 DEF ExitInv
<1>6. ExitInv'
  BY <1>1, <1>4, <1>5 DEF ExitInv
<1> QED BY <1>2, <1>6

LEMMA StandingKept ==
  ASSUME StandingInv, UNCHANGED <<status, exitFee>>, receipt' \in [Member -> ReceiptRow]
  PROVE  StandingInv' /\ \A m \in Member : status[m] = "exited" => status'[m] = "exited"
  BY DEF StandingInv

-----------------------------------------------------------------------------
(* The initial state.                                                      *)

LEMMA BooksStart == Init => BooksInv
<1> SUFFICES ASSUME Init PROVE BooksInv
  OBVIOUS
<1>1. Opening \in Nat /\ \A m \in Member : Pledged[m] \in Nat /\ Pledged[m] <= Opening
  BY BooksAssumption
<1>2. StandingInv
  BY DEF Init, StandingInv, NoReceipt, ReceiptRow
<1>3. TransferInv /\ ExitInv
  BY DEF Init, TransferInv, ExitInv, NoRow
<1>4. loan \in [Member -> LoanRow] /\ \A m \in Member :
        LoanWell(loan[m]) /\ Owed(loan[m]) = IF m \in Owing THEN Opening ELSE 0
  BY <1>1 DEF Init, Loan, NoLoan, LoanRow, LoanWell, Owed
<1>5. ASSUME NEW m \in Member
      PROVE  /\ ledger[m] \in [Account -> Int] /\ Total(ledger[m]) = 0
             /\ ledger[m]["member.deposits"] = -Opening /\ ledger[m]["member.shares"] = -Opening
             /\ ledger[m]["loans.receivable"] = Owed(loan[m])
             /\ ledger[m]["clearing.share_transfers"] = 0
  <2>1. PICK lent, i, k : /\ lent = (IF m \in Owing THEN Opening ELSE 0)
                          /\ i = 2 * Opening - lent /\ k = -Opening
    OBVIOUS
  <2>2. lent \in Int /\ i \in Int /\ k \in Int /\ i + lent + k + k = 0
    BY <1>1, <2>1
  <2>3. PICK legs : legs = Plus(Plus(Leg("cash.mpesa", i), Leg("loans.receivable", lent)),
                                Plus(Leg("member.deposits", k), Leg("member.shares", k)))
    OBVIOUS
  <2>4. ledger[m] = legs
    BY <2>1, <2>3 DEF Init
  <2>5. /\ "cash.mpesa" \in Account /\ "loans.receivable" \in Account
        /\ "member.deposits" \in Account /\ "member.shares" \in Account
    BY DEF Account
  <2>6. /\ legs \in [Account -> Int] /\ Total(legs) = i + lent + k + k
        /\ \A e \in Account : legs[e] = At(e, "cash.mpesa", i) + At(e, "loans.receivable", lent)
                                        + At(e, "member.deposits", k) + At(e, "member.shares", k)
    BY <2>2, <2>3, <2>5, FourLegs
  <2>7. /\ legs["member.deposits"] = k /\ legs["member.shares"] = k
        /\ legs["loans.receivable"] = lent /\ legs["clearing.share_transfers"] = 0
    BY <2>2, <2>6, SubledgersAreAccounts DEF At
  <2> QED BY <1>4, <2>1, <2>2, <2>4, <2>6, <2>7
<1>6. Sum(Clearing, Member) = 0
  <2>1. \A m \in Member : Clearing[m] = 0
    BY <1>5 DEF Clearing
  <2>2. SumOf(Clearing, Member) = 0
    BY ONLY <2>1, BooksAssumption, SumZero DEF BooksAssumption
  <2> QED BY <2>2, SumIsSumOf
<1>7. ledger \in [Member -> [Account -> Int]]
  <2>1. DOMAIN ledger = Member /\ ledger = [m \in Member |-> ledger[m]]
    BY DEF Init
  <2> QED BY <1>5, <2>1
<1>8. \A m \in Member : deposit[m] = Opening /\ share[m] = Opening
  BY DEF Init
<1>9. deposit \in [Member -> Int] /\ share \in [Member -> Int] /\ posted \in Nat
  BY <1>1 DEF Init
<1>10. MoneyInv
  BY <1>1, <1>4, <1>5, <1>6, <1>7, <1>8, <1>9 DEF MoneyInv
<1> QED BY <1>2, <1>3, <1>10 DEF BooksInv

-----------------------------------------------------------------------------
(* The member's own money.                                                 *)

LEMMA AmountIsNat == \A n \in Amount : n \in Nat /\ n > 0
  BY BooksAssumption

LEMMA RecordDepositKeeps ==
  ASSUME BooksInv, NEW m \in Member, NEW n \in Amount, NEW c \in Channel, RecordDeposit(m, n, c)
  PROVE  BooksInv'
<1>1. n \in Int /\ n > 0 /\ Moves(DepositLegs(n, c), n, 0, 0)
  BY AmountIsNat, SimpleLegs
<1>2. Post(m, DepositLegs(n, c)) /\ deposit' = [deposit EXCEPT ![m] = @ + n]
      /\ share' = share /\ loan' = loan /\ receipt' = receipt /\ exitFee' = exitFee
      /\ UNCHANGED requests /\ status' = [status EXCEPT ![m] = IF @ = "dormant" THEN "active" ELSE @]
  BY DEF RecordDeposit, PostDeposit
<1>3. MoneyInv'
  <2>1. deposit[m] + n >= Pledged[m] /\ share[m] + 0 >= 0
    BY <1>1, MoneyTyped DEF BooksInv
  <2>2. Grows(deposit, deposit', m, n) /\ Grows(share, share', m, 0)
    BY <1>1, <1>2, AccountGrows DEF BooksInv
  <2>3. MoneyInv /\ m \in Member /\ n \in Int /\ 0 \in Int /\ UNCHANGED loan
    BY <1>1, <1>2 DEF BooksInv
  <2>4. Moves(DepositLegs(n, c), n, 0, 0) /\ Post(m, DepositLegs(n, c))
    BY <1>1, <1>2
  <2> QED BY ONLY <2>1, <2>2, <2>3, <2>4, AccountsMoved
<1>4. StandingInv' /\ \A k \in Member : status[k] = "exited" => status'[k] = "exited"
  BY <1>2 DEF StandingInv, BooksInv
<1> QED BY <1>2, <1>3, <1>4, RequestsKept DEF BooksInv

LEMMA RecordWithdrawalKeeps ==
  ASSUME BooksInv, NEW m \in Member, NEW n \in Amount, NEW c \in Channel, RecordWithdrawal(m, n, c)
  PROVE  BooksInv'
<1>1. n \in Int /\ -n \in Int /\ Moves(WithdrawalLegs(n, c), -n, 0, 0)
  BY AmountIsNat, SimpleLegs
<1>2. /\ Post(m, WithdrawalLegs(n, c)) /\ deposit' = [deposit EXCEPT ![m] = @ - n]
      /\ n <= deposit[m] - Pledged[m]
      /\ share' = share /\ loan' = loan /\ receipt' = receipt /\ exitFee' = exitFee
      /\ status' = status /\ UNCHANGED requests
  BY DEF RecordWithdrawal, PostWithdrawal
<1>3. deposit[m] + (-n) = deposit[m] - n /\ deposit[m] + (-n) >= Pledged[m] /\ share[m] + 0 >= 0
  BY <1>1, <1>2, MoneyTyped DEF BooksInv
<1>4. deposit' = [deposit EXCEPT ![m] = @ + (-n)]
  BY <1>2, <1>3
<1>5. MoneyInv'
  <2>1. Grows(deposit, deposit', m, -n) /\ Grows(share, share', m, 0)
    BY <1>1, <1>2, <1>3, <1>4, AccountGrows DEF BooksInv
  <2>2. MoneyInv /\ m \in Member /\ n \in Int /\ -n \in Int /\ 0 \in Int /\ UNCHANGED loan
    BY <1>1, <1>2 DEF BooksInv
  <2>3. Moves(WithdrawalLegs(n, c), -n, 0, 0) /\ Post(m, WithdrawalLegs(n, c))
    BY <1>1, <1>2
  <2>4. deposit[m] + (-n) >= Pledged[m] /\ share[m] + 0 >= 0
    BY <1>3
  <2> QED BY ONLY <2>1, <2>2, <2>3, <2>4, AccountsMoved
<1> QED BY <1>2, <1>5, StandingKept, RequestsKept DEF BooksInv, StandingInv

LEMMA RecordShareTopupKeeps ==
  ASSUME BooksInv, NEW m \in Member, NEW n \in Amount, NEW c \in Channel, RecordShareTopup(m, n, c)
  PROVE  BooksInv'
<1>1. n \in Int /\ n > 0 /\ Moves(ShareTopupLegs(n, c), 0, n, 0)
  BY AmountIsNat, SimpleLegs
<1>2. /\ Post(m, ShareTopupLegs(n, c)) /\ share' = [share EXCEPT ![m] = @ + n]
      /\ deposit' = deposit /\ loan' = loan /\ receipt' = receipt /\ exitFee' = exitFee
      /\ status' = status /\ UNCHANGED requests
  BY DEF RecordShareTopup, PostShareTopup
<1>3. deposit[m] + 0 >= Pledged[m] /\ share[m] + n >= 0
  BY <1>1, MoneyTyped DEF BooksInv
<1>4. MoneyInv'
  <2>1. Grows(deposit, deposit', m, 0) /\ Grows(share, share', m, n)
    BY <1>1, <1>2, <1>3, AccountGrows DEF BooksInv
  <2>2. MoneyInv /\ m \in Member /\ n \in Int /\ 0 \in Int /\ UNCHANGED loan
    BY <1>1, <1>2 DEF BooksInv
  <2>3. Moves(ShareTopupLegs(n, c), 0, n, 0) /\ Post(m, ShareTopupLegs(n, c))
    BY <1>1, <1>2
  <2>4. deposit[m] + 0 >= Pledged[m] /\ share[m] + n >= 0
    BY <1>3
  <2> QED BY ONLY <2>1, <2>2, <2>3, <2>4, AccountsMoved
<1> QED BY <1>2, <1>4, StandingKept, RequestsKept DEF BooksInv, StandingInv

LEMMA PostMiscFeeKeeps ==
  ASSUME BooksInv, NEW m \in Member, NEW c \in Channel, PostMiscFee(m, c)
  PROVE  BooksInv'
<1>1. Moves(FeeLegs(RegistrationFee, c), 0, 0, 0)
  BY BooksAssumption, SimpleLegs
<1>2. /\ Post(m, FeeLegs(RegistrationFee, c)) /\ share' = share
      /\ deposit' = deposit /\ loan' = loan /\ receipt' = receipt /\ exitFee' = exitFee
      /\ status' = status /\ UNCHANGED requests
  BY DEF PostMiscFee, PostFee, balances
<1>3. deposit[m] + 0 >= Pledged[m] /\ share[m] + 0 >= 0
  BY MoneyTyped DEF BooksInv
<1>4. MoneyInv'
  <2>1. Grows(deposit, deposit', m, 0) /\ Grows(share, share', m, 0)
    BY <1>1, <1>2, <1>3, AccountGrows DEF BooksInv
  <2> QED BY <1>1, <1>2, <1>3, <2>1, AccountsMoved DEF BooksInv
<1> QED BY <1>2, <1>4, StandingKept, RequestsKept DEF BooksInv, StandingInv

LEMMA PostDepositInterestKeeps ==
  ASSUME BooksInv, NEW m \in Member, NEW n \in Amount, PostDepositInterest(m, n)
  PROVE  BooksInv'
<1>1. n \in Int /\ n > 0 /\ Moves(DepositInterestLegs(n), n, 0, 0)
  BY AmountIsNat, SimpleLegs
<1>2. /\ Post(m, DepositInterestLegs(n)) /\ deposit' = [deposit EXCEPT ![m] = @ + n]
      /\ share' = share /\ loan' = loan /\ receipt' = receipt /\ exitFee' = exitFee
      /\ status' = status /\ UNCHANGED requests
  BY DEF PostDepositInterest
<1>3. deposit[m] + n >= Pledged[m] /\ share[m] + 0 >= 0
  BY <1>1, MoneyTyped DEF BooksInv
<1>4. MoneyInv'
  <2>1. Grows(deposit, deposit', m, n) /\ Grows(share, share', m, 0)
    BY <1>1, <1>2, <1>3, AccountGrows DEF BooksInv
  <2>2. MoneyInv /\ m \in Member /\ n \in Int /\ 0 \in Int /\ UNCHANGED loan
    BY <1>1, <1>2 DEF BooksInv
  <2>3. Moves(DepositInterestLegs(n), n, 0, 0) /\ Post(m, DepositInterestLegs(n))
    BY <1>1, <1>2
  <2>4. deposit[m] + n >= Pledged[m] /\ share[m] + 0 >= 0
    BY <1>3
  <2> QED BY ONLY <2>1, <2>2, <2>3, <2>4, AccountsMoved
<1> QED BY <1>2, <1>4, StandingKept, RequestsKept DEF BooksInv, StandingInv

LEMMA PostDividendKeeps ==
  ASSUME BooksInv, NEW m \in Member, NEW d \in Amount, NEW b \in Amount,
         NEW to \in Retention, NEW too \in Retention, PostDividend(m, d, b, to, too)
  PROVE  BooksInv'
<1>1. PICK x, y, i, j : /\ x = Share(to, d) /\ y = Share(too, b)
                        /\ i = d - x + b - y /\ j = x + y
  OBVIOUS
<1>2. d \in Nat /\ b \in Nat /\ x \in Nat /\ y \in Nat /\ x <= d /\ y <= b
  BY <1>1, AmountIsNat DEF Share
<1>3. i \in Int /\ j \in Int /\ i >= 0 /\ j >= 0
  BY <1>1, <1>2
<1>4. Moves(DividendLegs(d, b, to, too), i, j, 0)
  <2>1. Moves(DividendLegs(d, b, to, too), d - Share(to, d) + b - Share(too, b),
              Share(to, d) + Share(too, b), 0)
    BY <1>2, DividendMoves
  <2> QED BY ONLY <1>1, <2>1
<1>5. /\ Post(m, DividendLegs(d, b, to, too))
      /\ share' = [share EXCEPT ![m] = @ + Share(to, d) + Share(too, b)]
      /\ deposit' = [deposit EXCEPT ![m] = @ + d - Share(to, d) + b - Share(too, b)]
      /\ loan' = loan /\ receipt' = receipt /\ exitFee' = exitFee
      /\ status' = status /\ UNCHANGED requests
  BY DEF PostDividend
<1>6. deposit[m] \in Nat /\ share[m] \in Nat /\ Pledged[m] \in Nat /\ deposit[m] >= Pledged[m]
  BY MoneyTyped DEF BooksInv
<1>7. /\ share[m] + x + y = share[m] + j /\ deposit[m] + d - x + b - y = deposit[m] + i
      /\ deposit[m] + i >= Pledged[m] /\ share[m] + j >= 0
  BY <1>1, <1>2, <1>3, <1>6
<1>8. /\ share' = [share EXCEPT ![m] = @ + j] /\ deposit' = [deposit EXCEPT ![m] = @ + i]
  BY <1>1, <1>5, <1>7
<1>9. MoneyInv'
  <2>1. Grows(deposit, deposit', m, i) /\ Grows(share, share', m, j)
    BY <1>3, <1>4, <1>5, <1>7, <1>8, AccountGrows DEF BooksInv
  <2> QED BY <1>3, <1>4, <1>5, <1>7, <1>8, <2>1, AccountsMoved DEF BooksInv
<1> QED BY <1>5, <1>9, StandingKept, RequestsKept DEF BooksInv, StandingInv

LEMMA ParkDividendKeeps ==
  ASSUME BooksInv, NEW m \in Member, NEW d \in Amount, NEW b \in Amount, ParkDividend(m, d, b)
  PROVE  BooksInv'
<1>1. Moves(UnclaimedLegs(d, b), 0, 0, 0)
  BY AmountIsNat, UnclaimedMoves
<1>2. /\ Post(m, UnclaimedLegs(d, b)) /\ share' = share
      /\ deposit' = deposit /\ loan' = loan /\ receipt' = receipt /\ exitFee' = exitFee
      /\ status' = status /\ UNCHANGED requests
  BY DEF ParkDividend, balances
<1>3. deposit[m] + 0 >= Pledged[m] /\ share[m] + 0 >= 0
  BY MoneyTyped DEF BooksInv
<1>4. MoneyInv'
  <2>1. Grows(deposit, deposit', m, 0) /\ Grows(share, share', m, 0)
    BY <1>1, <1>2, <1>3, AccountGrows DEF BooksInv
  <2> QED BY <1>1, <1>2, <1>3, <2>1, AccountsMoved DEF BooksInv
<1> QED BY <1>2, <1>4, StandingKept, RequestsKept DEF BooksInv, StandingInv

-----------------------------------------------------------------------------
(* The member's loan.                                                      *)

LEMMA LoanIsRow ==
  ASSUME NEW state \in {"none", "applied", "active", "closed", "written_off"},
         NEW p \in Nat, NEW i \in Nat, NEW q \in Nat, state # "active" => p = 0
  PROVE  /\ LoanWell(Loan(state, p, i, q))
         /\ Owed(Loan(state, p, i, q)) = IF state = "active" THEN p ELSE 0
  BY DEF LoanWell, LoanRow, Loan, Owed

LEMMA LoanTyped ==
  ASSUME BooksInv, NEW m \in Member
  PROVE  /\ loan[m].principal \in Nat /\ loan[m].interest \in Nat /\ loan[m].penalty \in Nat
         /\ Owed(loan[m]) = (IF loan[m].state = "active" THEN loan[m].principal ELSE 0)
         /\ loan[m].state # "active" => loan[m].principal = 0
         /\ loan[m].state \in {"none", "applied", "active", "closed", "written_off"}
<1>1. loan[m] \in LoanRow /\ LoanWell(loan[m])
  BY MoneyTyped DEF BooksInv
<1> QED BY <1>1 DEF Owed, LoanRow, LoanWell

\* The rest of a step of a loan.
LEMMA LoanStepKeeps ==
  ASSUME BooksInv, MoneyInv', receipt' \in [Member -> ReceiptRow],
         UNCHANGED <<status, exitFee, requests>>
  PROVE  BooksInv'
  BY StandingKept, RequestsKept DEF BooksInv

LEMMA ReceiptTyped == NoReceipt \in ReceiptRow /\ (BooksInv => receipt \in [Member -> ReceiptRow])
  BY DEF NoReceipt, ReceiptRow, BooksInv, StandingInv

LEMMA ApplyKeeps ==
  ASSUME BooksInv, NEW m \in Member, Apply(m)
  PROVE  BooksInv'
<1>1. /\ loan[m].state \in {"none", "closed"} /\ WithLoan(m, Loan("applied", 0, 0, 0))
      /\ receipt' = [receipt EXCEPT ![m] = NoReceipt]
      /\ UNCHANGED balances /\ UNCHANGED <<ledger, posted>> /\ UNCHANGED <<status, exitFee, requests>>
  BY DEF Apply
<1>2. LoanWell(Loan("applied", 0, 0, 0)) /\ Owed(Loan("applied", 0, 0, 0)) = Owed(loan[m]) + 0
  BY <1>1, LoanIsRow, LoanTyped
<1>3. MoneyInv'
  BY <1>1, <1>2, LoanMoved DEF BooksInv
<1>4. receipt' \in [Member -> ReceiptRow]
  BY <1>1, ReceiptTyped
<1> QED BY <1>1, <1>3, <1>4, LoanStepKeeps

LEMMA DeclineKeeps ==
  ASSUME BooksInv, NEW m \in Member, Decline(m)
  PROVE  BooksInv'
<1>1. /\ loan[m].state = "applied" /\ WithLoan(m, NoLoan) /\ receipt' = receipt
      /\ UNCHANGED balances /\ UNCHANGED <<ledger, posted>> /\ UNCHANGED <<status, exitFee, requests>>
  BY DEF Decline
<1>2. LoanWell(NoLoan) /\ Owed(NoLoan) = Owed(loan[m]) + 0
  BY <1>1, LoanIsRow, LoanTyped DEF NoLoan
<1>3. MoneyInv'
  BY <1>1, <1>2, LoanMoved DEF BooksInv
<1> QED BY <1>1, <1>3, ReceiptTyped, LoanStepKeeps

LEMMA DisburseLoanKeeps ==
  ASSUME BooksInv, NEW m \in Member, NEW n \in Amount, NEW c \in Channel, DisburseLoan(m, n, c)
  PROVE  BooksInv'
<1>1. /\ loan[m].state = "applied" /\ Post(m, DisbursementLegs(n, c))
      /\ WithLoan(m, Loan("active", n, 0, 0)) /\ receipt' = receipt
      /\ UNCHANGED balances /\ UNCHANGED <<status, exitFee, requests>>
  BY DEF DisburseLoan
<1>2. n \in Nat /\ Moves(DisbursementLegs(n, c), 0, 0, n)
  BY AmountIsNat, SimpleLegs
<1>3. LoanWell(Loan("active", n, 0, 0)) /\ Owed(Loan("active", n, 0, 0)) = Owed(loan[m]) + n
  BY <1>1, <1>2, LoanIsRow, LoanTyped
<1>4. MoneyInv'
  BY <1>1, <1>2, <1>3, LoanMoved DEF BooksInv
<1> QED BY <1>1, <1>4, ReceiptTyped, LoanStepKeeps

LEMMA AccrueOnLoanKeeps ==
  ASSUME BooksInv, NEW m \in Member, NEW i \in Nat, NEW q \in Nat, AccrueOnLoan(m, i, q)
  PROVE  BooksInv'
<1>1. PICK p : p = loan[m].principal
  OBVIOUS
<1>2. /\ loan[m].state = "active" /\ WithLoan(m, Loan("active", p, i, q)) /\ receipt' = receipt
      /\ UNCHANGED balances /\ UNCHANGED <<ledger, posted>> /\ UNCHANGED <<status, exitFee, requests>>
  BY <1>1 DEF AccrueOnLoan
<1>3. LoanWell(Loan("active", p, i, q)) /\ Owed(Loan("active", p, i, q)) = Owed(loan[m]) + 0
  BY <1>1, <1>2, LoanIsRow, LoanTyped
<1>4. MoneyInv'
  BY <1>2, <1>3, LoanMoved DEF BooksInv
<1> QED BY <1>2, <1>4, ReceiptTyped, LoanStepKeeps

LEMMA RepayLoanKeeps ==
  ASSUME BooksInv, NEW m \in Member, NEW n \in Amount, NEW c \in Channel, RepayLoan(m, n, c)
  PROVE  BooksInv'
<1>1. PICK l, r : l = loan[m] /\ r = Allocation(l, n, c)
  OBVIOUS
<1>2. PICK new : new = IF l.principal = r.principal /\ l.penalty = r.penalty THEN Loan("closed", 0, 0, 0)
                       ELSE Loan("active", l.principal - r.principal, l.interest - r.interest,
                                 l.penalty - r.penalty)
  OBVIOUS
<1>3. /\ l.state = "active" /\ n <= l.penalty + l.interest + l.principal
      /\ Post(m, RepaymentLegs(r)) /\ WithLoan(m, new) /\ receipt' = [receipt EXCEPT ![m] = r]
      /\ UNCHANGED balances /\ UNCHANGED <<status, exitFee, requests>>
  BY <1>1, <1>2 DEF RepayLoan, PostAllocatedRepayment
<1>4. /\ l.principal \in Nat /\ l.interest \in Nat /\ l.penalty \in Nat /\ n \in Nat
      /\ Owed(l) = l.principal
  BY <1>1, <1>3, LoanTyped, AmountIsNat
<1>5. PICK q, i : q = Least(n, l.penalty) /\ i = Least(n - q, l.interest)
  OBVIOUS
<1>6. r = [penalty |-> q, interest |-> i, principal |-> n - q - i, channel |-> c]
  BY <1>1, <1>5 DEF Allocation
<1>7. /\ q \in Nat /\ i \in Nat /\ q <= l.penalty /\ i <= l.interest
      /\ n - q - i \in Nat /\ n - q - i <= l.principal
  <2>1. q \in Nat /\ q <= n /\ q <= l.penalty /\ (q = n \/ q = l.penalty)
    BY <1>4, <1>5 DEF Least
  <2>2. i \in Nat /\ i <= n - q /\ i <= l.interest /\ (i = n - q \/ i = l.interest)
    BY <1>4, <1>5, <2>1 DEF Least
  <2> QED BY <1>3, <1>4, <2>1, <2>2
<1>8. /\ r \in ReceiptRow /\ r.penalty \in Nat /\ r.interest \in Nat /\ r.principal \in Nat
      /\ r.penalty <= l.penalty /\ r.interest <= l.interest /\ r.principal <= l.principal
  BY <1>6, <1>7 DEF ReceiptRow
<1>9. LoanWell(new) /\ Owed(new) = Owed(loan[m]) + (-r.principal)
  <2>1. CASE l.principal = r.principal /\ l.penalty = r.penalty
    BY <1>1, <1>2, <1>4, <1>8, <2>1, LoanIsRow
  <2>2. CASE ~(l.principal = r.principal /\ l.penalty = r.penalty)
    <3>1. /\ l.principal - r.principal \in Nat /\ l.interest - r.interest \in Nat
          /\ l.penalty - r.penalty \in Nat
      BY <1>4, <1>8
    <3>2. new = Loan("active", l.principal - r.principal, l.interest - r.interest,
                     l.penalty - r.penalty)
      BY <1>2, <2>2
    <3> QED BY <1>1, <1>4, <1>8, <3>1, <3>2, LoanIsRow
  <2> QED BY <2>1, <2>2
<1>10. Moves(RepaymentLegs(r), 0, 0, -r.principal) /\ -r.principal \in Int
  BY <1>8, RepaymentMoves
<1>11. MoneyInv'
  BY <1>3, <1>9, <1>10, LoanMoved DEF BooksInv
<1>12. receipt' \in [Member -> ReceiptRow]
  BY <1>3, <1>8, ReceiptTyped
<1> QED BY <1>3, <1>11, <1>12, LoanStepKeeps

LEMMA ReverseRepaymentKeeps ==
  ASSUME BooksInv, NEW m \in Member, ReverseRepayment(m)
  PROVE  BooksInv'
<1>1. PICK l, r : l = loan[m] /\ r = receipt[m]
  OBVIOUS
<1>2. PICK new : new = Loan("active", l.principal + r.principal, l.interest + r.interest,
                            l.penalty + r.penalty)
  OBVIOUS
<1>3. /\ l.state \in {"active", "closed"}
      /\ Post(m, Mirror(RepaymentLegs(r))) /\ WithLoan(m, new)
      /\ receipt' = [receipt EXCEPT ![m] = NoReceipt]
      /\ UNCHANGED balances /\ UNCHANGED <<status, exitFee, requests>>
  BY <1>1, <1>2 DEF ReverseRepayment, PostReversal
<1>4. /\ l.principal \in Nat /\ l.interest \in Nat /\ l.penalty \in Nat /\ Owed(l) = l.principal
      /\ r.principal \in Nat /\ r.interest \in Nat /\ r.penalty \in Nat
  <2>1. r \in ReceiptRow
    BY <1>1, ReceiptTyped
  <2> QED BY <1>1, <1>3, <2>1, LoanTyped DEF ReceiptRow
<1>5. LoanWell(new) /\ Owed(new) = Owed(loan[m]) + r.principal
  <2>1. /\ l.principal + r.principal \in Nat /\ l.interest + r.interest \in Nat
        /\ l.penalty + r.penalty \in Nat
    BY <1>4
  <2> QED BY <1>1, <1>2, <1>4, <2>1, LoanIsRow
<1>6. Moves(Mirror(RepaymentLegs(r)), 0, 0, r.principal)
  <2>1. PICK p, legs : p = -r.principal /\ legs = RepaymentLegs(r)
    OBVIOUS
  <2>2. Moves(legs, 0, 0, p) /\ p \in Int
    BY <1>4, <2>1, RepaymentMoves
  <2>3. Moves(Mirror(legs), 0, 0, -p)
    BY <2>2, MirrorMoves
  <2>4. -p = r.principal
    BY <1>4, <2>1
  <2> QED BY <2>1, <2>3, <2>4
<1>7. MoneyInv'
  BY <1>3, <1>4, <1>5, <1>6, LoanMoved DEF BooksInv
<1>8. receipt' \in [Member -> ReceiptRow]
  BY <1>3, ReceiptTyped
<1> QED BY <1>3, <1>7, <1>8, LoanStepKeeps

LEMMA WriteOffLoanKeeps ==
  ASSUME BooksInv, NEW m \in Member, WriteOffLoan(m)
  PROVE  BooksInv'
<1>1. PICK p, q : p = loan[m].principal /\ q = loan[m].principal + loan[m].penalty
  OBVIOUS
<1>2. /\ loan[m].state = "active"
      /\ \/ Post(m, WriteOffLegs(p))
         \/ ~(p > 0) /\ UNCHANGED <<ledger, posted>>
      /\ WithLoan(m, Loan("written_off", 0, 0, q)) /\ receipt' = [receipt EXCEPT ![m] = NoReceipt]
      /\ UNCHANGED balances /\ UNCHANGED <<status, exitFee, requests>>
  BY <1>1 DEF WriteOffLoan, PostLoanWriteOff
<1>3. p \in Nat /\ q \in Nat /\ Owed(loan[m]) = p
  BY <1>1, <1>2, LoanTyped
<1>4. Moves(WriteOffLegs(p), 0, 0, -p) /\ -p \in Int
  BY <1>3, SimpleLegs
<1>5. ~(p > 0) => -p = 0
  BY <1>3
<1>6. LoanWell(Loan("written_off", 0, 0, q)) /\ Owed(Loan("written_off", 0, 0, q)) = Owed(loan[m]) + (-p)
  BY <1>3, LoanIsRow
<1>7. MoneyInv'
  BY <1>2, <1>4, <1>5, <1>6, LoanMoved DEF BooksInv
<1>8. receipt' \in [Member -> ReceiptRow]
  BY <1>2, ReceiptTyped
<1> QED BY <1>2, <1>7, <1>8, LoanStepKeeps

LEMMA RecordRecoveryKeeps ==
  ASSUME BooksInv, NEW m \in Member, NEW n \in Amount, NEW c \in Channel, RecordRecovery(m, n, c)
  PROVE  BooksInv'
<1>1. PICK q : q = loan[m].penalty - n
  OBVIOUS
<1>2. /\ loan[m].state = "written_off" /\ n <= loan[m].penalty /\ Post(m, RecoveryLegs(n, c))
      /\ WithLoan(m, Loan("written_off", 0, 0, q)) /\ receipt' = receipt
      /\ UNCHANGED balances /\ UNCHANGED <<status, exitFee, requests>>
  BY <1>1 DEF RecordRecovery, PostLoanRecovery
<1>3. n \in Nat /\ q \in Nat /\ Owed(loan[m]) = 0
  BY <1>1, <1>2, LoanTyped, AmountIsNat
<1>4. Moves(RecoveryLegs(n, c), 0, 0, 0)
  BY <1>3, SimpleLegs
<1>5. LoanWell(Loan("written_off", 0, 0, q)) /\ Owed(Loan("written_off", 0, 0, q)) = Owed(loan[m]) + 0
  BY <1>3, LoanIsRow
<1>6. MoneyInv'
  BY <1>2, <1>4, <1>5, LoanMoved DEF BooksInv
<1> QED BY <1>2, <1>6, ReceiptTyped, LoanStepKeeps

-----------------------------------------------------------------------------
(* Standing and the tenant's settings.                                     *)

LEMMA ChangeMemberStatusKeeps ==
  ASSUME BooksInv, NEW m \in Member, NEW to \in {"active", "arrears"}, ChangeMemberStatus(m, to)
  PROVE  BooksInv'
<1>1. /\ status[m] # "exited" /\ status' = [status EXCEPT ![m] = to]
      /\ receipt' = receipt /\ exitFee' = exitFee
      /\ UNCHANGED <<balances, loan, ledger, posted>> /\ UNCHANGED requests
  BY DEF ChangeMemberStatus
<1>2. StandingInv' /\ \A k \in Member : status[k] = "exited" => status'[k] = "exited"
  BY <1>1 DEF StandingInv, BooksInv
<1> QED BY <1>1, <1>2, MoneySame, RequestsKept DEF BooksInv

LEMMA MarkDormantKeeps ==
  ASSUME BooksInv, NEW m \in Member, MarkDormant(m)
  PROVE  BooksInv'
<1>1. /\ status[m] # "exited" /\ status' = [status EXCEPT ![m] = "dormant"]
      /\ receipt' = receipt /\ exitFee' = exitFee
      /\ UNCHANGED <<balances, loan, ledger, posted>> /\ UNCHANGED requests
  BY DEF MarkDormant
<1>2. StandingInv' /\ \A k \in Member : status[k] = "exited" => status'[k] = "exited"
  BY <1>1 DEF StandingInv, BooksInv
<1> QED BY <1>1, <1>2, MoneySame, RequestsKept DEF BooksInv

LEMMA SetExitFeeKeeps ==
  ASSUME BooksInv, NEW f \in ExitFee, SetExitFee(f)
  PROVE  BooksInv'
<1>1. /\ f \in Nat /\ exitFee' = f /\ status' = status /\ receipt' = receipt
      /\ UNCHANGED <<balances, loan, ledger, posted>> /\ UNCHANGED requests
  BY BooksAssumption DEF SetExitFee
<1>2. StandingInv' /\ \A k \in Member : status[k] = "exited" => status'[k] = "exited"
  BY <1>1 DEF StandingInv, BooksInv
<1> QED BY <1>1, <1>2, MoneySame, RequestsKept DEF BooksInv

LEMMA RequestStepKeeps ==
  ASSUME BooksInv, UNCHANGED <<status, balances, loan, receipt, ledger, exitFee, posted>>,
         TransferInv', ExitInv'
  PROVE  BooksInv'
<1>1. MoneyInv'
  BY MoneySame DEF BooksInv
<1>2. StandingInv'
  BY DEF StandingInv, BooksInv
<1> QED BY <1>1, <1>2 DEF BooksInv

LEMMA TransfersKept ==
  ASSUME TransferInv, UNCHANGED transfer
  PROVE  TransferInv'
  BY DEF TransferInv

LEMMA ExitsKept ==
  ASSUME ExitInv, UNCHANGED <<exit, status>>
  PROVE  ExitInv'
<1>1. (\A x \in Exit : exit[x].state \in {"requested", "approved", "settled"} => VoteStands(exit[x]))'
  BY DEF ExitInv
<1> QED BY <1>1 DEF ExitInv

-----------------------------------------------------------------------------
(* Share transfers.                                                        *)

LEMMA RequestShareTransferKeeps ==
  ASSUME BooksInv, NEW t \in Transfer, NEW u \in User, NEW from \in Member, NEW to \in Member,
         NEW n \in Amount, RequestShareTransfer(t, u, from, to, n)
  PROVE  BooksInv'
<1>1. PICK row : row = [state |-> "pending", from |-> from, to |-> to, amount |-> n, maker |-> u,
                        before |-> share[from]]
  OBVIOUS
<1>2. n \in Nat /\ share[from] \in Nat /\ n <= share[from]
  BY AmountIsNat, MoneyTyped DEF BooksInv, RequestShareTransfer
<1>3. row \in TransferRow /\ row.amount <= row.before
  BY <1>1, <1>2 DEF TransferRow
<1>4. transfer' = [transfer EXCEPT ![t] = row]
  BY <1>1 DEF RequestShareTransfer
<1>5. TransferInv'
  BY <1>3, <1>4 DEF TransferInv, BooksInv
<1>6. ExitInv'
  BY ExitsKept DEF BooksInv, RequestShareTransfer
<1> QED BY <1>5, <1>6, RequestStepKeeps DEF RequestShareTransfer

LEMMA RejectShareTransferKeeps ==
  ASSUME BooksInv, NEW t \in Transfer, NEW u \in User, RejectShareTransfer(t, u)
  PROVE  BooksInv'
<1>1. TransferInv'
  BY DEF TransferInv, BooksInv, RejectShareTransfer
<1>2. ExitInv'
  BY ExitsKept DEF BooksInv, RejectShareTransfer
<1> QED BY <1>1, <1>2, RequestStepKeeps DEF RejectShareTransfer

\* What one member gives another receives, and the clearing account is even.
LEMMA SharesTransferred ==
  ASSUME MoneyInv, NEW from \in Member, NEW to \in Member, NEW n \in Nat, from # to,
         n <= share[from], PostShareTransfer(from, to, n),
         share' = [share EXCEPT ![from] = @ - n, ![to] = @ + n], UNCHANGED <<deposit, loan>>
  PROVE  MoneyInv'
<1>1. PICK x, y : x = TransferOutLegs(n) /\ y = TransferInLegs(n)
  OBVIOUS
<1>2. /\ x \in [Account -> Int] /\ Total(x) = 0 /\ y \in [Account -> Int] /\ Total(y) = 0
      /\ x["member.shares"] = n /\ y["member.shares"] = -n
      /\ x["clearing.share_transfers"] = -n /\ y["clearing.share_transfers"] = n
      /\ \A a \in {"member.deposits", "loans.receivable"} : x[a] = 0 /\ y[a] = 0
  BY <1>1, TransferLegs
<1>3. /\ ledger \in [Member -> [Account -> Int]] /\ posted \in Nat
      /\ \A k \in Member : Total(ledger[k]) = 0
      /\ Sum(Clearing, Member) = 0
  BY DEF MoneyInv
<1>4. PICK p, q : p = Plus(ledger[from], x) /\ q = Plus(ledger[to], y)
  OBVIOUS
<1>5. /\ p \in [Account -> Int] /\ Total(p) = Total(ledger[from]) + Total(x)
      /\ \A a \in Account : p[a] = ledger[from][a] + x[a]
  <2>1. ledger[from] \in [Account -> Int]
    BY <1>3
  <2>2. x \in [Account -> Int] /\ p = Plus(ledger[from], x)
    BY <1>2, <1>4
  <2> QED BY ONLY <2>1, <2>2, PlusIs
<1>6. /\ q \in [Account -> Int] /\ Total(q) = Total(ledger[to]) + Total(y)
      /\ \A a \in Account : q[a] = ledger[to][a] + y[a]
  <2>1. ledger[to] \in [Account -> Int]
    BY <1>3
  <2>2. y \in [Account -> Int] /\ q = Plus(ledger[to], y)
    BY <1>2, <1>4
  <2> QED BY ONLY <2>1, <2>2, PlusIs
<1>7. posted' = posted + 1 /\ ledger' = [ledger EXCEPT ![from] = p, ![to] = q]
  BY <1>1, <1>3, <1>4 DEF PostShareTransfer
<1>8. /\ ledger' \in [Member -> [Account -> Int]] /\ ledger'[from] = p /\ ledger'[to] = q
      /\ \A k \in Member \ {from, to} : ledger'[k] = ledger[k]
  BY <1>3, <1>5, <1>6, <1>7
<1>9. \A k \in Member : Total(ledger'[k]) = 0
  <2>1. Total(p) = 0 /\ Total(q) = 0
    BY <1>2, <1>3, <1>5, <1>6
  <2> QED BY <1>3, <1>8, <2>1
<1>10. Sum(Clearing', Member) = 0
  <2>1. PICK f, h : f = Clearing /\ h = Clearing'
    OBVIOUS
  <2>2. \A k \in Member : f[k] \in Int /\ h[k] \in Int
    BY <1>3, <1>8, <2>1, SubledgersAreAccounts DEF Clearing
  <2>3. /\ h[from] = f[from] - n /\ h[to] = f[to] + n
        /\ \A k \in Member \ {from, to} : h[k] = f[k]
    <3>1. f[from] = ledger[from]["clearing.share_transfers"] /\ f[to] = ledger[to]["clearing.share_transfers"]
      BY <2>1 DEF Clearing
    <3>2. h[from] = p["clearing.share_transfers"] /\ h[to] = q["clearing.share_transfers"]
      BY <1>8, <2>1 DEF Clearing
    <3>3. \A k \in Member \ {from, to} : h[k] = f[k]
      BY <1>8, <2>1 DEF Clearing
    <3> QED BY <1>2, <1>5, <1>6, <2>2, <3>1, <3>2, <3>3, SubledgersAreAccounts
  <2>4. PICK g : g = [k \in Member |-> IF k = from THEN f[from] - n ELSE f[k]]
    OBVIOUS
  <2>5. \A k \in Member : g[k] \in Int
    BY <2>2, <2>4
  <2>6. \A k \in Member : f[k] \in Int
    BY <2>2
  <2>7. \A k \in Member : h[k] \in Int
    BY <2>2
  <2>8. \A k \in Member \ {from} : g[k] = f[k]
    BY <2>4
  <2>9. \A k \in Member \ {to} : h[k] = g[k]
    BY <2>3, <2>4
  <2>10. IsFiniteSet(Member)
    BY BooksAssumption
  <2>11. SumOf(g, Member) = SumOf(f, Member) + g[from] - f[from]
    BY ONLY <2>5, <2>6, <2>8, <2>10, from \in Member, SumChanged
  <2>12. SumOf(h, Member) = SumOf(g, Member) + h[to] - g[to]
    BY ONLY <2>5, <2>7, <2>9, <2>10, to \in Member, SumChanged
  <2>13. SumOf(f, Member) = 0
    BY <1>3, <2>1, SumIsSumOf
  <2>14. g[from] - f[from] = -n /\ h[to] - g[to] = n /\ g[from] \in Int /\ f[from] \in Int
         /\ h[to] \in Int /\ g[to] \in Int
    BY <2>2, <2>3, <2>4
  <2>15. SumOf(h, Member) = 0
    BY <2>11, <2>12, <2>13, <2>14
  <2> QED BY <2>1, <2>15, SumIsSumOf
<1>11. /\ share \in [Member -> Int] /\ share' = [share EXCEPT ![from] = @ - n, ![to] = @ + n]
       /\ deposit' = deposit /\ loan' = loan
  BY DEF MoneyInv
<1>12. /\ share' \in [Member -> Int] /\ share'[from] = share[from] - n /\ share'[to] = share[to] + n
       /\ \A k \in Member \ {from, to} : share'[k] = share[k]
  BY <1>11
<1>13. \A k \in Member :
         /\ ledger'[k]["member.deposits"] = ledger[k]["member.deposits"]
         /\ ledger'[k]["loans.receivable"] = ledger[k]["loans.receivable"]
         /\ ledger'[k]["member.shares"] + share'[k] = ledger[k]["member.shares"] + share[k]
         /\ share'[k] >= 0
  <2>1. \A k \in Member \ {from, to} : share[k] \in Int /\ share[k] >= 0
    BY DEF MoneyInv
  <2>2. share[from] \in Int /\ share[to] \in Int /\ share[to] >= 0
    BY DEF MoneyInv
  <2>3. \A a \in {"member.deposits", "loans.receivable", "member.shares"} :
          ledger[from][a] \in Int /\ ledger[to][a] \in Int
    BY <1>3, SubledgersAreAccounts
  <2>4. \A a \in {"member.deposits", "loans.receivable"} :
          ledger'[from][a] = ledger[from][a] /\ ledger'[to][a] = ledger[to][a]
    BY <1>2, <1>5, <1>6, <1>8, <2>3, SubledgersAreAccounts
  <2>5. /\ ledger'[from]["member.shares"] = ledger[from]["member.shares"] + n
        /\ ledger'[to]["member.shares"] = ledger[to]["member.shares"] - n
    BY <1>2, <1>5, <1>6, <1>8, <2>3, SubledgersAreAccounts
  <2>6. ASSUME NEW k \in {from, to}
        PROVE  /\ ledger'[k]["member.deposits"] = ledger[k]["member.deposits"]
               /\ ledger'[k]["loans.receivable"] = ledger[k]["loans.receivable"]
               /\ ledger'[k]["member.shares"] + share'[k] = ledger[k]["member.shares"] + share[k]
               /\ share'[k] >= 0
    BY <1>12, <2>2, <2>3, <2>4, <2>5
  <2>7. ASSUME NEW k \in Member \ {from, to}
        PROVE  /\ ledger'[k]["member.deposits"] = ledger[k]["member.deposits"]
               /\ ledger'[k]["loans.receivable"] = ledger[k]["loans.receivable"]
               /\ ledger'[k]["member.shares"] + share'[k] = ledger[k]["member.shares"] + share[k]
               /\ share'[k] >= 0
    BY <1>8, <1>12, <2>1
  <2> QED BY <2>6, <2>7
<1>14. ASSUME NEW k \in Member
       PROVE  /\ ledger'[k]["member.deposits"] = -deposit'[k]
              /\ ledger'[k]["member.shares"] = -share'[k]
              /\ ledger'[k]["loans.receivable"] = Owed(loan'[k])
              /\ share'[k] >= 0 /\ deposit'[k] >= Pledged[k] /\ deposit'[k] >= 0
  <2>1. ledger'[k]["member.shares"] \in Int /\ share'[k] \in Int /\ share[k] \in Int
    BY <1>8, <1>11, <1>12, SubledgersAreAccounts
  <2>2. /\ ledger[k]["member.deposits"] = -deposit[k] /\ ledger[k]["member.shares"] = -share[k]
        /\ ledger[k]["loans.receivable"] = Owed(loan[k])
        /\ deposit[k] >= Pledged[k] /\ deposit[k] >= 0
    BY DEF MoneyInv
  <2>3. ledger'[k]["member.shares"] + share'[k] = 0
    <3>1. ledger'[k]["member.shares"] + share'[k] = ledger[k]["member.shares"] + share[k]
      BY <1>13
    <3>2. ledger[k]["member.shares"] + share[k] = 0
      BY <2>1, <2>2
    <3> QED BY <3>1, <3>2, Zenon
  <2>4. ledger'[k]["member.shares"] = -share'[k]
    BY <2>1, <2>3
  <2> QED BY <1>11, <1>13, <2>2, <2>4
<1>15. (\A k \in Member : LoanWell(loan[k]))' /\ (\A k \in Member :
        /\ ledger[k]["member.deposits"] = -deposit[k]
        /\ ledger[k]["member.shares"] = -share[k]
        /\ ledger[k]["loans.receivable"] = Owed(loan[k])
        /\ share[k] >= 0 /\ deposit[k] >= Pledged[k] /\ deposit[k] >= 0)'
  <2>1. \A k \in Member : LoanWell(loan'[k])
    BY <1>11 DEF MoneyInv
  <2> QED BY <1>14, <2>1 DEF LoanWell, Owed
<1>16. (\A k \in Member : Total(ledger[k]) = 0)' /\ (Sum(Clearing, Member) = 0)'
  BY <1>9, <1>10
<1>17. /\ deposit' \in [Member -> Int] /\ loan' \in [Member -> LoanRow] /\ posted' \in Nat
  BY <1>3, <1>7, <1>11 DEF MoneyInv
<1> QED BY <1>8, <1>12, <1>15, <1>16, <1>17 DEF MoneyInv

LEMMA ApproveShareTransferKeeps ==
  ASSUME BooksInv, NEW t \in Transfer, NEW u \in User, ApproveShareTransfer(t, u)
  PROVE  BooksInv'
<1>1. PICK row : row = transfer[t]
  OBVIOUS
<1>2. /\ row.state = "pending" /\ row.from # row.to /\ share[row.from] = row.before
      /\ PostShareTransfer(row.from, row.to, row.amount)
      /\ share' = [share EXCEPT ![row.from] = @ - row.amount, ![row.to] = @ + row.amount]
      /\ transfer' = [transfer EXCEPT ![t] = [state |-> "posted"]]
      /\ UNCHANGED <<status, deposit, loan, receipt, exitFee, exit>>
  BY <1>1 DEF ApproveShareTransfer, BothActive, SameShare
<1>3. row \in TransferRow /\ row.amount <= row.before
  BY <1>1, <1>2 DEF TransferInv, BooksInv
<1>4. PICK from, to, n : from = row.from /\ to = row.to /\ n = row.amount
  OBVIOUS
<1>5. /\ from \in Member /\ to \in Member /\ n \in Nat /\ from # to /\ n <= share[from]
      /\ PostShareTransfer(from, to, n)
      /\ share' = [share EXCEPT ![from] = @ - n, ![to] = @ + n] /\ UNCHANGED <<deposit, loan>>
  BY <1>2, <1>3, <1>4 DEF TransferRow
<1>6. MoneyInv'
  BY <1>5, SharesTransferred DEF BooksInv
<1>7. TransferInv'
  BY <1>2 DEF TransferInv, BooksInv
<1>8. ExitInv'
  BY <1>2, ExitsKept DEF BooksInv
<1>9. StandingInv'
  BY <1>2 DEF StandingInv, BooksInv
<1> QED BY <1>6, <1>7, <1>8, <1>9 DEF BooksInv

-----------------------------------------------------------------------------
(* Exits.                                                                  *)

LEMMA ExitOfState ==
  ASSUME ExitInv, NEW x \in Exit, exit[x].state \in {"requested", "approved", "settled"}
  PROVE  exit[x] \in ExitRow /\ VoteStands(exit[x])
<1>1. exit[x] \in ExitRow \union [state : {"none", "rejected"}]
  BY DEF ExitInv
<1> QED BY <1>1 DEF ExitInv

\* One exit that is not settled becomes another.
LEMMA ExitBecomes ==
  ASSUME ExitInv, NEW x \in Exit, NEW row, exit' = [exit EXCEPT ![x] = row], UNCHANGED status,
         \/ row \in [state : {"none", "rejected"}]
         \/ row \in ExitRow /\ row.state # "settled" /\ VoteStands(row)
  PROVE  ExitInv'
<1>1. exit \in [Exit -> ExitRow \union [state : {"none", "rejected"}]]
  BY DEF ExitInv
<1>2. /\ exit' \in [Exit -> ExitRow \union [state : {"none", "rejected"}]]
      /\ exit'[x] = row /\ \A y \in Exit \ {x} : exit'[y] = exit[y]
  BY <1>1
<1>3. row.state # "settled" /\ (row.state \in {"requested", "approved"} => VoteStands(row))
  OBVIOUS
<1>4. \A y \in Exit : exit'[y].state \in {"requested", "approved", "settled"} => VoteStands(exit'[y])
  BY <1>2, <1>3 DEF ExitInv
<1>5. \A y \in Exit : exit'[y].state = "settled" => status[exit'[y].member] = "exited"
  BY <1>2, <1>3 DEF ExitInv
<1>6. (\A y \in Exit : exit[y].state \in {"requested", "approved", "settled"} => VoteStands(exit[y]))'
  BY <1>4 DEF VoteStands, NetPayable, LoanTotal
<1>7. (\A y \in Exit : exit[y].state = "settled" => status[exit[y].member] = "exited")'
  BY <1>5
<1> QED BY <1>2, <1>6, <1>7 DEF ExitInv

LEMMA SettlementTyped ==
  ASSUME BooksInv, NEW m \in Member
  PROVE  /\ Settlement(m) \in Snapshot
         /\ Settlement(m).shares = share[m] /\ Settlement(m).deposits = deposit[m]
         /\ Settlement(m).principal = Owed(loan[m])
<1>1. share[m] \in Nat /\ deposit[m] \in Nat /\ exitFee \in Nat
  BY MoneyTyped DEF BooksInv, StandingInv
<1>2. /\ ActiveLoan(m).principal = Owed(loan[m]) /\ ActiveLoan(m).principal \in Nat
      /\ ActiveLoan(m).interest \in Nat /\ ActiveLoan(m).penalty \in Nat
  BY LoanTyped DEF ActiveLoan, NoLoan, Loan
<1> QED BY <1>1, <1>2 DEF Settlement, Snapshot

LEMMA RequestExitKeeps ==
  ASSUME BooksInv, NEW x \in Exit, NEW u \in User, NEW m \in Member, RequestExit(x, u, m)
  PROVE  BooksInv'
<1>1. PICK s, row : /\ s = Settlement(m)
                    /\ row = [state |-> "requested", member |-> m, by |-> u, snapshot |-> s,
                              approvals |-> {}, rejections |-> {}, refund |-> 0]
  OBVIOUS
<1>2. s \in Snapshot
  BY <1>1, SettlementTyped
<1>3. NetPayable(s) >= 0 /\ exit' = [exit EXCEPT ![x] = row]
  BY <1>1 DEF RequestExit
<1>4. row \in ExitRow /\ row.state = "requested" /\ VoteStands(row)
  BY <1>1, <1>2, <1>3 DEF ExitRow, VoteStands
<1>5. ExitInv'
  BY <1>3, <1>4, ExitBecomes DEF RequestExit, BooksInv
<1>6. TransferInv'
  BY TransfersKept DEF BooksInv, RequestExit
<1> QED BY <1>5, <1>6, RequestStepKeeps DEF RequestExit

LEMMA VoidExitKeeps ==
  ASSUME BooksInv, NEW x \in Exit, VoidExit(x)
  PROVE  BooksInv'
<1>1. exit' = [exit EXCEPT ![x] = Rejected] /\ Rejected \in [state : {"none", "rejected"}]
  BY DEF VoidExit, Rejected
<1>2. ExitInv'
  BY <1>1, ExitBecomes DEF VoidExit, BooksInv
<1>3. TransferInv'
  BY TransfersKept DEF BooksInv, VoidExit
<1> QED BY <1>2, <1>3, RequestStepKeeps DEF VoidExit

LEMMA CastExitVoteKeeps ==
  ASSUME BooksInv, NEW x \in Exit, NEW u \in User, NEW approve \in BOOLEAN, CastExitVote(x, u, approve)
  PROVE  BooksInv'
<1>1. PICK row, yes, no : /\ row = exit[x]
                          /\ yes = IF approve THEN row.approvals \union {u} ELSE row.approvals
                          /\ no = IF approve THEN row.rejections ELSE row.rejections \union {u}
  OBVIOUS
<1>2. PICK state : state = IF Cardinality(yes) >= Quorum THEN "approved" ELSE row.state
  OBVIOUS
<1>3. PICK new : new = IF Cardinality(no) >= Quorum THEN Rejected
                       ELSE [row EXCEPT !.state = state, !.approvals = yes, !.rejections = no]
  OBVIOUS
<1>4. /\ row.state = "requested" /\ u # row.by /\ exit' = [exit EXCEPT ![x] = new]
      /\ UNCHANGED <<status, balances, loan, receipt, ledger, exitFee, transfer, posted>>
  BY <1>1, <1>2, <1>3 DEF CastExitVote
<1>5. row \in ExitRow /\ VoteStands(row)
  BY <1>1, <1>4, ExitOfState DEF BooksInv
<1>6. \/ new \in [state : {"none", "rejected"}]
      \/ new \in ExitRow /\ new.state # "settled" /\ VoteStands(new)
  <2>1. CASE Cardinality(no) >= Quorum
    BY <1>3, <2>1 DEF Rejected
  <2>2. CASE ~(Cardinality(no) >= Quorum)
    <3>1. new = [row EXCEPT !.state = state, !.approvals = yes, !.rejections = no]
      BY <1>3, <2>2
    <3>2. yes \in SUBSET User /\ no \in SUBSET User
      BY <1>1, <1>5 DEF ExitRow
    <3>3. state \in {"requested", "approved"} /\ (state = "approved" => Cardinality(yes) >= Quorum)
      BY <1>2, <1>4
    <3>4. /\ new \in ExitRow /\ new.state = state /\ new.approvals = yes /\ new.by = row.by
          /\ new.snapshot = row.snapshot
      BY <1>5, <3>1, <3>2, <3>3 DEF ExitRow
    <3>5. row.by \notin yes
      BY <1>1, <1>4, <1>5 DEF VoteStands
    <3>6. NetPayable(row.snapshot) >= 0
      BY <1>5 DEF VoteStands
    <3> QED BY <3>3, <3>4, <3>5, <3>6 DEF VoteStands
  <2> QED BY <2>1, <2>2
<1>7. ExitInv'
  BY <1>4, <1>6, ExitBecomes DEF BooksInv
<1>8. TransferInv'
  BY <1>4, TransfersKept DEF BooksInv
<1> QED BY <1>4, <1>7, <1>8, RequestStepKeeps

\* The account of who leaves is emptied and her loan paid off.
LEMMA SettlementMovesMoney ==
  ASSUME BooksInv, NEW m \in Member, NEW c, NEW s, s = Settlement(m), NetPayable(s) >= 0,
         Pledged[m] = 0, PostExitSettlement(m, s, c),
         share' = [share EXCEPT ![m] = 0], deposit' = [deposit EXCEPT ![m] = 0],
         loan' = [loan EXCEPT ![m] = IF @.state = "active" THEN Loan("closed", 0, 0, 0) ELSE @]
  PROVE  MoneyInv'
<1>1. /\ s \in Snapshot /\ s.shares = share[m] /\ s.deposits = deposit[m]
      /\ s.principal = Owed(loan[m])
  BY SettlementTyped
<1>2. /\ s.shares \in Nat /\ s.deposits \in Nat /\ s.principal \in Nat /\ s.interest \in Nat
      /\ s.penalty \in Nat /\ s.fee \in Nat
  BY <1>1 DEF Snapshot
<1>3. PICK d, h, r, l : /\ d = 0 - s.deposits /\ h = 0 - s.shares /\ r = 0 - s.principal
                        /\ l = IF loan[m].state = "active" THEN Loan("closed", 0, 0, 0) ELSE loan[m]
  OBVIOUS
<1>4. d \in Int /\ h \in Int /\ r \in Int
  BY <1>2, <1>3
<1>5. LedgerMoved(m, d, h, r)
  <2>1. CASE s.shares + s.deposits > 0
    <3>1. Post(m, ExitLegs(s, c))
      BY <2>1 DEF PostExitSettlement
    <3>2. Moves(ExitLegs(s, c), -s.deposits, -s.shares, -s.principal)
      BY <1>2, ExitMoves
    <3>3. d = -s.deposits /\ h = -s.shares /\ r = -s.principal
      BY <1>2, <1>3
    <3>4. Moves(ExitLegs(s, c), d, h, r)
      BY ONLY <3>2, <3>3, Zenon
    <3>5. MoneyInv
      BY DEF BooksInv
    <3> QED BY ONLY <1>4, <3>1, <3>4, <3>5, m \in Member, Posted
  <2>2. CASE ~(s.shares + s.deposits > 0)
    <3>1. UNCHANGED <<ledger, posted>>
      BY <2>2 DEF PostExitSettlement
    <3>2. s.shares = 0 /\ s.deposits = 0
      BY <1>2, <2>2
    <3>3. PICK p, i, q, f : p = s.principal /\ i = s.interest /\ q = s.penalty /\ f = s.fee
      OBVIOUS
    <3>4. NetPayable(s) = 0 + 0 - (p + i + q) - f
      BY <3>2, <3>3 DEF NetPayable, LoanTotal
    <3>5. p \in Nat /\ i \in Nat /\ q \in Nat /\ f \in Nat
      BY <1>2, <3>3
    <3>6. p = 0
      <4>1. NetPayable(s) >= 0
        OBVIOUS
      <4> QED BY ONLY <3>4, <3>5, <4>1
    <3>7. s.principal = 0
      BY <3>3, <3>6
    <3>8. d = 0 /\ h = 0 /\ r = 0
      BY ONLY <1>3, <1>4, <3>2, <3>7
    <3>9. LedgerMoved(m, 0, 0, 0)
      BY <3>1, NothingPosted DEF BooksInv
    <3> QED BY <3>8, <3>9
  <2> QED BY <2>1, <2>2
<1>6. /\ deposit \in [Member -> Int] /\ share \in [Member -> Int] /\ deposit[m] \in Nat
      /\ share[m] \in Nat
  BY MoneyTyped DEF BooksInv
<1>7. deposit[m] + d = 0 /\ share[m] + h = 0
  BY <1>1, <1>3, <1>6
<1>8. Grows(deposit, deposit', m, d) /\ Grows(share, share', m, h)
  BY <1>6, <1>7 DEF Grows
<1>9. loan' = [loan EXCEPT ![m] = l]
  BY <1>3 DEF MoneyInv
<1>10. LoanWell(l) /\ Owed(l) = 0
  <2>1. LoanWell(Loan("closed", 0, 0, 0)) /\ Owed(Loan("closed", 0, 0, 0)) = 0
    BY LoanIsRow
  <2>2. LoanWell(loan[m])
    BY MoneyTyped DEF BooksInv
  <2>3. loan[m].state # "active" => Owed(loan[m]) = 0
    BY DEF Owed
  <2> QED BY <1>3, <2>1, <2>2, <2>3
<1>11. Owed(l) = Owed(loan[m]) + r
  BY <1>1, <1>2, <1>3, <1>10
<1>12. deposit[m] + d >= Pledged[m] /\ deposit[m] + d >= 0 /\ share[m] + h >= 0
  BY <1>7
<1>13. MoneyInv /\ WithLoan(m, l)
  BY <1>9 DEF BooksInv, WithLoan
<1> QED BY ONLY <1>4, <1>5, <1>8, <1>10, <1>11, <1>12, <1>13, m \in Member, MoneyMoved

LEMMA PostSettlementKeeps ==
  ASSUME BooksInv, NEW x \in Exit, NEW u \in User, NEW c \in Channel, PostSettlement(x, u, c)
  PROVE  BooksInv'
<1>1. PICK row, m, now : row = exit[x] /\ m = row.member /\ now = Settlement(m)
  OBVIOUS
<1>2. /\ row.state = "approved" /\ MayLeave(m) /\ SnapshotHolds(row.snapshot, now)
      /\ PostExitSettlement(m, now, c)
      /\ share' = [share EXCEPT ![m] = 0] /\ deposit' = [deposit EXCEPT ![m] = 0]
      /\ loan' = [loan EXCEPT ![m] = IF @.state = "active" THEN Loan("closed", 0, 0, 0) ELSE @]
      /\ status' = [status EXCEPT ![m] = "exited"]
      /\ exit' = [exit EXCEPT ![x].state = "settled", ![x].refund = NetPayable(now)]
      /\ receipt' = receipt /\ exitFee' = exitFee /\ transfer' = transfer
  BY <1>1 DEF PostSettlement
<1>3. row \in ExitRow /\ VoteStands(row)
  BY <1>1, <1>2, ExitOfState DEF BooksInv
<1>4. m \in Member /\ row.snapshot \in Snapshot /\ row.approvals \in SUBSET User
  BY <1>1, <1>3 DEF ExitRow
<1>5. now \in Snapshot
  BY <1>1, <1>4, SettlementTyped
<1>6. NetPayable(now) = NetPayable(row.snapshot) /\ NetPayable(now) \in Int
  <2>1. PICK s : s = row.snapshot
    OBVIOUS
  <2>2. s.shares = now.shares /\ s.deposits = now.deposits /\ LoanTotal(s) = LoanTotal(now) /\ s.fee = now.fee
    BY <1>2, <2>1 DEF SnapshotHolds
  <2>3. NetPayable(now) = NetPayable(s)
    BY <2>2 DEF NetPayable
  <2>4. NetPayable(now) \in Int
    BY <1>5 DEF NetPayable, LoanTotal, Snapshot
  <2> QED BY <2>1, <2>3, <2>4
<1>7. MoneyInv'
  <2>1. NetPayable(now) >= 0 /\ Pledged[m] = 0
    BY <1>2, <1>3, <1>6 DEF VoteStands, MayLeave
  <2> QED BY <1>1, <1>2, <1>4, <2>1, SettlementMovesMoney
<1>8. StandingInv'
  BY <1>2, <1>4 DEF StandingInv, BooksInv
<1>9. TransferInv'
  BY <1>2, TransfersKept DEF BooksInv
<1>10. PICK new : new = [row EXCEPT !.state = "settled", !.refund = NetPayable(now)]
  OBVIOUS
<1>11. /\ new \in ExitRow /\ new.state = "settled" /\ new.refund = NetPayable(now)
       /\ new.snapshot = row.snapshot /\ new.approvals = row.approvals /\ new.by = row.by
       /\ new.member = m
  BY <1>1, <1>3, <1>6, <1>10 DEF ExitRow
<1>12. VoteStands(new)
  BY <1>2, <1>3, <1>6, <1>11 DEF VoteStands
<1>13. exit \in [Exit -> ExitRow \union [state : {"none", "rejected"}]]
       /\ exit' = [exit EXCEPT ![x] = new]
  BY <1>1, <1>2, <1>10 DEF ExitInv, BooksInv
<1>14. /\ exit' \in [Exit -> ExitRow \union [state : {"none", "rejected"}]]
       /\ exit'[x] = new /\ \A y \in Exit \ {x} : exit'[y] = exit[y]
  BY <1>11, <1>13
<1>15. status'[m] = "exited" /\ \A k \in Member : status[k] = "exited" => status'[k] = "exited"
  BY <1>2, <1>4 DEF StandingInv, BooksInv
<1>16. \A y \in Exit \ {x} : exit[y].state = "settled" =>
         exit[y].member \in Member /\ status[exit[y].member] = "exited"
  <2> SUFFICES ASSUME NEW y \in Exit \ {x}, exit[y].state = "settled"
               PROVE  exit[y].member \in Member /\ status[exit[y].member] = "exited"
    OBVIOUS
  <2>1. exit[y] \in ExitRow
    BY ExitOfState DEF BooksInv
  <2> QED BY <2>1 DEF ExitRow, ExitInv, BooksInv
<1>17. \A y \in Exit : exit'[y].state = "settled" => status'[exit'[y].member] = "exited"
  BY <1>11, <1>14, <1>15, <1>16
<1>18. \A y \in Exit : exit'[y].state \in {"requested", "approved", "settled"} => VoteStands(exit'[y])
  BY <1>12, <1>14 DEF ExitInv, BooksInv
<1>19. ExitInv'
  <2>1. (\A y \in Exit : exit[y].state \in {"requested", "approved", "settled"} => VoteStands(exit[y]))'
    BY <1>18 DEF VoteStands, NetPayable, LoanTotal
  <2> QED BY <1>14, <1>17, <2>1 DEF ExitInv
<1> QED BY <1>7, <1>8, <1>9, <1>19 DEF BooksInv

-----------------------------------------------------------------------------
(* The theorems.                                                           *)

LEMMA BooksStep == BooksInv /\ [Next]_vars => BooksInv'
<1> SUFFICES ASSUME BooksInv, [Next]_vars PROVE BooksInv'
  OBVIOUS
<1>1. CASE UNCHANGED vars
  <2>1. TransferInv' /\ ExitInv'
    BY <1>1, TransfersKept, ExitsKept DEF vars, BooksInv
  <2> QED BY <1>1, <2>1, RequestStepKeeps DEF vars, balances
<1>2. ASSUME NEW m \in Member, NEW n \in Amount, NEW c \in Channel,
             \/ RecordDeposit(m, n, c) \/ RecordWithdrawal(m, n, c) \/ RecordShareTopup(m, n, c)
             \/ DisburseLoan(m, n, c) \/ RepayLoan(m, n, c) \/ RecordRecovery(m, n, c)
      PROVE  BooksInv'
  BY <1>2, RecordDepositKeeps, RecordWithdrawalKeeps, RecordShareTopupKeeps, DisburseLoanKeeps,
     RepayLoanKeeps, RecordRecoveryKeeps
<1>3. ASSUME NEW m \in Member, NEW c \in Channel, PostMiscFee(m, c)
      PROVE  BooksInv'
  BY <1>3, PostMiscFeeKeeps
<1>4. ASSUME NEW m \in Member, ReverseRepayment(m) \/ MarkDormant(m)
      PROVE  BooksInv'
  BY <1>4, ReverseRepaymentKeeps, MarkDormantKeeps
<1>5. ASSUME NEW m \in Member, NEW n \in Amount, PostDepositInterest(m, n) \/ ParkDividend(m, n, n)
      PROVE  BooksInv'
  BY <1>5, PostDepositInterestKeeps, ParkDividendKeeps
<1>6. ASSUME NEW m \in Member, NEW n \in Amount, NEW to \in Retention,
             PostDividend(m, n, n, to, "member.deposits")
      PROVE  BooksInv'
  BY <1>6, PostDividendKeeps DEF Retention
<1>7. ASSUME NEW m \in Borrower,
             \/ Apply(m) \/ Decline(m) \/ WriteOffLoan(m)
             \/ ChangeMemberStatus(m, "arrears") \/ ChangeMemberStatus(m, "active")
      PROVE  BooksInv'
  <2>1. m \in Member
    BY BooksAssumption
  <2> QED BY <1>7, <2>1, ApplyKeeps, DeclineKeeps, WriteOffLoanKeeps, ChangeMemberStatusKeeps
<1>8. ASSUME NEW m \in Borrower, NEW n \in Amount, NEW k \in {0, 1}, AccrueOnLoan(m, n, k * n)
      PROVE  BooksInv'
  <2>1. PICK q : q = k * n
    OBVIOUS
  <2>2. m \in Member /\ n \in Nat /\ q \in Nat /\ AccrueOnLoan(m, n, q)
    BY <1>8, <2>1, BooksAssumption, AmountIsNat
  <2> QED BY <2>2, AccrueOnLoanKeeps
<1>9. ASSUME NEW f \in ExitFee, SetExitFee(f)
      PROVE  BooksInv'
  BY <1>9, SetExitFeeKeeps
<1>10. ASSUME NEW t \in Transfer, NEW u \in User, NEW from \in Member, NEW to \in Member,
              NEW n \in Amount, RequestShareTransfer(t, u, from, to, n)
       PROVE  BooksInv'
  BY <1>10, RequestShareTransferKeeps
<1>11. ASSUME NEW t \in Transfer, NEW u \in User, ApproveShareTransfer(t, u) \/ RejectShareTransfer(t, u)
       PROVE  BooksInv'
  BY <1>11, ApproveShareTransferKeeps, RejectShareTransferKeeps
<1>12. ASSUME NEW x \in Exit, NEW u \in User, NEW m \in Member, RequestExit(x, u, m)
       PROVE  BooksInv'
  BY <1>12, RequestExitKeeps
<1>13. ASSUME NEW x \in Exit, NEW u \in User, NEW approve \in BOOLEAN, CastExitVote(x, u, approve)
       PROVE  BooksInv'
  BY <1>13, CastExitVoteKeeps
<1>14. ASSUME NEW x \in Exit, VoidExit(x)
       PROVE  BooksInv'
  BY <1>14, VoidExitKeeps
<1>15. ASSUME NEW x \in Exit, NEW u \in User, NEW c \in Channel, PostSettlement(x, u, c)
       PROVE  BooksInv'
  BY <1>15, PostSettlementKeeps
<1> QED
  BY ONLY [Next]_vars, <1>1, <1>2, <1>3, <1>4, <1>5, <1>6, <1>7, <1>8, <1>9, <1>10, <1>11, <1>12,
     <1>13, <1>14, <1>15, Zenon DEF Next

\* The books are always typed and in order: BooksInv holds in every state.
THEOREM BooksInOrder == Spec => []BooksInv
<1>1. Init => BooksInv
  BY BooksStart
<1>2. BooksInv /\ [Next]_vars => BooksInv'
  BY BooksStep
<1> QED BY <1>1, <1>2, PTL DEF Spec

\* Whatever requests, votes, corrections and payments interleave, every
\* member's ledger explains her balances and her loan, each member's legs and
\* the clearing account are even, and nobody is overdrawn below her pledges
\* (domain/ledger.py, application/transactions.py).
THEOREM BooksAlwaysAgree == Spec => []BooksAgree
<1>1. BooksInv => BooksAgree
  BY DEF BooksInv, MoneyInv, BooksAgree, SubledgerAgrees, BooksBalance, Owed, Total
<1> QED BY <1>1, BooksInOrder, PTL

\* A settled exit paid what its quorum approved, and its member stays out
\* (application/member_exits.py).
THEOREM SettledAsVotedAlways == Spec => []SettledAsVoted
<1>1. BooksInv => SettledAsVoted
  BY DEF BooksInv, ExitInv, SettledAsVoted, VoteStands
<1> QED BY <1>1, BooksInOrder, PTL

=============================================================================
