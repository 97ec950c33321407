------------------------------ MODULE SetLemmas ------------------------------
(***************************************************************************)
(* Facts about finite sets that the other proofs use: the least and the    *)
(* greatest element that Min and Max of FiniteSetsExt choose, and sums     *)
(* over a finite set (MapThenSumSet of FiniteSetsExt).                     *)
(*                                                                         *)
(* Induction takes the form of a smallest counterexample: of any nonempty  *)
(* family of subsets of a finite set one is minimal (SmallestSubset).      *)
(* With it a recursive function is shown to exist and to be unique, a sum  *)
(* not to depend on the order in which it is formed, and the usual laws of *)
(* sums to hold.                                                           *)
(***************************************************************************)
EXTENDS Integers, FiniteSets, FiniteSetsExt, FiniteSetTheorems, WellFoundedInduction, TLAPS

LEMMA LeastElement ==
  ASSUME NEW S \in SUBSET Nat, S # {}
  PROVE  Min(S) \in S /\ \A y \in S : Min(S) <= y
<1> DEFINE R == OpToRel(<, Nat)
<1>1. IsWellFoundedOn(R, Nat) BY Zenon, NatLessThanWellFounded
<1>2. \E x \in S : \A y \in S : ~(<<y, x>> \in R)
  <2> HIDE DEF R
  <2> QED BY <1>1, WFMin
<1>3. \A x, y \in Nat : <<y, x>> \in R <=> y < x
  BY Zenon DEF OpToRel
<1>4. \E x \in S : \A y \in S : x =< y
  <2> HIDE DEF R
  <2>1. PICK x \in S : \A y \in S : ~(<<y, x>> \in R)
    BY <1>2
  <2>2. ASSUME NEW y \in S PROVE x =< y
    <3>1. x \in Nat /\ y \in Nat
      OBVIOUS
    <3>2. ~(y < x)
      BY <1>3, <2>1, <3>1
    <3> QED BY <3>1, <3>2
  <2> QED BY <2>2
<1> QED BY <1>4 DEF Min

\* Nothing lies above the element with the fewest elements above it.
LEMMA GreatestElement ==
  ASSUME NEW S \in SUBSET Nat, IsFiniteSet(S), S # {}
  PROVE  Max(S) \in S /\ \A y \in S : Max(S) >= y
<1> DEFINE Above(x) == {y \in S : y > x}
           T == {Cardinality(Above(x)) : x \in S}
<1>1. \A x \in S : IsFiniteSet(Above(x)) /\ Cardinality(Above(x)) \in Nat
  <2>1. \A x \in S : Above(x) \subseteq S
    OBVIOUS
  <2> HIDE DEF Above
  <2> QED BY <2>1, FS_Subset, FS_CardinalityType
<1>2. T \in SUBSET Nat /\ T # {}
  BY <1>1
<1>3. PICK x \in S : \A y \in S : Cardinality(Above(x)) <= Cardinality(Above(y))
  <2> HIDE DEF Above
  <2>1. Min(T) \in T /\ \A n \in T : Min(T) <= n
    BY <1>2, LeastElement
  <2>2. PICK x \in S : Cardinality(Above(x)) = Min(T)
    BY <2>1
  <2> QED BY <2>1, <2>2
<1>4. ASSUME NEW y \in S, y > x PROVE FALSE
  <2>1. \A z \in S : z \in Nat
    OBVIOUS
  <2>2. \A z \in Above(y) : z \in Above(x)
    BY <1>4, <2>1
  <2>3. y \in Above(x) /\ y \notin Above(y)
    BY <1>4, <2>1
  <2> HIDE DEF Above
  <2>4. Cardinality(Above(y)) <= Cardinality(Above(x)) /\ Cardinality(Above(x)) # Cardinality(Above(y))
    BY <1>1, <2>2, <2>3, FS_Subset
  <2> QED BY <1>1, <1>3, <2>4
<1>5. \A y \in S : x >= y
  <2>1. \A y \in S : y \in Nat /\ x \in Nat
    OBVIOUS
  <2>2. \A y \in S : ~(y > x)
    BY <1>4
  <2> QED BY <2>1, <2>2
<1> QED BY <1>5 DEF Max

\* The smaller and the larger of two integers.
LEMMA MinOfTwo ==
  ASSUME NEW a \in Int, NEW b \in Int
  PROVE  Min({a, b}) = IF a <= b THEN a ELSE b
<1>1. PICK m : m \in {a, b} /\ \A y \in {a, b} : m <= y
  OBVIOUS
<1>2. \A n : n \in {a, b} /\ (\A y \in {a, b} : n <= y) => n = IF a <= b THEN a ELSE b
  OBVIOUS
<1> QED BY <1>1, <1>2 DEF Min

LEMMA MaxOfTwo ==
  ASSUME NEW a \in Int, NEW b \in Int
  PROVE  Max({a, b}) = IF a >= b THEN a ELSE b
<1>1. PICK m : m \in {a, b} /\ \A y \in {a, b} : m >= y
  OBVIOUS
<1>2. \A n : n \in {a, b} /\ (\A y \in {a, b} : n >= y) => n = IF a >= b THEN a ELSE b
  OBVIOUS
<1> QED BY <1>1, <1>2 DEF Max

LEMMA AtMostOneElement ==
  ASSUME NEW S, \A x, y \in S : x = y
  PROVE  Cardinality(S) <= 1
<1>1. CASE S = {}
  BY <1>1, FS_EmptySet
<1>2. CASE S # {}
  <2>1. PICK x \in S : TRUE
    BY <1>2
  <2>2. S = {x}
    BY <2>1
  <2>3. Cardinality({x}) = 1
    BY FS_Singleton
  <2> QED BY <2>2, <2>3
<1> QED BY <1>1, <1>2

-----------------------------------------------------------------------------
(* Sums.                                                                   *)

SumOf(f, S) == MapThenSumSet(LAMBDA x : f[x], S)

\* The element a sum takes out first, and the recursion it goes through.
Chosen(s) == CHOOSE x \in s : TRUE
Iterates(g, f, S) ==
  g = [s \in SUBSET S |-> IF s = {} THEN 0 ELSE f[Chosen(s)] + g[s \ {Chosen(s)}]]

LEMMA SmallestSubset ==
  ASSUME NEW S, IsFiniteSet(S), NEW B, \A s \in B : s \subseteq S, B # {}
  PROVE  \E s \in B : /\ IsFiniteSet(s)
                      /\ \A t : t \subseteq s /\ t # s => t \notin B
                      /\ \A x \in s : s \ {x} \notin B
<1> DEFINE N == {Cardinality(s) : s \in B}
<1>1. \A s \in B : IsFiniteSet(s) /\ Cardinality(s) \in Nat
  BY FS_Subset, FS_CardinalityType
<1>2. N \in SUBSET Nat /\ N # {}
  BY <1>1
<1>3. PICK s \in B : Cardinality(s) = Min(N)
  <2>1. Min(N) \in N
    BY <1>2, LeastElement
  <2> QED BY <2>1
<1>4. ASSUME NEW t \in B, t \subseteq s PROVE t = s
  <2>1. Cardinality(s) <= Cardinality(t)
    BY <1>2, <1>3, LeastElement
  <2>2. Cardinality(t) <= Cardinality(s) /\ (Cardinality(t) = Cardinality(s) => t = s)
    BY <1>1, <1>4, FS_Subset
  <2>3. Cardinality(t) = Cardinality(s)
    BY <1>1, <2>1, <2>2
  <2> QED BY <2>2, <2>3
<1>5. \A x \in s : s \ {x} # s /\ s \ {x} \subseteq s
  OBVIOUS
<1> QED BY <1>1, <1>3, <1>4, <1>5

LEMMA IterateAt ==
  ASSUME NEW f, NEW S, NEW g, Iterates(g, f, S), NEW s \in SUBSET S
  PROVE  /\ s = {} => g[s] = 0
         /\ s # {} => Chosen(s) \in s /\ g[s] = f[Chosen(s)] + g[s \ {Chosen(s)}]
  BY DEF Iterates, Chosen

\* The recursion has one solution at most,
LEMMA IteratesAgree ==
  ASSUME NEW f, NEW S, NEW T, NEW g, NEW h, Iterates(g, f, S), Iterates(h, f, T),
         NEW w, w \subseteq S, w \subseteq T, IsFiniteSet(w)
  PROVE  g[w] = h[w]
<1> DEFINE B == {s \in SUBSET w : g[s] # h[s]}
<1> SUFFICES ASSUME B # {} PROVE FALSE
  OBVIOUS
<1>1. \A s \in B : s \subseteq w
  OBVIOUS
<1>2. PICK s \in B : \A x \in s : s \ {x} \notin B
  <2> HIDE DEF B
  <2> QED BY <1>1, SmallestSubset
<1>3. s \in SUBSET S /\ s \in SUBSET T /\ s \in SUBSET w /\ g[s] # h[s]
  BY <1>2
<1>4. CASE s = {}
  <2>1. g[s] = 0
    BY <1>3, <1>4, IterateAt
  <2>2. h[s] = 0
    BY <1>3, <1>4, IterateAt
  <2> QED BY <1>3, <2>1, <2>2
<1>5. CASE s # {}
  <2>1. PICK x : x = Chosen(s)
    OBVIOUS
  <2>2. \A k, U : Iterates(k, f, U) /\ s \in SUBSET U => x \in s /\ k[s] = f[x] + k[s \ {x}]
    BY <1>5, <2>1, IterateAt
  <2>3. s \ {x} \notin B
    BY <1>2, <1>3, <2>2
  <2>4. g[s \ {x}] = h[s \ {x}]
    BY <2>3, <1>3
  <2> QED BY <1>3, <2>2, <2>4
<1> QED BY <1>4, <1>5

\* and on a finite set it has one.
LEMMA IteratesExist ==
  ASSUME NEW f, NEW S, IsFiniteSet(S)
  PROVE  \E g : Iterates(g, f, S)
<1> DEFINE B == {s \in SUBSET S : ~\E g : Iterates(g, f, s)}
<1> SUFFICES ASSUME B # {} PROVE FALSE
  OBVIOUS
<1>1. \A s \in B : s \subseteq S
  OBVIOUS
<1>2. PICK T \in B : IsFiniteSet(T) /\ \A t : t \subseteq T /\ t # T => t \notin B
  <2> HIDE DEF B
  <2> QED BY <1>1, SmallestSubset
<1>3. T \in SUBSET S /\ ~\E g : Iterates(g, f, T)
  BY <1>2
<1>4. \A u : u \subseteq T /\ u # T => \E g : Iterates(g, f, u)
  BY <1>2
<1> DEFINE V(s) == (CHOOSE g : Iterates(g, f, s))[s]
           G == [s \in SUBSET T |-> IF s = {} THEN 0 ELSE f[Chosen(s)] + V(s \ {Chosen(s)})]
<1>5. ASSUME NEW u \in SUBSET T, u # T
      PROVE  V(u) = IF u = {} THEN 0 ELSE f[Chosen(u)] + V(u \ {Chosen(u)})
  <2> DEFINE g == CHOOSE g : Iterates(g, f, u)
  <2>1. Iterates(g, f, u)
    BY <1>4, <1>5
  <2>2. V(u) = g[u]
    OBVIOUS
  <2>3. CASE u = {}
    <3> HIDE DEF g, V
    <3> QED BY <2>1, <2>2, <2>3, IterateAt
  <2>4. ASSUME u # {} PROVE V(u) = f[Chosen(u)] + V(u \ {Chosen(u)})
    <3>1. PICK x : x = Chosen(u) /\ x \in u
      BY <2>4 DEF Chosen
    <3> DEFINE w == u \ {x}
               h == CHOOSE h : Iterates(h, f, w)
    <3>2. w \subseteq T /\ w # T /\ IsFiniteSet(w)
      BY <1>2, <1>5, <3>1, FS_Subset
    <3>3. Iterates(h, f, w)
      <4> HIDE DEF w
      <4> QED BY <1>4, <3>2
    <3>4. V(w) = h[w]
      OBVIOUS
    <3>5. g[w] = h[w]
      <4> HIDE DEF g, h
      <4> QED BY <2>1, <3>2, <3>3, IteratesAgree
    <3> HIDE DEF V, g, h
    <3>6. g[u] = f[x] + g[w]
      BY <2>1, <2>4, <3>1, IterateAt
    <3> QED BY <2>2, <3>1, <3>4, <3>5, <3>6
  <2> QED BY <2>3, <2>4
<1>6. \A s \in SUBSET T : s # {} => G[s \ {Chosen(s)}] = V(s \ {Chosen(s)})
  <2> HIDE DEF V
  <2> SUFFICES ASSUME NEW s \in SUBSET T, s # {} PROVE G[s \ {Chosen(s)}] = V(s \ {Chosen(s)})
    OBVIOUS
  <2>1. Chosen(s) \in s
    BY DEF Chosen
  <2>2. s \ {Chosen(s)} \in SUBSET T /\ s \ {Chosen(s)} # T
    BY <2>1
  <2> QED BY <1>5, <2>2
<1>7. \A s \in SUBSET T :
        (IF s = {} THEN 0 ELSE f[Chosen(s)] + V(s \ {Chosen(s)}))
          = (IF s = {} THEN 0 ELSE f[Chosen(s)] + G[s \ {Chosen(s)}])
  <2> HIDE DEF G, V
  <2> QED BY <1>6
<1>8. G = [s \in SUBSET T |-> IF s = {} THEN 0 ELSE f[Chosen(s)] + G[s \ {Chosen(s)}]]
  <2> HIDE DEF V
  <2> QED BY <1>7
<1> QED BY <1>3, <1>8 DEF Iterates

LEMMA SumUnfolds ==
  ASSUME NEW f, NEW S, IsFiniteSet(S)
  PROVE  /\ SumOf(f, {}) = 0
         /\ S # {} => Chosen(S) \in S /\ SumOf(f, S) = f[Chosen(S)] + SumOf(f, S \ {Chosen(S)})
<1> DEFINE I(T) == CHOOSE g : Iterates(g, f, T)
<1>1. \A T : IsFiniteSet(T) => Iterates(I(T), f, T)
  BY IteratesExist
<1>2. \A T : SumOf(f, T) = I(T)[T]
  BY DEF SumOf, MapThenSumSet, MapThenFoldSet, Iterates, Chosen
<1> HIDE DEF I
<1>3. SumOf(f, {}) = 0
  <2>1. Iterates(I({}), f, {})
    BY <1>1, FS_EmptySet
  <2>2. I({})[{}] = 0
    BY <2>1, IterateAt
  <2> QED BY <1>2, <2>2
<1>4. ASSUME S # {} PROVE Chosen(S) \in S /\ SumOf(f, S) = f[Chosen(S)] + SumOf(f, S \ {Chosen(S)})
  <2>1. PICK x : x = Chosen(S)
    OBVIOUS
  <2> DEFINE w == S \ {x}
  <2>2. x \in S /\ I(S)[S] = f[x] + I(S)[w]
    BY <1>1, <1>4, <2>1, IterateAt
  <2>3. IsFiniteSet(w) /\ w \subseteq S
    BY FS_Subset
  <2> HIDE DEF w
  <2>4. I(S)[w] = I(w)[w]
    BY <1>1, <2>3, IteratesAgree
  <2> QED BY <1>2, <2>1, <2>2, <2>4 DEF w
<1> QED BY <1>3, <1>4

LEMMA SumIsInt ==
  ASSUME NEW f, NEW S, IsFiniteSet(S), \A x \in S : f[x] \in Int
  PROVE  SumOf(f, S) \in Int
<1> DEFINE B == {s \in SUBSET S : SumOf(f, s) \notin Int}
<1> SUFFICES ASSUME B # {} PROVE FALSE
  OBVIOUS
<1>1. \A s \in B : s \subseteq S
  OBVIOUS
<1>2. PICK s \in B : IsFiniteSet(s) /\ \A x \in s : s \ {x} \notin B
  <2> HIDE DEF B
  <2> QED BY <1>1, SmallestSubset
<1>3. PICK x : x = Chosen(s)
  OBVIOUS
<1>4. SumOf(f, {}) = 0 /\ (s # {} => x \in s /\ SumOf(f, s) = f[x] + SumOf(f, s \ {x}))
  BY <1>2, <1>3, SumUnfolds
<1>5. s # {} /\ s \in SUBSET S
  <2>1. s = {} => SumOf(f, s) = 0
    BY <1>4
  <2> QED BY <2>1
<1>6. s \ {x} \notin B
  BY <1>2, <1>4, <1>5
<1> QED BY <1>4, <1>5, <1>6

\* The order in which a sum goes through its set does not matter.
LEMMA SumRemove ==
  ASSUME NEW f, NEW S, IsFiniteSet(S), \A x \in S : f[x] \in Int, NEW y \in S
  PROVE  SumOf(f, S) = f[y] + SumOf(f, S \ {y})
<1> DEFINE B == {s \in SUBSET S : \E z \in s : SumOf(f, s) # f[z] + SumOf(f, s \ {z})}
<1> SUFFICES ASSUME B # {} PROVE FALSE
  OBVIOUS
<1>1. \A s \in B : s \subseteq S
  OBVIOUS
<1>2. PICK s \in B : IsFiniteSet(s) /\ \A x \in s : s \ {x} \notin B
  <2> HIDE DEF B
  <2> QED BY <1>1, SmallestSubset
<1>3. PICK z \in s : SumOf(f, s) # f[z] + SumOf(f, s \ {z})
  BY <1>2
<1>4. PICK x : x = Chosen(s)
  OBVIOUS
<1>5. x \in s /\ SumOf(f, s) = f[x] + SumOf(f, s \ {x})
  BY <1>2, <1>4, SumUnfolds
<1>6. x # z /\ s \in SUBSET S /\ IsFiniteSet(s)
  BY <1>2, <1>3, <1>5
<1>7. s \ {x} \notin B /\ s \ {z} \notin B
  BY <1>2, <1>5, <1>6
<1>8. SumOf(f, s \ {x}) = f[z] + SumOf(f, (s \ {x}) \ {z})
  BY <1>6, <1>7
<1>9. SumOf(f, s \ {z}) = f[x] + SumOf(f, (s \ {z}) \ {x})
  BY <1>5, <1>6, <1>7
<1>10. (s \ {x}) \ {z} = (s \ {z}) \ {x}
  OBVIOUS
<1>11. SumOf(f, (s \ {x}) \ {z}) \in Int /\ f[x] \in Int /\ f[z] \in Int
  <2>1. IsFiniteSet((s \ {x}) \ {z}) /\ (s \ {x}) \ {z} \subseteq S
    BY <1>6, FS_Subset
  <2>2. SumOf(f, (s \ {x}) \ {z}) \in Int
    BY <2>1, SumIsInt
  <2> QED BY <2>2, <1>5, <1>6
<1> QED BY <1>3, <1>5, <1>8, <1>9, <1>10, <1>11

LEMMA SumAdd ==
  ASSUME NEW f, NEW S, IsFiniteSet(S), NEW y, y \notin S, \A x \in S \union {y} : f[x] \in Int
  PROVE  SumOf(f, S \union {y}) = SumOf(f, S) + f[y]
<1>1. IsFiniteSet(S \union {y}) /\ (S \union {y}) \ {y} = S
  BY FS_AddElement
<1>2. SumOf(f, S \union {y}) = f[y] + SumOf(f, S)
  BY <1>1, SumRemove
<1>3. SumOf(f, S) \in Int
  BY SumIsInt
<1> QED BY <1>2, <1>3

\* Two families that agree on the set have one sum.
LEMMA SumSame ==
  ASSUME NEW f, NEW g, NEW S, IsFiniteSet(S), \A x \in S : f[x] = g[x]
  PROVE  SumOf(f, S) = SumOf(g, S)
<1> DEFINE B == {s \in SUBSET S : SumOf(f, s) # SumOf(g, s)}
<1> SUFFICES ASSUME B # {} PROVE FALSE
  OBVIOUS
<1>1. \A s \in B : s \subseteq S
  OBVIOUS
<1>2. PICK s \in B : IsFiniteSet(s) /\ \A x \in s : s \ {x} \notin B
  <2> HIDE DEF B
  <2> QED BY <1>1, SmallestSubset
<1>3. PICK x : x = Chosen(s)
  OBVIOUS
<1>4. \A h : SumOf(h, {}) = 0 /\ (s # {} => x \in s /\ SumOf(h, s) = h[x] + SumOf(h, s \ {x}))
  BY <1>2, <1>3, SumUnfolds
<1>5. s # {} /\ s \in SUBSET S /\ SumOf(f, s) # SumOf(g, s)
  BY <1>4
<1>6. s \ {x} \notin B
  BY <1>2, <1>4, <1>5
<1> QED BY <1>4, <1>5, <1>6

\* One term changes by n.
LEMMA SumChanged ==
  ASSUME NEW f, NEW g, NEW S, IsFiniteSet(S), NEW y \in S,
         \A x \in S : f[x] \in Int, \A x \in S : g[x] \in Int, \A x \in S \ {y} : g[x] = f[x]
  PROVE  SumOf(g, S) = SumOf(f, S) + g[y] - f[y]
<1>1. IsFiniteSet(S \ {y}) /\ S \ {y} \subseteq S
  BY FS_Subset
<1>2. SumOf(f, S) = f[y] + SumOf(f, S \ {y}) /\ SumOf(g, S) = g[y] + SumOf(g, S \ {y})
  BY SumRemove
<1>3. SumOf(f, S \ {y}) = SumOf(g, S \ {y})
  BY <1>1, SumSame
<1>4. SumOf(f, S \ {y}) \in Int
  BY <1>1, SumIsInt
<1> QED BY <1>2, <1>3, <1>4

LEMMA SumOrdered ==
  ASSUME NEW f, NEW g, NEW S, IsFiniteSet(S), \A x \in S : f[x] \in Int, \A x \in S : g[x] \in Int,
         \A x \in S : f[x] <= g[x]
  PROVE  SumOf(f, S) <= SumOf(g, S)
<1> DEFINE B == {s \in SUBSET S : ~(SumOf(f, s) <= SumOf(g, s))}
<1> SUFFICES ASSUME B # {} PROVE FALSE
  OBVIOUS
<1>1. \A s \in B : s \subseteq S
  OBVIOUS
<1>2. PICK s \in B : IsFiniteSet(s) /\ \A x \in s : s \ {x} \notin B
  <2> HIDE DEF B
  <2> QED BY <1>1, SmallestSubset
<1>3. PICK x : x = Chosen(s)
  OBVIOUS
<1>4. \A h : SumOf(h, {}) = 0 /\ (s # {} => x \in s /\ SumOf(h, s) = h[x] + SumOf(h, s \ {x}))
  BY <1>2, <1>3, SumUnfolds
<1>5. s # {} /\ s \in SUBSET S /\ ~(SumOf(f, s) <= SumOf(g, s))
  <2>1. s = {} => SumOf(f, s) = 0 /\ SumOf(g, s) = 0
    BY <1>4
  <2> QED BY <2>1
<1>6. s \ {x} \notin B
  BY <1>2, <1>4, <1>5
<1>7. SumOf(f, s \ {x}) <= SumOf(g, s \ {x})
  BY <1>5, <1>6
<1>8. IsFiniteSet(s \ {x}) /\ s \ {x} \subseteq S
  BY <1>2, <1>5, FS_Subset
<1>9. SumOf(f, s \ {x}) \in Int /\ SumOf(g, s \ {x}) \in Int
  BY <1>8, SumIsInt
<1> QED BY <1>4, <1>5, <1>7, <1>9

LEMMA SumPlus ==
  ASSUME NEW f, NEW g, NEW h, NEW S, IsFiniteSet(S), \A x \in S : f[x] \in Int, \A x \in S : g[x] \in Int,
         \A x \in S : h[x] = f[x] + g[x]
  PROVE  SumOf(h, S) = SumOf(f, S) + SumOf(g, S)
<1> DEFINE B == {s \in SUBSET S : SumOf(h, s) # SumOf(f, s) + SumOf(g, s)}
<1> SUFFICES ASSUME B # {} PROVE FALSE
  OBVIOUS
<1>1. \A s \in B : s \subseteq S
  OBVIOUS
<1>2. PICK s \in B : IsFiniteSet(s) /\ \A x \in s : s \ {x} \notin B
  <2> HIDE DEF B
  <2> QED BY <1>1, SmallestSubset
<1>3. PICK x : x = Chosen(s)
  OBVIOUS
<1>4. \A k : SumOf(k, {}) = 0 /\ (s # {} => x \in s /\ SumOf(k, s) = k[x] + SumOf(k, s \ {x}))
  BY <1>2, <1>3, SumUnfolds
<1>5. s # {} /\ s \in SUBSET S /\ SumOf(h, s) # SumOf(f, s) + SumOf(g, s)
  <2>1. s = {} => SumOf(h, s) = 0 /\ SumOf(f, s) = 0 /\ SumOf(g, s) = 0
    BY <1>4
  <2> QED BY <2>1
<1>6. s \ {x} \notin B
  BY <1>2, <1>4, <1>5
<1>7. SumOf(h, s \ {x}) = SumOf(f, s \ {x}) + SumOf(g, s \ {x})
  BY <1>5, <1>6
<1>8. IsFiniteSet(s \ {x}) /\ s \ {x} \subseteq S
  BY <1>2, <1>5, FS_Subset
<1>9. SumOf(f, s \ {x}) \in Int /\ SumOf(g, s \ {x}) \in Int
  BY <1>8, SumIsInt
<1> QED BY <1>4, <1>5, <1>7, <1>9

LEMMA SumZero ==
  ASSUME NEW f, NEW S, IsFiniteSet(S), \A x \in S : f[x] = 0
  PROVE  SumOf(f, S) = 0
<1> DEFINE z == [x \in S |-> 0]
<1>1. \A x \in S : z[x] \in Int /\ z[x] = z[x] + z[x] /\ f[x] = z[x]
  OBVIOUS
<1> HIDE DEF z
<1>2. \A x \in S : z[x] \in Int
  BY <1>1
<1>3. \A x \in S : z[x] = z[x] + z[x]
  BY <1>1
<1>4. \A x \in S : f[x] = z[x]
  BY <1>1
<1>5. SumOf(z, S) = SumOf(z, S) + SumOf(z, S)
  BY ONLY SumPlus, IsFiniteSet(S), <1>2, <1>3
<1>6. SumOf(z, S) \in Int
  BY ONLY SumIsInt, IsFiniteSet(S), <1>2
<1>7. SumOf(z, S) = 0
  <2>1. \A n \in Int : n = n + n => n = 0
    OBVIOUS
  <2> QED BY ONLY <1>5, <1>6, <2>1, Zenon
<1>8. SumOf(f, S) = SumOf(z, S)
  BY ONLY SumSame, IsFiniteSet(S), <1>4, Zenon
<1> QED BY ONLY <1>7, <1>8

\* A sum over two disjoint sets.
LEMMA SumUnion ==
  ASSUME NEW f, NEW S, NEW T, IsFiniteSet(S), IsFiniteSet(T), S \cap T = {},
         \A x \in S \union T : f[x] \in Int
  PROVE  SumOf(f, S \union T) = SumOf(f, S) + SumOf(f, T)
<1> DEFINE B == {s \in SUBSET T : SumOf(f, S \union s) # SumOf(f, S) + SumOf(f, s)}
<1> SUFFICES ASSUME B # {} PROVE FALSE
  OBVIOUS
<1>1. \A s \in B : s \subseteq T
  OBVIOUS
<1>2. PICK s \in B : IsFiniteSet(s) /\ \A x \in s : s \ {x} \notin B
  <2> HIDE DEF B
  <2> QED BY <1>1, SmallestSubset
<1>3. s \in SUBSET T /\ IsFiniteSet(s) /\ SumOf(f, S \union s) # SumOf(f, S) + SumOf(f, s)
  BY <1>2
<1>4. SumOf(f, S) \in Int /\ SumOf(f, {}) = 0
  BY SumIsInt, SumUnfolds
<1>5. s # {}
  <2> SUFFICES ASSUME s = {} PROVE FALSE
    OBVIOUS
  <2>1. S \union s = S
    OBVIOUS
  <2> QED BY <1>3, <1>4, <2>1
<1>6. PICK x : x \in s
  BY <1>5
<1>7. s \ {x} \notin B /\ IsFiniteSet(s \ {x}) /\ s \ {x} \subseteq T
  BY <1>2, <1>3, <1>6, FS_Subset
<1>8. SumOf(f, S \union (s \ {x})) = SumOf(f, S) + SumOf(f, s \ {x})
  BY <1>7
<1>9. IsFiniteSet(S \union s) /\ x \in S \union s /\ (S \union s) \ {x} = S \union (s \ {x})
  BY <1>3, <1>6, FS_Union
<1>10. SumOf(f, S \union s) = f[x] + SumOf(f, S \union (s \ {x}))
  BY <1>3, <1>9, SumRemove
<1>11. SumOf(f, s) = f[x] + SumOf(f, s \ {x})
  BY <1>3, <1>6, SumRemove
<1>12. SumOf(f, s \ {x}) \in Int /\ f[x] \in Int
  BY <1>3, <1>6, <1>7, SumIsInt
<1> QED BY <1>3, <1>4, <1>8, <1>10, <1>11, <1>12

\* A sum of naturals is one.
LEMMA SumIsNat ==
  ASSUME NEW f, NEW S, IsFiniteSet(S), \A x \in S : f[x] \in Nat
  PROVE  SumOf(f, S) \in Nat
<1> DEFINE z == [x \in S |-> 0]
<1>1. SumOf(f, S) \in Int
  BY SumIsInt
<1>2. SumOf(z, S) = 0
  BY SumZero
<1>3. (\A x \in S : f[x] \in Int /\ z[x] \in Int /\ z[x] <= f[x])
  OBVIOUS
<1> HIDE DEF z
<1>4. SumOf(z, S) <= SumOf(f, S)
  BY <1>3, SumOrdered
<1> QED BY <1>1, <1>2, <1>4

\* Terms outside a part of the set that are zero do not count.
LEMMA SumOnPart ==
  ASSUME NEW f, NEW S, IsFiniteSet(S), NEW T, T \subseteq S, \A x \in S : f[x] \in Int,
         \A x \in S \ T : f[x] = 0
  PROVE  SumOf(f, S) = SumOf(f, T)
<1>1. IsFiniteSet(T) /\ IsFiniteSet(S \ T) /\ T \cap (S \ T) = {} /\ T \union (S \ T) = S
  BY FS_Subset
<1>2. SumOf(f, T \union (S \ T)) = SumOf(f, T) + SumOf(f, S \ T)
  BY <1>1, SumUnion
<1>3. SumOf(f, S \ T) = 0
  BY <1>1, SumZero
<1>4. SumOf(f, T) \in Int
  BY <1>1, SumIsInt
<1>5. SumOf(f, S) = SumOf(f, T \union (S \ T))
  BY <1>1
<1> QED BY ONLY <1>2, <1>3, <1>4, <1>5
=============================================================================
