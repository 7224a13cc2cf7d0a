---------------------------- MODULE Totals_proofs ----------------------------
(***************************************************************************)
(* What the solvency proofs use of Total: it is a natural number, and when *)
(* one entry of a mapping changes it changes by as much.                   *)
(***************************************************************************)
EXTENDS Totals, FiniteSetTheorems, TLAPS

\* The unit coins of one entry are as many as its amount.
LEMMA SliceSize ==
  ASSUME NEW x, NEW n \in Nat
  PROVE  /\ IsFiniteSet({x} \X (1 .. n))
         /\ Cardinality({x} \X (1 .. n)) = n
<1>1. IsFiniteSet({x}) /\ Cardinality({x}) = 1
  BY FS_Singleton, Zenon
<1>2. IsFiniteSet(1 .. n) /\ Cardinality(1 .. n) = n
  <2>1. 1 \in Int /\ n \in Int
    OBVIOUS
  <2>2. /\ IsFiniteSet(1 .. n)
        /\ Cardinality(1 .. n) = IF 1 > n THEN 0 ELSE n - 1 + 1
    BY <2>1, FS_Interval, Zenon
  <2> QED
    BY <2>2
<1>3. /\ IsFiniteSet({x} \X (1 .. n))
      /\ Cardinality({x} \X (1 .. n)) = Cardinality({x}) * Cardinality(1 .. n)
  BY <1>1, <1>2, FS_Product, Zenon
<1> QED
  BY <1>1, <1>2, <1>3

\* A mapping over a finite set holds finitely many coins.
LEMMA CoinsFinite ==
  ASSUME NEW S, IsFiniteSet(S), NEW f \in [S -> Nat]
  PROVE  IsFiniteSet(Coins(f))
<1> DEFINE slice == [x \in S |-> {x} \X (1 .. f[x])]
           T     == {slice[x] : x \in S}
<1>1. slice \in Surjection(S, T)
  BY DEF Surjection
<1>2. IsFiniteSet(T)
  BY <1>1, FS_Surjection, Zenon
<1>3. \A U \in T : IsFiniteSet(U)
  <2> SUFFICES ASSUME NEW x \in S
               PROVE  IsFiniteSet({x} \X (1 .. f[x]))
    OBVIOUS
  <2>1. f[x] \in Nat
    OBVIOUS
  <2> QED
    BY <2>1, SliceSize, Zenon
<1>4. IsFiniteSet(UNION T)
  BY <1>2, <1>3, FS_UNION, Zenon
<1>5. Coins(f) = UNION T
  BY DEF Coins
<1> QED
  BY <1>4, <1>5

\* A total is a natural number.
LEMMA TotalType ==
  ASSUME NEW S, IsFiniteSet(S), NEW f \in [S -> Nat]
  PROVE  Total(f) \in Nat
BY CoinsFinite, FS_CardinalityType, Zenon DEF Total

\* Of two mappings that differ in at most one entry, the totals differ by what
\* that entry differs by.
LEMMA TotalChange ==
  ASSUME NEW S, IsFiniteSet(S), NEW f \in [S -> Nat], NEW g \in [S -> Nat],
         NEW x \in S, \A y \in S \ {x} : g[y] = f[y]
  PROVE  Total(g) = Total(f) - f[x] + g[x]
<1> DEFINE rest      == UNION { {y} \X (1 .. f[y]) : y \in S \ {x} }
           sliceF    == {x} \X (1 .. f[x])
           sliceG    == {x} \X (1 .. g[x])
<1>1. /\ Coins(f) = rest \cup sliceF
      /\ Coins(g) = rest \cup sliceG
  BY DEF Coins
<1>2. rest \cap sliceF = {} /\ rest \cap sliceG = {}
  OBVIOUS
<1>3. IsFiniteSet(rest)
  <2>1. IsFiniteSet(Coins(f)) /\ rest \subseteq Coins(f)
    BY <1>1, CoinsFinite
  <2> QED
    BY <2>1, FS_Subset, Zenon
<1>4. /\ IsFiniteSet(sliceF) /\ Cardinality(sliceF) = f[x]
      /\ IsFiniteSet(sliceG) /\ Cardinality(sliceG) = g[x]
  BY SliceSize
<1> HIDE DEF rest, sliceF, sliceG
<1>5. /\ Cardinality(rest \cup sliceF)
           = Cardinality(rest) + Cardinality(sliceF) - Cardinality(rest \cap sliceF)
      /\ Cardinality(rest \cup sliceG)
           = Cardinality(rest) + Cardinality(sliceG) - Cardinality(rest \cap sliceG)
  BY <1>3, <1>4, FS_Union, Zenon
<1>6. Cardinality(rest) \in Nat
  BY <1>3, FS_CardinalityType, Zenon
<1>7. Cardinality({}) = 0
  BY FS_EmptySet, Zenon
<1>8. f[x] \in Nat /\ g[x] \in Nat
  OBVIOUS
<1>9. Total(f) = Cardinality(rest) + f[x]
  <2>1. Cardinality(rest \cup sliceF) = Cardinality(rest) + f[x] - 0
    BY <1>2, <1>4, <1>5, <1>7, Zenon
  <2>2. Total(f) = Cardinality(rest \cup sliceF)
    BY <1>1, Zenon DEF Total
  <2> QED
    BY <2>1, <2>2, <1>6, <1>8
<1>10. Total(g) = Cardinality(rest) + g[x]
  <2>1. Cardinality(rest \cup sliceG) = Cardinality(rest) + g[x] - 0
    BY <1>2, <1>4, <1>5, <1>7, Zenon
  <2>2. Total(g) = Cardinality(rest \cup sliceG)
    BY <1>1, Zenon DEF Total
  <2> QED
    BY <2>1, <2>2, <1>6, <1>8
<1> QED
  BY <1>6, <1>8, <1>9, <1>10

\* Crediting n units to one entry adds n to the total.
LEMMA TotalPlus ==
  ASSUME NEW S, IsFiniteSet(S), NEW f \in [S -> Nat], NEW x \in S, NEW n \in Nat
  PROVE  /\ Plus(f, x, n) \in [S -> Nat]
         /\ Total(Plus(f, x, n)) = Total(f) + n
<1> DEFINE g == Plus(f, x, n)
<1>1. g \in [S -> Nat] /\ g[x] = f[x] + n /\ \A y \in S \ {x} : g[y] = f[y]
  BY DEF Plus
<1>2. Total(f) \in Nat
  BY TotalType
<1> HIDE DEF g
<1>3. Total(g) = Total(f) - f[x] + g[x]
  BY <1>1, TotalChange
<1>4. Total(g) = Total(f) + n
  BY <1>1, <1>2, <1>3
<1> QED
  BY <1>1, <1>4 DEF g

\* A mapping that is zero everywhere has total zero.
LEMMA TotalZero ==
  ASSUME NEW S, NEW f \in [S -> Nat], \A x \in S : f[x] = 0
  PROVE  Total(f) = 0
<1>1. Coins(f) = {}
  BY DEF Coins
<1> QED
  BY <1>1, FS_EmptySet DEF Total
=============================================================================
