------------------------ MODULE BracketEngine_proofs ------------------------
(***************************************************************************)
(* What the single elimination engine does with any number of entrants:    *)
(* the tournament after a list of results depends on which results they    *)
(* are, never on their order.                                              *)
(***************************************************************************)
EXTENDS BracketEngine, FiniteSetTheorems, FunctionTheorems, WellFoundedInduction, TLAPS

-----------------------------------------------------------------------------
(***************************************************************************)
(* Induction, and powers of two.                                           *)
(***************************************************************************)

\* A set of natural numbers that is not empty has a least element.
LEMMA LeastNumber ==
  ASSUME NEW T \in SUBSET Nat, T # {}
  PROVE  \E x \in T : \A y \in T : x <= y
<1>1. \E x \in T : \A y \in T : <<y, x>> \notin OpToRel(<, Nat)
  BY NatLessThanWellFounded, WFMin, Zenon
<1>2. PICK x \in T : \A y \in T : <<y, x>> \notin OpToRel(<, Nat)
  BY <1>1
<1>3. \A y \in T : ~(y < x)
  BY <1>2 DEF OpToRel
<1> QED
  BY <1>3

\* A set with zero and every successor has all natural numbers.
LEMMA AllNumbers ==
  ASSUME NEW T \in SUBSET Nat, 0 \in T, \A n \in T : n + 1 \in T
  PROVE  T = Nat
<1>1. SUFFICES ASSUME Nat \ T # {} PROVE FALSE
  OBVIOUS
<1>2. PICK x \in Nat \ T : \A y \in Nat \ T : x <= y
  BY <1>1, LeastNumber
<1>3. x # 0 /\ x - 1 \in Nat
  BY <1>2
<1>4. x - 1 \in T
  BY <1>2, <1>3
<1> QED
  BY <1>2, <1>3, <1>4

\* The numbers of a set that has an upper bound have a greatest one.
LEMMA GreatestNumber ==
  ASSUME NEW T \in SUBSET Nat, T # {}, NEW n \in Nat, \A x \in T : x <= n
  PROVE  \E x \in T : \A y \in T : y <= x
<1> DEFINE U == {m \in Nat : \A y \in T : y <= m}
<1>1. PICK m \in U : \A u \in U : m <= u
  <2>1. n \in U /\ U \in SUBSET Nat
    OBVIOUS
  <2> HIDE DEF U
  <2> QED
    BY <2>1, LeastNumber
<1>2. m \in Nat /\ \A y \in T : y <= m
  OBVIOUS
<1>3. m \in T
  <2>1. SUFFICES ASSUME m \notin T PROVE FALSE
    OBVIOUS
  <2>2. \A y \in T : y < m
    BY <1>2, <2>1
  <2>3. PICK y \in T : TRUE
    OBVIOUS
  <2>4. m - 1 \in Nat /\ \A x \in T : x <= m - 1
    BY <1>2, <2>2, <2>3
  <2>5. m - 1 \in U
    BY <2>4
  <2>6. m <= m - 1
    <3> HIDE DEF U
    <3> QED
      BY <1>1, <2>5
  <2> QED
    BY <1>2, <2>6
<1> QED
  BY <1>2, <1>3

\* The subsets of 1 .. n are 2^n, so 2^n is a number and doubles with n.
Power(n) == 2^n

\* Powers of two count subsets, which gives them their size and their
\* recursion.
LEMMA Subsets ==
  ASSUME NEW n \in Nat
  PROVE  /\ IsFiniteSet(SUBSET (1 .. n)) /\ Cardinality(SUBSET (1 .. n)) = Power(n)
         /\ Power(n) \in Nat
<1>1. IsFiniteSet(1 .. n) /\ Cardinality(1 .. n) = n
  BY FS_Interval
<1> DEFINE S == 1 .. n
<1> HIDE DEF S
<1>2. ASSUME IsFiniteSet(S), Cardinality(S) = n
      PROVE  IsFiniteSet(SUBSET S) /\ Cardinality(SUBSET S) = Power(n)
  BY <1>2, FS_SUBSET, Zenon DEF Power
<1>3. IsFiniteSet(SUBSET S) /\ Cardinality(SUBSET S) = Power(n)
  BY <1>1, <1>2 DEF S
<1>4. Power(n) \in Nat
  BY <1>3, FS_CardinalityType, Zenon
<1> QED
  BY <1>3, <1>4 DEF S

\* 2^0 is 1.
LEMMA PowerZero == Power(0) = 1
BY DEF Power

\* The next power is twice the one before.
LEMMA PowerDoubles ==
  ASSUME NEW n \in Nat
  PROVE  Power(n + 1) = Power(n) + Power(n)
<1> DEFINE Old == SUBSET (1 .. n)
           New == {T \cup {n + 1} : T \in Old}
           f   == [T \in Old |-> T \cup {n + 1}]
<1>1. IsFiniteSet(Old) /\ Cardinality(Old) = Power(n) /\ Power(n) \in Nat
  BY Subsets, Zenon
<1>2. /\ Cardinality(SUBSET (1 .. n + 1)) = Power(n + 1)
      /\ Power(n + 1) \in Nat
  <2>1. n + 1 \in Nat
    OBVIOUS
  <2> QED
    BY <2>1, Subsets, Zenon
<1>3. f \in Bijection(Old, New)
  <2>1. \A S, T \in Old : S \cup {n + 1} = T \cup {n + 1} => S = T
    <3>1. \A T \in Old : n + 1 \notin T
      OBVIOUS
    <3> QED
      BY <3>1
  <2>2. f \in [Old -> New] /\ \A S \in Old : f[S] = S \cup {n + 1}
    OBVIOUS
  <2>3. \A t \in New : \E s \in Old : f[s] = t
    OBVIOUS
  <2> HIDE DEF f, New, Old
  <2>4. IsInjective(f)
    BY <2>1, <2>2 DEF IsInjective
  <2>5. f \in Injection(Old, New) /\ f \in Surjection(Old, New)
    BY <2>2, <2>3, <2>4 DEF Injection, Surjection
  <2> QED
    BY <2>5 DEF Bijection
<1>4. IsFiniteSet(New) /\ Cardinality(New) = Power(n)
  <2> HIDE DEF f, New, Old
  <2>1. ExistsBijection(Old, New)
    BY <1>3 DEF ExistsBijection
  <2> QED
    BY <1>1, <2>1, FS_Bijection
<1>5. Old \cap New = {}
  <2>1. \A T \in New : n + 1 \in T
    OBVIOUS
  <2>2. \A T \in Old : n + 1 \notin T
    OBVIOUS
  <2> QED
    BY <2>1, <2>2
<1>6. Old \cup New = SUBSET (1 .. n + 1)
  <2>1. ASSUME NEW S \in SUBSET (1 .. n + 1) PROVE S \in Old \cup New
    <3>1. CASE n + 1 \notin S
      BY <3>1
    <3>2. CASE n + 1 \in S
      <4>1. S \ {n + 1} \in Old /\ S = (S \ {n + 1}) \cup {n + 1}
        BY <3>2
      <4> QED
        BY <4>1, Zenon
    <3> QED
      BY <3>1, <3>2
  <2>2. ASSUME NEW S \in Old \cup New PROVE S \in SUBSET (1 .. n + 1)
    OBVIOUS
  <2> HIDE DEF Old, New
  <2> QED
    BY <2>1, <2>2
<1>7. Cardinality({}) = 0
  BY FS_EmptySet
<1> HIDE DEF Old, New
<1>8. Cardinality(Old \cup New) = Cardinality(Old) + Cardinality(New) - Cardinality(Old \cap New)
  BY <1>1, <1>4, FS_Union
<1>9. Power(n + 1) = Power(n) + Power(n) - 0
  BY <1>1, <1>2, <1>4, <1>5, <1>6, <1>7, <1>8, Zenon
<1> QED
  BY <1>1, <1>9

-----------------------------------------------------------------------------
(***************************************************************************)
(* The bracket as it is built.                                             *)
(***************************************************************************)
IsMatch(m) == m = [round |-> m.round, a |-> m.a, b |-> m.b, outcome |-> m.outcome,
                   to |-> m.to, side |-> m.side]

AreMatches(ms) == \A id \in DOMAIN ms : IsMatch(ms[id])

\* A tree of matches, undecided: winners move on to a later match and a later
\* round, no two of them to the same seat, and only the first round is seated.
Tree(b) ==
  /\ b = [id \in DOMAIN b |-> b[id]] /\ \E n \in Nat : DOMAIN b = 1 .. n
  /\ AreMatches(b)
  /\ \A id \in DOMAIN b :
       /\ b[id].outcome = None /\ b[id].round \in Nat /\ b[id].side \in {"A", "B"}
       /\ b[id].round # 0 => b[id].a = Nobody /\ b[id].b = Nobody
       /\ b[id].to # 0 => /\ b[id].to \in DOMAIN b /\ id < b[id].to
                          /\ b[b[id].to].round = b[id].round + 1
  /\ \A f, g \in DOMAIN b :
       b[f].to # 0 /\ b[f].to = b[g].to /\ b[f].side = b[g].side => f = g

\* 2^n is above n.
LEMMA PowerAbove ==
  ASSUME NEW n \in Nat
  PROVE  Power(n) \in Nat /\ n + 1 <= Power(n)
<1> DEFINE T == {k \in Nat : k + 1 <= Power(k)}
<1>0. \A k \in Nat : Power(k) \in Nat
  BY Subsets
<1>1. 0 \in T
  BY PowerZero
<1>2. ASSUME NEW k \in T PROVE k + 1 \in T
  <2>1. k \in Nat /\ Power(k + 1) = Power(k) + Power(k) /\ k + 1 <= Power(k)
    BY PowerDoubles
  <2> QED
    BY <1>0, <2>1
<1>3. T = Nat
  <2>1. T \in SUBSET Nat
    OBVIOUS
  <2> HIDE DEF T
  <2>2. \A k \in T : k + 1 \in T
    BY <1>2
  <2> QED
    BY <1>1, <2>1, <2>2, AllNumbers, Zenon
<1> QED
  BY <1>0, <1>3

\* nextPow2 gives the least exponent whose power of two reaches n.
LEMMA NextPow2 ==
  ASSUME NEW n \in Nat
  PROVE  /\ nextPow2(n) \in Nat /\ Power(nextPow2(n)) >= n
         /\ \A j \in 0 .. nextPow2(n) - 1 : Power(j) < n
<1> DEFINE T == {k \in Nat : Power(k) >= n}
<1>0. \A k \in Nat : Power(k) \in Nat
  BY Subsets
<1>1. n \in T
  BY PowerAbove
<1>2. PICK k \in T : \A j \in T : k <= j
  <2>1. T \in SUBSET Nat
    OBVIOUS
  <2> HIDE DEF T
  <2> QED
    BY <1>1, <2>1, LeastNumber
<1>3. k \in 0 .. n /\ Power(k) >= n
  BY <1>1, <1>2
<1>4. \A j \in 0 .. k - 1 : Power(j) < n
  <2> SUFFICES ASSUME NEW j \in 0 .. k - 1, ~(Power(j) < n) PROVE FALSE
    OBVIOUS
  <2>1. j \in T /\ ~(k <= j) /\ k \in Nat
    BY <1>0, <1>2
  <2> HIDE DEF T
  <2> QED
    BY <1>2, <2>1
<1>5. nextPow2(n) = CHOOSE x \in 0 .. n : Power(x) >= n /\ \A j \in 0 .. x - 1 : Power(j) < n
  BY Zenon DEF nextPow2, Power
<1> HIDE DEF T
<1>6. /\ nextPow2(n) \in 0 .. n /\ Power(nextPow2(n)) >= n
      /\ \A j \in 0 .. nextPow2(n) - 1 : Power(j) < n
  BY <1>3, <1>4, <1>5
<1> QED
  BY <1>6

\* The first match ids of the rounds.
LEMMA FirstIds ==
  ASSUME NEW k \in Nat
  PROVE  /\ \A r \in 0 .. k : FirstId(k, r) \in Nat
         /\ FirstId(k, 0) = 1 /\ FirstId(k, k) = Power(k)
         /\ \A r \in 0 .. k - 1 : /\ FirstId(k, r + 1) = FirstId(k, r) + Power(k - (r + 1))
                                  /\ Power(k - (r + 1)) \in Nat \ {0}
<1>0. \A j \in Nat : Power(j) \in Nat \ {0}
  BY PowerAbove
<1>1. \A r : FirstId(k, r) = Power(k) - Power(k - r) + 1
  BY Zenon DEF FirstId, Power
<1>2. k - 0 = k /\ k - k = 0
  OBVIOUS
<1>3. FirstId(k, 0) = 1 /\ FirstId(k, k) = Power(k)
  <2>1. FirstId(k, 0) = Power(k) - Power(k) + 1 /\ FirstId(k, k) = Power(k) - Power(0) + 1
    BY <1>1, <1>2
  <2> QED
    BY <1>0, <2>1, PowerZero
<1>4. ASSUME NEW r \in 0 .. k - 1
      PROVE  /\ FirstId(k, r + 1) = FirstId(k, r) + Power(k - (r + 1))
             /\ Power(k - (r + 1)) \in Nat \ {0}
  <2> DEFINE j == k - (r + 1)
  <2>1. j \in Nat /\ j + 1 = k - r
    OBVIOUS
  <2>2. FirstId(k, r) = Power(k) - Power(j + 1) + 1 /\ FirstId(k, r + 1) = Power(k) - Power(j) + 1
    BY <1>1, <2>1
  <2> HIDE DEF j
  <2>3. Power(j + 1) = Power(j) + Power(j) /\ Power(j) \in Nat \ {0} /\ Power(j + 1) \in Nat
        /\ Power(k) \in Nat
    <3>1. j \in Nat /\ j + 1 \in Nat
      BY <2>1
    <3>2. Power(j + 1) = Power(j) + Power(j)
      BY <3>1, PowerDoubles
    <3> QED
      BY <1>0, <3>1, <3>2
  <2>4. FirstId(k, r + 1) = FirstId(k, r) + Power(j)
    BY <2>2, <2>3
  <2> QED
    BY <2>3, <2>4 DEF j
<1>5. \A r \in 0 .. k : FirstId(k, r) \in Nat
  <2> DEFINE T == {r \in Nat : r <= k => FirstId(k, r) \in Nat}
  <2>1. 0 \in T
    BY <1>3
  <2>2. ASSUME NEW r \in T PROVE r + 1 \in T
    <3> SUFFICES ASSUME r + 1 <= k PROVE FirstId(k, r + 1) \in Nat
      OBVIOUS
    <3>1. r \in 0 .. k - 1 /\ FirstId(k, r) \in Nat
      OBVIOUS
    <3> QED
      BY <1>4, <3>1
  <2>3. T = Nat
    <3>1. T \in SUBSET Nat
      OBVIOUS
    <3> HIDE DEF T
    <3>2. \A r \in T : r + 1 \in T
      BY <2>2
    <3> QED
      BY <2>1, <3>1, <3>2, AllNumbers, Zenon
  <2> QED
    BY <2>3
<1> QED
  BY <1>3, <1>4, <1>5

\* A later round begins at a later id.
LEMMA FirstIdsGrow ==
  ASSUME NEW k \in Nat, NEW r \in 0 .. k, NEW s \in 0 .. k, r <= s
  PROVE  FirstId(k, r) <= FirstId(k, s)
<1> DEFINE T == {d \in Nat : r + d <= k => FirstId(k, r) <= FirstId(k, r + d)}
<1>0. /\ \A x \in 0 .. k : FirstId(k, x) \in Nat
      /\ \A x \in 0 .. k - 1 : /\ FirstId(k, x + 1) = FirstId(k, x) + Power(k - (x + 1))
                               /\ Power(k - (x + 1)) \in Nat \ {0}
  BY FirstIds
<1>1. 0 \in T
  <2>1. r + 0 = r /\ FirstId(k, r) \in Nat
    BY <1>0
  <2> QED
    BY <2>1
<1>2. ASSUME NEW d \in T PROVE d + 1 \in T
  <2> SUFFICES ASSUME r + (d + 1) <= k PROVE FirstId(k, r) <= FirstId(k, r + (d + 1))
    OBVIOUS
  <2> DEFINE x == r + d
  <2>1. x \in 0 .. k - 1 /\ FirstId(k, r) <= FirstId(k, x) /\ r + (d + 1) = x + 1 /\ x \in 0 .. k
    OBVIOUS
  <2> HIDE DEF x
  <2>2. FirstId(k, x + 1) = FirstId(k, x) + Power(k - (x + 1))
        /\ Power(k - (x + 1)) \in Nat \ {0} /\ FirstId(k, x) \in Nat /\ FirstId(k, r) \in Nat
    BY <1>0, <2>1
  <2>3. FirstId(k, r) <= FirstId(k, x + 1)
    BY <2>1, <2>2
  <2> QED
    BY <2>1, <2>3
<1>3. T = Nat
  <2>1. T \in SUBSET Nat
    OBVIOUS
  <2> HIDE DEF T
  <2>2. \A d \in T : d + 1 \in T
    BY <1>2
  <2> QED
    BY <1>1, <2>1, <2>2, AllNumbers, Zenon
<1>4. s - r \in Nat /\ r + (s - r) = s /\ s <= k
  OBVIOUS
<1>5. s - r \in T
  <2> HIDE DEF T
  <2> QED
    BY <1>3, <1>4
<1> QED
  BY <1>4, <1>5

InRound(k, id, r) == FirstId(k, r) <= id /\ id < FirstId(k, r + 1)

RoundIn(k, id) == CHOOSE r \in 0 .. k - 1 : InRound(k, id, r)

\* Every match is in one round.
LEMMA OneRound ==
  ASSUME NEW k \in Nat, NEW id \in 1 .. Power(k) - 1
  PROVE  /\ RoundIn(k, id) \in 0 .. k - 1 /\ InRound(k, id, RoundIn(k, id))
         /\ \A r \in 0 .. k - 1 : InRound(k, id, r) => r = RoundIn(k, id)
<1>0. Power(k) \in Nat /\ FirstId(k, 0) = 1 /\ FirstId(k, k) = Power(k)
      /\ \A x \in 0 .. k : FirstId(k, x) \in Nat
  BY FirstIds, PowerAbove
<1>1. \E r \in 0 .. k - 1 : InRound(k, id, r)
  <2> DEFINE T == {x \in Nat : x <= k /\ id < FirstId(k, x)}
  <2>1. k \in T /\ T \in SUBSET Nat
    BY <1>0
  <2>2. PICK x \in T : \A y \in T : x <= y
    <3> HIDE DEF T
    <3> QED
      BY <2>1, LeastNumber
  <2>3. x \in Nat /\ x <= k /\ id < FirstId(k, x) /\ x # 0
    BY <1>0
  <2>4. x - 1 \notin T
    <3> HIDE DEF T
    <3> QED
      BY <2>2, <2>3
  <2>5. x - 1 \in 0 .. k - 1 /\ FirstId(k, x - 1) \in Nat /\ ~(id < FirstId(k, x - 1))
        /\ (x - 1) + 1 = x
    BY <1>0, <2>3, <2>4
  <2>6. InRound(k, id, x - 1)
    BY <2>3, <2>5 DEF InRound
  <2> QED
    BY <2>5, <2>6
<1>2. ASSUME NEW r \in 0 .. k - 1, NEW s \in 0 .. k - 1, InRound(k, id, r), InRound(k, id, s), r < s
      PROVE  FALSE
  <2>1. r + 1 \in 0 .. k /\ s \in 0 .. k /\ r + 1 <= s
    BY <1>2
  <2>2. FirstId(k, r + 1) <= FirstId(k, s) /\ FirstId(k, r + 1) \in Nat /\ FirstId(k, s) \in Nat
    BY <1>0, <2>1, FirstIdsGrow
  <2> QED
    BY <1>2, <2>2 DEF InRound
<1>3. RoundIn(k, id) \in 0 .. k - 1 /\ InRound(k, id, RoundIn(k, id))
  BY <1>1 DEF RoundIn
<1> QED
  BY <1>2, <1>3

\* Where the winner of match id goes, in the middle of a bracket.
LEMMA NextMatch ==
  ASSUME NEW k \in Nat, NEW id \in 1 .. Power(k) - 1, NEW r \in 0 .. k - 1,
         r = RoundIn(k, id), r + 1 < k, NEW to, NEW i, i = id - FirstId(k, r),
         to = FirstId(k, r + 1) + i \div 2
  PROVE  /\ to \in 1 .. Power(k) - 1 /\ id < to /\ RoundIn(k, to) = r + 1
         /\ i \in Nat
<1>1. FirstId(k, r) <= id /\ id < FirstId(k, r + 1)
  BY OneRound DEF InRound
<1> DEFINE p == Power(k - (r + 2))
           first == FirstId(k, r)
           next  == FirstId(k, r + 1)
           after == FirstId(k, r + 2)
<1>2. /\ first \in Nat /\ next \in Nat /\ after \in Nat /\ p \in Nat \ {0}
      /\ next = first + (p + p) /\ after = next + p /\ 1 <= first /\ after <= Power(k)
  <2>1. /\ \A x \in 0 .. k : FirstId(k, x) \in Nat
        /\ FirstId(k, 0) = 1 /\ FirstId(k, k) = Power(k)
        /\ \A x \in 0 .. k - 1 : /\ FirstId(k, x + 1) = FirstId(k, x) + Power(k - (x + 1))
                                 /\ Power(k - (x + 1)) \in Nat \ {0}
    BY FirstIds
  <2>2. r + 1 \in 0 .. k - 1 /\ (r + 1) + 1 = r + 2 /\ r + 2 \in 0 .. k /\ r \in 0 .. k
        /\ k - (r + 2) \in Nat /\ k - (r + 1) = (k - (r + 2)) + 1 /\ k \in 0 .. k /\ 0 \in 0 .. k
        /\ 0 <= r /\ r + 2 <= k
    OBVIOUS
  <2>3. Power(k - (r + 1)) = p + p
    BY <2>2, PowerDoubles
  <2>4. next = first + (p + p) /\ after = next + p /\ p \in Nat \ {0}
    BY <2>1, <2>2, <2>3
  <2>5. 1 <= first /\ after <= Power(k)
    BY <2>1, <2>2, FirstIdsGrow
  <2>6. first \in Nat /\ next \in Nat /\ after \in Nat
    BY <2>1, <2>2
  <2> QED
    BY <2>4, <2>5, <2>6
<1>3. i \in Nat /\ i < p + p
  <2> HIDE DEF p, first, next, after
  <2>1. id \in Nat /\ i = id - first /\ first <= id /\ id < next
    BY <1>1, PowerAbove DEF first, next
  <2> QED
    BY <1>2, <2>1
<1>4. i \div 2 \in Nat /\ i \div 2 < p
  <2> HIDE DEF p
  <2> QED
    BY <1>2, <1>3
<1>5. next <= to /\ to < after /\ to \in Nat
  <2> DEFINE h == i \div 2
  <2>1. to = next + h /\ h \in Nat /\ h < p
    BY <1>4
  <2> HIDE DEF h, p, next, after, first
  <2> QED
    BY <1>2, <2>1
<1>6. to \in 1 .. Power(k) - 1 /\ id < to
  <2>1. id < next /\ Power(k) \in Nat
    BY <1>1, PowerAbove
  <2> HIDE DEF p, next, after, first
  <2> QED
    BY <1>2, <1>5, <2>1
<1>7. InRound(k, to, r + 1) /\ r + 1 \in 0 .. k - 1
  <2>1. (r + 1) + 1 = r + 2
    OBVIOUS
  <2> QED
    BY <1>5, <2>1 DEF InRound
<1>8. RoundIn(k, to) = r + 1
  BY <1>6, <1>7, OneRound
<1> QED
  BY <1>3, <1>6, <1>8

\* The seats and links of a built bracket.
BracketRounds(seeds) == nextPow2(IF Len(seeds) < 2 THEN 2 ELSE Len(seeds))

\* The entrant of a slot of the first round.
SlotEntrant(seeds, slot) ==
  LET slots == seedSlots(BracketRounds(seeds))
      rank  == CHOOSE s \in DOMAIN slots : slots[s] = slot
  IN  IF rank <= Len(SeedOrder(seeds)) THEN SeedOrder(seeds)[rank] ELSE Nobody

BuiltMatch(seeds, id) ==
  LET k == BracketRounds(seeds)
      r == RoundIn(k, id)
      i == id - FirstId(k, r)
  IN  Match(r, IF r = 0 THEN SlotEntrant(seeds, 2 * i) ELSE Nobody,
               IF r = 0 THEN SlotEntrant(seeds, 2 * i + 1) ELSE Nobody,
               IF r + 1 < k THEN FirstId(k, r + 1) + i \div 2 ELSE 0,
               IF i % 2 = 0 THEN "A" ELSE "B")

\* The fields of every match buildSingleElim makes.
LEMMA BuiltMatches ==
  ASSUME NEW seeds, NEW id \in 1 .. Power(BracketRounds(seeds)) - 1
  PROVE  LET k == BracketRounds(seeds)
             b == buildSingleElim(seeds)
             r == RoundIn(k, id)
             i == id - FirstId(k, r) IN
         /\ DOMAIN b = 1 .. Power(k) - 1
         /\ IsMatch(b[id]) /\ b[id].outcome = None /\ b[id].round = r
         /\ r # 0 => b[id].a = Nobody /\ b[id].b = Nobody
         /\ b[id].to = IF r + 1 < k THEN FirstId(k, r + 1) + i \div 2 ELSE 0
         /\ b[id].side = IF i % 2 = 0 THEN "A" ELSE "B"
<1> DEFINE k == BracketRounds(seeds)
           b == buildSingleElim(seeds)
           r == RoundIn(k, id)
           i == id - FirstId(k, r)
<1>1. DOMAIN b = 1 .. Power(k) - 1
  BY Zenon DEF buildSingleElim, BracketRounds, Power
<1>2. b[id] = Match(r, IF r = 0 THEN SlotEntrant(seeds, 2 * i) ELSE Nobody,
                       IF r = 0 THEN SlotEntrant(seeds, 2 * i + 1) ELSE Nobody,
                       IF r + 1 < k THEN FirstId(k, r + 1) + i \div 2 ELSE 0,
                       IF i % 2 = 0 THEN "A" ELSE "B")
  BY Zenon DEF buildSingleElim, BracketRounds, Power, RoundIn, InRound, SlotEntrant
<1> HIDE DEF b, r, i, k
<1>3. PICK x, y : b[id] = Match(r, IF r = 0 THEN x ELSE Nobody, IF r = 0 THEN y ELSE Nobody,
                             IF r + 1 < k THEN FirstId(k, r + 1) + i \div 2 ELSE 0,
                             IF i % 2 = 0 THEN "A" ELSE "B")
  BY <1>2, Zenon
<1> DEFINE to   == IF r + 1 < k THEN FirstId(k, r + 1) + i \div 2 ELSE 0
           side == IF i % 2 = 0 THEN "A" ELSE "B"
<1>4. b[id] = Match(r, IF r = 0 THEN x ELSE Nobody, IF r = 0 THEN y ELSE Nobody, to, side)
  BY <1>3, Zenon
<1> HIDE DEF to, side
<1>5. /\ IsMatch(b[id]) /\ b[id].outcome = None /\ b[id].round = r
      /\ r # 0 => b[id].a = Nobody /\ b[id].b = Nobody
      /\ b[id].to = to /\ b[id].side = side
  BY <1>4 DEF Match, IsMatch
<1> QED
  BY <1>1, <1>5, Zenon DEF to, side, b, r, i, k

\* The bracket is a tree: a match leads to a later one of the next round, and
\* no two to the same seat.
LEMMA BuiltTree ==
  ASSUME NEW seeds, Len(seeds) \in Nat
  PROVE  Tree(buildSingleElim(seeds))
<1> DEFINE k == BracketRounds(seeds)
           b == buildSingleElim(seeds)
           i(id) == id - FirstId(k, RoundIn(k, id))
<1>1. k \in Nat /\ Power(k) \in Nat
  <2>1. (IF Len(seeds) < 2 THEN 2 ELSE Len(seeds)) \in Nat
    OBVIOUS
  <2>2. k \in Nat
    BY <2>1, NextPow2 DEF BracketRounds
  <2> QED
    BY <2>2, PowerAbove
<1>2. DOMAIN b = 1 .. Power(k) - 1
  BY Zenon DEF buildSingleElim, BracketRounds, Power
<1>3. \A id \in 1 .. Power(k) - 1 :
         /\ IsMatch(b[id]) /\ b[id].outcome = None /\ b[id].round = RoundIn(k, id)
         /\ RoundIn(k, id) # 0 => b[id].a = Nobody /\ b[id].b = Nobody
         /\ b[id].to = IF RoundIn(k, id) + 1 < k
                       THEN FirstId(k, RoundIn(k, id) + 1) + i(id) \div 2 ELSE 0
         /\ b[id].side = IF i(id) % 2 = 0 THEN "A" ELSE "B"
  BY BuiltMatches, Zenon
<1>f. b = [id \in DOMAIN b |-> b[id]]
  <2>1. b = [id \in 1 .. Power(k) - 1 |-> BuiltMatch(seeds, id)]
    BY Zenon DEF buildSingleElim, BracketRounds, Power, RoundIn, InRound, SlotEntrant, BuiltMatch
  <2> HIDE DEF b, k
  <2> QED
    BY <2>1
<1> HIDE DEF b, k
<1>4. \A id \in 1 .. Power(k) - 1 : RoundIn(k, id) \in 0 .. k - 1
  BY <1>1, OneRound
<1>5. ASSUME NEW id \in DOMAIN b, b[id].to # 0
      PROVE  /\ b[id].to \in DOMAIN b /\ id < b[id].to /\ b[id].round + 1 < k
             /\ b[id].to = FirstId(k, b[id].round + 1) + i(id) \div 2
             /\ b[b[id].to].round = b[id].round + 1
             /\ i(id) \in Nat
  <2> DEFINE to == b[id].to
             r  == RoundIn(k, id)
             j  == i(id)
  <2>1. id \in 1 .. Power(k) - 1 /\ r \in 0 .. k - 1 /\ b[id].round = r
    BY <1>2, <1>3, <1>4
  <2>2. r + 1 < k /\ to = FirstId(k, r + 1) + j \div 2
    BY <1>3, <1>5, <2>1
  <2>3. /\ to \in 1 .. Power(k) - 1 /\ id < to /\ RoundIn(k, to) = r + 1
        /\ j \in Nat
    <3>1. r = RoundIn(k, id) /\ j = id - FirstId(k, r)
      OBVIOUS
    <3> HIDE DEF to, r, j
    <3> QED
      BY <1>1, <2>1, <2>2, <3>1, NextMatch
  <2>4. b[to].round = r + 1
    BY <1>3, <2>3
  <2> QED
    BY <1>2, <2>1, <2>2, <2>3, <2>4
<1>6. ASSUME NEW f \in DOMAIN b, NEW g \in DOMAIN b, b[f].to # 0, b[f].to = b[g].to,
             b[f].side = b[g].side
      PROVE  f = g
  <2>1. /\ b[b[f].to].round = b[f].round + 1 /\ b[b[g].to].round = b[g].round + 1
        /\ b[f].to = FirstId(k, b[f].round + 1) + i(f) \div 2
        /\ b[g].to = FirstId(k, b[g].round + 1) + i(g) \div 2
        /\ i(f) \in Nat /\ i(g) \in Nat /\ b[f].round + 1 < k
    BY <1>5, <1>6
  <2>2. b[f].round = RoundIn(k, f) /\ b[g].round = RoundIn(k, g)
        /\ b[f].round \in 0 .. k - 1 /\ b[g].round \in 0 .. k - 1 /\ f \in Nat /\ g \in Nat
    BY <1>1, <1>2, <1>3, <1>4
  <2> DEFINE x == i(f)
             y == i(g)
             r == b[f].round
  <2>3. b[g].round = r /\ r \in 0 .. k - 1
    BY <1>6, <2>1, <2>2
  <2>4. x = f - FirstId(k, r) /\ y = g - FirstId(k, r)
    BY <2>2, <2>3
  <2>5. (x % 2 = 0) <=> (y % 2 = 0)
    <3>1. /\ b[f].side = IF x % 2 = 0 THEN "A" ELSE "B"
          /\ b[g].side = IF y % 2 = 0 THEN "A" ELSE "B"
      BY <1>2, <1>3
    <3> HIDE DEF x, y
    <3> QED
      BY <1>6, <3>1
  <2>6. FirstId(k, r + 1) + x \div 2 = FirstId(k, r + 1) + y \div 2 /\ x \in Nat /\ y \in Nat
    BY <1>6, <2>1, <2>3
  <2>7. FirstId(k, r + 1) \in Nat /\ FirstId(k, r) \in Nat
    <3>1. r \in 0 .. k /\ r + 1 \in 0 .. k
      BY <1>1, <2>1, <2>3, SMTT(60)
    <3> QED
      BY <1>1, <3>1, FirstIds
  <2> HIDE DEF x, y, r
  <2>8. x \div 2 = y \div 2
    BY <2>6, <2>7
  <2>9. x = y
    BY <2>5, <2>6, <2>8
  <2> QED
    BY <2>2, <2>4, <2>6, <2>7, <2>9
<1>7. \E n \in Nat : DOMAIN b = 1 .. n
  <2>1. CASE Power(k) = 0
    BY <1>1, <2>1, PowerAbove
  <2>2. CASE Power(k) # 0
    BY <1>1, <1>2, <2>2
  <2> QED
    BY <2>1, <2>2
<1>8. AreMatches(b)
  BY <1>2, <1>3 DEF AreMatches
<1>9. \A id \in DOMAIN b : /\ b[id].outcome = None /\ b[id].round \in Nat /\ b[id].side \in {"A", "B"}
                           /\ b[id].round # 0 => b[id].a = Nobody /\ b[id].b = Nobody
  <2> SUFFICES ASSUME NEW id \in DOMAIN b
               PROVE  /\ b[id].outcome = None /\ b[id].round \in Nat /\ b[id].side \in {"A", "B"}
                      /\ b[id].round # 0 => b[id].a = Nobody /\ b[id].b = Nobody
    OBVIOUS
  <2>1. id \in 1 .. Power(k) - 1 /\ RoundIn(k, id) \in 0 .. k - 1
    BY <1>2, <1>4
  <2>2. b[id].side \in {"A", "B"}
    BY <1>3, <2>1, Zenon
  <2> QED
    BY <1>3, <2>1, <2>2
<1> QED
  BY <1>f, <1>5, <1>6, <1>7, <1>8, <1>9 DEF Tree, b

-----------------------------------------------------------------------------
(***************************************************************************)
(* One round of the advance loop.                                          *)
(***************************************************************************)
Seat(m, side) == IF side = "A" THEN m.a ELSE m.b

FirstBye(m) == m.round = 0 /\ isBye(m)
ByeSide(m)  == IF m.a # Nobody THEN "A" ELSE "B"

\* CompleteByes decides the open byes of the first round and changes nothing
\* else.
LEMMA ByesPass ==
  ASSUME NEW ms, AreMatches(ms), NEW id \in DOMAIN ms
  PROVE  LET m == ms[id]
             n == CompleteByes(ms)[id] IN
         /\ IsMatch(n) /\ n.round = m.round /\ n.to = m.to /\ n.side = m.side
         /\ n.a = m.a /\ n.b = m.b
         /\ n.outcome = IF FirstBye(m) /\ m.outcome = None THEN ByeSide(m) ELSE m.outcome
<1> DEFINE m == ms[id]
           n == CompleteByes(ms)[id]
<1>1. IsMatch(m)
  BY DEF AreMatches
<1>2. n = IF m.round = 0 /\ m.outcome = None /\ isBye(m)
          THEN [m EXCEPT !.outcome = ByeSide(m)] ELSE m
  BY DEF CompleteByes, ByeSide
<1> HIDE DEF m, n
<1>3. CASE FirstBye(m) /\ m.outcome = None
  <2> DEFINE o == ByeSide(m)
  <2>1. n = [m EXCEPT !.outcome = o]
    BY <1>2, <1>3 DEF FirstBye
  <2> HIDE DEF o
  <2>2. /\ IsMatch(n) /\ n.round = m.round /\ n.to = m.to /\ n.side = m.side
        /\ n.a = m.a /\ n.b = m.b /\ n.outcome = o
    BY <1>1, <2>1 DEF IsMatch
  <2> QED
    BY <1>3, <2>2 DEF o, m, n
<1>4. CASE ~(FirstBye(m) /\ m.outcome = None)
  <2>1. n = m
    BY <1>2, <1>4 DEF FirstBye
  <2> QED
    BY <1>1, <1>4, <2>1 DEF m, n
<1> QED
  BY <1>3, <1>4

\* The winners waiting for a seat.
Arrivals(ms, id, side) ==
  {matchWinner(ms[f]) : f \in {g \in DOMAIN ms : ms[g].to = id /\ ms[g].side = side}} \ {Nobody}

NextSeat(ms, id, side) ==
  IF Seat(ms[id], side) = Nobody /\ Arrivals(ms, id, side) # {}
  THEN CHOOSE w \in Arrivals(ms, id, side) : TRUE ELSE Seat(ms[id], side)

\* PropagateWinners fills empty seats and changes nothing else.
LEMMA WinnersPass ==
  ASSUME NEW ms, AreMatches(ms), NEW id \in DOMAIN ms
  PROVE  LET m == ms[id]
             n == PropagateWinners(ms)[id] IN
         /\ IsMatch(n) /\ n.round = m.round /\ n.to = m.to /\ n.side = m.side
         /\ n.outcome = m.outcome
         /\ \A side \in {"A", "B"} : Seat(n, side) = NextSeat(ms, id, side)
<1> DEFINE m == ms[id]
           n == PropagateWinners(ms)[id]
           x == NextSeat(ms, id, "A")
           y == NextSeat(ms, id, "B")
           k == [m EXCEPT !.a = x]
           l == [k EXCEPT !.b = y]
<1>1. IsMatch(m)
  BY DEF AreMatches
<1>2. Seat(m, "A") = m.a /\ Seat(m, "B") = m.b
  BY DEF Seat
<1>3. n = l
  <2>1. x = IF m.a = Nobody /\ Arrivals(ms, id, "A") # {}
            THEN CHOOSE w \in Arrivals(ms, id, "A") : TRUE ELSE m.a
    BY DEF NextSeat, Seat
  <2>2. y = IF m.b = Nobody /\ Arrivals(ms, id, "B") # {}
            THEN CHOOSE w \in Arrivals(ms, id, "B") : TRUE ELSE m.b
    BY DEF NextSeat, Seat
  <2>3. k.b = m.b
    <3> HIDE DEF x
    <3> QED
      BY <1>1 DEF IsMatch
  <2> HIDE DEF x, y
  <2> QED
    BY <2>1, <2>2, <2>3, Zenon DEF PropagateWinners, Arrivals
<1> HIDE DEF m, n, x, y
<1>4. k = [round |-> m.round, a |-> x, b |-> m.b, outcome |-> m.outcome, to |-> m.to,
           side |-> m.side]
  BY <1>1 DEF IsMatch
<1> HIDE DEF k
<1>5. l = [round |-> m.round, a |-> x, b |-> y, outcome |-> m.outcome, to |-> m.to,
           side |-> m.side]
  BY <1>4
<1> HIDE DEF l
<1>6. /\ IsMatch(n) /\ n.round = m.round /\ n.to = m.to /\ n.side = m.side
      /\ n.outcome = m.outcome /\ n.a = x /\ n.b = y
  BY <1>3, <1>5 DEF IsMatch
<1>7. Seat(n, "A") = x /\ Seat(n, "B") = y
  BY <1>6 DEF Seat
<1> QED
  BY <1>6, <1>7 DEF m, n, x, y

\* A seat nobody sits in is taken by the winner who comes for it.
LEMMA SeatTaken ==
  ASSUME NEW ms, NEW id, NEW side,
         \A f, g \in DOMAIN ms :
            ms[f].to = id /\ ms[f].side = side /\ ms[g].to = id /\ ms[g].side = side => f = g
  PROVE  /\ Seat(ms[id], side) # Nobody => NextSeat(ms, id, side) = Seat(ms[id], side)
         /\ \A f \in DOMAIN ms :
              ms[f].to = id /\ ms[f].side = side /\ Seat(ms[id], side) = Nobody
                 => NextSeat(ms, id, side) = matchWinner(ms[f])
         /\ (\A f \in DOMAIN ms : ~(ms[f].to = id /\ ms[f].side = side))
                 => NextSeat(ms, id, side) = Seat(ms[id], side)
<1>1. Seat(ms[id], side) # Nobody => NextSeat(ms, id, side) = Seat(ms[id], side)
  BY DEF NextSeat
<1>2. ASSUME NEW f \in DOMAIN ms, ms[f].to = id, ms[f].side = side, Seat(ms[id], side) = Nobody
      PROVE  NextSeat(ms, id, side) = matchWinner(ms[f])
  <2>1. {g \in DOMAIN ms : ms[g].to = id /\ ms[g].side = side} = {f}
    BY <1>2
  <2>2. Arrivals(ms, id, side) = {matchWinner(ms[f])} \ {Nobody}
    BY <2>1, Zenon DEF Arrivals
  <2> QED
    BY <1>2, <2>2 DEF NextSeat
<1>3. ASSUME \A f \in DOMAIN ms : ~(ms[f].to = id /\ ms[f].side = side)
      PROVE  NextSeat(ms, id, side) = Seat(ms[id], side)
  <2>1. {g \in DOMAIN ms : ms[g].to = id /\ ms[g].side = side} = {}
    BY <1>3
  <2>2. Arrivals(ms, id, side) = {}
    BY <2>1, Zenon DEF Arrivals
  <2> QED
    BY <2>2 DEF NextSeat
<1> QED
  BY <1>1, <1>2, <1>3

-----------------------------------------------------------------------------
(***************************************************************************)
(* A bracket in play.  `b` is the bracket as built, `ms` its matches now,  *)
(* S the results recorded so far.                                          *)
(***************************************************************************)

\* The results are the outcomes, and every other outcome is a first round bye's.
Recorded(b, ms, S) ==
  /\ \A r \in S : /\ r.id \in DOMAIN b /\ r.outcome # None /\ ms[r.id].outcome = r.outcome
                  /\ ms[r.id].a # Nobody /\ ms[r.id].b # Nobody
  /\ \A id \in DOMAIN b : ms[id].outcome # None => FirstBye(ms[id]) \/ \E r \in S : r.id = id

SameTree(b, ms) ==
  /\ ms = [id \in DOMAIN b |-> ms[id]] /\ DOMAIN ms = DOMAIN b /\ AreMatches(ms)
  /\ \A id \in DOMAIN b : /\ ms[id].round = b[id].round /\ ms[id].to = b[id].to
                          /\ ms[id].side = b[id].side

\* Between a change and the next round of the loop: a seat may still wait for the
\* winner who moves up to it, a bye for its outcome.
Moving(b, ms, S) ==
  /\ SameTree(b, ms) /\ Recorded(b, ms, S)
  /\ \A id \in DOMAIN b : \A side \in {"A", "B"} :
       /\ \A f \in DOMAIN b : b[f].to = id /\ b[f].side = side =>
            Seat(ms[id], side) \in {Nobody, matchWinner(ms[f])}
       /\ (\A f \in DOMAIN b : ~(b[f].to = id /\ b[f].side = side)) =>
            Seat(ms[id], side) = Seat(b[id], side)
  /\ \A id \in DOMAIN b : FirstBye(ms[id]) => ms[id].outcome \in {None, ByeSide(ms[id])}

\* After it: nobody waits.
Settled(b, ms, S) ==
  /\ SameTree(b, ms) /\ Recorded(b, ms, S)
  /\ \A id \in DOMAIN b : \A side \in {"A", "B"} :
       /\ \A f \in DOMAIN b : b[f].to = id /\ b[f].side = side =>
            Seat(ms[id], side) = matchWinner(ms[f])
       /\ (\A f \in DOMAIN b : ~(b[f].to = id /\ b[f].side = side)) =>
            Seat(ms[id], side) = Seat(b[id], side)
  /\ \A id \in DOMAIN b : FirstBye(ms[id]) => ms[id].outcome = ByeSide(ms[id])

\* A settled bracket is one in motion in which nobody waits.
LEMMA SettledMoves ==
  ASSUME NEW b, NEW ms, NEW S, Settled(b, ms, S)
  PROVE  Moving(b, ms, S)
BY DEF Settled, Moving

\* What a match's outcome says of its seats.
LEMMA SeatsOf ==
  ASSUME NEW m
  PROVE  /\ Seat(m, "A") = m.a /\ Seat(m, "B") = m.b
         /\ m.outcome = None => matchWinner(m) = Nobody
         /\ isBye(m) <=> (m.a = Nobody) # (m.b = Nobody)
<1>1. m.outcome = None => matchWinner(m) = Nobody
  BY DEF matchWinner, None
<1> QED
  BY <1>1 DEF Seat, isBye

\* Matches with the same seats and outcome have the same winner.
LEMMA SameWinner ==
  ASSUME NEW m, NEW n, n.a = m.a, n.b = m.b, n.outcome = m.outcome
  PROVE  matchWinner(n) = matchWinner(m) /\ matchLoser(n) = matchLoser(m) /\ ByeSide(n) = ByeSide(m)
         /\ (isBye(n) <=> isBye(m))
<1>1. matchWinner(n) = matchWinner(m)
  BY DEF matchWinner
<1>2. matchLoser(n) = matchLoser(m)
  BY DEF matchLoser
<1> QED
  BY <1>1, <1>2 DEF ByeSide, isBye

\* A round of the loop gives every bye its outcome and every winner a seat.
LEMMA OnePass ==
  ASSUME NEW b, Tree(b), NEW ms, NEW S, Moving(b, ms, S)
  PROVE  Settled(b, PropagateWinners(CompleteByes(ms)), S)
<1> DEFINE ks == CompleteByes(ms)
           ns == PropagateWinners(ks)
<1>1. DOMAIN ms = DOMAIN b /\ AreMatches(ms) /\ DOMAIN ks = DOMAIN b /\ DOMAIN ns = DOMAIN b
  BY Zenon DEF Moving, SameTree, CompleteByes, PropagateWinners
<1>f. ns = [id \in DOMAIN b |-> ns[id]]
  BY <1>1, Zenon DEF PropagateWinners
<1>2. \A id \in DOMAIN b :
         /\ IsMatch(ks[id]) /\ ks[id].round = ms[id].round /\ ks[id].to = ms[id].to
         /\ ks[id].side = ms[id].side /\ ks[id].a = ms[id].a /\ ks[id].b = ms[id].b
         /\ ks[id].outcome = IF FirstBye(ms[id]) /\ ms[id].outcome = None
                             THEN ByeSide(ms[id]) ELSE ms[id].outcome
  <2>1. \A id \in DOMAIN ms :
         /\ IsMatch(ks[id]) /\ ks[id].round = ms[id].round /\ ks[id].to = ms[id].to
         /\ ks[id].side = ms[id].side /\ ks[id].a = ms[id].a /\ ks[id].b = ms[id].b
         /\ ks[id].outcome = IF FirstBye(ms[id]) /\ ms[id].outcome = None
                             THEN ByeSide(ms[id]) ELSE ms[id].outcome
    BY <1>1, ByesPass, Zenon
  <2> HIDE DEF ks
  <2> QED
    BY <1>1, <2>1
<1>3. AreMatches(ks)
  BY <1>1, <1>2 DEF AreMatches
<1>4. \A id \in DOMAIN b :
         /\ IsMatch(ns[id]) /\ ns[id].round = ks[id].round /\ ns[id].to = ks[id].to
         /\ ns[id].side = ks[id].side /\ ns[id].outcome = ks[id].outcome
         /\ \A side \in {"A", "B"} : Seat(ns[id], side) = NextSeat(ks, id, side)
  <2> TAKE id \in DOMAIN b
  <2>1. id \in DOMAIN ks
    BY <1>1, Zenon
  <2> HIDE DEF ks
  <2> QED
    BY <1>3, <2>1, WinnersPass, ZenonT(40)
<1> HIDE DEF ks, ns
<1>5. \A id \in DOMAIN b : /\ ms[id].round = b[id].round /\ ms[id].to = b[id].to
                           /\ ms[id].side = b[id].side
                           /\ ks[id].round = b[id].round /\ ks[id].to = b[id].to
                           /\ ks[id].side = b[id].side
                           /\ ns[id].round = b[id].round /\ ns[id].to = b[id].to
                           /\ ns[id].side = b[id].side
  BY <1>2, <1>4 DEF Moving, SameTree
<1>6. SameTree(b, ns)
  BY <1>1, <1>f, <1>4, <1>5 DEF SameTree, AreMatches
<1>7. ASSUME NEW id \in DOMAIN b, NEW side \in {"A", "B"}
      PROVE  /\ Seat(ks[id], side) # Nobody => Seat(ns[id], side) = Seat(ks[id], side)
             /\ \A f \in DOMAIN b :
                  b[f].to = id /\ b[f].side = side /\ Seat(ks[id], side) = Nobody
                     => Seat(ns[id], side) = matchWinner(ks[f])
             /\ (\A f \in DOMAIN b : ~(b[f].to = id /\ b[f].side = side))
                     => Seat(ns[id], side) = Seat(ks[id], side)
  <2>0. id # 0
    <3>1. PICK n \in Nat : DOMAIN b = 1 .. n
      BY DEF Tree
    <3> QED
      BY <3>1
  <2>1. \A f, g \in DOMAIN ks :
          ks[f].to = id /\ ks[f].side = side /\ ks[g].to = id /\ ks[g].side = side => f = g
    <3> SUFFICES ASSUME NEW f \in DOMAIN ks, NEW g \in DOMAIN ks, ks[f].to = id, ks[f].side = side,
                        ks[g].to = id, ks[g].side = side
                 PROVE  f = g
      OBVIOUS
    <3>1. f \in DOMAIN b /\ g \in DOMAIN b
      BY <1>1
    <3>2. b[f].to # 0 /\ b[f].to = b[g].to /\ b[f].side = b[g].side
      BY <1>5, <2>0, <3>1
    <3> QED
      BY <3>1, <3>2, Zenon DEF Tree
  <2>2. /\ Seat(ks[id], side) # Nobody => NextSeat(ks, id, side) = Seat(ks[id], side)
        /\ \A f \in DOMAIN ks :
             ks[f].to = id /\ ks[f].side = side /\ Seat(ks[id], side) = Nobody
                => NextSeat(ks, id, side) = matchWinner(ks[f])
        /\ (\A f \in DOMAIN ks : ~(ks[f].to = id /\ ks[f].side = side))
                => NextSeat(ks, id, side) = Seat(ks[id], side)
    BY <2>1, SeatTaken
  <2> QED
    BY <1>1, <1>4, <1>5, <2>2
<1>8. \A id \in DOMAIN b : /\ FirstBye(ks[id]) <=> FirstBye(ms[id])
                           /\ ByeSide(ks[id]) = ByeSide(ms[id])
                           /\ \A side \in {"A", "B"} : Seat(ks[id], side) = Seat(ms[id], side)
  BY <1>2 DEF FirstBye, ByeSide, isBye, Seat
\* The first round keeps its seats.
<1>9. ASSUME NEW id \in DOMAIN b, b[id].round = 0, NEW side \in {"A", "B"}
      PROVE  Seat(ns[id], side) = Seat(ks[id], side)
  <2>1. \A f \in DOMAIN b : ~(b[f].to = id /\ b[f].side = side)
    <3> SUFFICES ASSUME NEW f \in DOMAIN b, b[f].to = id PROVE FALSE
      OBVIOUS
    <3>1. b[f].to # 0 /\ b[f].round \in Nat
      BY DEF Tree
    <3>2. b[id].round = b[f].round + 1
      BY <3>1 DEF Tree
    <3> QED
      BY <1>9, <3>1, <3>2
  <2> QED
    BY <1>7, <2>1
\* So does a match that has an outcome.
<1>10. ASSUME NEW id \in DOMAIN b, ks[id].outcome # None
       PROVE  ns[id].a = ks[id].a /\ ns[id].b = ks[id].b
  <2>1. CASE FirstBye(ms[id])
    <3>1. b[id].round = 0
      BY <1>5, <2>1 DEF FirstBye
    <3>2. \A side \in {"A", "B"} : Seat(ns[id], side) = Seat(ks[id], side)
      BY <1>9, <3>1
    <3> QED
      BY <3>2, SeatsOf
  <2>2. CASE ~FirstBye(ms[id])
    <3>1. ms[id].outcome # None
      BY <1>2, <1>10, <2>2
    <3>2. PICK r \in S : r.id = id
      BY <2>2, <3>1 DEF Moving, Recorded
    <3>3. ms[id].a # Nobody /\ ms[id].b # Nobody
      BY <3>2 DEF Moving, Recorded
    <3>4. Seat(ks[id], "A") # Nobody /\ Seat(ks[id], "B") # Nobody
      BY <1>2, <3>3, SeatsOf
    <3>5. Seat(ns[id], "A") = Seat(ks[id], "A") /\ Seat(ns[id], "B") = Seat(ks[id], "B")
      BY <1>7, <3>4
    <3> QED
      BY <3>5, SeatsOf
  <2> QED
    BY <2>1, <2>2
<1>11. \A id \in DOMAIN b : matchWinner(ns[id]) = matchWinner(ks[id])
  <2> SUFFICES ASSUME NEW id \in DOMAIN b PROVE matchWinner(ns[id]) = matchWinner(ks[id])
    OBVIOUS
  <2>1. CASE ks[id].outcome = None
    BY <1>4, <2>1, SeatsOf
  <2>2. CASE ks[id].outcome # None
    BY <1>4, <1>10, <2>2, SameWinner
  <2> QED
    BY <2>1, <2>2
\* A winner who has a seat keeps it; only a bye's outcome is new.
<1>12. ASSUME NEW f \in DOMAIN b, matchWinner(ms[f]) # Nobody
       PROVE  matchWinner(ks[f]) = matchWinner(ms[f])
  <2>1. ms[f].outcome # None
    BY <1>12, SeatsOf
  <2> QED
    BY <1>2, <2>1, SameWinner
<1>13. \A id \in DOMAIN b : FirstBye(ns[id]) <=> FirstBye(ms[id])
  <2> SUFFICES ASSUME NEW id \in DOMAIN b PROVE FirstBye(ns[id]) <=> FirstBye(ms[id])
    OBVIOUS
  <2>1. CASE b[id].round = 0
    <3>1. ns[id].a = ms[id].a /\ ns[id].b = ms[id].b
      BY <1>2, <1>9, <2>1, SeatsOf
    <3> QED
      BY <1>5, <3>1 DEF FirstBye, isBye
  <2>2. CASE b[id].round # 0
    BY <1>5, <2>2 DEF FirstBye
  <2> QED
    BY <2>1, <2>2
<1>14. Recorded(b, ns, S)
  <2>1. ASSUME NEW r \in S
        PROVE  /\ r.id \in DOMAIN b /\ r.outcome # None /\ ns[r.id].outcome = r.outcome
               /\ ns[r.id].a # Nobody /\ ns[r.id].b # Nobody
    <3>1. /\ r.id \in DOMAIN b /\ r.outcome # None /\ ms[r.id].outcome = r.outcome
          /\ ms[r.id].a # Nobody /\ ms[r.id].b # Nobody
      BY DEF Moving, Recorded
    <3>2. ks[r.id].outcome = r.outcome /\ ks[r.id].a = ms[r.id].a /\ ks[r.id].b = ms[r.id].b
      BY <1>2, <3>1
    <3> QED
      BY <1>4, <1>10, <3>1, <3>2
  <2>2. ASSUME NEW id \in DOMAIN b, ns[id].outcome # None
        PROVE  FirstBye(ns[id]) \/ \E r \in S : r.id = id
    <3>1. CASE FirstBye(ms[id])
      BY <1>13, <3>1
    <3>2. CASE ~FirstBye(ms[id])
      <4>1. ms[id].outcome # None
        BY <1>2, <1>4, <2>2, <3>2
      <4> QED
        BY <3>2, <4>1 DEF Moving, Recorded
    <3> QED
      BY <3>1, <3>2
  <2> QED
    BY <2>1, <2>2 DEF Recorded
<1>15. ASSUME NEW id \in DOMAIN b, NEW side \in {"A", "B"}
       PROVE  /\ \A f \in DOMAIN b : b[f].to = id /\ b[f].side = side =>
                   Seat(ns[id], side) = matchWinner(ns[f])
              /\ (\A f \in DOMAIN b : ~(b[f].to = id /\ b[f].side = side)) =>
                   Seat(ns[id], side) = Seat(b[id], side)
  <2>1. ASSUME NEW f \in DOMAIN b, b[f].to = id, b[f].side = side
        PROVE  Seat(ns[id], side) = matchWinner(ns[f])
    <3>1. Seat(ms[id], side) \in {Nobody, matchWinner(ms[f])}
      BY <2>1 DEF Moving
    <3>2. CASE Seat(ms[id], side) = Nobody
      BY <1>7, <1>8, <1>11, <2>1, <3>2
    <3>3. CASE Seat(ms[id], side) # Nobody
      <4>1. matchWinner(ms[f]) = Seat(ms[id], side) /\ matchWinner(ms[f]) # Nobody
        BY <3>1, <3>3
      <4>2. matchWinner(ks[f]) = Seat(ms[id], side)
        BY <1>12, <4>1
      <4> QED
        BY <1>7, <1>8, <1>11, <3>3, <4>2
    <3> QED
      BY <3>2, <3>3
  <2>2. ASSUME \A f \in DOMAIN b : ~(b[f].to = id /\ b[f].side = side)
        PROVE  Seat(ns[id], side) = Seat(b[id], side)
    <3>1. Seat(ms[id], side) = Seat(b[id], side)
      BY <2>2 DEF Moving
    <3> QED
      BY <1>7, <1>8, <2>2, <3>1
  <2> QED
    BY <2>1, <2>2
<1>16. ASSUME NEW id \in DOMAIN b, FirstBye(ns[id])
       PROVE  ns[id].outcome = ByeSide(ns[id])
  <2>1. FirstBye(ms[id]) /\ b[id].round = 0
    BY <1>5, <1>13, <1>16 DEF FirstBye
  <2>2. ks[id].outcome = ByeSide(ms[id])
    <3>1. ms[id].outcome \in {None, ByeSide(ms[id])}
      BY <2>1 DEF Moving
    <3> QED
      BY <1>2, <2>1, <3>1
  <2>3. ns[id].a = ms[id].a
    BY <1>2, <1>9, <2>1, SeatsOf
  <2> QED
    BY <1>4, <2>2, <2>3 DEF ByeSide
<1>17. Settled(b, ns, S)
  BY <1>6, <1>14, <1>15, <1>16 DEF Settled
<1> QED
  BY <1>17 DEF ns, ks

\* The advance loop ends with a settled bracket, from any change on.
Passes(ms, n, f) ==
  f = [k \in 0 .. n |-> IF k = 0 THEN ms ELSE PropagateWinners(CompleteByes(f[k - 1]))]

\* The loop of advanceSingleElim has a bracket after every pass.
LEMMA PassesExist ==
  ASSUME NEW ms, NEW n \in Nat
  PROVE  \E f : Passes(ms, n, f)
<1> DEFINE T == {k \in Nat : \E f : Passes(ms, k, f)}
<1>1. 0 \in T
  <2>1. Passes(ms, 0, [k \in 0 .. 0 |-> ms])
    BY DEF Passes
  <2> QED
    BY <2>1
<1>2. ASSUME NEW k \in T PROVE k + 1 \in T
  <2>1. PICK f : Passes(ms, k, f)
    OBVIOUS
  <2> DEFINE last == PropagateWinners(CompleteByes(f[k]))
             g == [i \in 0 .. k + 1 |-> IF i = k + 1 THEN last ELSE f[i]]
  <2>2. Passes(ms, k + 1, g)
    <3> SUFFICES ASSUME NEW i \in 0 .. k + 1
                 PROVE  g[i] = IF i = 0 THEN ms
                               ELSE PropagateWinners(CompleteByes(g[i - 1]))
      BY DEF Passes
    <3>1. CASE i = k + 1
      <4>1. i # 0 /\ i - 1 = k /\ g[k] = f[k]
        BY <3>1
      <4> QED
        BY <3>1, <4>1
    <3>2. CASE i # k + 1
      <4>1. i \in 0 .. k /\ g[i] = f[i]
        BY <3>2
      <4>2. f[i] = IF i = 0 THEN ms ELSE PropagateWinners(CompleteByes(f[i - 1]))
        BY <2>1, <4>1 DEF Passes
      <4>3. i # 0 => g[i - 1] = f[i - 1]
        BY <4>1
      <4> QED
        BY <4>1, <4>2, <4>3
    <3> QED
      BY <3>1, <3>2
  <2> QED
    BY <2>2
<1>3. T = Nat
  <2>1. T \in SUBSET Nat
    OBVIOUS
  <2> HIDE DEF T
  <2>2. \A k \in T : k + 1 \in T
    BY <1>2
  <2> QED
    BY <1>1, <2>1, <2>2, AllNumbers, Zenon
<1> QED
  BY <1>3

\* After the loop the bracket is settled.
LEMMA AdvanceSettles ==
  ASSUME NEW b, Tree(b), NEW ms, NEW S, Moving(b, ms, S), NEW n \in Nat \ {0}
  PROVE  Settled(b, advanceSingleElim(ms, n), S)
<1> DEFINE f == CHOOSE g : Passes(ms, n, g)
<1>1. Passes(ms, n, f)
  BY PassesExist
<1>2. advanceSingleElim(ms, n) = f[n]
  BY DEF advanceSingleElim, Passes
<1> HIDE DEF f
<1> DEFINE T == {k \in Nat : k <= n => Moving(b, f[k], S) /\ (k # 0 => Settled(b, f[k], S))}
<1>3. 0 \in T
  <2>1. f[0] = ms
    BY <1>1 DEF Passes
  <2> QED
    BY <2>1
<1>4. ASSUME NEW k \in T PROVE k + 1 \in T
  <2> SUFFICES ASSUME k + 1 <= n PROVE Moving(b, f[k + 1], S) /\ Settled(b, f[k + 1], S)
    OBVIOUS
  <2>1. Moving(b, f[k], S)
    OBVIOUS
  <2>2. f[k + 1] = PropagateWinners(CompleteByes(f[k]))
    <3>1. k + 1 \in 0 .. n /\ k + 1 # 0 /\ k + 1 - 1 = k
      OBVIOUS
    <3> QED
      BY <1>1, <3>1 DEF Passes
  <2>3. Settled(b, f[k + 1], S)
    BY <2>1, <2>2, OnePass
  <2> QED
    BY <2>3, SettledMoves
<1>5. T = Nat
  <2>1. T \in SUBSET Nat
    OBVIOUS
  <2> HIDE DEF T
  <2>2. \A k \in T : k + 1 \in T
    BY <1>4
  <2> QED
    BY <1>3, <2>1, <2>2, AllNumbers, Zenon
<1>6. Settled(b, f[n], S)
  <2>1. n \in T /\ n # 0 /\ n \in Nat
    BY <1>5
  <2> QED
    BY <2>1
<1> QED
  BY <1>2, <1>6

\* The bracket as built has no outcomes, and its later rounds are empty.
LEMMA BuiltMoves ==
  ASSUME NEW b, Tree(b)
  PROVE  Moving(b, b, {})
<1>1. SameTree(b, b)
  BY DEF Tree, SameTree
<1>2. \A id \in DOMAIN b : b[id].outcome = None
  BY DEF Tree
<1>3. Recorded(b, b, {})
  BY <1>2 DEF Recorded
<1>4. ASSUME NEW id \in DOMAIN b, NEW side \in {"A", "B"}, NEW f \in DOMAIN b, b[f].to = id
      PROVE  Seat(b[id], side) = Nobody
  <2>0. id # 0
    <3>1. PICK n \in Nat : DOMAIN b = 1 .. n
      BY DEF Tree
    <3> QED
      BY <3>1
  <2>1. b[id].round = b[f].round + 1 /\ b[f].round \in Nat
    BY <1>4, <2>0 DEF Tree
  <2>2. b[id].a = Nobody /\ b[id].b = Nobody
    BY <2>1 DEF Tree
  <2> QED
    BY <2>2 DEF Seat
<1> QED
  BY <1>1, <1>2, <1>3, <1>4 DEF Moving

\* A match that is ready gets its outcome.
LEMMA RecordMoves ==
  ASSUME NEW b, Tree(b), NEW ms, NEW S, Settled(b, ms, S),
         NEW id \in DOMAIN b, isReady(ms[id]), NEW o, o # None, NEW r, r.id = id, r.outcome = o
  PROVE  Moving(b, [ms EXCEPT ![id] = [ms[id] EXCEPT !.outcome = o]], S \cup {r})
<1> DEFINE m  == ms[id]
           n  == [m EXCEPT !.outcome = o]
           ns == [ms EXCEPT ![id] = [ms[id] EXCEPT !.outcome = o]]
<1>1. IsMatch(m) /\ id \in DOMAIN ms /\ DOMAIN ms = DOMAIN b
  BY DEF Settled, SameTree, AreMatches
<1>2. m.outcome = None /\ m.a # Nobody /\ m.b # Nobody
  BY DEF isReady
<1>3. /\ ns = [j \in DOMAIN b |-> ns[j]] /\ DOMAIN ns = DOMAIN b /\ ns[id] = n
      /\ \A j \in DOMAIN b : j # id => ns[j] = ms[j]
  BY <1>1
<1> HIDE DEF ns
<1>4. /\ IsMatch(n) /\ n.a = m.a /\ n.b = m.b /\ n.round = m.round /\ n.to = m.to
      /\ n.side = m.side /\ n.outcome = o
  <2> HIDE DEF m
  <2> QED
    BY <1>1 DEF IsMatch
<1> HIDE DEF m, n
<1>5. \A j \in DOMAIN b :
         /\ IsMatch(ns[j]) /\ ns[j].a = ms[j].a /\ ns[j].b = ms[j].b /\ ns[j].round = ms[j].round
         /\ ns[j].to = ms[j].to /\ ns[j].side = ms[j].side
         /\ j # id => ns[j].outcome = ms[j].outcome
  <2> SUFFICES ASSUME NEW j \in DOMAIN b
               PROVE  /\ IsMatch(ns[j]) /\ ns[j].a = ms[j].a /\ ns[j].b = ms[j].b
                      /\ ns[j].round = ms[j].round
                      /\ ns[j].to = ms[j].to /\ ns[j].side = ms[j].side
                      /\ j # id => ns[j].outcome = ms[j].outcome
    OBVIOUS
  <2>1. CASE j = id
    BY <1>3, <1>4, <2>1 DEF m
  <2>2. CASE j # id
    BY <1>3, <2>2 DEF Settled, SameTree, AreMatches
  <2> QED
    BY <2>1, <2>2
<1>6. ns[id].outcome = o
  BY <1>3, <1>4
<1>7. SameTree(b, ns)
  BY <1>3, <1>5 DEF Settled, SameTree, AreMatches
<1>8. \A j \in DOMAIN b : /\ FirstBye(ns[j]) <=> FirstBye(ms[j])
                          /\ ByeSide(ns[j]) = ByeSide(ms[j])
                          /\ \A side \in {"A", "B"} : Seat(ns[j], side) = Seat(ms[j], side)
  BY <1>5 DEF FirstBye, isBye, ByeSide, Seat
<1>9. ~FirstBye(ms[id])
  BY <1>2 DEF FirstBye, isBye, m
<1>10. Recorded(b, ns, S \cup {r})
  <2>1. ASSUME NEW x \in S
        PROVE  /\ x.id \in DOMAIN b /\ x.outcome # None /\ ns[x.id].outcome = x.outcome
               /\ ns[x.id].a # Nobody /\ ns[x.id].b # Nobody
    <3>1. /\ x.id \in DOMAIN b /\ x.outcome # None /\ ms[x.id].outcome = x.outcome
          /\ ms[x.id].a # Nobody /\ ms[x.id].b # Nobody
      BY DEF Settled, Recorded
    <3>2. x.id # id
      BY <1>2, <3>1 DEF m
    <3> QED
      BY <1>5, <3>1, <3>2
  <2>2. /\ r.id \in DOMAIN b /\ r.outcome # None /\ ns[r.id].outcome = r.outcome
        /\ ns[r.id].a # Nobody /\ ns[r.id].b # Nobody
    BY <1>2, <1>5, <1>6 DEF m
  <2>3. ASSUME NEW j \in DOMAIN b, ns[j].outcome # None
        PROVE  FirstBye(ns[j]) \/ \E x \in S \cup {r} : x.id = j
    <3>1. CASE j = id
      BY <3>1
    <3>2. CASE j # id
      <4>1. ms[j].outcome # None
        BY <1>5, <2>3, <3>2
      <4>2. FirstBye(ms[j]) \/ \E x \in S : x.id = j
        BY <4>1 DEF Settled, Recorded
      <4> QED
        BY <1>8, <4>2
    <3> QED
      BY <3>1, <3>2
  <2> QED
    BY <2>1, <2>2, <2>3 DEF Recorded
<1>11. ASSUME NEW j \in DOMAIN b, NEW side \in {"A", "B"}
       PROVE  /\ \A f \in DOMAIN b : b[f].to = j /\ b[f].side = side =>
                   Seat(ns[j], side) \in {Nobody, matchWinner(ns[f])}
              /\ (\A f \in DOMAIN b : ~(b[f].to = j /\ b[f].side = side)) =>
                   Seat(ns[j], side) = Seat(b[j], side)
  <2>1. ASSUME NEW f \in DOMAIN b, b[f].to = j, b[f].side = side
        PROVE  Seat(ns[j], side) \in {Nobody, matchWinner(ns[f])}
    <3>1. Seat(ns[j], side) = matchWinner(ms[f])
      BY <1>8, <2>1 DEF Settled
    <3>2. CASE f = id
      BY <1>2, <3>1, <3>2, SeatsOf DEF m
    <3>3. CASE f # id
      BY <1>5, <3>1, <3>3, SameWinner
    <3> QED
      BY <3>2, <3>3
  <2>2. ASSUME \A f \in DOMAIN b : ~(b[f].to = j /\ b[f].side = side)
        PROVE  Seat(ns[j], side) = Seat(b[j], side)
    BY <1>8, <2>2 DEF Settled
  <2> QED
    BY <2>1, <2>2
<1>12. ASSUME NEW j \in DOMAIN b, FirstBye(ns[j])
       PROVE  ns[j].outcome \in {None, ByeSide(ns[j])}
  <2>1. FirstBye(ms[j]) /\ j # id
    BY <1>8, <1>9, <1>12
  <2>2. ms[j].outcome = ByeSide(ms[j])
    BY <2>1 DEF Settled
  <2> QED
    BY <1>5, <1>8, <2>1, <2>2
<1> QED
  BY <1>7, <1>10, <1>11, <1>12 DEF Moving, ns

-----------------------------------------------------------------------------
(***************************************************************************)
(* There is one settled bracket for a set of results, so the order of play *)
(* cannot be seen in it.                                                   *)
(***************************************************************************)
\* Results of the matches up to match n settle the matches below n, and say who
\* sits in match n.
LEMMA SettledBelow ==
  ASSUME NEW b, Tree(b), NEW n \in Nat, NEW S, NEW R, NEW ms, NEW ns,
         Settled(b, ms, S), Settled(b, ns, R),
         {r \in S : r.id < n} = {r \in R : r.id < n}
  PROVE  \A id \in DOMAIN b :
            /\ id < n => ms[id] = ns[id]
            /\ id <= n => ms[id].a = ns[id].a /\ ms[id].b = ns[id].b
<1>0. DOMAIN b \subseteq Nat \ {0}
  <2>1. PICK k \in Nat : DOMAIN b = 1 .. k
    BY DEF Tree
  <2> QED
    BY <2>1
<1>1. /\ DOMAIN ms = DOMAIN b /\ DOMAIN ns = DOMAIN b /\ AreMatches(ms) /\ AreMatches(ns)
      /\ \A id \in DOMAIN b : /\ ms[id].round = ns[id].round /\ ms[id].to = ns[id].to
                              /\ ms[id].side = ns[id].side
  BY DEF Settled, SameTree
<1>2. ASSUME NEW id \in DOMAIN b, \A f \in DOMAIN b : b[f].to = id => ms[f] = ns[f]
      PROVE  ms[id].a = ns[id].a /\ ms[id].b = ns[id].b
  <2>1. ASSUME NEW side \in {"A", "B"} PROVE Seat(ms[id], side) = Seat(ns[id], side)
    <3>1. ASSUME NEW f \in DOMAIN b, b[f].to = id, b[f].side = side
          PROVE  Seat(ms[id], side) = Seat(ns[id], side)
      <4>1. Seat(ms[id], side) = matchWinner(ms[f]) /\ Seat(ns[id], side) = matchWinner(ns[f])
        BY <3>1 DEF Settled
      <4> QED
        BY <1>2, <3>1, <4>1
    <3>2. ASSUME \A f \in DOMAIN b : ~(b[f].to = id /\ b[f].side = side)
          PROVE  Seat(ms[id], side) = Seat(ns[id], side)
      BY <3>2 DEF Settled
    <3> QED
      BY <3>1, <3>2
  <2> QED
    BY <2>1, SeatsOf
<1>3. ASSUME NEW id \in DOMAIN b, id < n, ms[id].a = ns[id].a, ms[id].b = ns[id].b
      PROVE  ms[id] = ns[id]
  <2>1. (FirstBye(ms[id]) <=> FirstBye(ns[id])) /\ ByeSide(ms[id]) = ByeSide(ns[id])
    BY <1>1, <1>3 DEF FirstBye, isBye, ByeSide
  <2>2. \A r : r.id = id => (r \in S <=> r \in R)
    BY <1>3
  <2>3. ms[id].outcome = ns[id].outcome
    <3>1. CASE FirstBye(ms[id])
      BY <2>1, <3>1 DEF Settled
    <3>2. CASE ~FirstBye(ms[id]) /\ \E r \in S : r.id = id
      <4>1. PICK r \in S : r.id = id
        BY <3>2
      <4>2. r \in R
        BY <2>2, <4>1
      <4> QED
        BY <4>1, <4>2 DEF Settled, Recorded
    <3>3. CASE ~FirstBye(ms[id]) /\ ~\E r \in S : r.id = id
      <4>1. ~\E r \in R : r.id = id
        BY <2>2, <3>3
      <4>2. ms[id].outcome = None /\ ns[id].outcome = None
        BY <2>1, <3>3, <4>1 DEF Settled, Recorded
      <4> QED
        BY <4>2
    <3> QED
      BY <3>1, <3>2, <3>3
  <2>4. IsMatch(ms[id]) /\ IsMatch(ns[id])
    BY <1>1 DEF AreMatches
  <2>5. ms[id].round = ns[id].round /\ ms[id].to = ns[id].to /\ ms[id].side = ns[id].side
    BY <1>1
  <2> QED
    BY <1>3, <2>3, <2>4, <2>5 DEF IsMatch
<1> DEFINE T == {id \in DOMAIN b : id < n /\ ms[id] # ns[id]}
<1>4. ASSUME T # {} PROVE FALSE
  <2>1. T \in SUBSET Nat
    BY <1>0
  <2>2. PICK id \in T : \A j \in T : id <= j
    <3> HIDE DEF T
    <3> QED
      BY <1>4, <2>1, LeastNumber
  <2>3. id \in DOMAIN b /\ id < n /\ ms[id] # ns[id] /\ id \in Nat \ {0}
    BY <1>0
  <2>4. \A f \in DOMAIN b : b[f].to = id => ms[f] = ns[f]
    <3> SUFFICES ASSUME NEW f \in DOMAIN b, b[f].to = id, ms[f] # ns[f] PROVE FALSE
      OBVIOUS
    <3>1. f < id /\ f \in Nat
      BY <1>0, <2>3 DEF Tree
    <3>2. f \in T
      BY <2>3, <3>1
    <3>3. id <= f
      <4> HIDE DEF T
      <4> QED
        BY <2>2, <3>2
    <3> QED
      BY <2>3, <3>1, <3>3
  <2> QED
    BY <1>2, <1>3, <2>3, <2>4
<1>5. \A id \in DOMAIN b : id < n => ms[id] = ns[id]
  BY <1>4
<1>6. ASSUME NEW id \in DOMAIN b, id <= n PROVE ms[id].a = ns[id].a /\ ms[id].b = ns[id].b
  <2>1. \A f \in DOMAIN b : b[f].to = id => f < id
    BY <1>0 DEF Tree
  <2>2. \A f \in DOMAIN b : b[f].to = id => f < n
    BY <1>0, <1>6, <2>1
  <2> QED
    BY <1>2, <1>5, <2>2
<1> QED
  BY <1>5, <1>6

\* The recorded results determine the settled bracket.
LEMMA SettledOnce ==
  ASSUME NEW b, Tree(b), NEW S, NEW ms, NEW ns, Settled(b, ms, S), Settled(b, ns, S)
  PROVE  ms = ns
<1>1. PICK k \in Nat : DOMAIN b = 1 .. k
  BY DEF Tree
<1>2. k + 1 \in Nat /\ {r \in S : r.id < k + 1} = {r \in S : r.id < k + 1}
  OBVIOUS
<1>3. \A id \in DOMAIN b : id < k + 1 => ms[id] = ns[id]
  BY <1>2, SettledBelow
<1>4. ms = [id \in DOMAIN b |-> ms[id]] /\ ns = [id \in DOMAIN b |-> ns[id]]
  BY DEF Settled, SameTree
<1>5. \A id \in DOMAIN b : ms[id] = ns[id]
  BY <1>1, <1>3
<1> QED
  BY <1>4, <1>5

-----------------------------------------------------------------------------
(***************************************************************************)
(* The tournament around the matches.                                      *)
(***************************************************************************)
Final(ms) == \E m \in ToSet(ms) : m.to = 0 /\ m.outcome # None

Cup(seeds, rounds, ms, complete) ==
  [format |-> "single_elimination", seeds |-> seeds, rounds |-> rounds, round |-> 0,
   matches |-> ms, complete |-> complete,
   score2 |-> [i \in 1 .. Len(seeds) |-> 0], played |-> [i \in 1 .. Len(seeds) |-> {}]]

\* A single elimination in which exactly the results S were recorded.
InPlay(t, seeds, rounds, S) ==
  /\ t = Cup(seeds, rounds, t.matches, Final(t.matches))
  /\ Settled(buildSingleElim(seeds), t.matches, S)

\* The fields of a single elimination.
LEMMA CupFields ==
  ASSUME NEW seeds, NEW rounds, NEW ms, NEW c
  PROVE  LET t == Cup(seeds, rounds, ms, c) IN
         /\ t.format = "single_elimination" /\ t.seeds = seeds /\ t.matches = ms
         /\ t.complete = c /\ t.rounds = rounds
BY DEF Cup

\* Replacing its matches.
LEMMA CupMatches ==
  ASSUME NEW seeds, NEW rounds, NEW ms, NEW c, NEW ns
  PROVE  [Cup(seeds, rounds, ms, c) EXCEPT !.matches = ns] = Cup(seeds, rounds, ns, c)
<1> DEFINE f == "single_elimination"
           x == [i \in 1 .. Len(seeds) |-> 0]
           y == [i \in 1 .. Len(seeds) |-> {}]
           old == [format |-> f, seeds |-> seeds, rounds |-> rounds, round |-> 0, matches |-> ms,
            complete |-> c, score2 |-> x, played |-> y]
           new == [format |-> f, seeds |-> seeds, rounds |-> rounds, round |-> 0, matches |-> ns,
            complete |-> c, score2 |-> x, played |-> y]
<1>1. Cup(seeds, rounds, ms, c) = old /\ Cup(seeds, rounds, ns, c) = new
  BY DEF Cup
<1> HIDE DEF f, x, y
<1>2. [old EXCEPT !.matches = ns] = new
  OBVIOUS
<1> QED
  BY <1>1, <1>2

\* Replacing its completion flag.
LEMMA CupComplete ==
  ASSUME NEW seeds, NEW rounds, NEW ms, NEW c, NEW d
  PROVE  [Cup(seeds, rounds, ms, c) EXCEPT !.complete = d] = Cup(seeds, rounds, ms, d)
<1> DEFINE f == "single_elimination"
           x == [i \in 1 .. Len(seeds) |-> 0]
           y == [i \in 1 .. Len(seeds) |-> {}]
           old == [format |-> f, seeds |-> seeds, rounds |-> rounds, round |-> 0, matches |-> ms,
            complete |-> c, score2 |-> x, played |-> y]
           new == [format |-> f, seeds |-> seeds, rounds |-> rounds, round |-> 0, matches |-> ms,
            complete |-> d, score2 |-> x, played |-> y]
<1>1. Cup(seeds, rounds, ms, c) = old /\ Cup(seeds, rounds, ms, d) = new
  BY DEF Cup
<1> HIDE DEF f, x, y
<1>2. [old EXCEPT !.complete = d] = new
  OBVIOUS
<1> QED
  BY <1>1, <1>2

\* recomputeComplete sets the flag exactly when the final is decided.
LEMMA Recomputed ==
  ASSUME NEW seeds, NEW rounds, NEW ms, NEW c
  PROVE  recomputeComplete(Cup(seeds, rounds, ms, c)) = Cup(seeds, rounds, ms, Final(ms))
<1> DEFINE t == Cup(seeds, rounds, ms, c)
<1>1. /\ t.format = "single_elimination" /\ t.matches = ms
      /\ [t EXCEPT !.complete = Final(ms)] = Cup(seeds, rounds, ms, Final(ms))
  BY CupFields, CupComplete
<1> HIDE DEF t
<1>2. recomputeComplete(t) = [t EXCEPT !.complete = Final(ms)]
  BY <1>1, Zenon DEF recomputeComplete, Final
<1> QED
  BY <1>1, <1>2 DEF t

\* advance settles the bracket and recomputes the flag.
LEMMA Advanced ==
  ASSUME NEW seeds, NEW rounds, NEW ms, NEW c
  PROVE  LET ns == advanceSingleElim(ms, Len(seeds)) IN
         advance(Cup(seeds, rounds, ms, c)) = Cup(seeds, rounds, ns, Final(ns))
<1> DEFINE t  == Cup(seeds, rounds, ms, c)
           ns == advanceSingleElim(ms, Len(seeds))
<1>1. /\ t.format = "single_elimination" /\ t.matches = ms /\ t.seeds = seeds
      /\ [t EXCEPT !.matches = ns] = Cup(seeds, rounds, ns, c)
  BY CupFields, CupMatches
<1> HIDE DEF t
<1>2. advance(t) = recomputeComplete([t EXCEPT !.matches = ns])
  BY <1>1, Zenon DEF advance
<1> HIDE DEF ns
<1>3. advance(t) = recomputeComplete(Cup(seeds, rounds, ns, c))
  BY <1>1, <1>2
<1> QED
  BY <1>3, Recomputed, Zenon DEF t, ns

\* Tournament.new: nothing recorded, the byes decided.
LEMMA NewInPlay ==
  ASSUME NEW seeds, Len(seeds) \in Nat \ {0}, NEW rounds
  PROVE  InPlay(newTournament("single_elimination", seeds, rounds), seeds, rounds, {})
<1> DEFINE b     == buildSingleElim(seeds)
           ns    == advanceSingleElim(b, Len(seeds))
           no    == FALSE
           blank == Cup(seeds, rounds, <<>>, no)
           t     == newTournament("single_elimination", seeds, rounds)
<1>1. Settled(b, ns, {})
  <2>1. Tree(b)
    BY BuiltTree
  <2> HIDE DEF b
  <2> QED
    BY <2>1, BuiltMoves, AdvanceSettles
<1>2. t = recomputeComplete([blank EXCEPT !.matches = ns])
  BY Zenon DEF newTournament, Cup
<1> HIDE DEF b, ns, no, blank, t
<1>3. [blank EXCEPT !.matches = ns] = Cup(seeds, rounds, ns, no)
  BY CupMatches DEF blank
<1>4. t = Cup(seeds, rounds, ns, Final(ns))
  BY <1>2, <1>3, Recomputed
<1>5. t.matches = ns
  BY <1>4, CupFields
<1> QED
  BY <1>1, <1>4, <1>5 DEF InPlay, t, b

\* Tournament.record.
LEMMA RecordInPlay ==
  ASSUME NEW seeds, Len(seeds) \in Nat \ {0}, NEW rounds, NEW S, NEW t,
         InPlay(t, seeds, rounds, S), NEW r, r.id \in pending(t), r.outcome # None
  PROVE  InPlay(record(t, r.id, r.outcome), seeds, rounds, S \cup {r})
<1> DEFINE b  == buildSingleElim(seeds)
           ms == t.matches
           o  == r.outcome
           id == r.id
           ks == [ms EXCEPT ![id] = [ms[id] EXCEPT !.outcome = o]]
           ns == advanceSingleElim(ks, Len(seeds))
           u  == record(t, id, o)
           c  == Final(ms)
<1>1. t = Cup(seeds, rounds, ms, c) /\ Settled(b, ms, S)
  BY DEF InPlay
<1>2. Tree(b)
  BY BuiltTree
<1>3. id \in DOMAIN b /\ isReady(ms[id])
  <2>1. id \in DOMAIN ms /\ isReady(ms[id])
    BY DEF pending
  <2> QED
    BY <1>1, <2>1 DEF Settled, SameTree
<1>4. Moving(b, ks, S \cup {r})
  <2> HIDE DEF b
  <2> QED
    BY <1>1, <1>2, <1>3, RecordMoves
<1>5. Settled(b, ns, S \cup {r})
  <2> HIDE DEF b, ks
  <2> QED
    BY <1>2, <1>4, AdvanceSettles
<1>6. u = advance([t EXCEPT !.matches = ks])
  BY DEF record
<1> HIDE DEF b, ks, ns, u, ms, c, o, id
<1>7. [t EXCEPT !.matches = ks] = Cup(seeds, rounds, ks, c)
  <2>1. t = Cup(seeds, rounds, ms, c)
    BY <1>1
  <2>2. ASSUME NEW v, v = Cup(seeds, rounds, ms, c)
        PROVE  [v EXCEPT !.matches = ks] = Cup(seeds, rounds, ks, c)
    BY <2>2, CupMatches
  <2> QED
    BY <2>1, <2>2, Zenon
<1>8. u = Cup(seeds, rounds, ns, Final(ns))
  <2>1. ASSUME NEW v
        PROVE  LET x == advanceSingleElim(ks, Len(seeds)) IN
               advance(Cup(seeds, rounds, ks, v)) = Cup(seeds, rounds, x, Final(x))
    BY Advanced
  <2>2. ASSUME NEW v
        PROVE  advance(Cup(seeds, rounds, ks, v)) = Cup(seeds, rounds, ns, Final(ns))
    BY <2>1, Zenon DEF ns
  <2>3. ASSUME NEW v, NEW w, w = Cup(seeds, rounds, ks, v)
        PROVE  advance(w) = Cup(seeds, rounds, ns, Final(ns))
    BY <2>2, <2>3
  <2>4. u = advance([t EXCEPT !.matches = ks])
    BY <1>6
  <2>5. advance([t EXCEPT !.matches = ks]) = Cup(seeds, rounds, ns, Final(ns))
    BY <1>7, <2>3
  <2> QED
    BY <2>4, <2>5, Zenon
<1>9. u.matches = ns
  BY <1>8, CupFields
<1> QED
  BY <1>5, <1>8, <1>9 DEF InPlay, u, b, o, id

\* Two single eliminations with the same results are the same.
LEMMA SameResults ==
  ASSUME NEW seeds, Len(seeds) \in Nat, NEW rounds, NEW S, NEW t, NEW u,
         InPlay(t, seeds, rounds, S), InPlay(u, seeds, rounds, S)
  PROVE  t = u
<1>1. t.matches = u.matches
  <2> DEFINE b == buildSingleElim(seeds)
  <2>1. Tree(b) /\ Settled(b, t.matches, S) /\ Settled(b, u.matches, S)
    BY BuiltTree DEF InPlay
  <2> HIDE DEF b
  <2> QED
    BY <2>1, SettledOnce
<1> QED
  BY <1>1, Zenon DEF InPlay

-----------------------------------------------------------------------------
(***************************************************************************)
(* Replaying a list of results, one after the other.                       *)
(***************************************************************************)
\* The fold over the results, as a function of the sets of positions it has been
\* through.
Run(st, rs, n, f) ==
  f = [S \in SUBSET (1 .. n) |->
          IF S = {} THEN st
          ELSE LET x == Max(S) IN Stepped(f[S \ {x}], rs[x])]

\* What comes last in a list of one more.
LEMMA LastOne ==
  ASSUME NEW n \in Nat, NEW S \in SUBSET (1 .. n + 1), n + 1 \in S
  PROVE  Max(S) = n + 1
<1>1. \A y \in S : n + 1 >= y
  OBVIOUS
<1>2. ASSUME NEW x \in S, \A y \in S : x >= y PROVE x = n + 1
  BY <1>2
<1> QED
  BY <1>1, <1>2 DEF Max

\* The replay has a state after every result.
LEMMA RunExists ==
  ASSUME NEW st, NEW rs, NEW n \in Nat
  PROVE  \E f : Run(st, rs, n, f)
<1> DEFINE T == {k \in Nat : \E f : Run(st, rs, k, f)}
<1>1. 0 \in T
  <2>1. Run(st, rs, 0, [S \in SUBSET (1 .. 0) |-> st])
    <3>1. \A S \in SUBSET (1 .. 0) : S = {}
      OBVIOUS
    <3> QED
      BY <3>1 DEF Run
  <2> QED
    BY <2>1
<1>2. ASSUME NEW k \in T PROVE k + 1 \in T
  <2>1. PICK f : Run(st, rs, k, f)
    OBVIOUS
  <2> DEFINE g == [S \in SUBSET (1 .. k + 1) |->
                      IF k + 1 \in S THEN Stepped(f[S \ {k + 1}], rs[k + 1]) ELSE f[S]]
  <2>2. Run(st, rs, k + 1, g)
    <3> SUFFICES ASSUME NEW S \in SUBSET (1 .. k + 1)
                 PROVE  g[S] = IF S = {} THEN st
                               ELSE Stepped(g[S \ {Max(S)}], rs[Max(S)])
      BY DEF Run
    <3>1. CASE k + 1 \in S
      <4>1. Max(S) = k + 1
        BY <3>1, LastOne
      <4>2. g[S \ {k + 1}] = f[S \ {k + 1}] /\ S # {}
        BY <3>1
      <4> QED
        BY <3>1, <4>1, <4>2
    <3>2. CASE k + 1 \notin S
      <4>1. S \in SUBSET (1 .. k) /\ g[S] = f[S]
        BY <3>2
      <4>2. f[S] = IF S = {} THEN st ELSE Stepped(f[S \ {Max(S)}], rs[Max(S)])
        BY <2>1, <4>1 DEF Run
      <4>3. g[S \ {Max(S)}] = f[S \ {Max(S)}]
        BY <3>2
      <4> QED
        BY <4>1, <4>2, <4>3
    <3> QED
      BY <3>1, <3>2
  <2> QED
    BY <2>2
<1>3. T = Nat
  <2>1. T \in SUBSET Nat
    OBVIOUS
  <2> HIDE DEF T
  <2>2. \A k \in T : k + 1 \in T
    BY <1>2
  <2> QED
    BY <1>1, <2>1, <2>2, AllNumbers, Zenon
<1> QED
  BY <1>3

\* The run of a list, and where it ends.
TheRun(st, rs) == CHOOSE f : Run(st, rs, Len(rs), f)

\* reconstruct returns the last of them.
LEMMA RunEnds ==
  ASSUME NEW st, NEW R, NEW rs \in Seq(R)
  PROVE  Run(st, rs, Len(rs), TheRun(st, rs)) /\ FoldLeft(Stepped, st, rs) = TheRun(st, rs)[1 .. Len(rs)]
<1>1. Len(rs) \in Nat /\ DOMAIN rs = 1 .. Len(rs)
  OBVIOUS
<1>2. Run(st, rs, Len(rs), TheRun(st, rs))
  BY <1>1, RunExists DEF TheRun
<1>3. FoldLeft(Stepped, st, rs)
         = MapThenFoldSet(LAMBDA x, y : Stepped(y, x), st, LAMBDA i : rs[i],
                          LAMBDA S : Max(S), 1 .. Len(rs))
  BY <1>1, Zenon DEF FoldLeft
<1>4. FoldLeft(Stepped, st, rs) = TheRun(st, rs)[1 .. Len(rs)]
  BY <1>3, Zenon DEF MapThenFoldSet, TheRun, Run
<1> QED
  BY <1>2, <1>4

\* One more position is one more step.
LEMMA RunStep ==
  ASSUME NEW st, NEW rs, NEW n \in Nat, NEW f, Run(st, rs, n, f), NEW k \in Nat, k + 1 <= n
  PROVE  f[1 .. k + 1] = Stepped(f[1 .. k], rs[k + 1])
<1>1. 1 .. k + 1 \in SUBSET (1 .. n) /\ k + 1 \in 1 .. k + 1
      /\ (1 .. k + 1) \ {k + 1} = 1 .. k
  OBVIOUS
<1>2. Max(1 .. k + 1) = k + 1
  BY <1>1, LastOne
<1>3. 1 .. k + 1 # {}
  BY <1>1
<1>4. f[1 .. k + 1] = LET x == Max(1 .. k + 1) IN Stepped(f[(1 .. k + 1) \ {x}], rs[x])
  BY <1>1, <1>3 DEF Run
<1> QED
  BY <1>1, <1>2, <1>4

\* The replay starts from the new tournament.
LEMMA RunStart ==
  ASSUME NEW st, NEW rs, NEW n \in Nat, NEW f, Run(st, rs, n, f)
  PROVE  f[1 .. 0] = st
<1>1. 1 .. 0 = {}
  OBVIOUS
<1> QED
  BY <1>1 DEF Run

\* Two lists that begin alike are replayed alike so far.
LEMMA SamePrefix ==
  ASSUME NEW st, NEW R, NEW rs \in Seq(R), NEW ss \in Seq(R), Len(rs) <= Len(ss),
         \A k \in 1 .. Len(rs) : rs[k] = ss[k]
  PROVE  TheRun(st, rs)[1 .. Len(rs)] = TheRun(st, ss)[1 .. Len(rs)]
<1> DEFINE f == TheRun(st, rs)
           g == TheRun(st, ss)
           n == Len(rs)
           m == Len(ss)
           T == {k \in Nat : k <= n => f[1 .. k] = g[1 .. k]}
<1>0. /\ Run(st, rs, n, f) /\ Run(st, ss, m, g) /\ n \in Nat /\ m \in Nat /\ n <= m
      /\ \A k \in 1 .. n : rs[k] = ss[k]
  BY RunEnds
<1> HIDE DEF f, g, n, m
<1>1. 0 \in T
  BY <1>0, RunStart
<1>2. ASSUME NEW k \in T PROVE k + 1 \in T
  <2> SUFFICES ASSUME k + 1 <= n PROVE f[1 .. k + 1] = g[1 .. k + 1]
    OBVIOUS
  <2>1. k \in Nat /\ k + 1 <= m /\ f[1 .. k] = g[1 .. k] /\ rs[k + 1] = ss[k + 1]
    BY <1>0
  <2>2. f[1 .. k + 1] = Stepped(f[1 .. k], rs[k + 1])
    BY <1>0, <2>1, RunStep
  <2>3. g[1 .. k + 1] = Stepped(g[1 .. k], ss[k + 1])
    BY <1>0, <2>1, RunStep
  <2> QED
    BY <2>1, <2>2, <2>3
<1>3. T = Nat
  <2>1. T \in SUBSET Nat
    OBVIOUS
  <2> HIDE DEF T
  <2>2. \A k \in T : k + 1 \in T
    BY <1>2
  <2> QED
    BY <1>1, <2>1, <2>2, AllNumbers, Zenon
<1> QED
  BY <1>0, <1>3 DEF f, g, n

\* Replaying no results changes nothing.
LEMMA RunNothing ==
  ASSUME NEW st
  PROVE  FoldLeft(Stepped, st, <<>>) = st
<1>1. <<>> \in Seq({}) /\ Len(<<>>) = 0
  OBVIOUS
<1>2. /\ Run(st, <<>>, 0, TheRun(st, <<>>))
      /\ FoldLeft(Stepped, st, <<>>) = TheRun(st, <<>>)[1 .. 0]
  BY <1>1, RunEnds
<1> QED
  BY <1>2, RunStart

\* One more result is one more step.
LEMMA RunAppended ==
  ASSUME NEW st, NEW R, NEW rs \in Seq(R), NEW r \in R
  PROVE  FoldLeft(Stepped, st, Append(rs, r)) = Stepped(FoldLeft(Stepped, st, rs), r)
<1> DEFINE ss == Append(rs, r)
           n  == Len(rs)
<1>1. /\ n \in Nat /\ ss \in Seq(R) /\ Len(ss) = n + 1 /\ ss[n + 1] = r
      /\ \A k \in 1 .. n : rs[k] = ss[k]
  OBVIOUS
<1> HIDE DEF ss, n
<1>2. Run(st, rs, n, TheRun(st, rs)) /\ FoldLeft(Stepped, st, rs) = TheRun(st, rs)[1 .. n]
  BY RunEnds DEF n
<1>3. Run(st, ss, n + 1, TheRun(st, ss)) /\ FoldLeft(Stepped, st, ss) = TheRun(st, ss)[1 .. n + 1]
  BY <1>1, RunEnds
<1>4. TheRun(st, rs)[1 .. n] = TheRun(st, ss)[1 .. n]
  <2>1. Len(rs) <= Len(ss) /\ \A k \in 1 .. Len(rs) : rs[k] = ss[k]
    BY <1>1 DEF n
  <2> QED
    BY <1>1, <2>1, SamePrefix DEF n
<1>5. TheRun(st, ss)[1 .. n + 1] = Stepped(TheRun(st, ss)[1 .. n], ss[n + 1])
  <2> DEFINE f == TheRun(st, ss)
             m == n + 1
  <2>1. m \in Nat /\ n + 1 <= m /\ n \in Nat
    BY <1>1
  <2>2. Run(st, ss, m, f)
    BY <1>3
  <2> HIDE DEF f, m
  <2>3. f[1 .. n + 1] = Stepped(f[1 .. n], ss[n + 1])
    BY <2>1, <2>2, RunStep
  <2> QED
    BY <2>3 DEF f
<1> QED
  BY <1>1, <1>2, <1>3, <1>4, <1>5 DEF ss

\* A single elimination in play has that format and its own seeds.
LEMMA PlayFormat ==
  ASSUME NEW t, NEW seeds, NEW rounds, NEW S, InPlay(t, seeds, rounds, S)
  PROVE  t.format = "single_elimination" /\ t.seeds = seeds
BY DEF InPlay, Cup

\* Where a replay has come with the results S.
Stage(s, seeds, rounds, S) ==
  s = [ok |-> s.ok, t |-> s.t] /\ (s.ok => InPlay(s.t, seeds, rounds, S))

\* One result of a single elimination: recorded, or refused for good.
LEMMA StepInPlay ==
  ASSUME NEW seeds, Len(seeds) \in Nat \ {0}, NEW rounds, NEW S, NEW s,
         Stage(s, seeds, rounds, S), NEW r, r.outcome # None
  PROVE  /\ Stage(Stepped(s, r), seeds, rounds, S \cup {r})
         /\ Stepped(s, r).ok => s.ok /\ r.outcome # "Draw" /\ r.id \in pending(s.t)
<1> DEFINE t == s.t
           o == r.outcome
           n == record(t, r.id, o)
           u == Stepped(s, r)
<1>1. CASE s.ok /\ Recordable(t, r.id, o)
  <2>1. InPlay(t, seeds, rounds, S)
    BY <1>1 DEF Stage
  <2>2. t.format = "single_elimination"
    BY <2>1, PlayFormat
  <2>3. r.id \in pending(t) /\ o # "Draw"
    BY <1>1, <2>2 DEF Recordable
  <2>4. InPlay(n, seeds, rounds, S \cup {r})
    <3> HIDE DEF t
    <3> QED
      BY <2>1, <2>3, RecordInPlay
  <2>5. u = [s EXCEPT !.t = n]
    BY <1>1 DEF Stepped
  <2> HIDE DEF n, u
  <2>6. u = [ok |-> u.ok, t |-> u.t] /\ u.t = n /\ u.ok = s.ok
    BY <2>5 DEF Stage
  <2> QED
    BY <1>1, <2>3, <2>4, <2>6 DEF Stage, u
<1>2. CASE ~(s.ok /\ Recordable(t, r.id, o))
  <2>1. u = [s EXCEPT !.ok = FALSE]
    BY <1>2 DEF Stepped
  <2> HIDE DEF u
  <2>2. u = [ok |-> u.ok, t |-> u.t] /\ u.ok = FALSE
    BY <2>1 DEF Stage
  <2> QED
    BY <2>2 DEF Stage, u
<1> QED
  BY <1>1, <1>2

\* Every position of a run is a stage with the results so far.
LEMMA RunStages ==
  ASSUME NEW seeds, Len(seeds) \in Nat \ {0}, NEW rounds, NEW st, Stage(st, seeds, rounds, {}),
         NEW rs, NEW n \in Nat, \A i \in 1 .. n : rs[i].outcome # None,
         NEW f, Run(st, rs, n, f), NEW k \in Nat, k <= n
  PROVE  /\ Stage(f[1 .. k], seeds, rounds, {rs[i] : i \in 1 .. k})
         /\ f[1 .. k].ok => \A i \in 1 .. k : rs[i].outcome # "Draw"
<1> DEFINE T == {j \in Nat : j <= n =>
                   /\ Stage(f[1 .. j], seeds, rounds, {rs[i] : i \in 1 .. j})
                   /\ f[1 .. j].ok => \A i \in 1 .. j : rs[i].outcome # "Draw"}
<1>1. 0 \in T
  <2>1. f[1 .. 0] = st /\ {rs[i] : i \in 1 .. 0} = {}
    BY RunStart
  <2> QED
    BY <2>1
<1>2. ASSUME NEW j \in T PROVE j + 1 \in T
  <2> SUFFICES ASSUME j + 1 <= n
               PROVE  /\ Stage(f[1 .. j + 1], seeds, rounds, {rs[i] : i \in 1 .. j + 1})
                      /\ f[1 .. j + 1].ok => \A i \in 1 .. j + 1 : rs[i].outcome # "Draw"
    OBVIOUS
  <2> DEFINE r == rs[j + 1]
             v == f[1 .. j]
             O == {rs[i] : i \in 1 .. j}
  <2>1. /\ j \in Nat /\ j <= n
        /\ Stage(v, seeds, rounds, O)
        /\ v.ok => \A i \in 1 .. j : rs[i].outcome # "Draw"
    OBVIOUS
  <2>2. r.outcome # None
    BY <2>1
  <2>3. f[1 .. j + 1] = Stepped(v, r)
    <3> HIDE DEF T
    <3> QED
      BY <2>1, RunStep
  <2>4. {rs[i] : i \in 1 .. j + 1} = O \cup {r}
    BY <2>1
  <2>5. \A i \in 1 .. j + 1 : i \in 1 .. j \/ rs[i] = r
    BY <2>1
  <2> HIDE DEF v, r, O, T
  <2>6. /\ Stage(Stepped(v, r), seeds, rounds, O \cup {r})
        /\ Stepped(v, r).ok => v.ok /\ r.outcome # "Draw" /\ r.id \in pending(v.t)
    BY <2>1, <2>2, StepInPlay
  <2> QED
    BY <2>1, <2>3, <2>4, <2>5, <2>6
<1>3. T = Nat
  <2>1. T \in SUBSET Nat
    OBVIOUS
  <2> HIDE DEF T
  <2>2. \A j \in T : j + 1 \in T
    BY <1>2
  <2> QED
    BY <1>1, <2>1, <2>2, AllNumbers, Zenon
<1> QED
  BY <1>3

\* A list of results that is replayed to its end is a single elimination with
\* exactly these results, and no draw.
LEMMA ReplayInPlay ==
  ASSUME NEW seeds, Len(seeds) \in Nat \ {0}, NEW rounds, NEW R, \A r \in R : r.outcome # None,
         NEW rs \in Seq(R), NEW run, run = reconstruct("single_elimination", seeds, rounds, rs),
         run.ok
  PROVE  InPlay(run.t, seeds, rounds, ToSet(rs)) /\ \A r \in ToSet(rs) : r.outcome # "Draw"
<1> DEFINE st == [ok |-> TRUE, t |-> newTournament("single_elimination", seeds, rounds)]
           n  == Len(rs)
           f  == TheRun(st, rs)
<1>1. n \in Nat /\ DOMAIN rs = 1 .. n /\ \A i \in 1 .. n : rs[i] \in R /\ rs[i].outcome # None
  OBVIOUS
<1>2. Run(st, rs, n, f) /\ run = f[1 .. n]
  <2>1. run = FoldLeft(Stepped, st, rs)
    BY Zenon DEF reconstruct
  <2> QED
    BY <2>1, RunEnds
<1>3. Stage(st, seeds, rounds, {})
  BY NewInPlay DEF Stage
<1> HIDE DEF f, n, st
<1>4. /\ Stage(f[1 .. n], seeds, rounds, {rs[i] : i \in 1 .. n})
      /\ f[1 .. n].ok => \A i \in 1 .. n : rs[i].outcome # "Draw"
  <2>1. n \in Nat /\ n <= n /\ \A i \in 1 .. n : rs[i].outcome # None
    BY <1>1
  <2> QED
    BY <1>2, <1>3, <2>1, RunStages
<1>5. {rs[i] : i \in 1 .. n} = ToSet(rs)
  BY <1>1 DEF ToSet
<1> QED
  BY <1>1, <1>2, <1>4, <1>5 DEF Stage, ToSet

\* The order of the results does not matter: two lists of the same results that
\* are both replayed to their end are the same tournament.
THEOREM ReplaySame ==
  ASSUME NEW seeds, Len(seeds) \in Nat \ {0}, NEW rounds, NEW R, \A r \in R : r.outcome # None,
         NEW rs \in Seq(R), NEW ss \in Seq(R), ToSet(rs) = ToSet(ss),
         reconstruct("single_elimination", seeds, rounds, rs).ok,
         reconstruct("single_elimination", seeds, rounds, ss).ok
  PROVE  reconstruct("single_elimination", seeds, rounds, rs).t
           = reconstruct("single_elimination", seeds, rounds, ss).t
<1> DEFINE x == reconstruct("single_elimination", seeds, rounds, rs)
           y == reconstruct("single_elimination", seeds, rounds, ss)
<1> HIDE DEF x, y
<1>1. InPlay(x.t, seeds, rounds, ToSet(rs))
  BY ReplayInPlay DEF x
<1>2. InPlay(y.t, seeds, rounds, ToSet(ss))
  BY ReplayInPlay DEF y
<1>3. x.t = y.t
  BY <1>1, <1>2, SameResults
<1> QED
  BY <1>3 DEF x, y

-----------------------------------------------------------------------------
(***************************************************************************)
(* Sorting: what a strict total order R of a finite set S makes of it.     *)
(***************************************************************************)
Orders(S, R) ==
  /\ \A x \in S : <<x, x>> \notin R
  /\ \A x, y \in S : x # y => <<x, y>> \in R \/ <<y, x>> \in R
  /\ \A x, y, z \in S : <<x, y>> \in R /\ <<y, z>> \in R => <<x, z>> \in R

Below(S, R, x) == {y \in S : <<y, x>> \in R}

\* What Sorted chooses.
Ranked(S, R, g) ==
  /\ g \in [1 .. Cardinality(S) -> S]
  /\ \A k \in 1 .. Cardinality(S) : Cardinality(Below(S, R, g[k])) = k - 1

\* S in the order R, as a list.
Ordered(S, R, g) ==
  /\ g \in [1 .. Cardinality(S) -> S]
  /\ \A i, j \in 1 .. Cardinality(S) : i < j => <<g[i], g[j]>> \in R

\* Who comes later has more before them.
LEMMA RankGrows ==
  ASSUME NEW S, IsFiniteSet(S), NEW R, Orders(S, R), NEW x \in S, NEW y \in S, <<x, y>> \in R
  PROVE  Cardinality(Below(S, R, x)) < Cardinality(Below(S, R, y))
<1> DEFINE X == Below(S, R, x)
           Y == Below(S, R, y)
<1>1. X \in SUBSET Y /\ X # Y /\ Y \in SUBSET S
  BY DEF Orders, Below
<1> HIDE DEF X, Y
<1>2. IsFiniteSet(Y)
  BY <1>1, FS_Subset
<1>3. /\ IsFiniteSet(X) /\ Cardinality(X) <= Cardinality(Y)
      /\ Cardinality(Y) = Cardinality(X) => Y = X
  BY <1>1, <1>2, FS_Subset
<1>4. Cardinality(X) \in Nat /\ Cardinality(Y) \in Nat
  BY <1>2, <1>3, FS_CardinalityType
<1>5. Cardinality(X) < Cardinality(Y)
  BY <1>1, <1>3, <1>4
<1> QED
  BY <1>5 DEF X, Y

\* The ranks are 0 to n - 1, each taken once.
LEMMA Ranks ==
  ASSUME NEW S, IsFiniteSet(S), NEW R, Orders(S, R)
  PROVE  /\ Cardinality(S) \in Nat
         /\ \A x \in S : Cardinality(Below(S, R, x)) \in 0 .. Cardinality(S) - 1
         /\ \A x, y \in S : Cardinality(Below(S, R, x)) = Cardinality(Below(S, R, y)) => x = y
         /\ \A k \in 1 .. Cardinality(S) : \E x \in S : Cardinality(Below(S, R, x)) = k - 1
<1> DEFINE n == Cardinality(S)
           rank == [x \in S |-> Cardinality(Below(S, R, x)) + 1]
<1>1. n \in Nat
  BY FS_CardinalityType
<1>2. \A x \in S : Cardinality(Below(S, R, x)) \in 0 .. n - 1
  <2> SUFFICES ASSUME NEW x \in S PROVE Cardinality(Below(S, R, x)) \in 0 .. n - 1
    OBVIOUS
  <2> DEFINE X == Below(S, R, x)
  <2>1. X \in SUBSET S /\ X # S
    BY DEF Orders, Below
  <2> HIDE DEF X
  <2>2. /\ IsFiniteSet(X) /\ Cardinality(X) <= Cardinality(S)
        /\ Cardinality(S) = Cardinality(X) => S = X
    BY <2>1, FS_Subset
  <2>3. Cardinality(X) \in Nat
    BY <2>2, FS_CardinalityType
  <2> QED
    BY <1>1, <2>1, <2>2, <2>3 DEF X
<1>3. ASSUME NEW x \in S, NEW y \in S, x # y
      PROVE  Cardinality(Below(S, R, x)) # Cardinality(Below(S, R, y))
  <2>1. /\ Cardinality(Below(S, R, x)) \in Int
        /\ Cardinality(Below(S, R, y)) \in Int
    BY <1>1, <1>2
  <2>2. CASE <<x, y>> \in R
    BY <2>1, <2>2, RankGrows
  <2>3. CASE <<y, x>> \in R
    BY <2>1, <2>3, RankGrows
  <2> QED
    BY <1>3, <2>2, <2>3 DEF Orders
<1>4. rank \in Injection(S, 1 .. n)
  <2>1. \A x \in S : rank[x] = Cardinality(Below(S, R, x)) + 1 /\ rank[x] \in 1 .. n
    BY <1>1, <1>2
  <2>2. rank \in [S -> 1 .. n]
    BY <2>1
  <2>3. \A x, y \in S : rank[x] = rank[y] => x = y
    BY <1>1, <1>2, <1>3, <2>1
  <2> HIDE DEF rank
  <2> QED
    BY <2>2, <2>3, Fun_IsInj
<1>5. rank \in Surjection(S, 1 .. n)
  <2>1. IsFiniteSet(1 .. n) /\ Cardinality(1 .. n) = n
    BY <1>1, FS_Interval
  <2> DEFINE N == 1 .. n
  <2> HIDE DEF rank, N
  <2> QED
    BY <1>4, <2>1, FS_Injection DEF N
<1>6. ASSUME NEW k \in 1 .. n PROVE \E x \in S : Cardinality(Below(S, R, x)) = k - 1
  <2>1. PICK x \in S : rank[x] = k
    <3> HIDE DEF rank
    <3> QED
      BY <1>5 DEF Surjection
  <2> QED
    BY <1>1, <1>2, <2>1
<1> QED
  BY <1>1, <1>2, <1>3, <1>6

\* A list by rank is a list in order.
LEMMA RankedOrders ==
  ASSUME NEW S, IsFiniteSet(S), NEW R, Orders(S, R), NEW g, Ranked(S, R, g)
  PROVE  Ordered(S, R, g)
<1> DEFINE n == Cardinality(S)
<1>1. n \in Nat /\ \A x \in S : Cardinality(Below(S, R, x)) \in 0 .. n - 1
  BY Ranks
<1>2. /\ \A k \in 1 .. n : g[k] \in S /\ Cardinality(Below(S, R, g[k])) = k - 1
      /\ g \in [1 .. n -> S]
  BY DEF Ranked
<1>4. ASSUME NEW i \in 1 .. n, NEW j \in 1 .. n, i < j PROVE <<g[i], g[j]>> \in R
  <2>1. g[i] # g[j] /\ g[i] \in S /\ g[j] \in S
    BY <1>1, <1>2, <1>4
  <2>2. CASE <<g[j], g[i]>> \in R
    <3>1. Cardinality(Below(S, R, g[j])) < Cardinality(Below(S, R, g[i]))
      BY <2>1, <2>2, RankGrows
    <3> QED
      BY <1>1, <1>2, <1>4, <3>1
  <2> QED
    BY <2>1, <2>2 DEF Orders
<1> QED
  BY <1>2, <1>4 DEF Ordered

\* A list in the order has every element, once.
LEMMA OrderedAll ==
  ASSUME NEW S, IsFiniteSet(S), NEW R, Orders(S, R), NEW g, Ordered(S, R, g)
  PROVE  /\ \A x \in S : \E k \in 1 .. Cardinality(S) : g[k] = x
         /\ \A i, j \in 1 .. Cardinality(S) : i # j => g[i] # g[j]
<1> DEFINE n == Cardinality(S)
           N == 1 .. n
<1>1. n \in Nat /\ IsFiniteSet(N) /\ Cardinality(N) = n
  BY FS_CardinalityType, FS_Interval
<1>2. g \in [N -> S] /\ \A i, j \in N : i < j => <<g[i], g[j]>> \in R
  BY DEF Ordered
<1>3. \A i, j \in N : i # j => g[i] # g[j]
  <2> SUFFICES ASSUME NEW i \in N, NEW j \in N, i # j PROVE g[i] # g[j]
    OBVIOUS
  <2>1. i < j \/ j < i
    BY <1>1
  <2>2. g[i] \in S /\ g[j] \in S
    BY <1>2
  <2> HIDE DEF N
  <2> QED
    BY <1>2, <2>1, <2>2 DEF Orders
<1> HIDE DEF N
<1>4. g \in Injection(N, S)
  BY <1>2, <1>3, Fun_IsInj
<1>5. Cardinality(N) = Cardinality(S)
  BY <1>1
<1>6. g \in Surjection(N, S)
  BY <1>4, <1>5, FS_Injection
<1> QED
  BY <1>3, <1>6 DEF N, Surjection

\* There is only one.
LEMMA OneOrder ==
  ASSUME NEW S, IsFiniteSet(S), NEW R, Orders(S, R), NEW f, Ordered(S, R, f),
         NEW g, Ordered(S, R, g)
  PROVE  g = f
<1> DEFINE n == Cardinality(S)
<1>1. n \in Nat
  BY FS_CardinalityType
<1>2. \A x \in S : \E k \in 1 .. n : f[k] = x
  BY OrderedAll
<1>3. g \in [1 .. n -> S] /\ f \in [1 .. n -> S]
  BY DEF Ordered
<1>4. \A i, j \in 1 .. n : i < j => <<g[i], g[j]>> \in R /\ <<f[i], f[j]>> \in R
  BY DEF Ordered
<1>5. \A i, j \in 1 .. n : i # j => g[i] # g[j] /\ f[i] # f[j]
  BY OrderedAll
<1>6. \A x \in S : \E k \in 1 .. n : g[k] = x
  BY OrderedAll
<1> HIDE DEF n
<1> DEFINE T == {k \in Nat : \A i \in 1 .. n : i <= k => g[i] = f[i]}
<1>7. 0 \in T
  OBVIOUS
<1>8. ASSUME NEW k \in T PROVE k + 1 \in T
  <2> SUFFICES ASSUME k + 1 \in 1 .. n PROVE g[k + 1] = f[k + 1]
    OBVIOUS
  <2> DEFINE m == k + 1
  <2>1. k \in Nat /\ \A i \in 1 .. n : i < m => g[i] = f[i]
    BY <1>1
  <2>2. PICK i \in 1 .. n : f[i] = g[m]
    BY <1>2, <1>3
  <2>3. PICK j \in 1 .. n : g[j] = f[m]
    BY <1>3, <1>6
  <2>4. ~(i < m)
    BY <1>1, <1>5, <2>1, <2>2
  <2>6. ~(j < m)
    BY <1>1, <1>5, <2>1, <2>3
  <2>7. CASE i = m
    BY <2>2, <2>7
  <2>8. CASE j = m
    BY <2>3, <2>8
  <2>9. CASE i > m /\ j > m
    <3>1. <<f[m], f[i]>> \in R /\ <<g[m], g[j]>> \in R
      BY <1>4, <2>9
    <3>2. <<f[m], g[m]>> \in R /\ <<g[m], f[m]>> \in R /\ f[m] \in S /\ g[m] \in S
      BY <1>3, <2>2, <2>3, <3>1
    <3> HIDE DEF T, m
    <3> QED
      BY <3>2 DEF Orders
  <2>5. i \in Nat /\ j \in Nat /\ m \in Nat
    BY <1>1
  <2> QED
    BY <2>4, <2>6, <2>7, <2>8, <2>9, <2>5
<1>9. T = Nat
  <2>1. T \in SUBSET Nat
    OBVIOUS
  <2> HIDE DEF T
  <2>2. \A k \in T : k + 1 \in T
    BY <1>8
  <2> QED
    BY <1>7, <2>1, <2>2, AllNumbers, Zenon
<1>a. \A i \in 1 .. n : g[i] = f[i]
  <2> SUFFICES ASSUME NEW i \in 1 .. n PROVE g[i] = f[i]
    OBVIOUS
  <2>1. i \in T /\ i <= i
    BY <1>1, <1>9
  <2> QED
    BY <2>1
<1>b. g = f
  <2>1. g = [i \in 1 .. n |-> g[i]] /\ f = [i \in 1 .. n |-> f[i]]
    BY <1>3
  <2>2. [i \in 1 .. n |-> g[i]] = [i \in 1 .. n |-> f[i]]
    BY <1>a
  <2> QED
    BY <2>1, <2>2
<1> QED
  BY <1>b

-----------------------------------------------------------------------------
(***************************************************************************)
(* The relayer's order of replay, and the order of the winners.            *)
(***************************************************************************)
LEMMA ListedFinite ==
  ASSUME NEW R, NEW rs \in Seq(R)
  PROVE  IsFiniteSet(ToSet(rs)) /\ ToSet(rs) \subseteq R
<1> DEFINE N == 1 .. Len(rs)
           S == ToSet(rs)
<1>1. IsFiniteSet(N) /\ DOMAIN rs = N /\ rs \in [N -> R]
  BY FS_Interval
<1>2. S = {rs[i] : i \in N}
  BY <1>1 DEF ToSet
<1> HIDE DEF N, S
<1>3. rs \in Surjection(N, S)
  BY <1>1, <1>2 DEF Surjection
<1>4. IsFiniteSet(S)
  BY <1>1, <1>3, FS_Surjection
<1> QED
  BY <1>1, <1>2, <1>4 DEF S

IdLess(S) == {p \in S \X S : p[1].id < p[2].id}

\* The relayer replays every result, once and in the order of the ids.
LEMMA ByIdLists ==
  ASSUME NEW S, IsFiniteSet(S), \A r \in S : r.id \in Nat,
         \A x, y \in S : x.id = y.id => x = y
  PROVE  /\ ById(S) \in Seq(S) /\ ToSet(ById(S)) = S /\ Len(ById(S)) = Cardinality(S)
         /\ \A i, j \in 1 .. Len(ById(S)) : i < j => ById(S)[i].id < ById(S)[j].id
<1> DEFINE R == IdLess(S)
           n == Cardinality(S)
           g == ById(S)
<1>1. \A x, y \in S : <<x, y>> \in R <=> x.id < y.id
  BY DEF IdLess
<1>2. Orders(S, R)
  BY <1>1 DEF Orders
<1>3. \A x \in S : Below(S, R, x) = {y \in S : y.id < x.id}
  BY <1>1 DEF Below
<1> HIDE DEF R
<1>4. /\ n \in Nat
      /\ \A k \in 1 .. n : \E x \in S : Cardinality(Below(S, R, x)) = k - 1
  BY <1>2, Ranks
<1>5. g = [k \in 1 .. n |-> CHOOSE x \in S : Cardinality({y \in S : y.id < x.id}) = k - 1]
  BY Zenon DEF ById, Sorted
<1> HIDE DEF g
<1>6. ASSUME NEW k \in 1 .. n
      PROVE  g[k] \in S /\ Cardinality(Below(S, R, g[k])) = k - 1
  <2>1. \E x \in S : Cardinality({y \in S : y.id < x.id}) = k - 1
    BY <1>3, <1>4
  <2>2. g[k] \in S /\ Cardinality({y \in S : y.id < g[k].id}) = k - 1
    BY <1>5, <2>1
  <2> QED
    BY <1>3, <2>2
<1>7. g \in [1 .. n -> S]
  BY <1>5, <1>6
<1>8. Ordered(S, R, g)
  BY <1>2, <1>6, <1>7, RankedOrders DEF Ranked
<1>9. \A x \in S : \E k \in 1 .. n : g[k] = x
  BY <1>2, <1>8, OrderedAll
<1>10. g \in Seq(S) /\ Len(g) = n /\ DOMAIN g = 1 .. n
  BY <1>4, <1>7
<1>11. ToSet(g) = S
  BY <1>7, <1>9, <1>10 DEF ToSet
<1>12. \A i, j \in 1 .. n : i < j => g[i].id < g[j].id
  BY <1>1, <1>7, <1>8 DEF Ordered
<1> QED
  BY <1>10, <1>11, <1>12 DEF g

OutBefore(t, D) == {p \in D \X D : OutLater(t, p[1], p[2])}

\* The rounds of a bracket are numbered below a bound.
LEMMA BuiltRounds ==
  ASSUME NEW seeds, Len(seeds) \in Nat
  PROVE  \E k \in Nat : \A id \in DOMAIN buildSingleElim(seeds) :
            buildSingleElim(seeds)[id].round \in 0 .. k
<1> DEFINE k == BracketRounds(seeds)
           b == buildSingleElim(seeds)
<1>1. k \in Nat /\ Power(k) \in Nat
  <2>1. (IF Len(seeds) < 2 THEN 2 ELSE Len(seeds)) \in Nat
    OBVIOUS
  <2>2. k \in Nat
    BY <2>1, NextPow2 DEF BracketRounds
  <2> QED
    BY <2>2, PowerAbove
<1>2. DOMAIN b = 1 .. Power(k) - 1
  BY Zenon DEF buildSingleElim, BracketRounds, Power
<1>3. ASSUME NEW id \in DOMAIN b PROVE b[id].round \in 0 .. k
  <2>1. id \in 1 .. Power(k) - 1
    BY <1>2
  <2>2. b[id].round = RoundIn(k, id)
    BY <2>1, BuiltMatches
  <2> HIDE DEF k
  <2>3. RoundIn(k, id) \in 0 .. k - 1
    BY <1>1, <2>1, OneRound
  <2> QED
    BY <1>1, <2>2, <2>3
<1> QED
  BY <1>1, <1>3

\* The round an entrant went out in is a number.
LEMMA ElimRounds ==
  ASSUME NEW seeds, Len(seeds) \in Nat, NEW rounds, NEW S, NEW t, InPlay(t, seeds, rounds, S),
         NEW i
  PROVE  elimRound(t, i) \in Nat
<1> DEFINE b  == buildSingleElim(seeds)
           lost == {m.round : m \in {x \in ToSet(t.matches) : matchLoser(x) = i}}
<1>1. PICK k \in Nat : \A id \in DOMAIN b : b[id].round \in 0 .. k
  BY BuiltRounds
<1>2. DOMAIN t.matches = DOMAIN b /\ \A id \in DOMAIN b : t.matches[id].round = b[id].round
  BY DEF InPlay, Settled, SameTree
<1> HIDE DEF b
<1>3. lost \subseteq 0 .. k
  BY <1>1, <1>2 DEF ToSet
<1>4. lost # {} => \E r \in lost : \A s \in lost : s <= r
  <2>1. lost \in SUBSET Nat /\ \A r \in lost : r <= k
    BY <1>3
  <2> HIDE DEF lost
  <2> QED
    BY <2>1, GreatestNumber
<1>5. elimRound(t, i) = IF lost = {} THEN 0 ELSE CHOOSE r \in lost : \A s \in lost : s <= r
  BY Zenon DEF elimRound
<1> HIDE DEF lost
<1>6. CASE lost = {}
  BY <1>5, <1>6
<1>7. CASE lost # {}
  <2>1. elimRound(t, i) \in lost
    BY <1>4, <1>5, <1>7
  <2>2. elimRound(t, i) \in 0 .. k
    BY <1>3, <2>1
  <2> QED
    BY <2>2
<1> QED
  BY <1>6, <1>7

\* Entrants with seeds of their own are told apart by round and seed.
LEMMA OutOrders ==
  ASSUME NEW seeds \in Seq(Nat), IsInjective(seeds), NEW rounds, NEW S, NEW t,
         InPlay(t, seeds, rounds, S), NEW D \in SUBSET DOMAIN seeds
  PROVE  /\ Orders(D, OutBefore(t, D))
         /\ \A x, y \in D : /\ <<x, y>> \in OutBefore(t, D) <=> OutLater(t, x, y)
                            /\ x # y => (OutLater(t, x, y) <=> ~OutLater(t, y, x))
                            /\ ~OutLater(t, x, x)
<1> DEFINE R == OutBefore(t, D)
<1>1. \A x \in D : elimRound(t, x) \in Nat
  BY ElimRounds
<1>2. t.seeds = seeds
  BY PlayFormat
<1>3. \A x \in D : seeds[x] \in Nat
  OBVIOUS
<1>4. \A x, y \in D : x # y => seeds[x] # seeds[y]
  BY DEF IsInjective
<1>5. \A x, y \in D : OutLater(t, x, y) <=>
         \/ elimRound(t, x) > elimRound(t, y)
         \/ elimRound(t, x) = elimRound(t, y) /\ seeds[x] < seeds[y]
  BY <1>2 DEF OutLater
<1>6. \A x, y \in D : x # y => (OutLater(t, x, y) <=> ~OutLater(t, y, x))
  BY <1>1, <1>3, <1>4, <1>5
<1>7. \A x \in D : ~OutLater(t, x, x)
  BY <1>1, <1>3, <1>5
<1>8. ASSUME NEW x \in D, NEW y \in D, NEW z \in D, OutLater(t, x, y), OutLater(t, y, z)
      PROVE  OutLater(t, x, z)
  <2> DEFINE ex == elimRound(t, x)
             ey == elimRound(t, y)
             ez == elimRound(t, z)
  <2>1. ex \in Nat /\ ey \in Nat /\ ez \in Nat
    BY <1>1
  <2>2. seeds[x] \in Nat /\ seeds[y] \in Nat /\ seeds[z] \in Nat
    BY <1>3
  <2>3. /\ ex > ey \/ (ex = ey /\ seeds[x] < seeds[y])
        /\ ey > ez \/ (ey = ez /\ seeds[y] < seeds[z])
    BY <1>5, <1>8
  <2> HIDE DEF ex, ey, ez
  <2>4. ex > ez \/ (ex = ez /\ seeds[x] < seeds[z])
    BY <2>1, <2>2, <2>3
  <2> QED
    BY <1>5, <2>4 DEF ex, ez
<1>9. \A x, y \in D : <<x, y>> \in R <=> OutLater(t, x, y)
  BY DEF OutBefore
<1> HIDE DEF R
<1>10. Orders(D, R)
  BY <1>6, <1>7, <1>8, <1>9 DEF Orders
<1> QED
  BY <1>6, <1>7, <1>9, <1>10 DEF R

-----------------------------------------------------------------------------
(***************************************************************************)
(* The relayer's winners are the engine's.                                 *)
(***************************************************************************)

\* Everybody but the champion, as singleElimOrder sorts them.
Rest(t, D) == Sorted(D, LAMBDA x, y : \/ OutLater(t, x, y)
                                      \/ ~OutLater(t, y, x) /\ x < y)

\* As the relayer sorts them.
Sorts(t, D, s) ==
  s \in SetToSeqs(D) /\ \A x, y \in DOMAIN s : x < y => ~OutLater(t, s[y], s[x])

\* With seeds of their own there is one order, and both find it.
LEMMA OneRest ==
  ASSUME NEW seeds \in Seq(Nat), IsInjective(seeds), NEW rounds, NEW S, NEW t,
         InPlay(t, seeds, rounds, S), NEW D \in SUBSET DOMAIN seeds, NEW s, Sorts(t, D, s)
  PROVE  s = Rest(t, D)
<1> DEFINE R == OutBefore(t, D)
           n == Cardinality(D)
           g == Rest(t, D)
           In(x, y) == OutLater(t, x, y) \/ (~OutLater(t, y, x) /\ x < y)
<1>1. IsFiniteSet(D) /\ D \subseteq Nat
  <2>1. IsFiniteSet(DOMAIN seeds)
    <3>1. Len(seeds) \in Nat /\ DOMAIN seeds = 1 .. Len(seeds)
      OBVIOUS
    <3> QED
      BY <3>1, FS_Interval
  <2> QED
    BY <2>1, FS_Subset
<1>2. /\ Orders(D, R)
      /\ \A x, y \in D : /\ <<x, y>> \in R <=> OutLater(t, x, y)
                         /\ x # y => (OutLater(t, x, y) <=> ~OutLater(t, y, x))
                         /\ ~OutLater(t, x, x)
  BY OutOrders, Zenon
<1> HIDE DEF R
<1>3. n \in Nat /\ \A k \in 1 .. n : \E x \in D : Cardinality(Below(D, R, x)) = k - 1
  <2>1. IsFiniteSet(D) /\ Orders(D, R)
    BY <1>1, <1>2
  <2> QED
    BY <2>1, Ranks
<1>4. \A x \in D : Below(D, R, x) = {y \in D : In(y, x)}
  <2>1. \A x, y \in D : <<y, x>> \in R <=> In(y, x)
    BY <1>1, <1>2
  <2> HIDE DEF In
  <2> QED
    BY <2>1 DEF Below
<1>5. g = [k \in 1 .. n |-> CHOOSE x \in D : Cardinality({y \in D : In(y, x)}) = k - 1]
  BY Zenon DEF Rest, Sorted
<1> HIDE DEF g, In
<1>6. ASSUME NEW k \in 1 .. n
      PROVE  g[k] \in D /\ Cardinality(Below(D, R, g[k])) = k - 1
  <2>1. \E x \in D : Cardinality({y \in D : In(y, x)}) = k - 1
    BY <1>3, <1>4
  <2>2. g[k] \in D /\ Cardinality({y \in D : In(y, g[k])}) = k - 1
    BY <1>5, <2>1
  <2> QED
    BY <1>4, <2>2
<1>7. g \in [1 .. n -> D]
  BY <1>5, <1>6
<1>8. Ordered(D, R, g)
  BY <1>1, <1>2, <1>6, <1>7, RankedOrders DEF Ranked
<1>9. Ordered(D, R, s)
  <2>1. /\ s \in [1 .. n -> D] /\ \A i, j \in 1 .. n : i # j => s[i] # s[j]
        /\ \A i, j \in 1 .. n : i < j => ~OutLater(t, s[j], s[i])
    <3>1. s \in [1 .. n -> D] /\ \A i, j \in 1 .. n : i # j => s[i] # s[j]
      BY Zenon DEF Sorts, SetToSeqs
    <3>2. DOMAIN s = 1 .. n /\ \A x, y \in DOMAIN s : x < y => ~OutLater(t, s[y], s[x])
      BY <3>1 DEF Sorts
    <3> QED
      BY <3>1, <3>2
  <2>2. ASSUME NEW i \in 1 .. n, NEW j \in 1 .. n, i < j PROVE <<s[i], s[j]>> \in R
    <3>1. i # j
      BY <1>3, <2>2
    <3>2. s[i] \in D /\ s[j] \in D /\ s[i] # s[j] /\ ~OutLater(t, s[j], s[i])
      BY <2>1, <2>2, <3>1
    <3> QED
      BY <1>2, <3>2
  <2> QED
    BY <2>1, <2>2 DEF Ordered
<1>10. s = g
  BY <1>1, <1>2, <1>8, <1>9, OneOrder
<1> QED
  BY <1>10 DEF g

\* A list the relayer derives from the results of a document is the engine's list
\* of the winners, if the engine can replay the document at all; and then the
\* tournament is over.
THEOREM RelayerSame ==
  ASSUME NEW seeds \in Seq(Nat), IsInjective(seeds), NEW R,
         \A r \in R : r.id \in Nat /\ r.outcome # None,
         NEW rs \in Seq(R), \A i, j \in DOMAIN rs : i < j => rs[i].id # rs[j].id,
         NEW list \in RelayerWinners(seeds, ToSet(rs))
  PROVE  LET run == reconstruct("single_elimination", seeds, 0, rs) IN
         /\ \A r \in ToSet(rs) : r.outcome # "Draw"
         /\ run.ok => run.t.complete /\ list = winners(run.t)
<1> DEFINE S   == ToSet(rs)
           own == reconstruct("single_elimination", seeds, 0, ById(S))
           run == reconstruct("single_elimination", seeds, 0, rs)
           c   == champion(own.t)
           D   == DOMAIN seeds \ {c}
<1>1. /\ ~(Len(seeds) < 2) /\ own.ok /\ c # Nobody
      /\ \E rest : Sorts(own.t, D, rest) /\ list = <<c>> \o rest
  BY Zenon DEF RelayerWinners, Sorts
<1>2. Len(seeds) \in Nat \ {0}
  BY <1>1
<1>3. IsFiniteSet(S) /\ S \subseteq R
  BY ListedFinite
<1>4. \A x, y \in S : x.id = y.id => x = y
  <2> SUFFICES ASSUME NEW i \in DOMAIN rs, NEW j \in DOMAIN rs, rs[i].id = rs[j].id
               PROVE  rs[i] = rs[j]
    BY DEF ToSet
  <2>1. i \in Nat /\ j \in Nat
    OBVIOUS
  <2> QED
    BY <2>1, SMTT(60)
<1>5. ById(S) \in Seq(S) /\ ToSet(ById(S)) = S
  BY <1>3, <1>4, ByIdLists
<1> HIDE DEF S
<1>6. InPlay(own.t, seeds, 0, S) /\ \A r \in S : r.outcome # "Draw"
  <2>1. \A r \in S : r.outcome # None
    BY <1>3
  <2> QED
    BY <1>1, <1>2, <1>5, <2>1, ReplayInPlay
<1> HIDE DEF own
<1>7. ASSUME run.ok PROVE run.t.complete /\ list = winners(run.t)
  <2>1. InPlay(run.t, seeds, 0, S)
    BY <1>2, <1>7, ReplayInPlay DEF S
  <2> HIDE DEF run
  <2>2. run.t = own.t
    BY <1>2, <1>6, <2>1, SameResults
  <2>3. own.t.complete
    <3>1. own.t.complete = Final(own.t.matches)
      BY <1>6 DEF InPlay, Cup
    <3>2. Final(own.t.matches)
      BY <1>1, Zenon DEF champion, Final
    <3> QED
      BY <3>1, <3>2
  <2>4. winners(own.t) = <<c>> \o Rest(own.t, D)
    <3>1. own.t.format = "single_elimination" /\ own.t.seeds = seeds
      BY <1>6, PlayFormat
    <3> QED
      BY <1>1, <3>1, Zenon DEF winners, singleElimOrder, Rest
  <2>5. PICK rest : Sorts(own.t, D, rest) /\ list = <<c>> \o rest
    BY <1>1
  <2>6. rest = Rest(own.t, D)
    <3>1. D \in SUBSET DOMAIN seeds
      OBVIOUS
    <3> HIDE DEF D
    <3> QED
      BY <1>6, <2>5, <3>1, OneRest
  <2> QED
    BY <2>2, <2>3, <2>4, <2>5, <2>6
<1> QED
  BY <1>6, <1>7 DEF S
=============================================================================
