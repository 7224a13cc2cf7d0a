------------------------ MODULE PrizeFunding_proofs -------------------------
(***************************************************************************)
(* The cup contract and the way there from the setup page.                 *)
(***************************************************************************)
EXTENDS PrizeFunding, Totals_proofs

-----------------------------------------------------------------------------
(***************************************************************************)
(* The contract.  It is solvent: for any number of cups, tokens, placements*)
(* and claims, at any fee.                                                 *)
(***************************************************************************)

\* The shares of a cup that nobody has claimed yet.
Places(cup) == 1 .. Len(cup.payoutBps)

Unclaimed(cup) ==
  [i \in Places(cup) |-> IF i \in cup.claimed THEN 0 ELSE cup.payoutBps[i]]

\* What is left of a pool covers the unclaimed shares, before any rounding.
CupOk(cup) ==
  /\ cup.paid <= cup.prizePool
  /\ IsSplit(cup.payoutBps)
  /\ cup.state = "OPEN" => cup.paid = 0 /\ cup.claimed = {}
  /\ cup.state \in {"OPEN", "CANCELLED"} => cup.winners = <<>>
  /\ cup.state \in {"FINALIZED", "COMPLETE"} =>
       /\ Len(cup.winners) = Len(cup.payoutBps)
       /\ cup.prizePool * Total(Unclaimed(cup)) <= BPS * Left(cup)

CupInv ==
  /\ cups \in Seq(Cups)
  /\ \A id \in DOMAIN cups : CupOk(cups[id])
  /\ balance \in [Tokens -> Int]
  /\ \A t \in Tokens : balance[t] = LeftIn(t)
  /\ now \in Nat

-----------------------------------------------------------------------------
(* Arithmetic and totals.                                                  *)
\* Multiplication by a natural number keeps the order of natural numbers.
LEMMA Times ==
  ASSUME NEW k \in Nat, NEW a \in Nat, NEW b \in Nat, a <= b
  PROVE  k * a \in Nat /\ k * a <= k * b
<1>1. PICK d \in Nat : b = a + d
  BY b - a \in Nat
<1>2. k * b = k * a + k * d /\ k * a \in Nat /\ k * d \in Nat
  BY <1>1
<1> QED
  BY <1>2

\* A positive factor can be cancelled from an inequality.
LEMMA Cancelled ==
  ASSUME NEW k \in Nat \ {0}, NEW a \in Nat, NEW b \in Nat, k * a <= k * b
  PROVE  a <= b
<1> SUFFICES ASSUME b < a PROVE FALSE
  OBVIOUS
<1>1. PICK d \in Nat : a = b + 1 + d
  BY a - b - 1 \in Nat
<1>2. k * a = k * b + k + k * d /\ k * d \in Nat /\ k * b \in Nat
  BY <1>1
<1> QED
  BY <1>2

\* Rounding down never gives more than the exact share.
LEMMA Floor ==
  ASSUME NEW p \in Nat, NEW d \in Nat \ {0}
  PROVE  p \div d \in Nat /\ d * (p \div d) <= p
OBVIOUS

\* A new entry adds its amount to the total.
LEMMA TotalExtend ==
  ASSUME NEW S, IsFiniteSet(S), NEW T, NEW x \in T, x \notin S, T = S \cup {x},
         NEW f \in [S -> Nat], NEW g \in [T -> Nat], \A y \in S : g[y] = f[y]
  PROVE  Total(g) = Total(f) + g[x]
<1> DEFINE slice == {x} \X (1 .. g[x])
<1>1. Coins(g) = Coins(f) \cup slice
  BY DEF Coins
<1>2. Coins(f) \cap slice = {}
  BY DEF Coins
<1>3. g[x] \in Nat
  OBVIOUS
<1>4. IsFiniteSet(slice) /\ Cardinality(slice) = g[x]
  BY <1>3, SliceSize
<1>5. IsFiniteSet(Coins(f))
  BY CoinsFinite
<1> HIDE DEF slice
<1>6. Cardinality(Coins(f) \cup slice)
        = Cardinality(Coins(f)) + Cardinality(slice) - Cardinality(Coins(f) \cap slice)
  BY <1>4, <1>5, FS_Union, Zenon
<1>7. Cardinality({}) = 0 /\ Cardinality(Coins(f)) \in Nat
  BY <1>5, FS_EmptySet, FS_CardinalityType, Zenon
<1>8. Total(g) = Cardinality(Coins(f)) + g[x] - 0
  BY <1>1, <1>2, <1>4, <1>6, <1>7, Zenon DEF Total
<1>9. Total(f) = Cardinality(Coins(f))
  BY DEF Total
<1> QED
  BY <1>3, <1>7, <1>8, <1>9

-----------------------------------------------------------------------------
(* One cup.                                                                *)
\* The types of a cup's fields, one fact each.
LEMMA CupFields ==
  ASSUME CupAssumption, NEW cup \in Cups
  PROVE  /\ cup.prizePool \in Nat \ {0} /\ cup.paid \in Nat /\ BPS \in Nat \ {0}
         /\ cup.token \in Tokens /\ cup.finalizeDeadline \in Nat
         /\ Len(cup.payoutBps) \in Nat
         /\ cup.payoutBps \in [Places(cup) -> 1 .. BPS]
         /\ cup.winners \in Seq(Accounts) /\ cup.claimed \in SUBSET Nat
BY DEF CupAssumption, Cups, Places

\* A cup has finitely many places, and the unclaimed shares add up.
LEMMA UnclaimedType ==
  ASSUME CupAssumption, NEW cup \in Cups
  PROVE  /\ IsFiniteSet(Places(cup))
         /\ Unclaimed(cup) \in [Places(cup) -> Nat]
         /\ Total(Unclaimed(cup)) \in Nat
<1>1. /\ Len(cup.payoutBps) \in Nat
      /\ cup.payoutBps \in [Places(cup) -> 1 .. BPS] /\ BPS \in Nat
  BY CupFields
<1>2. IsFiniteSet(Places(cup))
  <2>1. 1 \in Int /\ Len(cup.payoutBps) \in Int
    BY <1>1
  <2> QED
    BY <2>1, FS_Interval, Zenon DEF Places
<1>3. Unclaimed(cup) \in [Places(cup) -> Nat]
  BY <1>1 DEF Unclaimed
<1> QED
  BY <1>2, <1>3, TotalType

\* Claiming a place takes its share out of the unclaimed ones.
LEMMA UnclaimedDrop ==
  ASSUME CupAssumption, NEW cup \in Cups, NEW next \in Cups,
         NEW i \in Places(cup), i \notin cup.claimed,
         next.payoutBps = cup.payoutBps, next.claimed = cup.claimed \cup {i}
  PROVE  Total(Unclaimed(cup)) = Total(Unclaimed(next)) + cup.payoutBps[i]
<1> DEFINE S == Places(cup)
           f == Unclaimed(cup)
           g == Unclaimed(next)
<1>1. IsFiniteSet(S) /\ f \in [S -> Nat] /\ Total(f) \in Nat
  BY UnclaimedType
<1>2. Places(next) = S
  BY DEF Places
<1>3. g \in [S -> Nat] /\ Total(g) \in Nat
  BY <1>2, UnclaimedType
<1>4. f[i] = cup.payoutBps[i] /\ g[i] = 0
  BY <1>2 DEF Unclaimed
<1>5. \A y \in S \ {i} : g[y] = f[y]
  BY <1>2 DEF Unclaimed
<1> HIDE DEF S, f, g
<1>6. i \in S
  BY DEF S
<1>7. Total(g) = Total(f) - f[i] + g[i]
  BY <1>1, <1>3, <1>5, <1>6, TotalChange
<1>8. f[i] \in Nat
  BY <1>1, <1>6
<1>9. Total(f) = Total(g) + cup.payoutBps[i]
  BY <1>1, <1>3, <1>4, <1>7, <1>8
<1> QED
  BY <1>9 DEF f, g

\* An unclaimed share fits into what is left of the pool.
LEMMA ShareFits ==
  ASSUME CupAssumption, NEW cup \in Cups, CupOk(cup),
         NEW i \in DOMAIN cup.winners, i \notin cup.claimed
  PROVE  /\ cup.state \in {"FINALIZED", "COMPLETE"}
         /\ i \in Places(cup)
         /\ Share(cup, i) \in Nat /\ Share(cup, i) <= Left(cup)
         /\ BPS * Share(cup, i) <= cup.prizePool * cup.payoutBps[i]
<1>1. /\ cup.prizePool \in Nat /\ cup.paid \in Nat /\ BPS \in Nat \ {0}
      /\ cup.winners \in Seq(Accounts)
      /\ Len(cup.payoutBps) \in Nat
      /\ cup.payoutBps \in [Places(cup) -> 1 .. BPS] /\ cup.claimed \in SUBSET Nat
  BY CupFields
<1>2. cup.state \in {"FINALIZED", "COMPLETE"}
  <2>1. cup.winners # <<>>
    BY <1>1
  <2>2. cup.state \in {"OPEN", "FINALIZED", "COMPLETE", "CANCELLED"}
    BY DEF Cups
  <2> QED
    BY <2>1, <2>2 DEF CupOk
<1>3. /\ Len(cup.winners) = Len(cup.payoutBps)
      /\ cup.prizePool * Total(Unclaimed(cup)) <= BPS * Left(cup)
      /\ cup.paid <= cup.prizePool
  BY <1>2 DEF CupOk
<1>4. i \in Places(cup)
  BY <1>1, <1>3 DEF Places
<1>5. cup.payoutBps[i] \in Nat /\ cup.payoutBps[i] <= Total(Unclaimed(cup))
  <2> DEFINE next == [cup EXCEPT !.claimed = @ \cup {i}]
  <2>1. next \in Cups /\ next.payoutBps = cup.payoutBps
        /\ next.claimed = cup.claimed \cup {i}
    <3>1. cup.claimed \cup {i} \in SUBSET Nat
      BY <1>1, <1>4 DEF Places
    <3>2. \A c \in SUBSET Nat : [cup EXCEPT !.claimed = c] \in Cups
      BY DEF Cups
    <3>3. next = [cup EXCEPT !.claimed = cup.claimed \cup {i}]
      OBVIOUS
    <3>4. next \in Cups
      BY <3>1, <3>2, <3>3, Zenon
    <3> QED
      BY <3>4 DEF Cups
  <2> HIDE DEF next
  <2>2. Total(Unclaimed(cup)) = Total(Unclaimed(next)) + cup.payoutBps[i]
    BY <1>4, <2>1, UnclaimedDrop
  <2>3. Total(Unclaimed(next)) \in Nat /\ cup.payoutBps[i] \in Nat
    BY <1>1, <1>4, <2>1, UnclaimedType
  <2> QED
    BY <2>2, <2>3
<1> DEFINE exact == cup.prizePool * cup.payoutBps[i]
<1>6. exact \in Nat /\ exact <= cup.prizePool * Total(Unclaimed(cup))
  BY <1>1, <1>5, UnclaimedType, Times
<1>7. Share(cup, i) = exact \div BPS
  BY DEF Share
<1> HIDE DEF exact
<1>8. Share(cup, i) \in Nat /\ BPS * Share(cup, i) <= exact
  BY <1>1, <1>6, <1>7, Floor
<1>9. Left(cup) \in Nat
  BY <1>1, <1>3 DEF Left
<1>10. BPS * Share(cup, i) <= BPS * Left(cup)
  <2>1. /\ cup.prizePool * Total(Unclaimed(cup)) \in Nat
        /\ BPS * Share(cup, i) \in Nat /\ BPS * Left(cup) \in Nat
    BY <1>1, <1>8, <1>9, UnclaimedType, Times, SMTT(60)
  <2> QED
    BY <2>1, <1>3, <1>6, <1>8
<1>11. Share(cup, i) <= Left(cup)
  BY <1>1, <1>8, <1>9, <1>10, Cancelled
<1> QED
  BY <1>2, <1>4, <1>8, <1>11 DEF exact

-----------------------------------------------------------------------------
(* All cups of a token.                                                    *)
LeftOf(cup, token) == IF cup.token = token THEN Left(cup) ELSE 0

\* What is left of a pool is never negative, in any token.
LEMMA LeftType ==
  ASSUME CupAssumption, NEW cup \in Cups, CupOk(cup), NEW t
  PROVE  Left(cup) \in Nat /\ LeftOf(cup, t) \in Nat
BY CupFields DEF CupOk, Left, LeftOf

\* The slots of the cups contract, and what is left in them of a token.
LEMMA Slots ==
  ASSUME CupAssumption, NEW s \in Seq(Cups), \A id \in DOMAIN s : CupOk(s[id]), NEW t
  PROVE  /\ IsFiniteSet(DOMAIN s)
         /\ [id \in DOMAIN s |-> LeftOf(s[id], t)] \in [DOMAIN s -> Nat]
<1>1. DOMAIN s = 1 .. Len(s) /\ Len(s) \in Nat /\ \A id \in DOMAIN s : s[id] \in Cups
  OBVIOUS
<1>2. IsFiniteSet(1 .. Len(s))
  <2>1. 1 \in Int /\ Len(s) \in Int
    BY <1>1
  <2> QED
    BY <2>1, FS_Interval, Zenon
<1>3. \A id \in DOMAIN s : LeftOf(s[id], t) \in Nat
  BY <1>1, LeftType
<1> QED
  BY <1>1, <1>2, <1>3

\* A cup changes and the contract sends as much as its pool loses.
LEMMA CupChanges ==
  ASSUME CupAssumption, CupInv, NEW id \in DOMAIN cups, NEW c \in Cups, CupOk(c),
         c.token = cups[id].token, NEW n \in Nat, Left(cups[id]) = Left(c) + n,
         cups' = [cups EXCEPT ![id] = c],
         balance' = [balance EXCEPT ![c.token] = @ - n], now' \in Nat
  PROVE  CupInv'
<1>1. /\ cups \in Seq(Cups) /\ balance \in [Tokens -> Int]
      /\ \A k \in DOMAIN cups : CupOk(cups[k])
      /\ \A t \in Tokens : balance[t] = LeftIn(t)
  BY DEF CupInv
<1>2. cups' \in Seq(Cups) /\ DOMAIN cups' = DOMAIN cups
  BY <1>1
<1>3. cups'[id] = c /\ \A k \in DOMAIN cups \ {id} : cups'[k] = cups[k]
  BY <1>1
<1>4. \A k \in DOMAIN cups' : CupOk(cups'[k])
  BY <1>1, <1>2, <1>3
<1>5. c.token \in Tokens /\ balance' \in [Tokens -> Int]
  BY <1>1, CupFields
<1>6. ASSUME NEW t \in Tokens PROVE balance'[t] = LeftIn(t)'
  <2> DEFINE S == DOMAIN cups
             f == [k \in S |-> LeftOf(cups[k], t)]
             g == [k \in S |-> LeftOf(cups'[k], t)]
  <2>1. IsFiniteSet(S) /\ f \in [S -> Nat]
    BY <1>1, Slots
  <2>2. g \in [S -> Nat]
    <3>1. \A k \in S : cups'[k] \in Cups /\ CupOk(cups'[k])
      BY <1>2, <1>4
    <3>2. \A k \in S : LeftOf(cups'[k], t) \in Nat
      BY <3>1, LeftType
    <3> QED
      BY <3>2
  <2>3. \A k \in S \ {id} : g[k] = f[k]
    BY <1>3
  <2>4. f[id] = LeftOf(cups[id], t) /\ g[id] = LeftOf(c, t)
    BY <1>3
  <2>5. Total(f) = LeftIn(t)
    BY DEF LeftIn, LeftOf
  <2>6. Total(g) = LeftIn(t)'
    BY <1>2 DEF LeftIn, LeftOf, Left
  <2> HIDE DEF S, f, g
  <2>7. id \in S
    BY DEF S
  <2>8. Total(g) = Total(f) - f[id] + g[id]
    BY <2>1, <2>2, <2>3, <2>7, TotalChange
  <2>9. Total(f) \in Nat /\ f[id] \in Nat /\ g[id] \in Nat
    BY <2>1, <2>2, <2>7, TotalType
  <2>10. CASE t = c.token
    <3>1. f[id] = Left(cups[id]) /\ g[id] = Left(c)
      BY <2>4, <2>10 DEF LeftOf
    <3>2. balance'[t] = balance[t] - n
      BY <1>1, <2>10
    <3> QED
      BY <1>1, <2>5, <2>6, <2>8, <2>9, <3>1, <3>2
  <2>11. CASE t # c.token
    <3>1. f[id] = 0 /\ g[id] = 0
      BY <2>4, <2>11 DEF LeftOf
    <3>2. balance'[t] = balance[t]
      BY <1>1, <2>11
    <3> QED
      BY <1>1, <2>5, <2>6, <2>8, <2>9, <3>1, <3>2
  <2> QED
    BY <2>10, <2>11
<1> QED
  BY <1>2, <1>4, <1>5, <1>6 DEF CupInv

\* A cup is added and the contract receives its pool.
LEMMA CupAdded ==
  ASSUME CupAssumption, CupInv, NEW c \in Cups, CupOk(c), c.paid = 0,
         cups' = Append(cups, c),
         balance' = [balance EXCEPT ![c.token] = @ + c.prizePool], now' \in Nat
  PROVE  CupInv'
<1>1. /\ cups \in Seq(Cups) /\ balance \in [Tokens -> Int]
      /\ \A k \in DOMAIN cups : CupOk(cups[k])
      /\ \A t \in Tokens : balance[t] = LeftIn(t)
  BY DEF CupInv
<1> DEFINE x == Len(cups) + 1
<1>2. /\ cups' \in Seq(Cups) /\ x \notin DOMAIN cups
      /\ DOMAIN cups' = DOMAIN cups \cup {x}
  BY <1>1
<1>3. cups'[x] = c /\ \A k \in DOMAIN cups : cups'[k] = cups[k]
  BY <1>1
<1>4. \A k \in DOMAIN cups' : CupOk(cups'[k])
  BY <1>1, <1>2, <1>3
<1>5. c.token \in Tokens /\ c.prizePool \in Nat /\ Left(c) = c.prizePool
  BY CupFields DEF Left
<1>6. balance' \in [Tokens -> Int]
  BY <1>1, <1>5
<1>7. ASSUME NEW t \in Tokens PROVE balance'[t] = LeftIn(t)'
  <2> DEFINE S == DOMAIN cups
             f == [k \in S |-> LeftOf(cups[k], t)]
             T == S \cup {x}
             g == [k \in T |-> LeftOf(cups'[k], t)]
  <2>1. IsFiniteSet(S) /\ f \in [S -> Nat]
    BY <1>1, Slots
  <2>2. g \in [T -> Nat]
    <3>1. \A k \in T : cups'[k] \in Cups /\ CupOk(cups'[k])
      BY <1>2, <1>4
    <3>2. \A k \in T : LeftOf(cups'[k], t) \in Nat
      BY <3>1, LeftType
    <3> QED
      BY <3>2
  <2>3. \A k \in S : g[k] = f[k]
    BY <1>3
  <2>4. g[x] = LeftOf(c, t)
    BY <1>3
  <2>5. Total(f) = LeftIn(t)
    BY DEF LeftIn, LeftOf
  <2>6. Total(g) = LeftIn(t)'
    BY <1>2 DEF LeftIn, LeftOf, Left
  <2>7. x \notin S /\ x \in T /\ T = S \cup {x}
    BY <1>2
  <2> HIDE DEF S, T, f, g, x
  <2>8. Total(g) = Total(f) + g[x]
    BY <2>1, <2>2, <2>3, <2>7, TotalExtend
  <2>9. Total(f) \in Nat
    BY <2>1, TotalType
  <2>10. CASE t = c.token
    <3>1. g[x] = c.prizePool
      BY <1>5, <2>4, <2>10 DEF LeftOf
    <3>2. balance'[t] = balance[t] + c.prizePool
      BY <1>1, <2>10
    <3> QED
      BY <1>1, <2>5, <2>6, <2>8, <2>9, <3>1, <3>2
  <2>11. CASE t # c.token
    <3>1. g[x] = 0
      BY <2>4, <2>11 DEF LeftOf
    <3>2. balance'[t] = balance[t]
      BY <1>1, <2>11
    <3> QED
      BY <1>1, <2>5, <2>6, <2>8, <2>9, <3>1, <3>2
  <2> QED
    BY <2>10, <2>11
<1> QED
  BY <1>2, <1>4, <1>6, <1>7 DEF CupInv

-----------------------------------------------------------------------------
(* The transactions.                                                       *)
\* The contract is deployed without cups and without tokens.
LEMMA CupInitInv == ASSUME CupAssumption, CupInit PROVE CupInv
<1>1. cups \in Seq(Cups) /\ DOMAIN cups = {}
  BY DEF CupInit
<1>2. ASSUME NEW t \in Tokens PROVE balance[t] = LeftIn(t)
  <2> DEFINE f == [id \in DOMAIN cups |-> IF cups[id].token = t THEN Left(cups[id]) ELSE 0]
  <2>1. f \in [DOMAIN cups -> Nat] /\ \A x \in DOMAIN cups : f[x] = 0
    BY <1>1
  <2> HIDE DEF f
  <2>2. Total(f) = 0
    BY <2>1, TotalZero
  <2> QED
    BY <2>2 DEF LeftIn, CupInit, f
<1> QED
  BY <1>1, <1>2 DEF CupInit, CupInv

\* createTournament adds an OPEN cup and receives its whole pool.
LEMMA CreateInv ==
  ASSUME CupAssumption, CupInv, NEW sponsor \in Accounts, NEW token \in Tokens,
         NEW amount \in Nat, NEW bps \in Seq(1 .. BPS), NEW verifier \in Addr,
         NEW deadline \in Nat,
         CreateTournament(sponsor, token, amount, bps, verifier, deadline)
  PROVE  CupInv'
<1>1. PICK received \in Received(token, amount) :
        /\ received > 0
        /\ cups' = Append(cups,
              [sponsor |-> sponsor, token |-> token, prizePool |-> received,
               payoutBps |-> bps, verifier |-> verifier, winners |-> <<>>,
               state |-> "OPEN", finalizeDeadline |-> deadline,
               claimed |-> {}, paid |-> 0])
        /\ balance' = [balance EXCEPT ![token] = @ + received]
  BY DEF CreateTournament
<1> DEFINE c == [sponsor |-> sponsor, token |-> token, prizePool |-> received,
                 payoutBps |-> bps, verifier |-> verifier, winners |-> <<>>,
                 state |-> "OPEN", finalizeDeadline |-> deadline,
                 claimed |-> {}, paid |-> 0]
<1>2. received \in Nat \ {0}
  BY <1>1 DEF Received
<1>3. verifier \in Accounts /\ IsSplit(bps) /\ now' = now
  BY DEF CreateTournament, MayCreate, Addr
<1>4. c \in Cups
  BY <1>2, <1>3 DEF Cups, Addr
<1>5. CupOk(c)
  BY <1>2, <1>3 DEF CupOk
<1>6. c.paid = 0 /\ c.token = token /\ c.prizePool = received
  OBVIOUS
<1>7. cups' = Append(cups, c)
  BY <1>1
<1>8. balance' = [balance EXCEPT ![c.token] = @ + c.prizePool] /\ now' \in Nat
  BY <1>1, <1>3 DEF CupInv
<1> HIDE DEF c
<1> QED
  BY <1>4, <1>5, <1>6, <1>7, <1>8, CupAdded

\* cancelTournament sends the whole pool back to the sponsor.
LEMMA CancelInv ==
  ASSUME CupAssumption, CupInv, NEW id \in DOMAIN cups, NEW caller \in Accounts,
         CancelTournament(caller, id)
  PROVE  CupInv'
<1> DEFINE cup == cups[id]
           c   == [cup EXCEPT !.state = "CANCELLED", !.paid = @ + cup.prizePool]
<1>1. cup \in Cups /\ CupOk(cup) /\ now' \in Nat
  BY DEF CupInv, CancelTournament
<1>2. cup.state = "OPEN" /\ cup.paid = 0 /\ cup.winners = <<>>
  BY <1>1 DEF CancelTournament, CupOk
<1>3. cup.prizePool \in Nat \ {0} /\ cup.paid \in Nat
  BY <1>1, CupFields
<1>4. cups' = [cups EXCEPT ![id] = c]
  BY DEF CancelTournament
<1> HIDE DEF cup
<1>5. c \in Cups
  <2>1. cup.paid + cup.prizePool \in Nat
    BY <1>3
  <2> QED
    BY <1>1, <2>1 DEF Cups
<1>6. c.token = cup.token /\ Left(cup) = Left(c) + cup.prizePool
  BY <1>1, <1>2, <1>3 DEF Left, Cups
<1>7. CupOk(c)
  BY <1>1, <1>2, <1>3 DEF CupOk, Cups
<1>8. balance' = [balance EXCEPT ![c.token] = @ - cup.prizePool]
  BY <1>6 DEF CancelTournament, cup
<1> HIDE DEF c
<1>9. cup.prizePool \in Nat
  BY <1>3
<1> DEFINE n == cup.prizePool
<1>10. n \in Nat /\ Left(cups[id]) = Left(c) + n /\ c.token = cups[id].token
       /\ balance' = [balance EXCEPT ![c.token] = @ - n]
  BY <1>6, <1>8, <1>9 DEF cup
<1> HIDE DEF n
<1> QED
  BY <1>1, <1>4, <1>5, <1>7, <1>10, CupChanges

\* finalizeTournament moves no token; all shares of the split are unclaimed.
LEMMA FinalizeInv ==
  ASSUME CupAssumption, CupInv, NEW id \in DOMAIN cups, NEW winners \in Seq(Accounts),
         NEW signer \in Accounts, FinalizeTournament(id, winners, signer)
  PROVE  CupInv'
<1> DEFINE cup == cups[id]
           c   == [cup EXCEPT !.state = "FINALIZED", !.winners = winners]
<1>1. cup \in Cups /\ CupOk(cup) /\ now' \in Nat
  BY DEF CupInv, FinalizeTournament
<1>2. /\ cup.state = "OPEN" /\ cup.paid = 0 /\ cup.claimed = {}
      /\ IsSplit(cup.payoutBps) /\ Len(winners) = Len(cup.payoutBps)
  BY <1>1 DEF FinalizeTournament, MayFinalize, CupOk
<1>3. cup.prizePool \in Nat /\ BPS \in Nat /\ balance \in [Tokens -> Int]
      /\ cup.token \in Tokens
  BY <1>1, CupFields DEF CupInv
<1>4. cups' = [cups EXCEPT ![id] = c] /\ balance' = balance
  BY DEF FinalizeTournament
<1> HIDE DEF cup
<1>5. c \in Cups
  BY <1>1 DEF Cups
<1>6. /\ c.state = "FINALIZED" /\ c.winners = winners /\ c.claimed = {} /\ c.paid = 0
      /\ c.payoutBps = cup.payoutBps /\ c.prizePool = cup.prizePool
      /\ c.token = cup.token
  BY <1>1, <1>2 DEF Cups
<1> HIDE DEF c
<1>7. Left(cup) = cup.prizePool /\ Left(c) = cup.prizePool
  BY <1>2, <1>3, <1>6 DEF Left
<1>8. Total(Unclaimed(c)) = BPS
  <2>1. c.payoutBps \in [Places(c) -> 1 .. BPS]
    BY <1>5, CupFields
  <2>2. Unclaimed(c) = c.payoutBps
    BY <1>6, <2>1 DEF Unclaimed
  <2> QED
    BY <1>2, <1>6, <2>2 DEF IsSplit
<1>9. CupOk(c)
  <2>1. c.prizePool * BPS = BPS * Left(c)
    BY <1>3, <1>6, <1>7
  <2>2. BPS * Left(c) \in Nat
    BY <1>3, <1>7
  <2>3. c.prizePool * Total(Unclaimed(c)) <= BPS * Left(c)
    BY <1>8, <2>1, <2>2
  <2> QED
    BY <1>2, <1>3, <1>6, <2>3 DEF CupOk
<1>10. /\ 0 \in Nat /\ Left(cups[id]) = Left(c) + 0 /\ c.token = cups[id].token
       /\ balance' = [balance EXCEPT ![c.token] = @ - 0]
  BY <1>3, <1>4, <1>6, <1>7 DEF cup
<1> QED
  BY <1>1, <1>4, <1>5, <1>9, <1>10, CupChanges

\* The fee only decides who receives which part of the share.
LEMMA ClaimInv ==
  ASSUME CupAssumption, CupInv, protocolFee \in Nat, NEW id \in DOMAIN cups,
         NEW caller \in Accounts, NEW i \in DOMAIN cups[id].winners,
         ClaimPrize(caller, id, i)
  PROVE  CupInv'
<1> DEFINE cup     == cups[id]
           share   == Share(cup, i)
           fee     == (share * protocolFee) \div BPS
           claimed == cup.claimed \cup {i}
           state   == IF claimed = DOMAIN cup.winners THEN "COMPLETE" ELSE cup.state
<1>1. /\ cup \in Cups /\ CupOk(cup) /\ now' \in Nat
      /\ i \in DOMAIN cup.winners /\ i \notin cup.claimed
  <2>1. cup \in Cups /\ CupOk(cup)
    BY DEF CupInv
  <2>2. now' = now /\ MayClaim(caller, id, i)
    BY DEF ClaimPrize
  <2> QED
    BY <2>1, <2>2 DEF CupInv, MayClaim
<1>2. /\ cup.state \in {"FINALIZED", "COMPLETE"}
      /\ i \in Places(cup)
      /\ share \in Nat /\ share <= Left(cup)
      /\ BPS * share <= cup.prizePool * cup.payoutBps[i]
  BY <1>1, ShareFits
<1>3. /\ cup.prizePool \in Nat /\ cup.paid \in Nat /\ BPS \in Nat \ {0}
      /\ cup.claimed \in SUBSET Nat /\ cup.payoutBps[i] \in Nat
      /\ balance \in [Tokens -> Int] /\ cup.token \in Tokens
  <2>1. /\ cup.prizePool \in Nat /\ cup.paid \in Nat /\ BPS \in Nat \ {0}
        /\ cup.claimed \in SUBSET Nat /\ cup.token \in Tokens
        /\ cup.payoutBps \in [Places(cup) -> 1 .. BPS]
    BY <1>1, CupFields
  <2>2. cup.payoutBps[i] \in Nat
    BY <1>2, <2>1
  <2> QED
    BY <2>1, <2>2 DEF CupInv
<1>4. /\ cup.paid <= cup.prizePool /\ IsSplit(cup.payoutBps)
      /\ Len(cup.winners) = Len(cup.payoutBps)
      /\ cup.prizePool * Total(Unclaimed(cup)) <= BPS * Left(cup)
  BY <1>1, <1>2 DEF CupOk
<1>5. fee \in Int
  <2>1. share * protocolFee \in Nat
    BY <1>2
  <2> HIDE DEF share
  <2> QED
    BY <1>3, <2>1
<1>6. /\ cups' = [cups EXCEPT ![id].claimed = claimed,
                             ![id].state   = IF claimed = DOMAIN cup.winners THEN "COMPLETE" ELSE @,
                             ![id].paid    = @ + (share - fee) + fee]
      /\ balance' = [balance EXCEPT ![cup.token] = @ - (share - fee + fee)]
  BY DEF ClaimPrize
<1> DEFINE d == [cup EXCEPT !.claimed = claimed, !.state = state, !.paid = @ + share]
<1>7. claimed \in SUBSET Nat
  BY <1>2, <1>3 DEF Places
<1>8. state \in {"FINALIZED", "COMPLETE"}
  BY <1>2
<1> HIDE DEF share, fee, claimed
<1>9. cup.paid + (share - fee) + fee = cup.paid + share /\ share - fee + fee = share
  BY <1>2, <1>3, <1>5
<1>10. cups' = [cups EXCEPT ![id] = d]
  BY <1>6, <1>9
<1>11. balance' = [balance EXCEPT ![cup.token] = @ - share]
  BY <1>6, <1>9
<1> HIDE DEF cup, state
<1>12. d \in Cups
  <2>1. cup.paid + share \in Nat
    BY <1>2, <1>3
  <2> QED
    BY <1>1, <1>7, <1>8, <2>1 DEF Cups
<1>13. /\ d.token = cup.token /\ d.prizePool = cup.prizePool
       /\ d.payoutBps = cup.payoutBps /\ d.winners = cup.winners
       /\ d.paid = cup.paid + share /\ d.claimed = cup.claimed \cup {i} /\ d.state = state
  BY <1>1 DEF Cups, claimed
<1> HIDE DEF d
<1>14. Left(cup) = Left(d) + share /\ Left(d) \in Nat /\ Left(cup) \in Nat
  <2>1. Left(cup) = cup.prizePool - cup.paid /\ Left(d) = cup.prizePool - (cup.paid + share)
    BY <1>13 DEF Left
  <2>2. share \in Nat /\ share <= Left(cup)
    BY <1>2
  <2>3. cup.prizePool \in Nat /\ cup.paid \in Nat
    BY <1>3
  <2> QED
    BY <2>1, <2>2, <2>3
<1>15. Total(Unclaimed(cup)) = Total(Unclaimed(d)) + cup.payoutBps[i]
  BY <1>1, <1>2, <1>12, <1>13, UnclaimedDrop
<1>16. d.prizePool * Total(Unclaimed(d)) <= BPS * Left(d)
  <2> DEFINE rest == Total(Unclaimed(d))
             all  == Total(Unclaimed(cup))
             b    == cup.payoutBps[i]
             p    == cup.prizePool
             l    == Left(d)
  <2>1. /\ rest \in Nat /\ b \in Nat /\ p \in Nat /\ l \in Nat /\ share \in Nat
        /\ all = rest + b
    BY <1>2, <1>3, <1>12, <1>14, <1>15, UnclaimedType
  <2>2. p * all <= BPS * (l + share) /\ BPS * share <= p * b
    BY <1>2, <1>4, <1>14
  <2> HIDE DEF rest, all, b, p, l
  <2>3. /\ p * all = p * rest + p * b
        /\ BPS * (l + share) = BPS * l + BPS * share
    BY <1>3, <2>1
  <2>4. /\ p * rest \in Nat /\ p * b \in Nat /\ BPS * l \in Nat /\ BPS * share \in Nat
    BY <1>3, <2>1
  <2>5. p * rest <= BPS * l
    BY <2>2, <2>3, <2>4
  <2> QED
    BY <1>13, <2>5 DEF rest, p, l
<1>17. CupOk(d)
  <2>1. d.paid <= d.prizePool
    <3>1. d.prizePool - d.paid \in Nat /\ d.prizePool \in Nat /\ d.paid \in Nat
      BY <1>12, <1>14, CupFields DEF Left
    <3> QED
      BY <3>1
  <2>2. IsSplit(d.payoutBps) /\ Len(d.winners) = Len(d.payoutBps)
    BY <1>4, <1>13
  <2>3. d.state \in {"FINALIZED", "COMPLETE"}
    BY <1>8, <1>13
  <2>4. d.state \notin {"OPEN", "CANCELLED"}
    BY <2>3
  <2> QED
    BY <2>1, <2>2, <2>3, <2>4, <1>16, Zenon DEF CupOk
<1>18. /\ Left(cups[id]) = Left(d) + share /\ d.token = cups[id].token
       /\ balance' = [balance EXCEPT ![d.token] = @ - share]
  BY <1>11, <1>13, <1>14 DEF cup
<1> QED
  BY <1>1, <1>2, <1>10, <1>12, <1>17, <1>18, CupChanges

-----------------------------------------------------------------------------
\* The fee is a natural number, whatever the owner sets.
FeeInv == protocolFee \in Nat

\* Every transaction of the contract, and time, keep the invariant.
LEMMA StepInv ==
  ASSUME CupAssumption, CupInv, FeeInv, [CupStep]_cupVars
  PROVE  CupInv' /\ FeeInv'
<1>1. CASE \E sponsor \in Accounts, token \in Tokens, amount \in Nat, bps \in Seq(1 .. BPS),
             verifier \in Addr, deadline \in Nat :
             CreateTournament(sponsor, token, amount, bps, verifier, deadline)
  <2>1. PICK sponsor \in Accounts, token \in Tokens, amount \in Nat, bps \in Seq(1 .. BPS),
              verifier \in Addr, deadline \in Nat :
              CreateTournament(sponsor, token, amount, bps, verifier, deadline)
    BY <1>1
  <2>2. CupInv'
    BY <2>1, CreateInv
  <2>3. protocolFee' = protocolFee
    BY <2>1 DEF CreateTournament
  <2> QED
    BY <2>2, <2>3 DEF FeeInv
<1>2. ASSUME NEW id \in DOMAIN cups, NEW caller \in Accounts, CancelTournament(caller, id)
      PROVE  CupInv' /\ FeeInv'
  BY <1>2, CancelInv DEF CancelTournament, FeeInv
<1>3. ASSUME NEW id \in DOMAIN cups, NEW winners \in Seq(Accounts), NEW signer \in Accounts,
             FinalizeTournament(id, winners, signer)
      PROVE  CupInv' /\ FeeInv'
  BY <1>3, FinalizeInv DEF FinalizeTournament, FeeInv
<1>4. ASSUME NEW id \in DOMAIN cups, NEW caller \in Accounts,
             NEW i \in DOMAIN cups[id].winners, ClaimPrize(caller, id, i)
      PROVE  CupInv' /\ FeeInv'
  <2>1. CupInv'
    BY <1>4, ClaimInv DEF FeeInv
  <2>2. protocolFee' = protocolFee
    BY <1>4 DEF ClaimPrize
  <2> QED
    BY <2>1, <2>2 DEF FeeInv
<1>5. ASSUME UNCHANGED <<cups, balance>>, now' \in Nat, FeeInv' PROVE CupInv' /\ FeeInv'
  BY <1>5 DEF CupInv, LeftIn
<1>6. CASE \E fee \in ProtocolFees : UpdateProtocolFeeBps(fee)
  <2>1. UNCHANGED <<cups, balance, now>> /\ protocolFee' \in Nat
    BY <1>6 DEF UpdateProtocolFeeBps, CupAssumption
  <2> QED
    BY <1>5, <2>1 DEF CupInv, FeeInv
<1>7. CASE PauseCup
  BY <1>5, <1>7 DEF PauseCup, CupInv, FeeInv
<1>8. CASE Tick
  BY <1>5, <1>8 DEF Tick, CupInv, FeeInv
<1>9. CASE UNCHANGED cupVars
  BY <1>5, <1>9 DEF cupVars, CupInv, FeeInv
<1> QED
  BY <1>1, <1>2, <1>3, <1>4, <1>6, <1>7, <1>8, <1>9, Zenon DEF CupStep

\* The invariant gives solvency: each unclaimed share fits what is left.
LEMMA InvSolvent == ASSUME CupAssumption, CupInv PROVE CupsSolvent
<1>1. ASSUME NEW id \in DOMAIN cups
      PROVE  /\ cups[id].paid <= cups[id].prizePool
             /\ cups[id].state = "OPEN" => cups[id].paid = 0
             /\ \A i \in DOMAIN cups[id].winners \ cups[id].claimed :
                   Share(cups[id], i) <= Left(cups[id])
  <2>1. cups[id] \in Cups /\ CupOk(cups[id])
    BY DEF CupInv
  <2> QED
    BY <2>1, ShareFits DEF CupOk
<1> QED
  BY <1>1 DEF CupsSolvent, CupInv

(***************************************************************************)
(* The cup contract never draws on the pool of one cup for another, for    *)
(* any number of cups, tokens (with fees on transfer or without) and       *)
(* claims, at any fee: what is left of a pool covers each prize not yet    *)
(* claimed, and the balance is what is left of the pools.                  *)
(***************************************************************************)
THEOREM CupSolvency == CupSpec => []CupsSolvent
<1>1. CupInit => CupInv /\ FeeInv
  <2> SUFFICES ASSUME CupInit PROVE CupInv /\ FeeInv
    OBVIOUS
  <2>1. CupInv
    BY CupAssumption, CupInitInv
  <2>2. FeeInv
    BY DEF CupInit, FeeInv
  <2> QED
    BY <2>1, <2>2
<1>2. CupInv /\ FeeInv /\ [CupStep]_cupVars => CupInv' /\ FeeInv'
  BY CupAssumption, StepInv
<1>3. CupInv => CupsSolvent
  BY CupAssumption, InvSolvent
<1> QED
  BY <1>1, <1>2, <1>3, PTL DEF CupSpec

-----------------------------------------------------------------------------
(***************************************************************************)
(* From the setup page to a funded cup: for any number of launches,        *)
(* requests, deliveries, failures and other users of the contract.         *)
(***************************************************************************)

\* How far a page is on the way of an order, and on the way of a wallet.
UsdAts  == {"paying", "capturing", "polling"}
AvaxAts == {"create", "mined", "init", "init tournament", "init bracket", "sign"}
PageAts == {"form", "console", "live", "failed"} \cup UsdAts \cup AvaxAts

\* Where the relayer has the cup of its job, and where it knows an id for it.
KnowsId     == {"tournament", "bracket", "finalize", "answer"}
PastCreate  == {"mined"} \cup KnowsId
RelayerAts  == {"idle", "create"} \cup PastCreate

Pages    == [at : PageAts, job : Nat, id : Nat, form : Forms \cup {NoForm}]
Requests == [at : {"idle", "verify", "enqueue", "record", "answered"}, job : Nat]
Intents  == [claimed : BOOLEAN, job : Nat]
FundJobs == [order : Launches, generic : BOOLEAN,
             status : {"pending", "done", "failed"}, id : Nat]
Bounds   == [captures : Nat, deliveries : Nat, failures : Nat, moves : Nat,
             outside : SUBSET Deposits]

-----------------------------------------------------------------------------
(***************************************************************************)
(* The inductive invariant, in parts.                                      *)
(***************************************************************************)
WebTypes ==
  /\ page \in [Launches -> Pages]
  /\ order \in [Launches -> {"none", "created", "approved"}]
  /\ capture \in [Launches -> [1 .. MaxCaptures -> Requests]]
  /\ hook \in [Launches -> {"idle", "enqueue"}]
  /\ intents \in [Launches -> Intents]
  /\ left \in Bounds

RelayerTypes ==
  /\ jobs \in Seq(FundJobs)
  /\ relayer \in [at : RelayerAts, job : Nat, id : Nat]
  /\ relayer.at # "idle" =>
        relayer.job \in DOMAIN jobs /\ jobs[relayer.job].status = "pending"
  /\ rows \in [CupIds -> Launches \cup {Nobody}]
  /\ brackets \in [CupIds -> Launches \cup {Nobody}]

HistoryTypes ==
  /\ funder \in Seq(Launches \cup {Nobody}) /\ Len(funder) = Len(cups)
  /\ deaths \in Nat
  /\ mixed \in SUBSET (Launches \X (Launches \cup {Nobody}))
  /\ reverted \in BOOLEAN
  /\ \A id \in DOMAIN cups : cups[id].sponsor \in Accounts

\* A launch pays with an order or with a wallet.
PageOK(l) ==
  /\ page[l].form = NoForm => page[l].at = "form"
  /\ page[l].at = "form" => order[l] = "none"
  /\ page[l].at \in UsdAts => page[l].form.currency = "USD"
  /\ page[l].at \in AvaxAts => page[l].form.currency = "AVAX"
  /\ page[l].at \in {"capturing", "polling"} => order[l] = "approved"
  /\ order[l] # "none" => page[l].form.currency = "USD"

PageInv == \A l \in Launches : PageOK(l)

\* One request or delivery holds the order, until its job is there.
HasJob(l)     == \E j \in DOMAIN jobs : jobs[j].order = l
Enqueues(l,r) == capture[l][r].at = "enqueue"

HolderOK(l) ==
  /\ \A r, s \in 1 .. MaxCaptures : Enqueues(l, r) /\ Enqueues(l, s) => r = s
  /\ \A r \in 1 .. MaxCaptures : Enqueues(l, r) => hook[l] # "enqueue" /\ ~HasJob(l)
  /\ hook[l] = "enqueue" => ~HasJob(l)
  /\ \A i, j \in DOMAIN jobs : jobs[i].order = l /\ jobs[j].order = l => i = j
  /\ HasJob(l) \/ hook[l] = "enqueue" \/ (\E r \in 1 .. MaxCaptures : Enqueues(l, r))
        => intents[l].claimed /\ order[l] = "approved"

HolderInv == \A l \in Launches : HolderOK(l)

\* A job id that is passed on is that of the order's own job.
JobOf(l, j) == j \in DOMAIN jobs /\ jobs[j].order = l

PointerInv ==
  \A l \in Launches :
    /\ intents[l].job # 0 => JobOf(l, intents[l].job)
    /\ page[l].at = "polling" => JobOf(l, page[l].job)
    /\ \A r \in 1 .. MaxCaptures :
          capture[l][r].at = "record" => JobOf(l, capture[l][r].job)

\* A cup was created by the page of a wallet, which does so once, or in a job,
\* and there again only after the relayer died.
Count      == [l \in Launches |-> Cardinality(CupsOf(l))]
Created(j) == jobs[j].status # "pending" \/ (relayer.job = j /\ relayer.at \in PastCreate)

CountInv ==
  \A l \in Launches :
    /\ Count[l] > 0 =>
          \/ HasJob(l)
          \/ page[l].form.currency = "AVAX" /\ page[l].at \notin {"form", "create"}
    /\ page[l].form.currency = "AVAX" => Count[l] <= 1
    /\ \A j \in DOMAIN jobs :
          jobs[j].order = l => Count[l] <= deaths + (IF Created(j) THEN 1 ELSE 0)

\* An id that was read is that of the launch's own cup, or the cup came between
\* (and is known to have come between), or the own creation had been reverted.
Owned ==
  {o \in Launches \X Nat :
      \/ reverted /\ Wallet(o[1]) = Relayer
      \/ /\ o[2] \in DOMAIN cups
         /\ funder[o[2]] = o[1] \/ <<o[1], funder[o[2]]>> \in mixed}

OwnInv ==
  /\ \A l \in Launches :
        /\ page[l].at = "mined" => <<l, LastId>> \in Owned
        /\ page[l].id # 0 => <<l, page[l].id>> \in Owned
        /\ page[l].at \in AvaxAts \ {"create", "mined"} => page[l].id # 0
  /\ \A j \in DOMAIN jobs :
        jobs[j].status = "done" => <<jobs[j].order, jobs[j].id>> \in Owned
  /\ relayer.at = "mined" => <<jobs[relayer.job].order, LastId>> \in Owned
  /\ relayer.at \in KnowsId => <<jobs[relayer.job].order, relayer.id>> \in Owned

\* Without a mixed up id, rows and brackets are written by the cup's own launch.
Clear == mixed = {} /\ ~reverted

RowInv ==
  Clear =>
    /\ \A id \in CupIds : /\ rows[id] # Nobody => id \in DOMAIN cups /\ funder[id] = rows[id]
                          /\ brackets[id] # Nobody => brackets[id] = rows[id]
    /\ relayer.at = "bracket" /\ relayer.id \in CupIds => rows[relayer.id] # Nobody
    /\ \A l \in Launches : page[l].at = "init bracket" /\ page[l].id \in CupIds
                              => rows[page[l].id] # Nobody

FundingInv ==
  /\ WebTypes /\ RelayerTypes /\ HistoryTypes /\ PageInv
  /\ HolderInv /\ PointerInv /\ CountInv /\ OwnInv /\ RowInv
  /\ WinnersAsEntered

-----------------------------------------------------------------------------
(***************************************************************************)
(* What a step leaves as it was.                                           *)
(***************************************************************************)
FormsKept == \A l \in Launches : page'[l].form = page[l].form

\* No cup is created; a cup may be finalized, claimed or cancelled.
SameCups == /\ DOMAIN cups' = DOMAIN cups /\ Len(cups') = Len(cups)
            /\ UNCHANGED <<funder, mixed, reverted>>

\* One page moves.
PageMoves(l, at, job, id) ==
  /\ page' \in [Launches -> Pages]
  /\ \A k \in Launches : k # l => page'[k] = page[k]
  /\ page'[l].at = at /\ page'[l].job = job /\ page'[l].id = id
  /\ page'[l].form = page[l].form

\* A page goes on without learning anything.
LEMMA GoesStep ==
  ASSUME WebTypes, NEW l \in Launches, NEW at \in PageAts, Goes(l, at)
  PROVE  PageMoves(l, at, page[l].job, page[l].id)
<1>1. page \in [Launches -> Pages]
  BY DEF WebTypes
<1>2. page' = [page EXCEPT ![l] = [page[l] EXCEPT !.at = at]]
  BY DEF Goes
<1>3. [page[l] EXCEPT !.at = at] \in Pages
  BY <1>1 DEF Pages
<1> QED
  BY <1>1, <1>2, <1>3 DEF PageMoves, Pages

\* The forms stay as they were entered.
LEMMA MovesKeepForms ==
  ASSUME NEW l \in Launches, NEW at, NEW job, NEW id, PageMoves(l, at, job, id)
  PROVE  FormsKept
BY DEF PageMoves, FormsKept

\* Without a new cup nobody's cups change.
LEMMA SameCupsFrame ==
  ASSUME SameCups, FormsKept
  PROVE  Owned' = Owned /\ Count' = Count /\ LastId' = LastId /\ (Clear' <=> Clear)
<1>1. \A l \in Launches : Wallet(l)' = Wallet(l)
  BY DEF FormsKept, Wallet
<1>2. Owned' = Owned
  BY <1>1 DEF Owned, SameCups, historyVars
<1>3. Count' = Count
  BY DEF Count, CupsOf, SameCups, historyVars
<1> QED
  BY <1>2, <1>3 DEF LastId, SameCups, historyVars, Clear

\* What an id is known to be stays known when cups are added.
LEMMA OwnedGrows ==
  ASSUME FormsKept, DOMAIN cups \subseteq DOMAIN cups',
         \A id \in DOMAIN cups : funder'[id] = funder[id],
         mixed \subseteq mixed', reverted => reverted'
  PROVE  Owned \subseteq Owned'
<1>1. \A l \in Launches : Wallet(l)' = Wallet(l)
  BY DEF FormsKept, Wallet
<1> SUFFICES ASSUME NEW o \in Owned PROVE o \in Owned'
  OBVIOUS
<1>2. o \in Launches \X Nat
  BY DEF Owned
<1>3. CASE reverted /\ Wallet(o[1]) = Relayer
  BY <1>1, <1>2, <1>3 DEF Owned
<1>4. CASE o[2] \in DOMAIN cups /\ (funder[o[2]] = o[1] \/ <<o[1], funder[o[2]]>> \in mixed)
  BY <1>2, <1>4 DEF Owned
<1> QED
  BY <1>3, <1>4 DEF Owned

\* Launches have finitely many cups.
LEMMA CountType ==
  ASSUME CupInv PROVE Count \in [Launches -> Nat]
<1> SUFFICES ASSUME NEW l \in Launches PROVE Cardinality(CupsOf(l)) \in Nat
  BY DEF Count
<1>1. IsFiniteSet(DOMAIN cups)
  <2>1. DOMAIN cups = 1 .. Len(cups) /\ Len(cups) \in Int /\ 1 \in Int
    BY DEF CupInv
  <2> QED
    BY <2>1, FS_Interval, Zenon
<1>2. CupsOf(l) \subseteq DOMAIN cups
  BY DEF CupsOf
<1> QED
  BY <1>1, <1>2, FS_Subset, FS_CardinalityType, Zenon

\* A creation adds one cup, and is known to whoever has not read its own id.
Adds(l) ==
  /\ cups' \in Seq(Cups) /\ Len(cups') = Len(cups) + 1
  /\ \A id \in DOMAIN cups : cups'[id] = cups[id]
  /\ cups'[Len(cups) + 1].winners = <<>> /\ cups'[Len(cups) + 1].sponsor \in Accounts
  /\ funder' = Append(funder, l)
  /\ mixed' = mixed \cup {<<a, l>> : a \in Unread}

LEMMA CreatesStep ==
  ASSUME CupAssumption, CupInv, CupInv', NEW l \in Launches \cup {Nobody},
         NEW sponsor \in Accounts, NEW token, NEW amount, NEW bps,
         Creates(l, sponsor, token, amount, bps)
  PROVE  Adds(l)
<1>1. PICK received : cups' = Append(cups,
         [sponsor |-> sponsor, token |-> token, prizePool |-> received,
          payoutBps |-> bps, verifier |-> sponsor, winners |-> <<>>,
          state |-> "OPEN", finalizeDeadline |-> now + Term,
          claimed |-> {}, paid |-> 0])
  BY DEF Creates, CreateTournament
<1>2. cups \in Seq(Cups) /\ cups' \in Seq(Cups)
  BY DEF CupInv
<1> DEFINE cup == [sponsor |-> sponsor, token |-> token, prizePool |-> received,
          payoutBps |-> bps, verifier |-> sponsor, winners |-> <<>>,
          state |-> "OPEN", finalizeDeadline |-> now + Term,
          claimed |-> {}, paid |-> 0]
<1>3. cup.winners = <<>> /\ cup.sponsor \in Accounts /\ cups' = Append(cups, cup)
  BY <1>1
<1> HIDE DEF cup
<1>4. /\ Len(cups') = Len(cups) + 1 /\ cups'[Len(cups) + 1] = cup
      /\ \A id \in DOMAIN cups : cups'[id] = cups[id]
  BY <1>2, <1>3
<1> QED
  BY <1>2, <1>3, <1>4 DEF Adds, Creates

\* The funder of a cup is its creator.
LEMMA AddedFrame ==
  ASSUME CupInv, HistoryTypes, NEW l \in Launches \cup {Nobody}, Adds(l)
  PROVE  /\ DOMAIN cups' = DOMAIN cups \cup {Len(cups) + 1}
         /\ Len(cups) + 1 \notin DOMAIN cups /\ Len(cups') = Len(cups) + 1
         /\ Len(cups) + 1 \in Nat
         /\ funder' \in Seq(Launches \cup {Nobody}) /\ Len(funder') = Len(cups')
         /\ \A id \in DOMAIN cups : funder'[id] = funder[id]
         /\ funder'[Len(cups) + 1] = l
<1>1. cups \in Seq(Cups) /\ cups' \in Seq(Cups) /\ funder \in Seq(Launches \cup {Nobody})
  BY DEF CupInv, HistoryTypes, Adds
<1>2. DOMAIN cups = 1 .. Len(cups) /\ DOMAIN cups' = 1 .. Len(cups') /\ Len(cups) \in Nat
      /\ DOMAIN funder = 1 .. Len(cups) /\ Len(funder) = Len(cups)
  BY <1>1 DEF HistoryTypes
<1> QED
  BY <1>1, <1>2 DEF Adds

\* Only the creator has one more.
LEMMA CountGrows ==
  ASSUME CupInv, HistoryTypes, NEW l \in Launches \cup {Nobody}, Adds(l)
  PROVE  /\ \A k \in Launches : k # l => Count'[k] = Count[k]
         /\ l \in Launches => Count'[l] = Count[l] + 1
<1> DEFINE new == Len(cups) + 1
<1>1. /\ DOMAIN cups' = DOMAIN cups \cup {new} /\ new \notin DOMAIN cups
      /\ \A id \in DOMAIN cups : funder'[id] = funder[id]
      /\ funder'[new] = l
  BY AddedFrame
<1> HIDE DEF new
<1>2. ASSUME NEW k \in Launches, k # l PROVE CupsOf(k)' = CupsOf(k)
  BY <1>1, <1>2 DEF CupsOf
<1>3. ASSUME l \in Launches PROVE Cardinality(CupsOf(l)') = Cardinality(CupsOf(l)) + 1
  <2>1. CupsOf(l)' = CupsOf(l) \cup {new} /\ new \notin CupsOf(l)
    BY <1>1 DEF CupsOf
  <2>2. IsFiniteSet(CupsOf(l))
    <3>1. DOMAIN cups = 1 .. Len(cups) /\ Len(cups) \in Int /\ 1 \in Int
      BY DEF CupInv
    <3>2. CupsOf(l) \subseteq DOMAIN cups
      BY DEF CupsOf
    <3> QED
      BY <3>1, <3>2, FS_Interval, FS_Subset, Zenon
  <2> QED
    BY <2>1, <2>2, FS_AddElement, Zenon
<1> QED
  BY <1>2, <1>3 DEF Count

-----------------------------------------------------------------------------
(***************************************************************************)
(* When the move of one page keeps a part of the invariant.                *)
(***************************************************************************)

\* The page's way: the other launches are as they were.
LEMMA PageMoveOK ==
  ASSUME PageInv, NEW l \in Launches, NEW at, NEW job, NEW id, PageMoves(l, at, job, id),
         \A k \in Launches : k # l => order'[k] = order[k], PageOK(l)'
  PROVE  PageInv'
BY DEF PageInv, PageOK, PageMoves

\* A page keeps its id or takes one that belongs to it.
LEMMA PageMoveOwn ==
  ASSUME OwnInv, SameCups, UNCHANGED <<jobs, relayer>>,
         NEW l \in Launches, NEW at, NEW job, NEW id, PageMoves(l, at, job, id),
         at = "mined" => <<l, LastId>> \in Owned, id # 0 => <<l, id>> \in Owned,
         at \in AvaxAts \ {"create", "mined"} => id # 0
  PROVE  OwnInv'
<1>1. Owned' = Owned /\ LastId' = LastId
  BY MovesKeepForms, SameCupsFrame
<1>2. jobs' = jobs /\ relayer' = relayer
  OBVIOUS
<1> QED
  BY <1>1, <1>2 DEF OwnInv, PageMoves

\* A page does not go back to where it has no cup yet.
LEMMA PageMoveCount ==
  ASSUME CountInv, SameCups, UNCHANGED <<jobs, relayer, deaths>>,
         NEW l \in Launches, NEW at, NEW job, NEW id, PageMoves(l, at, job, id),
         at \in {"form", "create"} => page[l].at \in {"form", "create"}
  PROVE  CountInv'
<1>1. Count' = Count
  BY MovesKeepForms, SameCupsFrame
<1>2. jobs' = jobs /\ relayer' = relayer /\ deaths' = deaths
  OBVIOUS
<1> QED
  BY <1>1, <1>2 DEF CountInv, PageMoves, HasJob, Created

\* The row of a page that is about to write its bracket is there.
LEMMA PageMoveRow ==
  ASSUME RowInv, SameCups, UNCHANGED <<relayer, rows, brackets>>,
         NEW l \in Launches, NEW at, NEW job, NEW id, PageMoves(l, at, job, id),
         at = "init bracket" => page[l].at = "init bracket" /\ page[l].id = id
  PROVE  RowInv'
<1>1. (Clear' <=> Clear) /\ funder' = funder /\ DOMAIN cups' = DOMAIN cups
  BY MovesKeepForms, SameCupsFrame DEF SameCups, historyVars
<1> QED
  BY <1>1, ZenonT(60) DEF RowInv, PageMoves

\* The page's own part of what is passed on.
LEMMA PageMovePointer ==
  ASSUME PointerInv, UNCHANGED <<jobs, capture, intents>>,
         NEW l \in Launches, NEW at, NEW job, NEW id, PageMoves(l, at, job, id),
         at = "polling" => JobOf(l, job)
  PROVE  PointerInv'
BY DEF PointerInv, PageMoves, JobOf

\* Nobody's winners change.
LEMMA SameWinners ==
  ASSUME WinnersAsEntered, FormsKept, UNCHANGED <<cups, funder, mixed, reverted>>
  PROVE  WinnersAsEntered'
<1>1. \A l \in Launches : Wallet(l)' = Wallet(l)
  BY DEF FormsKept, Wallet
<1> QED
  BY <1>1 DEF WinnersAsEntered, FormsKept

\* A step without an order.
LEMMA SameHolder ==
  ASSUME HolderInv, UNCHANGED <<order, capture, hook, intents, jobs>>
  PROVE  HolderInv'
<1> SUFFICES ASSUME NEW l \in Launches PROVE HolderOK(l)'
  BY DEF HolderInv
<1>1. HolderOK(l)
  BY DEF HolderInv
<1> QED
  BY <1>1 DEF HolderOK, HasJob, Enqueues

-----------------------------------------------------------------------------
(***************************************************************************)
(* The setup page.                                                         *)
(***************************************************************************)
Good == CupInv /\ FundingInv

\* A page goes where its launch and what is known of its id allow.
Allowed(l, at, id) ==
  /\ at = "mined" => page[l].at = "mined"
  /\ at \in {"form", "create"} => page[l].at \in {"form", "create"}
  /\ at = "init bracket" => page[l].at = "init bracket" /\ page[l].id = id
  /\ at \in AvaxAts \ {"create", "mined"} => id # 0
  /\ id # 0 => <<l, id>> \in Owned

\* Where cups, jobs and rows stay, a page that goes where it may keeps most of
\* the invariant; the orders and requests are left to each step.
LEMMA PageKeeps ==
  ASSUME FundingInv, NEW l \in Launches, NEW at, NEW job, NEW id,
         PageMoves(l, at, job, id), Allowed(l, at, id),
         UNCHANGED <<cupVars, jobs, relayer, dbVars, historyVars>>
  PROVE  /\ RelayerTypes' /\ HistoryTypes' /\ CountInv' /\ OwnInv' /\ RowInv'
         /\ WinnersAsEntered'
<1>1. /\ UNCHANGED <<cups, jobs, relayer, rows, brackets, funder, deaths, mixed, reverted>>
      /\ SameCups /\ FormsKept
  BY MovesKeepForms DEF SameCups, cupVars, dbVars, historyVars
<1>2. page[l].at = "mined" => <<l, LastId>> \in Owned
  BY DEF FundingInv, OwnInv
<1>3. RelayerTypes'
  BY <1>1 DEF FundingInv, RelayerTypes
<1>4. HistoryTypes'
  BY <1>1 DEF FundingInv, HistoryTypes, historyVars
<1>5. CountInv'
  BY <1>1, PageMoveCount DEF FundingInv, Allowed
<1>6. OwnInv'
  BY <1>1, <1>2, PageMoveOwn DEF FundingInv, Allowed
<1>7. RowInv'
  BY <1>1, PageMoveRow DEF FundingInv, Allowed
<1>8. WinnersAsEntered'
  BY <1>1, SameWinners DEF FundingInv
<1> QED
  BY <1>3, <1>4, <1>5, <1>6, <1>7, <1>8

\* The form is sent.
LEMMA LaunchInv ==
  ASSUME Good, NEW l \in Launches, Launch(l) PROVE FundingInv'
<1> DEFINE at == IF page[l].form.currency = "USD" THEN "paying" ELSE "create"
<1>1. PageMoves(l, at, page[l].job, page[l].id)
  <2>1. WebTypes /\ Goes(l, at) /\ at \in PageAts
    BY DEF Good, FundingInv, Launch, PageAts, UsdAts, AvaxAts
  <2> QED
    BY <2>1, GoesStep
<1>2. page[l].at = "form" /\ order[l] = "none" /\ page[l].form \in Forms
  BY DEF Good, FundingInv, Launch, PageInv, PageOK, WebTypes, Pages
<1>3. /\ \A k \in Launches : k # l => order'[k] = order[k]
      /\ order'[l] = IF page[l].form.currency = "USD" THEN "created" ELSE "none"
      /\ order' \in [Launches -> {"none", "created", "approved"}]
  BY <1>2 DEF Good, FundingInv, WebTypes, Launch
<1>4. UNCHANGED <<cupVars, capture, hook, intents, jobs, relayer, dbVars, left, historyVars>>
  BY DEF Launch, serverVars
<1>5. PageInv'
  <2>1. PageOK(l)'
    BY <1>1, <1>2, <1>3 DEF PageOK, PageMoves, UsdAts, AvaxAts, Forms, NoForm
  <2>2. PageInv
    BY DEF Good, FundingInv
  <2> HIDE DEF at
  <2> QED
    BY <1>1, <1>3, <2>1, <2>2, PageMoveOK
<1>6. WebTypes'
  BY <1>1, <1>3, <1>4 DEF Good, FundingInv, WebTypes, PageMoves
<1>7. HolderInv'
  BY <1>2, <1>3, <1>4 DEF Good, FundingInv, HolderInv, HolderOK, HasJob, Enqueues
<1>8. Allowed(l, at, page[l].id) /\ at # "polling"
  BY <1>2 DEF AvaxAts, Allowed, Good, FundingInv, OwnInv
<1> HIDE DEF at
<1>9. PointerInv'
  BY <1>1, <1>4, <1>8, PageMovePointer DEF Good, FundingInv
<1> QED
  BY <1>1, <1>4, <1>5, <1>6, <1>7, <1>8, <1>9, PageKeeps DEF Good, FundingInv

\* The order is approved and posted; nothing is enqueued for it yet.
LEMMA ApproveInv ==
  ASSUME Good, NEW l \in Launches, Approve(l) PROVE FundingInv'
<1>1. PageMoves(l, "capturing", page[l].job, page[l].id)
  <2>1. WebTypes /\ Goes(l, "capturing") /\ "capturing" \in PageAts
    BY DEF Good, FundingInv, Approve, PageAts, UsdAts
  <2> QED
    BY <2>1, GoesStep
<1>2. page[l].at = "paying" /\ page[l].form.currency = "USD" /\ PageOK(l)
  BY DEF Good, FundingInv, Approve, PageInv, PageOK, UsdAts
<1>3. /\ \A k \in Launches : k # l => order'[k] = order[k]
      /\ order'[l] = "approved"
      /\ order' \in [Launches -> {"none", "created", "approved"}]
  BY DEF Good, FundingInv, WebTypes, Approve
<1>4. UNCHANGED <<cupVars, hook, intents, jobs, relayer, dbVars, left, historyVars>>
  BY DEF Approve, dbVars
<1>5. /\ capture' \in [Launches -> [1 .. MaxCaptures -> Requests]]
      /\ \A k \in Launches : k # l => capture'[k] = capture[k]
      /\ \A r \in 1 .. MaxCaptures :
            capture'[l][r] = capture[l][r] \/ capture'[l][r].at = "verify"
  <2> DEFINE row == [r \in 1 .. MaxCaptures |->
           IF r <= left.captures THEN [at |-> "verify", job |-> 0] ELSE capture[l][r]]
  <2>1. capture \in [Launches -> [1 .. MaxCaptures -> Requests]]
    BY DEF Good, FundingInv, WebTypes
  <2>2. capture' = [capture EXCEPT ![l] = row]
    BY DEF Approve
  <2>3. row \in [1 .. MaxCaptures -> Requests]
    BY <2>1 DEF Requests
  <2>4. capture'[l] = row /\ \A r \in 1 .. MaxCaptures : row[r] = capture[l][r] \/ row[r].at = "verify"
    BY <2>1, <2>2
  <2> HIDE DEF row
  <2> QED
    BY <2>1, <2>2, <2>3, <2>4
<1>6. PageInv'
  <2>1. PageOK(l)'
    BY <1>1, <1>2, <1>3 DEF PageOK, PageMoves, UsdAts, AvaxAts, Forms, NoForm
  <2>2. PageInv
    BY DEF Good, FundingInv
  <2> QED
    BY <1>1, <1>3, <2>1, <2>2, PageMoveOK
<1>7. WebTypes'
  BY <1>1, <1>3, <1>4, <1>5 DEF Good, FundingInv, WebTypes, PageMoves
<1>8. HolderInv'
  BY <1>3, <1>4, <1>5 DEF Good, FundingInv, HolderInv, HolderOK, HasJob, Enqueues
<1>9. Allowed(l, "capturing", page[l].id)
  BY DEF AvaxAts, Allowed, Good, FundingInv, OwnInv
<1>10. PointerInv'
  BY <1>1, <1>4, <1>5 DEF Good, FundingInv, PointerInv, PageMoves, JobOf
<1> QED
  BY <1>1, <1>4, <1>6, <1>7, <1>8, <1>9, <1>10, PageKeeps DEF Good, FundingInv

\* A page moves alone and does not wait for an order.
LEMMA PageAloneInv ==
  ASSUME Good, NEW l \in Launches, NEW at, NEW job, NEW id,
         PageMoves(l, at, job, id), Allowed(l, at, id), page[l].at # "form",
         \/ at \in {"console", "live", "failed"}
         \/ page[l].at \in AvaxAts /\ at \in AvaxAts,
         UNCHANGED <<cupVars, order, serverVars, jobs, relayer, dbVars, left, historyVars>>
  PROVE  FundingInv'
<1>1. UNCHANGED <<order, capture, hook, intents, jobs, left>>
  BY DEF serverVars
<1>2. PageInv'
  <2>1. PageInv /\ PageOK(l)
    BY DEF Good, FundingInv, PageInv
  <2>2. PageOK(l)'
    BY <1>1, <2>1 DEF PageOK, PageMoves, UsdAts, AvaxAts
  <2> QED
    BY <1>1, <2>1, <2>2, PageMoveOK
<1>3. WebTypes'
  BY <1>1 DEF Good, FundingInv, WebTypes, PageMoves
<1>4. HolderInv'
  BY <1>1 DEF Good, FundingInv, HolderInv, HolderOK, HasJob, Enqueues
<1>5. PointerInv'
  BY <1>1, PageMovePointer DEF Good, FundingInv, AvaxAts
<1> QED
  BY <1>2, <1>3, <1>4, <1>5, PageKeeps DEF Good, FundingInv

\* pollJobForTournament: the id of a job that is done is the order's own.
LEMMA PollJobInv ==
  ASSUME Good, NEW l \in Launches, PollJob(l) PROVE FundingInv'
<1>1. /\ page \in [Launches -> Pages] /\ page[l].at = "polling" /\ JobOf(l, page[l].job)
      /\ jobs \in Seq(FundJobs) /\ WebTypes
      /\ UNCHANGED <<cupVars, order, serverVars, jobs, relayer, dbVars, left, historyVars>>
  BY DEF Good, FundingInv, WebTypes, RelayerTypes, PointerInv, PollJob
<1>2. CASE jobs[page[l].job].status # "done" /\ Goes(l, "failed")
  <2>1. PageMoves(l, "failed", page[l].job, page[l].id)
    BY <1>1, <1>2, GoesStep DEF PageAts
  <2>2. Allowed(l, "failed", page[l].id)
    BY DEF AvaxAts, Allowed, Good, FundingInv, OwnInv
  <2> QED
    BY <1>1, <2>1, <2>2, PageAloneInv
<1>3. CASE jobs[page[l].job].status = "done"
  <2>1. PICK id \in Nat : id = jobs[page[l].job].id
    <3>1. jobs[page[l].job] \in FundJobs
      BY <1>1 DEF JobOf
    <3> QED
      BY <3>1 DEF FundJobs
  <2>2. <<l, id>> \in Owned
    BY <1>1, <1>3, <2>1 DEF Good, FundingInv, OwnInv, JobOf
  <2>3. PICK at \in {"console", "live"} :
          page' = [page EXCEPT ![l] = [page[l] EXCEPT !.id = id, !.at = at]]
    BY <1>1, <1>3, <2>1 DEF PollJob
  <2>4. PageMoves(l, at, page[l].job, id)
    <3>1. [page[l] EXCEPT !.id = id, !.at = at] \in Pages
      BY <1>1, <2>1, <2>3 DEF Pages, PageAts
    <3> QED
      BY <1>1, <2>3, <3>1 DEF PageMoves, Pages
  <2>5. Allowed(l, at, id)
    BY <2>2, <2>3 DEF AvaxAts, Allowed
  <2> QED
    BY <1>1, <2>3, <2>4, <2>5, PageAloneInv
<1> QED
  BY <1>2, <1>3 DEF PollJob

-----------------------------------------------------------------------------
(***************************************************************************)
(* The capture route and the webhook.                                      *)
(***************************************************************************)

\* The page stays, or it learns from its own request that it has failed or for
\* which job to wait.
Answers(l, at, job) ==
  /\ PageMoves(l, at, job, page[l].id)
  /\ \/ at = page[l].at /\ job = page[l].job
     \/ page[l].at = "capturing" /\ at = "failed"
     \/ page[l].at = "capturing" /\ at = "polling" /\ JobOf(l, job)

LEMMA AnsweredStep ==
  ASSUME WebTypes, NEW l \in Launches, NEW r, NEW job \in Nat, Answered(l, r, job),
         job # 0 => JobOf(l, job)
  PROVE  \E at \in PageAts, j \in Nat : Answers(l, at, j)
<1>1. page \in [Launches -> Pages] /\ page[l] \in Pages
  BY DEF WebTypes
<1>2. page[l].at \in PageAts /\ page[l].job \in Nat
  BY <1>1 DEF Pages
<1>3. CASE page' = page
  <2>1. Answers(l, page[l].at, page[l].job)
    BY <1>1, <1>3 DEF Answers, PageMoves
  <2> QED
    BY <1>2, <2>1
<1>4. CASE page' # page
  <2>1. PICK at \in {"failed", "polling"} :
          /\ at = IF job = 0 THEN "failed" ELSE "polling"
          /\ page' = [page EXCEPT ![l] = [page[l] EXCEPT !.at = at, !.job = job]]
    BY <1>4 DEF Answered
  <2>2. page[l].at = "capturing" /\ at \in PageAts
    BY <1>4 DEF Answered, PageAts, UsdAts
  <2>3. [page[l] EXCEPT !.at = at, !.job = job] \in Pages
    BY <1>1, <2>2 DEF Pages
  <2>4. Answers(l, at, job)
    BY <1>1, <2>1, <2>2, <2>3 DEF Answers, PageMoves, Pages
  <2> QED
    BY <2>2, <2>4
<1> QED
  BY <1>3, <1>4

LEMMA PageStays ==
  ASSUME WebTypes, NEW l \in Launches, page' = page
  PROVE  \E at \in PageAts, j \in Nat : Answers(l, at, j)
<1>1. page \in [Launches -> Pages] /\ page[l] \in Pages
  BY DEF WebTypes
<1>2. page[l].at \in PageAts /\ page[l].job \in Nat
  BY <1>1 DEF Pages
<1>3. Answers(l, page[l].at, page[l].job)
  BY <1>1 DEF Answers, PageMoves
<1> QED
  BY <1>2, <1>3

\* What concerns the page, when the server answers.
LEMMA AnswerKeeps ==
  ASSUME Good, NEW l \in Launches, NEW at \in PageAts, NEW j \in Nat, Answers(l, at, j),
         order' = order
  PROVE  /\ PageInv' /\ page' \in [Launches -> Pages] /\ FormsKept
         /\ Allowed(l, at, page[l].id)
         /\ \A k \in Launches : page'[k].at = "polling" => JobOf(k, page'[k].job)
<1>1. PageInv /\ PageOK(l) /\ PageMoves(l, at, j, page[l].id)
  BY DEF Good, FundingInv, PageInv, Answers
<1>2. PageInv'
  <2>1. PageOK(l)'
    BY <1>1 DEF PageOK, PageMoves, Answers, UsdAts, AvaxAts
  <2> QED
    BY <1>1, <2>1, PageMoveOK
<1>3. Allowed(l, at, page[l].id)
  BY DEF Good, FundingInv, OwnInv, Answers, Allowed, AvaxAts
<1>4. \A k \in Launches : page'[k].at = "polling" => JobOf(k, page'[k].job)
  BY <1>1 DEF Good, FundingInv, PointerInv, Answers, PageMoves
<1> QED
  BY <1>1, <1>2, <1>3, <1>4, MovesKeepForms DEF PageMoves

\* A request that adds no job.
LEMMA RequestInv ==
  ASSUME Good, NEW l \in Launches, NEW at \in PageAts, NEW j \in Nat, Answers(l, at, j),
         UNCHANGED <<cupVars, order, jobs, relayer, dbVars, historyVars>>,
         capture' \in [Launches -> [1 .. MaxCaptures -> Requests]],
         hook' \in [Launches -> {"idle", "enqueue"}],
         intents' \in [Launches -> Intents], left' \in Bounds, HolderInv',
         \A k \in Launches :
            /\ intents'[k].job # intents[k].job => JobOf(k, intents'[k].job)
            /\ \A s \in 1 .. MaxCaptures :
                  capture'[k][s].at = "record" => capture'[k][s] = capture[k][s]
  PROVE  FundingInv'
<1>1. order' = order /\ jobs' = jobs
  OBVIOUS
<1>2. /\ PageInv' /\ page' \in [Launches -> Pages] /\ FormsKept
      /\ Allowed(l, at, page[l].id)
      /\ \A k \in Launches : page'[k].at = "polling" => JobOf(k, page'[k].job)
  BY <1>1, AnswerKeeps
<1>3. WebTypes'
  BY <1>1, <1>2 DEF Good, FundingInv, WebTypes
<1>4. PointerInv'
  BY <1>1, <1>2 DEF Good, FundingInv, PointerInv, JobOf
<1>5. PageMoves(l, at, j, page[l].id)
  BY DEF Answers
<1> QED
  BY <1>2, <1>3, <1>4, <1>5, PageKeeps DEF Good, FundingInv

\* One request goes on.
CaptureMoves(l, r, at) ==
  /\ capture' \in [Launches -> [1 .. MaxCaptures -> Requests]]
  /\ \A k \in Launches : k # l => capture'[k] = capture[k]
  /\ \A s \in 1 .. MaxCaptures : s # r => capture'[l][s] = capture[l][s]
  /\ capture'[l][r].at = at

LEMMA CaptureStep ==
  ASSUME WebTypes, NEW l \in Launches, NEW r \in 1 .. MaxCaptures,
         NEW at \in {"answered", "enqueue"},
         capture' = [capture EXCEPT ![l][r].at = at]
  PROVE  CaptureMoves(l, r, at)
<1>1. capture \in [Launches -> [1 .. MaxCaptures -> Requests]]
  BY DEF WebTypes
<1>2. capture' = [capture EXCEPT ![l] =
                    [capture[l] EXCEPT ![r] = [capture[l][r] EXCEPT !.at = at]]]
  OBVIOUS
<1>3. [capture[l][r] EXCEPT !.at = at] \in Requests
  <2>1. capture[l][r] \in Requests
    BY <1>1
  <2> QED
    BY <2>1 DEF Requests
<1>4. [capture[l][r] EXCEPT !.at = at].at = at
  <2>1. capture[l][r] \in Requests
    BY <1>1
  <2> QED
    BY <2>1 DEF Requests
<1>5. [capture[l] EXCEPT ![r] = [capture[l][r] EXCEPT !.at = at]]
        \in [1 .. MaxCaptures -> Requests]
  BY <1>1, <1>3
<1> QED
  BY <1>1, <1>2, <1>4, <1>5 DEF CaptureMoves

\* A request that is over holds the order no longer.
LEMMA AnsweredHolder ==
  ASSUME HolderInv, NEW l \in Launches, NEW r \in 1 .. MaxCaptures,
         CaptureMoves(l, r, "answered"), UNCHANGED <<order, hook, jobs>>,
         \A k \in Launches : intents[k].claimed => intents'[k].claimed
  PROVE  HolderInv'
BY DEF HolderInv, HolderOK, HasJob, Enqueues, CaptureMoves

\* claimFundingIntent lets one request through, when nobody holds the order.
LEMMA CaptureClaimInv ==
  ASSUME Good, NEW l \in Launches, NEW r \in 1 .. MaxCaptures, CaptureClaim(l, r)
  PROVE  FundingInv'
<1>1. /\ WebTypes /\ HolderInv /\ intents \in [Launches -> Intents] /\ order[l] = "approved"
      /\ intents[l].job \in Nat /\ (intents[l].job # 0 => JobOf(l, intents[l].job))
      /\ UNCHANGED <<cupVars, order, jobs, relayer, dbVars, historyVars>>
      /\ UNCHANGED <<hook, left>>
  <2>1. /\ WebTypes /\ HolderInv /\ intents \in [Launches -> Intents] /\ order[l] = "approved"
        /\ intents[l].job # 0 => JobOf(l, intents[l].job)
        /\ UNCHANGED <<cupVars, order, jobs, relayer, dbVars, historyVars>>
        /\ UNCHANGED <<hook, left>>
    BY DEF Good, FundingInv, WebTypes, PointerInv, CaptureClaim
  <2>2. intents[l] \in Intents
    BY <2>1
  <2> QED
    BY <2>1, <2>2 DEF Intents
<1>2. CASE intents[l].claimed
  <2>1. /\ capture' = [capture EXCEPT ![l][r].at = "answered"]
        /\ Answered(l, r, intents[l].job) /\ intents' = intents
    BY <1>2 DEF CaptureClaim
  <2>2. CaptureMoves(l, r, "answered")
    BY <1>1, <2>1, CaptureStep
  <2>3. PICK at \in PageAts, j \in Nat : Answers(l, at, j)
    <3>1. PICK job \in Nat : job = intents[l].job
      BY <1>1
    <3>2. Answered(l, r, job) /\ (job # 0 => JobOf(l, job))
      BY <1>1, <2>1, <3>1
    <3> QED
      BY <1>1, <3>2, AnsweredStep
  <2>4. HolderInv'
    BY <1>1, <2>1, <2>2, AnsweredHolder
  <2>5. \A k \in Launches : \A s \in 1 .. MaxCaptures :
                  capture'[k][s].at = "record" => capture'[k][s] = capture[k][s]
    BY <2>2 DEF CaptureMoves
  <2>6. /\ capture' \in [Launches -> [1 .. MaxCaptures -> Requests]]
        /\ hook' \in [Launches -> {"idle", "enqueue"}]
        /\ intents' \in [Launches -> Intents] /\ left' \in Bounds
    BY <1>1, <2>1, <2>2 DEF CaptureMoves, WebTypes
  <2> QED
    BY <1>1, <2>1, <2>3, <2>4, <2>5, <2>6, RequestInv
<1>3. CASE ~intents[l].claimed
  <2>1. /\ capture' = [capture EXCEPT ![l][r].at = "enqueue"] /\ page' = page
        /\ intents' = [intents EXCEPT ![l] = [intents[l] EXCEPT !.claimed = TRUE]]
    BY <1>3 DEF CaptureClaim
  <2>2. CaptureMoves(l, r, "enqueue")
    BY <1>1, <2>1, CaptureStep
  <2>3. PICK at \in PageAts, j \in Nat : Answers(l, at, j)
    BY <1>1, <2>1, PageStays
  <2>4. /\ intents' \in [Launches -> Intents] /\ intents'[l].claimed
        /\ \A k \in Launches : k # l => intents'[k] = intents[k]
        /\ \A k \in Launches : intents'[k].job = intents[k].job
    BY <1>1, <2>1 DEF Intents
  <2>5. HolderInv'
    BY <1>1, <1>3, <2>2, <2>4 DEF HolderInv, HolderOK, HasJob, Enqueues, CaptureMoves
  <2>6. \A k \in Launches : \A s \in 1 .. MaxCaptures :
                  capture'[k][s].at = "record" => capture'[k][s] = capture[k][s]
    BY <2>2 DEF CaptureMoves
  <2>7. /\ capture' \in [Launches -> [1 .. MaxCaptures -> Requests]]
        /\ hook' \in [Launches -> {"idle", "enqueue"}] /\ left' \in Bounds
    BY <1>1, <2>2 DEF CaptureMoves, WebTypes
  <2> QED
    BY <1>1, <2>3, <2>4, <2>5, <2>6, <2>7, RequestInv
<1> QED
  BY <1>2, <1>3

\* The intent learns the job that was enqueued for it.
LEMMA CaptureRecordInv ==
  ASSUME Good, NEW l \in Launches, NEW r \in 1 .. MaxCaptures, CaptureRecord(l, r)
  PROVE  FundingInv'
<1>1. /\ WebTypes /\ HolderInv /\ intents \in [Launches -> Intents]
      /\ capture \in [Launches -> [1 .. MaxCaptures -> Requests]]
      /\ UNCHANGED <<cupVars, order, jobs, relayer, dbVars, historyVars>>
      /\ UNCHANGED <<hook, left>>
      /\ JobOf(l, capture[l][r].job)
      /\ capture' = [capture EXCEPT ![l][r].at = "answered"]
      /\ Answered(l, r, capture[l][r].job)
  BY DEF Good, FundingInv, WebTypes, PointerInv, CaptureRecord
<1>2. PICK job \in Nat : job = capture[l][r].job
  <2>1. capture[l][r] \in Requests
    BY <1>1
  <2> QED
    BY <2>1 DEF Requests
<1>3. /\ intents' \in [Launches -> Intents] /\ intents'[l].job = job
      /\ \A k \in Launches : k # l => intents'[k] = intents[k]
      /\ \A k \in Launches : intents'[k].claimed = intents[k].claimed
  <2>1. intents' = [intents EXCEPT ![l] = [intents[l] EXCEPT !.job = job]]
    BY <1>2 DEF CaptureRecord
  <2>2. [intents[l] EXCEPT !.job = job] \in Intents
    <3>1. intents[l] \in Intents
      BY <1>1
    <3> QED
      BY <3>1 DEF Intents
  <2> QED
    BY <1>1, <2>1, <2>2 DEF Intents
<1>4. CaptureMoves(l, r, "answered")
  BY <1>1, CaptureStep
<1>5. PICK at \in PageAts, j \in Nat : Answers(l, at, j)
  <2>1. Answered(l, r, job) /\ JobOf(l, job)
    BY <1>1, <1>2
  <2> QED
    BY <1>1, <2>1, AnsweredStep
<1>6. HolderInv'
  BY <1>1, <1>3, <1>4, AnsweredHolder
<1>7. \A k \in Launches : \A s \in 1 .. MaxCaptures :
                capture'[k][s].at = "record" => capture'[k][s] = capture[k][s]
  BY <1>4 DEF CaptureMoves
<1>8. \A k \in Launches : intents'[k].job # intents[k].job => JobOf(k, intents'[k].job)
  BY <1>1, <1>2, <1>3
<1>9. /\ capture' \in [Launches -> [1 .. MaxCaptures -> Requests]]
      /\ hook' \in [Launches -> {"idle", "enqueue"}] /\ left' \in Bounds
  BY <1>1, <1>4 DEF CaptureMoves, WebTypes
<1> QED
  BY <1>1, <1>3, <1>5, <1>6, <1>7, <1>8, <1>9, RequestInv

\* The webhook claims an intent that nobody holds.
LEMMA HookClaimInv ==
  ASSUME Good, NEW l \in Launches, HookClaim(l) PROVE FundingInv'
<1>1. /\ WebTypes /\ HolderInv /\ intents \in [Launches -> Intents]
      /\ hook \in [Launches -> {"idle", "enqueue"}] /\ left \in Bounds
      /\ capture \in [Launches -> [1 .. MaxCaptures -> Requests]]
      /\ UNCHANGED <<cupVars, order, jobs, relayer, dbVars, historyVars>>
      /\ capture' = capture /\ page' = page /\ order[l] = "approved"
  BY DEF Good, FundingInv, WebTypes, HookClaim, pageVars
<1>2. left' \in Bounds
  BY <1>1, SMTT(60) DEF HookClaim, Bounds
<1>3. /\ intents' \in [Launches -> Intents] /\ hook' \in [Launches -> {"idle", "enqueue"}]
      /\ \A k \in Launches : k # l => intents'[k] = intents[k] /\ hook'[k] = hook[k]
      /\ intents'[l].job = intents[l].job
      /\ \/ intents'[l] = intents[l] /\ hook'[l] = hook[l]
         \/ ~intents[l].claimed /\ intents'[l].claimed /\ hook'[l] = "enqueue"
  <2>1. CASE intents[l].claimed
    BY <1>1, <2>1 DEF HookClaim
  <2>2. CASE ~intents[l].claimed
    <3>1. /\ intents' = [intents EXCEPT ![l] = [intents[l] EXCEPT !.claimed = TRUE]]
          /\ hook' = [hook EXCEPT ![l] = "enqueue"]
      BY <2>2 DEF HookClaim
    <3> QED
      BY <1>1, <2>2, <3>1 DEF Intents
  <2> QED
    BY <2>1, <2>2
<1>4. HolderInv'
  BY <1>1, <1>3 DEF HolderInv, HolderOK, HasJob, Enqueues
<1>5. PICK at \in PageAts, j \in Nat : Answers(l, at, j)
  BY <1>1, PageStays
<1>6. \A k \in Launches : intents'[k].job = intents[k].job
  BY <1>3
<1> QED
  BY <1>1, <1>2, <1>3, <1>4, <1>5, <1>6, RequestInv

\* A new job: the order had none, and its launch no cup.
LEMMA EnqueueInv ==
  ASSUME Good, NEW l \in Launches, NEW generic \in BOOLEAN,
         jobs' = Append(jobs, FundJob(l, generic)), ~HasJob(l), order[l] = "approved", intents[l].claimed,
         UNCHANGED <<cupVars, pageVars, intents, relayer, dbVars, left, historyVars>>,
         capture' \in [Launches -> [1 .. MaxCaptures -> Requests]],
         hook' \in [Launches -> {"idle", "enqueue"}],
         \A k \in Launches : \A s \in 1 .. MaxCaptures :
            capture'[k][s].at = "record" =>
               capture'[k][s] = capture[k][s] \/ (k = l /\ capture'[k][s].job = Len(jobs')),
         \A k \in Launches : k # l => capture'[k] = capture[k] /\ hook'[k] = hook[k],
         hook'[l] # "enqueue", \A s \in 1 .. MaxCaptures : capture'[l][s].at # "enqueue"
  PROVE  FundingInv'
<1> DEFINE new == Len(jobs) + 1
<1>1. /\ UNCHANGED <<page, order, intents, relayer, rows, brackets, left, cups, funder,
                     deaths, mixed, reverted>>
      /\ UNCHANGED cupVars /\ UNCHANGED historyVars
  BY DEF pageVars, cupVars, dbVars, historyVars
<1>2. /\ jobs' \in Seq(FundJobs) /\ DOMAIN jobs' = DOMAIN jobs \cup {new}
      /\ new \notin DOMAIN jobs /\ Len(jobs') = new
      /\ \A j \in DOMAIN jobs : jobs'[j] = jobs[j]
      /\ jobs'[new].order = l /\ jobs'[new].status = "pending"
  <2> DEFINE job == FundJob(l, generic)
  <2>1. job \in FundJobs /\ job.order = l /\ job.status = "pending"
    BY DEF FundJob, FundJobs
  <2>2. jobs \in Seq(FundJobs) /\ jobs' = Append(jobs, job)
    BY DEF Good, FundingInv, RelayerTypes
  <2> HIDE DEF job
  <2> QED
    BY <2>1, <2>2
<1> HIDE DEF new
<1>3. relayer.at # "idle" => relayer.job \in DOMAIN jobs /\ relayer.job # new
  BY <1>2 DEF Good, FundingInv, RelayerTypes
<1>4. WebTypes'
  BY <1>1 DEF Good, FundingInv, WebTypes
<1>5. RelayerTypes'
  BY <1>1, <1>2, <1>3 DEF Good, FundingInv, RelayerTypes
<1>6. HistoryTypes'
  BY <1>1 DEF Good, FundingInv, HistoryTypes
<1>7. PageInv'
  BY <1>1 DEF Good, FundingInv, PageInv, PageOK
<1>8. \A k \in Launches : (HasJob(k)' <=> HasJob(k) \/ k = l)
  BY <1>2 DEF HasJob
<1>9. HolderInv'
  <2>1. ASSUME NEW k \in Launches, k # l PROVE HolderOK(k)'
    <3>1. HolderOK(k)
      BY DEF Good, FundingInv, HolderInv
    <3>2. /\ capture'[k] = capture[k] /\ hook'[k] = hook[k]
          /\ intents'[k] = intents[k] /\ order'[k] = order[k] /\ (HasJob(k)' <=> HasJob(k))
      BY <1>1, <1>8, <2>1
    <3>3. \A j \in DOMAIN jobs' : jobs'[j].order = k => j \in DOMAIN jobs /\ jobs[j].order = k
      BY <1>2, <2>1
    <3>4. \A r \in 1 .. MaxCaptures : (Enqueues(k, r)' <=> Enqueues(k, r))
      BY <3>2 DEF Enqueues
    <3>5. /\ hook'[k] = hook[k] /\ intents'[k] = intents[k] /\ order'[k] = order[k]
          /\ (HasJob(k)' <=> HasJob(k))
      BY <3>2
    <3>6. \A i, j \in DOMAIN jobs' : jobs'[i].order = k /\ jobs'[j].order = k => i = j
      BY <3>1, <3>3 DEF HolderOK
    <3> QED
      BY <3>1, <3>4, <3>5, <3>6 DEF HolderOK
  <2>2. HolderOK(l)'
    <3>1. \A j \in DOMAIN jobs : jobs[j].order # l
      BY DEF HasJob
    <3> QED
      BY <1>1, <1>2, <1>8, <3>1 DEF HolderOK, Enqueues
  <2> QED
    BY <2>1, <2>2 DEF HolderInv
<1>10. PointerInv'
  <2>1. \A k \in Launches : \A j : j \in DOMAIN jobs /\ jobs[j].order = k
                               => j \in DOMAIN jobs' /\ jobs'[j].order = k
    BY <1>2
  <2>2. new \in DOMAIN jobs' /\ jobs'[new].order = l
    BY <1>2
  <2>3. page' = page /\ intents' = intents
    BY <1>1
  <2>4. ASSUME NEW k \in Launches, NEW r \in 1 .. MaxCaptures, capture'[k][r].at = "record"
        PROVE  capture'[k][r].job \in DOMAIN jobs' /\ jobs'[capture'[k][r].job].order = k
    <3>1. CASE capture'[k][r] = capture[k][r]
      BY <2>1, <2>4, <3>1 DEF Good, FundingInv, PointerInv, JobOf
    <3>2. CASE k = l /\ capture'[k][r].job = new
      BY <2>2, <3>2
    <3> QED
      BY <1>2, <2>4, <3>1, <3>2
  <2> QED
    BY <2>1, <2>3, <2>4 DEF Good, FundingInv, PointerInv, JobOf
<1>11. SameCups /\ FormsKept
  BY <1>1 DEF SameCups, FormsKept, historyVars
<1>12. Owned' = Owned /\ Count' = Count /\ LastId' = LastId /\ (Clear' <=> Clear)
  BY <1>11, SameCupsFrame
<1>13. CountInv'
  <2>1. Count \in [Launches -> Nat] /\ deaths \in Nat
    BY CountType DEF Good, FundingInv, HistoryTypes
  <2>2. \A j \in DOMAIN jobs : (Created(j)' <=> Created(j))
    BY <1>1, <1>2 DEF Created
  <2>3. Count[l] = 0
    <3>1. page[l].form.currency # "AVAX"
      BY DEF Good, FundingInv, PageInv, PageOK
    <3> QED
      BY <2>1, <3>1 DEF Good, FundingInv, CountInv
  <2> QED
    BY <1>1, <1>2, <1>8, <1>12, <2>1, <2>2, <2>3 DEF Good, FundingInv, CountInv
<1>14. OwnInv'
  <2>1. OwnInv /\ page' = page /\ relayer' = relayer
    BY <1>1 DEF Good, FundingInv
  <2>2. \A j \in DOMAIN jobs' : jobs'[j].status = "done" => <<jobs'[j].order, jobs'[j].id>> \in Owned
    BY <1>2, <2>1 DEF OwnInv
  <2>3. relayer.at # "idle" => jobs'[relayer.job] = jobs[relayer.job]
    BY <1>2, <1>3
  <2> QED
    BY <1>12, <2>1, <2>2, <2>3 DEF OwnInv, KnowsId
<1>15. RowInv'
  BY <1>1, <1>12 DEF Good, FundingInv, RowInv
<1>16. WinnersAsEntered'
  BY <1>1, <1>11, SameWinners DEF Good, FundingInv
<1> QED
  BY <1>4, <1>5, <1>6, <1>7, <1>9, <1>10, <1>13, <1>14, <1>15, <1>16 DEF FundingInv

\* enqueueJob of the request that claimed the intent.
LEMMA CaptureEnqueueInv ==
  ASSUME Good, NEW l \in Launches, NEW r \in 1 .. MaxCaptures, CaptureEnqueue(l, r)
  PROVE  FundingInv'
<1>1. /\ HolderOK(l) /\ Enqueues(l, r)
      /\ capture \in [Launches -> [1 .. MaxCaptures -> Requests]]
      /\ hook \in [Launches -> {"idle", "enqueue"}] /\ jobs \in Seq(FundJobs)
      /\ jobs' = Append(jobs, FundJob(l, FALSE)) /\ hook' = hook
      /\ capture' = [capture EXCEPT ![l][r] = [at |-> "record", job |-> Len(jobs')]]
      /\ UNCHANGED <<cupVars, pageVars, intents, relayer, dbVars, left, historyVars>>
  BY DEF Good, FundingInv, WebTypes, RelayerTypes, HolderInv, CaptureEnqueue, Enqueues
<1>2. ~HasJob(l) /\ order[l] = "approved" /\ intents[l].claimed /\ hook[l] # "enqueue"
      /\ \A s \in 1 .. MaxCaptures : s # r => capture[l][s].at # "enqueue"
  BY <1>1 DEF HolderOK, Enqueues
<1>3. PICK n \in Nat : n = Len(jobs')
  <2>1. jobs' = Append(jobs, FundJob(l, FALSE)) /\ jobs \in Seq(FundJobs)
    BY <1>1
  <2> QED
    BY <2>1
<1>4. /\ capture' \in [Launches -> [1 .. MaxCaptures -> Requests]]
      /\ \A k \in Launches : k # l => capture'[k] = capture[k]
      /\ \A s \in 1 .. MaxCaptures : s # r => capture'[l][s] = capture[l][s]
      /\ capture'[l][r] = [at |-> "record", job |-> n]
  <2> DEFINE request == [at |-> "record", job |-> n]
  <2>1. request \in Requests
    BY DEF Requests
  <2>2. capture' = [capture EXCEPT ![l] = [capture[l] EXCEPT ![r] = request]]
    BY <1>1, <1>3
  <2> HIDE DEF request
  <2>3. [capture[l] EXCEPT ![r] = request] \in [1 .. MaxCaptures -> Requests]
    BY <1>1, <2>1
  <2>4. /\ capture' \in [Launches -> [1 .. MaxCaptures -> Requests]]
        /\ \A k \in Launches : k # l => capture'[k] = capture[k]
        /\ \A s \in 1 .. MaxCaptures : s # r => capture'[l][s] = capture[l][s]
        /\ capture'[l][r] = request
    BY <1>1, <2>2, <2>3
  <2> QED
    BY <2>4 DEF request
<1>5. /\ \A k \in Launches : \A s \in 1 .. MaxCaptures :
            capture'[k][s].at = "record" =>
               capture'[k][s] = capture[k][s] \/ (k = l /\ capture'[k][s].job = Len(jobs'))
      /\ \A s \in 1 .. MaxCaptures : capture'[l][s].at # "enqueue"
  BY <1>2, <1>3, <1>4
<1>6. hook' \in [Launches -> {"idle", "enqueue"}]
      /\ \A k \in Launches : k # l => hook'[k] = hook[k]
  BY <1>1
<1> QED
  BY <1>1, <1>2, <1>4, <1>5, <1>6, EnqueueInv

\* The webhook's own job.
LEMMA HookEnqueueInv ==
  ASSUME Good, NEW l \in Launches, HookEnqueue(l) PROVE FundingInv'
<1>1. /\ HolderOK(l) /\ hook[l] = "enqueue"
      /\ capture \in [Launches -> [1 .. MaxCaptures -> Requests]]
      /\ hook \in [Launches -> {"idle", "enqueue"}]
      /\ jobs' = Append(jobs, FundJob(l, TRUE)) /\ capture' = capture
      /\ hook' = [hook EXCEPT ![l] = "idle"]
      /\ UNCHANGED <<cupVars, pageVars, intents, relayer, dbVars, left, historyVars>>
  BY DEF Good, FundingInv, WebTypes, HolderInv, HookEnqueue
<1>2. ~HasJob(l) /\ order[l] = "approved" /\ intents[l].claimed
      /\ \A s \in 1 .. MaxCaptures : capture[l][s].at # "enqueue"
  BY <1>1 DEF HolderOK, Enqueues
<1>3. /\ hook' \in [Launches -> {"idle", "enqueue"}] /\ hook'[l] # "enqueue"
      /\ \A k \in Launches : k # l => capture'[k] = capture[k] /\ hook'[k] = hook[k]
      /\ \A s \in 1 .. MaxCaptures : capture'[l][s].at # "enqueue"
  BY <1>1, <1>2
<1>4. \A k \in Launches : \A s \in 1 .. MaxCaptures :
        capture'[k][s].at = "record" =>
          capture'[k][s] = capture[k][s] \/ (k = l /\ capture'[k][s].job = Len(jobs'))
  BY <1>1
<1> QED
  BY <1>1, <1>2, <1>3, <1>4, EnqueueInv

\* A request dies in the server, or a page is closed.
LEMMA RequestFailsInv ==
  ASSUME Good, RequestFails, left' \in Bounds,
         UNCHANGED <<cupVars, intents, jobs, relayer, dbVars, historyVars>>
  PROVE  FundingInv'
<1>1. /\ WebTypes /\ HolderInv /\ intents' = intents /\ jobs' = jobs
      /\ intents \in [Launches -> Intents] /\ hook \in [Launches -> {"idle", "enqueue"}]
      /\ capture \in [Launches -> [1 .. MaxCaptures -> Requests]]
  BY DEF Good, FundingInv, WebTypes
<1>2. ASSUME NEW l \in Launches, NEW r \in 1 .. MaxCaptures,
             capture' = [capture EXCEPT ![l][r].at = "answered"], Answered(l, r, 0),
             UNCHANGED <<order, hook>>
      PROVE  FundingInv'
  <2>1. CaptureMoves(l, r, "answered")
    BY <1>1, <1>2, CaptureStep
  <2>2. PICK at \in PageAts, j \in Nat : Answers(l, at, j)
    BY <1>1, <1>2, AnsweredStep
  <2>3. HolderInv'
    BY <1>1, <1>2, <2>1, AnsweredHolder
  <2>4. \A k \in Launches : \A s \in 1 .. MaxCaptures :
                capture'[k][s].at = "record" => capture'[k][s] = capture[k][s]
    BY <2>1 DEF CaptureMoves
  <2> QED
    BY <1>1, <1>2, <2>1, <2>2, <2>3, <2>4, RequestInv, SMTT(60) DEF CaptureMoves
<1>3. ASSUME NEW l \in Launches, hook' = [hook EXCEPT ![l] = "idle"],
             UNCHANGED <<pageVars, capture>>
      PROVE  FundingInv'
  <2>1. page' = page /\ order' = order /\ capture' = capture
    BY <1>3 DEF pageVars
  <2>2. PICK at \in PageAts, j \in Nat : Answers(l, at, j)
    BY <1>1, <2>1, PageStays
  <2>3. hook' \in [Launches -> {"idle", "enqueue"}]
        /\ \A k \in Launches : hook'[k] = hook[k] \/ hook'[k] = "idle"
    BY <1>1, <1>3
  <2>4. HolderInv'
    BY <1>1, <2>1, <2>3 DEF HolderInv, HolderOK, HasJob, Enqueues
  <2> QED
    BY <1>1, <2>1, <2>2, <2>3, <2>4, RequestInv
<1>4. ASSUME NEW l \in Launches, page[l].at # "form", Goes(l, "failed"),
             UNCHANGED <<order, capture, hook>>
      PROVE  FundingInv'
  <2>1. PageMoves(l, "failed", page[l].job, page[l].id)
    BY <1>1, <1>4, GoesStep DEF PageAts
  <2>2. Allowed(l, "failed", page[l].id)
    BY DEF AvaxAts, Allowed, Good, FundingInv, OwnInv
  <2>3. PageInv'
    <3>1. PageInv /\ PageOK(l)
      BY DEF Good, FundingInv, PageInv
    <3>2. PageOK(l)'
      BY <1>4, <2>1, <3>1 DEF PageOK, PageMoves, UsdAts, AvaxAts
    <3> QED
      BY <1>4, <2>1, <3>1, <3>2, PageMoveOK
  <2>4. WebTypes'
    BY <1>1, <1>4, <2>1 DEF WebTypes, PageMoves
  <2>5. HolderInv'
    BY <1>1, <1>4, SMTT(60) DEF HolderInv, HolderOK, HasJob, Enqueues
  <2>6. PointerInv'
    BY <1>1, <1>4, <2>1, PageMovePointer DEF Good, FundingInv
  <2> QED
    BY <2>1, <2>2, <2>3, <2>4, <2>5, <2>6, PageKeeps DEF Good, FundingInv
<1> QED
  BY <1>2, <1>3, <1>4 DEF RequestFails

-----------------------------------------------------------------------------
(***************************************************************************)
(* The wallet's page after its cup is there.                               *)
(***************************************************************************)

\* A page that pays with a wallet is not the relayer's.
LEMMA WalletOwner ==
  ASSUME FundingInv, NEW l \in Launches, page[l].at \in AvaxAts
  PROVE  page[l].form \in Forms /\ Wallet(l) # Relayer
<1>1. page[l].form.currency = "AVAX" /\ page[l].form \in Forms \cup {NoForm}
  BY DEF FundingInv, PageInv, PageOK, WebTypes, Pages
<1>2. page[l].form \in Forms
  BY <1>1 DEF FundingInv, PageInv, PageOK, AvaxAts, UsdAts
<1> QED
  BY <1>1, <1>2 DEF Forms, Wallet

\* Whose a cup is, where no id was mixed up.
LEMMA OwnedClear ==
  ASSUME Clear, NEW l, NEW id, <<l, id>> \in Owned
  PROVE  id \in DOMAIN cups /\ funder[id] = l
BY DEF Clear, Owned

\* nextTournamentId - 1 is at least 1 after the page's own creation.
LEMMA WalletReadIdInv ==
  ASSUME Good, NEW l \in Launches, WalletReadId(l) PROVE FundingInv'
<1>1. /\ page \in [Launches -> Pages] /\ page[l].at = "mined" /\ <<l, LastId>> \in Owned
      /\ UNCHANGED <<cupVars, order, serverVars, jobs, relayer, dbVars, left, historyVars>>
  BY DEF Good, FundingInv, WebTypes, OwnInv, WalletReadId
<1>2. PICK id \in Nat \ {0} : id = LastId
  <2>1. cups \in Seq(Cups)
    BY DEF Good, CupInv
  <2>2. LastId \in DOMAIN cups
    <3>1. Wallet(l) # Relayer
      BY <1>1, WalletOwner DEF Good, AvaxAts
    <3> QED
      BY <1>1, <3>1 DEF Owned
  <2> QED
    BY <2>1, <2>2 DEF LastId
<1>3. PICK at \in {"init", "sign"} :
        page' = [page EXCEPT ![l] = [page[l] EXCEPT !.id = id, !.at = at]]
  BY <1>2 DEF WalletReadId
<1>4. PageMoves(l, at, page[l].job, id)
  <2>1. [page[l] EXCEPT !.id = id, !.at = at] \in Pages
    BY <1>1, <1>2, <1>3 DEF Pages, PageAts, AvaxAts
  <2> QED
    BY <1>1, <1>3, <2>1 DEF PageMoves, Pages
<1>5. Allowed(l, at, id)
  BY <1>1, <1>2, <1>3 DEF Allowed, AvaxAts
<1> QED
  BY <1>1, <1>3, <1>4, <1>5, PageAloneInv DEF AvaxAts

\* A tournament that is known keeps the page from writing its bracket.
LEMMA InitCheckInv ==
  ASSUME Good, NEW l \in Launches, InitCheck(l) PROVE FundingInv'
<1>1. /\ WebTypes /\ page[l].at = "init"
      /\ UNCHANGED <<cupVars, order, serverVars, jobs, relayer, dbVars, left, historyVars>>
  BY DEF Good, FundingInv, InitCheck
<1>2. PICK at \in {"init tournament", "console"} : Goes(l, at)
  BY DEF InitCheck
<1>3. PageMoves(l, at, page[l].job, page[l].id)
  BY <1>1, <1>2, GoesStep DEF PageAts, AvaxAts
<1>4. Allowed(l, at, page[l].id)
  BY <1>1, <1>2 DEF AvaxAts, Allowed, Good, FundingInv, OwnInv
<1> QED
  BY <1>1, <1>2, <1>3, <1>4, PageAloneInv DEF AvaxAts

\* The page writes a row.
LEMMA InitInv ==
  ASSUME Good, NEW l \in Launches, page[l].at \in {"init tournament", "init bracket"},
         NEW at \in {"init bracket", "console"}, Goes(l, at),
         UNCHANGED <<cupVars, order, serverVars, jobs, relayer, left, historyVars>>,
         rows' \in [CupIds -> Launches \cup {Nobody}],
         brackets' \in [CupIds -> Launches \cup {Nobody}], RowInv'
  PROVE  FundingInv'
<1>1. /\ UNCHANGED <<order, capture, hook, intents, jobs, relayer, left, cups, funder,
                     deaths, mixed, reverted>>
      /\ WebTypes
  BY DEF Good, FundingInv, serverVars, cupVars, historyVars
<1>2. PageMoves(l, at, page[l].job, page[l].id)
  BY <1>1, GoesStep DEF PageAts, AvaxAts
<1>3. SameCups /\ FormsKept
  BY <1>1, <1>2, MovesKeepForms DEF SameCups
<1>4. page[l].id # 0 /\ <<l, page[l].id>> \in Owned
  BY DEF Good, FundingInv, OwnInv, AvaxAts
<1>5. PageInv'
  <2>1. PageInv /\ PageOK(l)
    BY DEF Good, FundingInv, PageInv
  <2>2. PageOK(l)'
    BY <1>1, <1>2, <2>1 DEF PageOK, PageMoves, UsdAts, AvaxAts
  <2> QED
    BY <1>1, <1>2, <2>1, <2>2, PageMoveOK
<1>6. WebTypes'
  BY <1>1, <1>2 DEF WebTypes, PageMoves
<1>7. RelayerTypes'
  BY <1>1 DEF Good, FundingInv, RelayerTypes
<1>8. HistoryTypes'
  BY <1>1 DEF Good, FundingInv, HistoryTypes
<1>9. HolderInv'
  BY <1>1, SameHolder DEF Good, FundingInv
<1>10. PointerInv'
  BY <1>1, <1>2, PageMovePointer DEF Good, FundingInv
<1>11. CountInv'
  BY <1>1, <1>2, <1>3, PageMoveCount DEF Good, FundingInv
<1>12. OwnInv'
  BY <1>1, <1>2, <1>3, <1>4, PageMoveOwn DEF Good, FundingInv
<1>13. WinnersAsEntered'
  BY <1>1, <1>3, SameWinners DEF Good, FundingInv
<1> QED
  BY <1>5, <1>6, <1>7, <1>8, <1>9, <1>10, <1>11, <1>12, <1>13 DEF FundingInv

\* The page's own tournaments row.
LEMMA InitTournamentInv ==
  ASSUME Good, NEW l \in Launches, InitTournament(l) PROVE FundingInv'
<1>1. /\ WebTypes /\ page[l].at = "init tournament" /\ Goes(l, "init bracket")
      /\ UNCHANGED <<cupVars, order, serverVars, jobs, relayer, left, historyVars>>
      /\ brackets' = brackets
  BY DEF Good, FundingInv, InitTournament
<1>2. PageMoves(l, "init bracket", page[l].job, page[l].id)
  BY <1>1, GoesStep DEF PageAts, AvaxAts
<1>3. PICK id \in Nat : id = page[l].id
  BY DEF Good, FundingInv, WebTypes, Pages
<1>4. <<l, id>> \in Owned
  BY <1>1, <1>3 DEF Good, FundingInv, OwnInv, AvaxAts
<1>5. /\ rows' \in [CupIds -> Launches \cup {Nobody}]
      /\ brackets \in [CupIds -> Launches \cup {Nobody}]
      /\ \A k \in CupIds : rows'[k] = IF k = id THEN l ELSE rows[k]
  <2>1. rows' = [rows EXCEPT ![id] = l]
    BY <1>3 DEF InitTournament
  <2> QED
    BY <2>1 DEF Good, FundingInv, RelayerTypes
<1>6. UNCHANGED <<cups, funder, mixed, reverted, relayer>>
  BY <1>1 DEF cupVars, historyVars
<1>7. RowInv'
  <2> SUFFICES ASSUME Clear PROVE RowInv'
    BY <1>6 DEF RowInv, Clear
  <2>1. id \in DOMAIN cups /\ funder[id] = l /\ l # Nobody
    BY <1>4, OwnedClear DEF Launches, Nobody
  <2>2. page'[l].id = id /\ \A k \in Launches : k # l => page'[k] = page[k]
    BY <1>2, <1>3 DEF PageMoves
  <2>3. RowInv
    BY DEF Good, FundingInv
  <2>4. ASSUME NEW k \in CupIds
        PROVE  /\ rows'[k] # Nobody => k \in DOMAIN cups /\ funder[k] = rows'[k]
               /\ brackets[k] # Nobody => brackets[k] = rows'[k]
    BY <1>5, <2>1, <2>3 DEF RowInv
  <2>5. \A k \in CupIds : rows[k] # Nobody => rows'[k] # Nobody
    BY <1>5, <2>1
  <2>6. relayer.at = "bracket" /\ relayer.id \in CupIds => rows'[relayer.id] # Nobody
    BY <2>3, <2>5 DEF RowInv
  <2>7. ASSUME NEW k \in Launches, page'[k].at = "init bracket", page'[k].id \in CupIds
        PROVE  rows'[page'[k].id] # Nobody
    BY <1>5, <2>1, <2>2, <2>3, <2>5, <2>7 DEF RowInv
  <2> QED
    BY <1>1, <1>6, <2>4, <2>6, <2>7 DEF RowInv
<1> QED
  BY <1>1, <1>5, <1>7, InitInv

\* The page's own bracket.
LEMMA InitBracketInv ==
  ASSUME Good, NEW l \in Launches, InitBracket(l) PROVE FundingInv'
<1>1. /\ WebTypes /\ page[l].at = "init bracket" /\ Goes(l, "console")
      /\ UNCHANGED <<cupVars, order, serverVars, jobs, relayer, left, historyVars>>
      /\ rows' = rows
  BY DEF Good, FundingInv, InitBracket
<1>2. PageMoves(l, "console", page[l].job, page[l].id)
  BY <1>1, GoesStep DEF PageAts
<1>3. PICK id \in Nat : id = page[l].id
  BY DEF Good, FundingInv, WebTypes, Pages
<1>4. <<l, id>> \in Owned
  BY <1>1, <1>3 DEF Good, FundingInv, OwnInv, AvaxAts
<1>5. /\ brackets' \in [CupIds -> Launches \cup {Nobody}]
      /\ rows \in [CupIds -> Launches \cup {Nobody}]
      /\ \A k \in CupIds : brackets'[k] = IF k = id THEN l ELSE brackets[k]
  <2>1. brackets' = [brackets EXCEPT ![id] = l]
    BY <1>3 DEF InitBracket
  <2> QED
    BY <2>1 DEF Good, FundingInv, RelayerTypes
<1>6. UNCHANGED <<cups, funder, mixed, reverted, relayer>>
  BY <1>1 DEF cupVars, historyVars
<1>7. RowInv'
  <2> SUFFICES ASSUME Clear PROVE RowInv'
    BY <1>6 DEF RowInv, Clear
  <2>1. id \in DOMAIN cups /\ funder[id] = l
    BY <1>4, OwnedClear
  <2>2. page'[l].at = "console" /\ \A k \in Launches : k # l => page'[k] = page[k]
    BY <1>2 DEF PageMoves
  <2>3. RowInv
    BY DEF Good, FundingInv
  <2>4. id \in CupIds => rows[id] = l
    BY <1>1, <1>3, <2>1, <2>3 DEF RowInv
  <2> QED
    BY <1>1, <1>5, <1>6, <2>1, <2>2, <2>3, <2>4, ZenonT(60) DEF RowInv
<1> QED
  BY <1>1, <1>5, <1>7, InitInv

-----------------------------------------------------------------------------
(***************************************************************************)
(* The relayer's job.                                                      *)
(***************************************************************************)

\* The jobs keep their orders.
JobsKept ==
  /\ jobs' \in Seq(FundJobs) /\ DOMAIN jobs' = DOMAIN jobs
  /\ \A j \in DOMAIN jobs : jobs'[j].order = jobs[j].order

\* What a step of the relayer that creates no cup leaves to show.
LEMMA RelayerInv ==
  ASSUME Good, JobsKept, FormsKept, cups' = cups,
         UNCHANGED <<page, order, capture, hook, intents, funder, mixed, reverted>>,
         left' \in Bounds, deaths' \in Nat,
         RelayerTypes', CountInv', OwnInv', RowInv'
  PROVE  FundingInv'
<1>1. WebTypes'
  BY DEF Good, FundingInv, WebTypes
<1>2. HistoryTypes'
  BY DEF Good, FundingInv, HistoryTypes
<1>3. PageInv'
  BY DEF Good, FundingInv, PageInv, PageOK
<1>4. HolderInv'
  <2> SUFFICES ASSUME NEW l \in Launches PROVE HolderOK(l)'
    BY DEF HolderInv
  <2>1. HolderOK(l)
    BY DEF Good, FundingInv, HolderInv
  <2>2. HasJob(l)' <=> HasJob(l)
    BY DEF HasJob, JobsKept
  <2>3. \A r \in 1 .. MaxCaptures : (Enqueues(l, r)' <=> Enqueues(l, r))
    BY DEF Enqueues
  <2>4. \A i, j \in DOMAIN jobs' : jobs'[i].order = l /\ jobs'[j].order = l => i = j
    BY <2>1 DEF HolderOK, JobsKept
  <2> QED
    BY <2>1, <2>2, <2>3, <2>4 DEF HolderOK
<1>5. PointerInv'
  BY DEF Good, FundingInv, PointerInv, JobOf, JobsKept
<1>6. WinnersAsEntered'
  BY SameWinners DEF Good, FundingInv
<1> QED
  BY <1>1, <1>2, <1>3, <1>4, <1>5, <1>6 DEF FundingInv

\* The relayer moves in its job.
Moves(at, job, id) == relayer' = [at |-> at, job |-> job, id |-> id]

LEMMA RelayerMoveInv ==
  ASSUME Good, NEW at \in RelayerAts \ {"idle"}, NEW job \in DOMAIN jobs, NEW id \in Nat,
         Moves(at, job, id), jobs[job].status = "pending", relayer.at = "idle" \/ relayer.job = job,
         at = "mined" => relayer.at = "mined",
         at \in PastCreate => relayer.at \in PastCreate,
         relayer.at \in PastCreate => at \in PastCreate,
         at \in KnowsId => <<jobs[job].order, id>> \in Owned,
         UNCHANGED <<cupVars, pageVars, serverVars, jobs, left, historyVars>>,
         rows' \in [CupIds -> Launches \cup {Nobody}],
         brackets' \in [CupIds -> Launches \cup {Nobody}], RowInv'
  PROVE  FundingInv'
<1>1. /\ UNCHANGED <<page, order, capture, hook, intents, funder, mixed, reverted>>
      /\ UNCHANGED <<cups, jobs, deaths, left>>
  BY DEF pageVars, serverVars, historyVars, cupVars
<1>2. /\ jobs \in Seq(FundJobs) /\ left \in Bounds /\ deaths \in Nat
      /\ job \in Nat
  BY DEF Good, FundingInv, RelayerTypes, WebTypes, HistoryTypes
<1>3. relayer'.at = at /\ relayer'.job = job /\ relayer'.id = id
  BY DEF Moves
<1>4. JobsKept /\ FormsKept /\ SameCups
  BY <1>1, <1>2 DEF JobsKept, FormsKept, SameCups
<1>5. Owned' = Owned /\ Count' = Count /\ LastId' = LastId
  BY <1>4, SameCupsFrame
<1>6. RelayerTypes'
  <2>1. relayer' \in [at : RelayerAts, job : Nat, id : Nat]
    BY <1>2 DEF Moves
  <2> QED
    BY <1>1, <1>2, <1>3, <2>1 DEF RelayerTypes
<1>7. \A j \in DOMAIN jobs : (Created(j)' <=> Created(j))
  BY <1>1, <1>3 DEF Created, PastCreate, KnowsId
<1>8. CountInv'
  <2>1. \A l \in Launches : (HasJob(l)' <=> HasJob(l))
    BY <1>1 DEF HasJob
  <2> QED
    BY <1>1, <1>5, <1>7, <2>1 DEF Good, FundingInv, CountInv
<1>9. OwnInv'
  <2>1. at = "mined" => <<jobs[job].order, LastId>> \in Owned
    BY DEF Good, FundingInv, OwnInv
  <2> QED
    BY <1>1, <1>3, <1>5, <2>1 DEF Good, FundingInv, OwnInv
<1> QED
  BY <1>1, <1>2, <1>4, <1>6, <1>8, <1>9, RelayerInv

\* next_pending.
LEMMA RelayerTakeInv ==
  ASSUME Good, NEW j \in DOMAIN jobs, RelayerTake(j) PROVE FundingInv'
<1>1. /\ Moves("create", j, 0) /\ relayer.at = "idle" /\ jobs[j].status = "pending"
      /\ UNCHANGED <<cupVars, pageVars, serverVars, jobs, dbVars, left, historyVars>>
  BY DEF RelayerTake, Moves
<1>2. /\ rows' = rows /\ brackets' = brackets
      /\ UNCHANGED <<cups, funder, mixed, reverted, page>>
  BY <1>1 DEF dbVars, cupVars, historyVars, pageVars
<1>3. RowInv'
  BY <1>1, <1>2 DEF Good, FundingInv, RowInv, Clear, Moves
<1>4. rows \in [CupIds -> Launches \cup {Nobody}] /\ brackets \in [CupIds -> Launches \cup {Nobody}]
  BY DEF Good, FundingInv, RelayerTypes
<1> QED
  BY <1>1, <1>2, <1>3, <1>4, RelayerMoveInv DEF RelayerAts, PastCreate, KnowsId

\* What is known of the job in work.
LEMMA InWork ==
  ASSUME Good, relayer.at # "idle"
  PROVE  \E j \in DOMAIN jobs, id \in Nat, l \in Launches :
            /\ relayer.job = j /\ relayer.id = id /\ jobs[j].status = "pending"
            /\ jobs[j].order = l /\ jobs \in Seq(FundJobs) /\ jobs[j] \in FundJobs
            /\ relayer = [at |-> relayer.at, job |-> j, id |-> id]
            /\ rows \in [CupIds -> Launches \cup {Nobody}]
            /\ brackets \in [CupIds -> Launches \cup {Nobody}]
<1>1. /\ relayer \in [at : RelayerAts, job : Nat, id : Nat] /\ jobs \in Seq(FundJobs)
      /\ relayer.job \in DOMAIN jobs /\ jobs[relayer.job].status = "pending"
      /\ rows \in [CupIds -> Launches \cup {Nobody}]
      /\ brackets \in [CupIds -> Launches \cup {Nobody}]
  BY DEF Good, FundingInv, RelayerTypes
<1>2. jobs[relayer.job] \in FundJobs
  BY <1>1
<1>3. jobs[relayer.job].order \in Launches /\ relayer.id \in Nat
  BY <1>1, <1>2 DEF FundJobs
<1>4. relayer = [at |-> relayer.at, job |-> relayer.job, id |-> relayer.id]
  BY <1>1
<1> QED
  BY <1>1, <1>2, <1>3, <1>4

\* The id that is read belongs to the job's order.
LEMMA RelayerReadIdInv == ASSUME Good, RelayerReadId PROVE FundingInv'
<1>1. relayer.at = "mined"
      /\ UNCHANGED <<cupVars, pageVars, serverVars, jobs, dbVars, left, historyVars>>
  BY DEF RelayerReadId
<1>2. PICK j \in DOMAIN jobs, old \in Nat, l \in Launches :
            /\ relayer.job = j /\ jobs[j].status = "pending" /\ jobs[j].order = l
            /\ relayer = [at |-> relayer.at, job |-> j, id |-> old]
            /\ rows \in [CupIds -> Launches \cup {Nobody}]
            /\ brackets \in [CupIds -> Launches \cup {Nobody}]
  BY <1>1, InWork
<1>3. PICK id \in Nat : id = LastId
  <2>1. cups \in Seq(Cups)
    BY DEF Good, CupInv
  <2> QED
    BY <2>1 DEF LastId
<1>4. <<l, id>> \in Owned
  BY <1>1, <1>2, <1>3 DEF Good, FundingInv, OwnInv
<1>5. PICK at \in {"tournament", "finalize", "answer"} :
        relayer' = [relayer EXCEPT !.id = id, !.at = at]
  BY <1>3 DEF RelayerReadId
<1>6. Moves(at, j, id)
  BY <1>2, <1>5 DEF Moves
<1>7. /\ rows' = rows /\ brackets' = brackets
      /\ UNCHANGED <<cups, funder, mixed, reverted, page>>
  BY <1>1 DEF dbVars, cupVars, historyVars, pageVars
<1>8. RowInv'
  BY <1>1, <1>5, <1>6, <1>7 DEF Good, FundingInv, RowInv, Clear, Moves
<1>9. at \in RelayerAts \ {"idle"} /\ at # "mined" /\ at \in PastCreate /\ relayer.at \in PastCreate
  BY <1>1, <1>5 DEF RelayerAts, PastCreate, KnowsId
<1> QED
  BY <1>1, <1>2, <1>4, <1>6, <1>7, <1>8, <1>9, RelayerMoveInv

\* The tournaments row of the job.
LEMMA RelayerTournamentInv == ASSUME Good, RelayerTournament PROVE FundingInv'
<1>1. relayer.at = "tournament" /\ brackets' = brackets
      /\ UNCHANGED <<cupVars, pageVars, serverVars, jobs, left, historyVars>>
  BY DEF RelayerTournament
<1>2. PICK j \in DOMAIN jobs, id \in Nat, l \in Launches :
            /\ relayer.job = j /\ relayer.id = id /\ jobs[j].status = "pending"
            /\ jobs[j].order = l
            /\ relayer = [at |-> relayer.at, job |-> j, id |-> id]
            /\ rows \in [CupIds -> Launches \cup {Nobody}]
            /\ brackets \in [CupIds -> Launches \cup {Nobody}]
  BY <1>1, InWork
<1>3. <<l, id>> \in Owned
  BY <1>1, <1>2 DEF Good, FundingInv, OwnInv, KnowsId
<1>4. Moves("bracket", j, id)
  BY <1>2 DEF Moves, RelayerTournament
<1>5. /\ rows' \in [CupIds -> Launches \cup {Nobody}]
      /\ \A k \in CupIds : rows'[k] = IF k = id /\ rows[k] = Nobody THEN l ELSE rows[k]
  <2>1. rows' = [rows EXCEPT ![id] = IF rows[id] = Nobody THEN l ELSE rows[id]]
    BY <1>2 DEF RelayerTournament
  <2> QED
    BY <1>2, <2>1
<1>6. UNCHANGED <<cups, funder, mixed, reverted, page>>
  BY <1>1 DEF cupVars, historyVars, pageVars
<1>7. RowInv'
  <2> SUFFICES ASSUME Clear PROVE RowInv'
    BY <1>6 DEF RowInv, Clear
  <2>1. id \in DOMAIN cups /\ funder[id] = l /\ l # Nobody
    BY <1>3, OwnedClear DEF Launches, Nobody
  <2>2. RowInv /\ relayer'.id = id
    BY <1>4 DEF Good, FundingInv, Moves
  <2>3. ASSUME NEW k \in CupIds
        PROVE  /\ rows'[k] # Nobody => k \in DOMAIN cups /\ funder[k] = rows'[k]
               /\ brackets[k] # Nobody => brackets[k] = rows'[k]
    BY <1>5, <2>1, <2>2 DEF RowInv
  <2>4. /\ \A k \in CupIds : rows[k] # Nobody => rows'[k] # Nobody
        /\ id \in CupIds => rows'[id] # Nobody
    BY <1>5, <2>1
  <2> QED
    BY <1>1, <1>6, <2>2, <2>3, <2>4 DEF RowInv
<1>8. "bracket" \in RelayerAts \ {"idle"} /\ "bracket" # "mined" /\ "bracket" \in PastCreate
      /\ relayer.at \in PastCreate
  BY <1>1 DEF RelayerAts, PastCreate, KnowsId
<1> QED
  BY <1>1, <1>2, <1>3, <1>4, <1>5, <1>7, <1>8, RelayerMoveInv

\* The bracket of the job.
LEMMA RelayerBracketInv == ASSUME Good, RelayerBracket PROVE FundingInv'
<1>1. relayer.at = "bracket" /\ rows' = rows
      /\ UNCHANGED <<cupVars, pageVars, serverVars, jobs, left, historyVars>>
  BY DEF RelayerBracket
<1>2. PICK j \in DOMAIN jobs, id \in Nat, l \in Launches :
            /\ relayer.job = j /\ relayer.id = id /\ jobs[j].status = "pending"
            /\ jobs[j].order = l
            /\ relayer = [at |-> relayer.at, job |-> j, id |-> id]
            /\ rows \in [CupIds -> Launches \cup {Nobody}]
            /\ brackets \in [CupIds -> Launches \cup {Nobody}]
  BY <1>1, InWork
<1>3. <<l, id>> \in Owned
  BY <1>1, <1>2 DEF Good, FundingInv, OwnInv, KnowsId
<1>4. Moves("answer", j, id)
  BY <1>2 DEF Moves, RelayerBracket
<1>5. /\ brackets' \in [CupIds -> Launches \cup {Nobody}]
      /\ \A k \in CupIds : brackets'[k] = IF k = id THEN l ELSE brackets[k]
  <2>1. brackets' = [brackets EXCEPT ![id] = l]
    BY <1>2 DEF RelayerBracket
  <2> QED
    BY <1>2, <2>1
<1>6. UNCHANGED <<cups, funder, mixed, reverted, page>>
  BY <1>1 DEF cupVars, historyVars, pageVars
<1>7. RowInv'
  <2> SUFFICES ASSUME Clear PROVE RowInv'
    BY <1>6 DEF RowInv, Clear
  <2>1. id \in DOMAIN cups /\ funder[id] = l
    BY <1>3, OwnedClear
  <2>2. RowInv /\ relayer'.at = "answer"
    BY <1>4 DEF Good, FundingInv, Moves
  <2>3. id \in CupIds => rows[id] = l
    BY <1>1, <1>2, <2>1, <2>2 DEF RowInv
  <2> QED
    BY <1>1, <1>5, <1>6, <2>2, <2>3 DEF RowInv
<1>8. "answer" \in RelayerAts \ {"idle"} /\ "answer" # "mined" /\ "answer" \in PastCreate
      /\ relayer.at \in PastCreate
  BY <1>1 DEF RelayerAts, PastCreate, KnowsId
<1> QED
  BY <1>1, <1>2, <1>3, <1>4, <1>5, <1>7, <1>8, RelayerMoveInv

\* The relayer leaves its job, which is over or stays pending.
LEMMA RelayerLeaves ==
  ASSUME Good, relayer.at # "idle", relayer' = Resting, JobsKept,
         UNCHANGED <<cupVars, pageVars, serverVars, dbVars, funder, mixed, reverted>>,
         left' \in Bounds, deaths' \in Nat,
         \A j \in DOMAIN jobs : j # relayer.job => jobs'[j] = jobs[j],
         \/ jobs'[relayer.job].status # "pending" /\ deaths' = deaths
         \/ jobs' = jobs /\ deaths' = deaths + 1,
         jobs'[relayer.job].status = "done" =>
            <<jobs'[relayer.job].order, jobs'[relayer.job].id>> \in Owned
  PROVE  FundingInv'
<1>1. PICK j \in DOMAIN jobs, id \in Nat, l \in Launches :
            /\ relayer.job = j /\ jobs[j].status = "pending" /\ jobs[j].order = l
            /\ rows \in [CupIds -> Launches \cup {Nobody}]
            /\ brackets \in [CupIds -> Launches \cup {Nobody}]
  BY InWork
<1>2. /\ UNCHANGED <<page, order, capture, hook, intents, rows, brackets, cups>>
      /\ UNCHANGED <<page, order, capture, hook, intents, funder, mixed, reverted>>
      /\ FormsKept /\ SameCups
  BY DEF pageVars, serverVars, dbVars, cupVars, FormsKept, SameCups
<1>3. Owned' = Owned /\ Count' = Count /\ LastId' = LastId /\ (Clear' <=> Clear)
  BY <1>2, SameCupsFrame
<1>4. relayer'.at = "idle" /\ relayer' \in [at : RelayerAts, job : Nat, id : Nat]
  BY DEF Resting, RelayerAts
<1>5. RelayerTypes'
  BY <1>1, <1>2, <1>4 DEF RelayerTypes, JobsKept
<1>6. CountInv'
  <2>1. \A k \in Launches : (HasJob(k)' <=> HasJob(k))
    BY DEF HasJob, JobsKept
  <2>2. ASSUME NEW i \in DOMAIN jobs
        PROVE  deaths' \in Nat /\ deaths \in Nat
               /\ deaths + (IF Created(i) THEN 1 ELSE 0) <= deaths' + (IF Created(i)' THEN 1 ELSE 0)
    <3>1. deaths \in Nat /\ deaths' \in Nat
      BY DEF Good, FundingInv, HistoryTypes
    <3>2. CASE deaths' = deaths + 1
      BY <3>1, <3>2
    <3>3. CASE deaths' = deaths /\ jobs'[j].status # "pending"
      <4>1. Created(i) => Created(i)'
        BY <1>1, <3>3 DEF Created
      <4> QED
        BY <3>1, <3>3, <4>1
    <3> QED
      BY <1>1, <3>2, <3>3
  <2>3. Count \in [Launches -> Nat]
    BY CountType DEF Good
  <2>4. ASSUME NEW k \in Launches, NEW i \in DOMAIN jobs', jobs'[i].order = k
        PROVE  Count[k] <= deaths' + (IF Created(i)' THEN 1 ELSE 0)
    <3>1. i \in DOMAIN jobs /\ jobs[i].order = k
      BY <2>4 DEF JobsKept
    <3>2. Count[k] <= deaths + (IF Created(i) THEN 1 ELSE 0)
      BY <3>1 DEF Good, FundingInv, CountInv
    <3>3. Count[k] \in Nat
      BY <2>3
    <3> QED
      BY <2>2, <3>1, <3>2, <3>3
  <2> QED
    BY <1>2, <1>3, <2>1, <2>4 DEF Good, FundingInv, CountInv
<1>7. OwnInv'
  <2>1. \A i \in DOMAIN jobs' :
          jobs'[i].status = "done" => <<jobs'[i].order, jobs'[i].id>> \in Owned
    BY DEF Good, FundingInv, OwnInv, JobsKept
  <2> QED
    BY <1>2, <1>3, <1>4, <2>1 DEF Good, FundingInv, OwnInv, KnowsId
<1>8. RowInv'
  BY <1>2, <1>3, <1>4 DEF Good, FundingInv, RowInv
<1> QED
  BY <1>2, <1>5, <1>6, <1>7, <1>8, RelayerInv

\* The job is over.
LEMMA JobEnds ==
  ASSUME Good, NEW j \in DOMAIN jobs, NEW status \in {"done", "failed"}, NEW id \in Nat,
         jobs' = [jobs EXCEPT ![j] = [jobs[j] EXCEPT !.status = status, !.id = id]]
  PROVE  /\ JobsKept /\ jobs'[j].status = status /\ jobs'[j].id = id
         /\ \A i \in DOMAIN jobs : i # j => jobs'[i] = jobs[i]
<1>1. jobs \in Seq(FundJobs)
  BY DEF Good, FundingInv, RelayerTypes
<1>2. jobs[j] \in FundJobs
  BY <1>1
<1> DEFINE job == [jobs[j] EXCEPT !.status = status, !.id = id]
<1>3. /\ job \in FundJobs /\ job.status = status /\ job.id = id
      /\ job.order = jobs[j].order
  BY <1>2 DEF FundJobs
<1>4. jobs' = [jobs EXCEPT ![j] = job]
  OBVIOUS
<1> HIDE DEF job
<1>5. /\ jobs' \in Seq(FundJobs) /\ DOMAIN jobs' = DOMAIN jobs /\ jobs'[j] = job
      /\ \A i \in DOMAIN jobs : i # j => jobs'[i] = jobs[i]
  BY <1>1, <1>3, <1>4
<1> QED
  BY <1>3, <1>5 DEF JobsKept

\* The job is done, with the id of the order's own cup.
LEMMA RelayerAnswerInv == ASSUME Good, RelayerAnswer PROVE FundingInv'
<1>1. /\ relayer.at = "answer" /\ relayer' = Resting
      /\ UNCHANGED <<cupVars, pageVars, serverVars, dbVars, left, historyVars>>
  BY DEF RelayerAnswer
<1>2. PICK j \in DOMAIN jobs, id \in Nat, l \in Launches :
            /\ relayer.job = j /\ relayer.id = id /\ jobs[j].order = l
  BY <1>1, InWork
<1>3. jobs' = [jobs EXCEPT ![j] = [jobs[j] EXCEPT !.status = "done", !.id = id]]
  BY <1>2 DEF RelayerAnswer
<1>4. /\ JobsKept /\ jobs'[j].status = "done" /\ jobs'[j].id = id
      /\ \A i \in DOMAIN jobs : i # j => jobs'[i] = jobs[i]
  BY <1>3, JobEnds
<1>5. <<jobs'[j].order, jobs'[j].id>> \in Owned
  BY <1>1, <1>2, <1>4 DEF Good, FundingInv, OwnInv, KnowsId, JobsKept
<1>6. left' \in Bounds /\ deaths' \in Nat /\ deaths' = deaths
      /\ UNCHANGED <<cupVars, pageVars, serverVars, dbVars, funder, mixed, reverted>>
  BY <1>1 DEF historyVars, Good, FundingInv, WebTypes, HistoryTypes
<1>7. /\ JobsKept /\ \A i \in DOMAIN jobs : i # relayer.job => jobs'[i] = jobs[i]
      /\ jobs'[relayer.job].status # "pending" /\ relayer.at # "idle"
      /\ <<jobs'[relayer.job].order, jobs'[relayer.job].id>> \in Owned
  BY <1>1, <1>2, <1>4, <1>5
<1>8. /\ \/ jobs'[relayer.job].status # "pending" /\ deaths' = deaths
         \/ jobs' = jobs /\ deaths' = deaths + 1
      /\ jobs'[relayer.job].status = "done" =>
            <<jobs'[relayer.job].order, jobs'[relayer.job].id>> \in Owned
  BY <1>6, <1>7
<1>9. UNCHANGED <<cupVars, pageVars, serverVars, dbVars, funder, mixed, reverted>>
  BY <1>6
<1> HIDE DEF Resting
<1> QED
  BY <1>1, <1>6, <1>7, <1>8, <1>9, RelayerLeaves

\* The relayer dies, and its job is taken again.
LEMMA RelayerDiesInv == ASSUME Good, RelayerDies, left' \in Bounds PROVE FundingInv'
<1>1. /\ relayer.at # "idle" /\ relayer' = Resting /\ deaths' = deaths + 1 /\ jobs' = jobs
      /\ UNCHANGED <<cupVars, pageVars, serverVars, dbVars, funder, mixed, reverted>>
  BY DEF RelayerDies
<1>2. deaths' \in Nat /\ jobs \in Seq(FundJobs)
  BY <1>1 DEF Good, FundingInv, HistoryTypes, RelayerTypes
<1>3. JobsKept
  BY <1>1, <1>2 DEF JobsKept
<1>4. PICK j \in DOMAIN jobs, id \in Nat, l \in Launches :
            /\ relayer.job = j /\ jobs[j].status = "pending"
  BY <1>1, InWork
<1> QED
  BY <1>1, <1>2, <1>3, <1>4, RelayerLeaves

\* A call fails, and the job with it.
LEMMA RelayerFailsInv == ASSUME Good, RelayerFails, left' \in Bounds PROVE FundingInv'
<1>1. /\ relayer.at # "idle" /\ relayer' = Resting
      /\ UNCHANGED <<cupVars, pageVars, serverVars, dbVars, historyVars>>
  BY DEF RelayerFails
<1>2. PICK j \in DOMAIN jobs, old \in Nat, l \in Launches :
            relayer.job = j /\ jobs[j] \in FundJobs
  BY <1>1, InWork
<1>3. PICK id \in Nat : id = jobs[j].id
  BY <1>2 DEF FundJobs
<1>4. jobs' = [jobs EXCEPT ![j] = [jobs[j] EXCEPT !.status = "failed", !.id = id]]
  <2>1. [jobs[j] EXCEPT !.status = "failed"] = [jobs[j] EXCEPT !.status = "failed", !.id = id]
    BY <1>2, <1>3 DEF FundJobs
  <2> QED
    BY <1>2, <2>1 DEF RelayerFails
<1>5. /\ JobsKept /\ jobs'[j].status = "failed"
      /\ \A i \in DOMAIN jobs : i # j => jobs'[i] = jobs[i]
  BY <1>4, JobEnds
<1>6. deaths' \in Nat /\ deaths' = deaths
      /\ UNCHANGED <<cupVars, pageVars, serverVars, dbVars, funder, mixed, reverted>>
  BY <1>1 DEF historyVars, Good, FundingInv, HistoryTypes
<1>7. /\ JobsKept /\ \A i \in DOMAIN jobs : i # relayer.job => jobs'[i] = jobs[i]
      /\ jobs'[relayer.job].status # "pending" /\ jobs'[relayer.job].status # "done"
  BY <1>2, <1>5
<1>8. /\ \/ jobs'[relayer.job].status # "pending" /\ deaths' = deaths
         \/ jobs' = jobs /\ deaths' = deaths + 1
      /\ jobs'[relayer.job].status = "done" =>
            <<jobs'[relayer.job].order, jobs'[relayer.job].id>> \in Owned
  BY <1>6, <1>7
<1>9. UNCHANGED <<cupVars, pageVars, serverVars, dbVars, funder, mixed, reverted>>
  BY <1>6
<1> HIDE DEF Resting
<1> QED
  BY <1>1, <1>6, <1>7, <1>8, <1>9, RelayerLeaves

-----------------------------------------------------------------------------
(***************************************************************************)
(* The contract, with the cups that are there.                             *)
(***************************************************************************)

\* A transaction on a cup: sponsors, verifiers and other winners stay.
OneCup(id) ==
  /\ DOMAIN cups' = DOMAIN cups /\ Len(cups') = Len(cups)
  /\ \A k \in DOMAIN cups : /\ cups'[k].sponsor = cups[k].sponsor
                            /\ cups'[k].verifier = cups[k].verifier
                            /\ k # id => cups'[k].winners = cups[k].winners

LEMMA CancelShape ==
  ASSUME CupInv, NEW id \in DOMAIN cups, NEW caller, CancelTournament(caller, id)
  PROVE  OneCup(id) /\ cups'[id].winners = cups[id].winners
<1>1. cups \in Seq(Cups) /\ cups[id] \in Cups
  BY DEF CupInv
<1>2. cups' = [cups EXCEPT ![id] =
         [cups[id] EXCEPT !.state = "CANCELLED", !.paid = cups[id].paid + cups[id].prizePool]]
  BY DEF CancelTournament
<1> DEFINE cup == [cups[id] EXCEPT !.state = "CANCELLED",
                                   !.paid = cups[id].paid + cups[id].prizePool]
<1>3. cup.sponsor = cups[id].sponsor /\ cup.verifier = cups[id].verifier
      /\ cup.winners = cups[id].winners
  BY <1>1 DEF Cups
<1>4. cups' = [cups EXCEPT ![id] = cup]
  BY <1>2
<1> HIDE DEF cup
<1> QED
  BY <1>1, <1>3, <1>4 DEF OneCup

LEMMA FinalizeShape ==
  ASSUME CupInv, NEW id, NEW winners, NEW signer, FinalizeTournament(id, winners, signer)
  PROVE  /\ id \in DOMAIN cups /\ OneCup(id) /\ cups'[id].winners = winners
         /\ cups[id].verifier = signer
<1>1. cups \in Seq(Cups) /\ id \in DOMAIN cups /\ cups[id] \in Cups /\ cups[id].verifier = signer
  BY DEF CupInv, FinalizeTournament, MayFinalize
<1>2. cups' = [cups EXCEPT ![id] = [cups[id] EXCEPT !.state = "FINALIZED", !.winners = winners]]
  BY DEF FinalizeTournament
<1> DEFINE cup == [cups[id] EXCEPT !.state = "FINALIZED", !.winners = winners]
<1>3. cup.sponsor = cups[id].sponsor /\ cup.verifier = cups[id].verifier
      /\ cup.winners = winners
  BY <1>1 DEF Cups
<1>4. cups' = [cups EXCEPT ![id] = cup]
  BY <1>2
<1> HIDE DEF cup
<1> QED
  BY <1>1, <1>3, <1>4 DEF OneCup

LEMMA ClaimShape ==
  ASSUME CupInv, NEW id \in DOMAIN cups, NEW caller, NEW i, ClaimPrize(caller, id, i)
  PROVE  OneCup(id) /\ cups'[id].winners = cups[id].winners
<1>1. cups \in Seq(Cups) /\ cups[id] \in Cups
  BY DEF CupInv
<1>2. PICK claimed, state, paid : cups' = [cups EXCEPT ![id] =
         [cups[id] EXCEPT !.claimed = claimed, !.state = state, !.paid = paid]]
  BY ZenonT(60) DEF ClaimPrize
<1> DEFINE cup == [cups[id] EXCEPT !.claimed = claimed, !.state = state, !.paid = paid]
<1>3. cup.sponsor = cups[id].sponsor /\ cup.verifier = cups[id].verifier
      /\ cup.winners = cups[id].winners
  BY <1>1 DEF Cups
<1>4. cups' = [cups EXCEPT ![id] = cup]
  BY <1>2
<1> HIDE DEF cup
<1> QED
  BY <1>1, <1>3, <1>4 DEF OneCup

\* Only a launch that may have that cup names its winners.
LEMMA WinnersKept ==
  ASSUME WinnersAsEntered, FormsKept, SameCups, NEW id \in DOMAIN cups, OneCup(id),
         \/ cups'[id].winners \in {cups[id].winners, <<>>}
         \/ \E l \in Launches : /\ cups'[id].winners = page[l].form.winners
                                /\ cups[id].verifier = Wallet(l) /\ <<l, id>> \in Owned
  PROVE  WinnersAsEntered'
<1>1. /\ \A l \in Launches : Wallet(l)' = Wallet(l)
      /\ \A l \in Launches : page'[l].form.winners = page[l].form.winners
      /\ UNCHANGED <<funder, mixed, reverted>> /\ DOMAIN cups' = DOMAIN cups
  BY DEF FormsKept, Wallet, SameCups
<1>2. SUFFICES ASSUME NEW k \in DOMAIN cups, cups'[k].winners # <<>>
               PROVE  \E l \in Launches :
                        /\ cups'[k].winners = page[l].form.winners
                        /\ cups'[k].verifier = Wallet(l)
                        /\ \/ funder[k] = l \/ <<l, funder[k]>> \in mixed
                           \/ reverted /\ Wallet(l) = Relayer
  BY <1>1 DEF WinnersAsEntered
<1>3. cups'[k].verifier = cups[k].verifier
  BY DEF OneCup
<1>4. CASE cups'[k].winners = cups[k].winners
  BY <1>2, <1>3, <1>4 DEF WinnersAsEntered
<1>5. CASE k = id /\ \E l \in Launches : /\ cups'[id].winners = page[l].form.winners
                                /\ cups[id].verifier = Wallet(l) /\ <<l, id>> \in Owned
  BY <1>3, <1>5 DEF Owned
<1> QED
  BY <1>2, <1>4, <1>5 DEF OneCup

\* A transaction on a cup, with what the relayer does besides.
LEMMA TradeInv ==
  ASSUME Good, SameCups, WinnersAsEntered', deaths' = deaths,
         \A k \in DOMAIN cups : cups'[k].sponsor = cups[k].sponsor,
         UNCHANGED <<pageVars, serverVars, jobs, dbVars>>, left' \in Bounds,
         \/ relayer' = relayer
         \/ relayer.at = "finalize" /\ relayer' = [relayer EXCEPT !.at = "answer"]
  PROVE  FundingInv'
<1>1. /\ UNCHANGED <<page, order, capture, hook, intents, jobs, rows, brackets, deaths>>
      /\ UNCHANGED <<funder, mixed, reverted>> /\ FormsKept
      /\ DOMAIN cups' = DOMAIN cups /\ Len(cups') = Len(cups)
  BY DEF pageVars, serverVars, dbVars, FormsKept, SameCups
<1>2. Owned' = Owned /\ Count' = Count /\ LastId' = LastId /\ (Clear' <=> Clear)
  BY <1>1, SameCupsFrame
<1>3. /\ relayer'.job = relayer.job /\ relayer'.id = relayer.id
      /\ relayer' \in [at : RelayerAts, job : Nat, id : Nat]
      /\ relayer'.at = relayer.at \/ (relayer.at = "finalize" /\ relayer'.at = "answer")
  BY DEF Good, FundingInv, RelayerTypes, RelayerAts, PastCreate, KnowsId
<1>4. WebTypes'
  BY <1>1 DEF Good, FundingInv, WebTypes
<1>5. RelayerTypes'
  BY <1>1, <1>3 DEF Good, FundingInv, RelayerTypes
<1>6. HistoryTypes'
  BY <1>1 DEF Good, FundingInv, HistoryTypes
<1>7. PageInv'
  BY <1>1 DEF Good, FundingInv, PageInv, PageOK
<1>8. HolderInv'
  BY <1>1, SameHolder DEF Good, FundingInv
<1>9. PointerInv'
  BY <1>1 DEF Good, FundingInv, PointerInv, JobOf
<1>10. CountInv'
  <2>1. \A j \in DOMAIN jobs : (Created(j)' <=> Created(j))
    BY <1>1, <1>3 DEF Created, PastCreate, KnowsId
  <2>2. \A l \in Launches : (HasJob(l)' <=> HasJob(l))
    BY <1>1 DEF HasJob
  <2> QED
    BY <1>1, <1>2, <2>1, <2>2 DEF Good, FundingInv, CountInv
<1>11. OwnInv'
  BY <1>1, <1>2, <1>3 DEF Good, FundingInv, OwnInv, KnowsId
<1>12. RowInv'
  BY <1>1, <1>2, <1>3 DEF Good, FundingInv, RowInv
<1> QED
  BY <1>4, <1>5, <1>6, <1>7, <1>8, <1>9, <1>10, <1>11, <1>12 DEF FundingInv

\* cancelTournament.
LEMMA CancelStepInv ==
  ASSUME Good, NEW id \in DOMAIN cups, Cancel(id) PROVE FundingInv'
<1>1. /\ UNCHANGED <<pageVars, serverVars, jobs, dbVars>> /\ relayer' = relayer
      /\ UNCHANGED historyVars /\ left' = left
  BY DEF Cancel
<1>2. PICK caller : CancelTournament(caller, id)
  BY DEF Cancel
<1>3. OneCup(id) /\ cups'[id].winners = cups[id].winners
  BY <1>2, CancelShape DEF Good
<1>4. SameCups /\ FormsKept /\ deaths' = deaths
  BY <1>1, <1>3 DEF SameCups, FormsKept, OneCup, historyVars, pageVars
<1>5. WinnersAsEntered'
  BY <1>3, <1>4, WinnersKept DEF Good, FundingInv
<1>6. left' \in Bounds /\ \A k \in DOMAIN cups : cups'[k].sponsor = cups[k].sponsor
  BY <1>1, <1>3 DEF OneCup, Good, FundingInv, WebTypes
<1> QED
  BY <1>1, <1>4, <1>5, <1>6, TradeInv

\* claimPrize.
LEMMA ClaimStepInv ==
  ASSUME Good, NEW id \in DOMAIN cups, NEW i, Claim(id, i) PROVE FundingInv'
<1>1. /\ UNCHANGED <<pageVars, serverVars, jobs, dbVars>> /\ relayer' = relayer
      /\ UNCHANGED historyVars /\ left' = left
  BY DEF Claim
<1>2. PICK caller : ClaimPrize(caller, id, i)
  BY DEF Claim
<1>3. OneCup(id) /\ cups'[id].winners = cups[id].winners
  BY <1>2, ClaimShape DEF Good
<1>4. SameCups /\ FormsKept /\ deaths' = deaths
  BY <1>1, <1>3 DEF SameCups, FormsKept, OneCup, historyVars, pageVars
<1>5. WinnersAsEntered'
  BY <1>3, <1>4, WinnersKept DEF Good, FundingInv
<1>6. left' \in Bounds /\ \A k \in DOMAIN cups : cups'[k].sponsor = cups[k].sponsor
  BY <1>1, <1>3 DEF OneCup, Good, FundingInv, WebTypes
<1> QED
  BY <1>1, <1>4, <1>5, <1>6, TradeInv

\* The owner, and time.
LEMMA MoveInv == ASSUME Good, Move PROVE FundingInv'
<1>1. /\ UNCHANGED <<pageVars, serverVars, jobs, dbVars>> /\ relayer' = relayer
      /\ UNCHANGED historyVars /\ cups' = cups
  BY DEF Move, PauseCup, UpdateProtocolFeeBps, Tick
<1>2. left' \in Bounds
  BY DEF Move, Good, FundingInv, WebTypes, Bounds
<1>3. SameCups /\ FormsKept /\ deaths' = deaths /\ UNCHANGED <<cups, funder, mixed, reverted>>
  BY <1>1 DEF SameCups, FormsKept, historyVars, pageVars
<1>4. WinnersAsEntered'
  BY <1>3, SameWinners DEF Good, FundingInv
<1>5. \A k \in DOMAIN cups : cups'[k].sponsor = cups[k].sponsor
  BY <1>1
<1> QED
  BY <1>1, <1>2, <1>3, <1>4, <1>5, TradeInv

\* An order pays through the relayer.
LEMMA JobWallet ==
  ASSUME FundingInv, NEW l \in Launches, HasJob(l)
  PROVE  order[l] = "approved" /\ Wallet(l) = Relayer
<1>1. order[l] = "approved"
  BY DEF FundingInv, HolderInv, HolderOK
<1> QED
  BY <1>1 DEF FundingInv, PageInv, PageOK, Wallet

\* The relayer finalizes with the winners of its own order.
LEMMA RelayerFinalizeInv == ASSUME Good, RelayerFinalize PROVE FundingInv'
<1>1. /\ relayer.at = "finalize" /\ relayer' = [relayer EXCEPT !.at = "answer"]
      /\ UNCHANGED <<pageVars, serverVars, jobs, dbVars>> /\ UNCHANGED historyVars /\ left' = left
  BY DEF RelayerFinalize
<1>2. PICK j \in DOMAIN jobs, id \in Nat, l \in Launches :
            relayer.job = j /\ relayer.id = id /\ jobs[j].order = l
  BY <1>1, InWork
<1>3. <<l, id>> \in Owned
  BY <1>1, <1>2 DEF Good, FundingInv, OwnInv, KnowsId
<1>4. Wallet(l) = Relayer
  BY <1>2, JobWallet DEF Good, HasJob
<1>5. FormsKept /\ deaths' = deaths /\ UNCHANGED <<funder, mixed, reverted>> /\ left' \in Bounds
  BY <1>1 DEF FormsKept, pageVars, historyVars, Good, FundingInv, WebTypes
<1>6. CASE UNCHANGED cupVars
  <2>1. SameCups /\ UNCHANGED <<cups, funder, mixed, reverted>>
        /\ \A k \in DOMAIN cups : cups'[k].sponsor = cups[k].sponsor
    BY <1>5, <1>6 DEF SameCups, cupVars
  <2>2. WinnersAsEntered'
    BY <1>5, <2>1, SameWinners DEF Good, FundingInv
  <2> QED
    BY <1>1, <1>5, <2>1, <2>2, TradeInv
<1>7. CASE FinalizeTournament(relayer.id, EnteredBy(relayer.job), Relayer)
  <2>1. PICK w : w = EnteredBy(j)
    OBVIOUS
  <2>2. w \in {<<>>, page[l].form.winners}
    BY <1>2, <2>1 DEF EnteredBy, FormOf
  <2>3. FinalizeTournament(id, w, Relayer)
    BY <1>2, <1>7, <2>1
  <2>4. /\ id \in DOMAIN cups /\ OneCup(id) /\ cups'[id].winners = w
        /\ cups[id].verifier = Relayer
    BY <2>3, FinalizeShape DEF Good
  <2>5. SameCups
    BY <1>5, <2>4 DEF SameCups, OneCup
  <2>6. WinnersAsEntered'
    BY <1>3, <1>4, <1>5, <2>2, <2>4, <2>5, WinnersKept DEF Good, FundingInv
  <2>7. \A k \in DOMAIN cups : cups'[k].sponsor = cups[k].sponsor
    BY <2>4 DEF OneCup
  <2> QED
    BY <1>1, <1>5, <2>5, <2>6, <2>7, TradeInv
<1> QED
  BY <1>6, <1>7 DEF RelayerFinalize

\* The page finalizes with the winners that were entered in it.
LEMMA WalletFinalizeInv ==
  ASSUME Good, NEW l \in Launches, WalletFinalize(l) PROVE FundingInv'
<1>1. /\ page[l].at = "sign" /\ Goes(l, "live") /\ WebTypes
      /\ UNCHANGED <<order, capture, hook, intents, jobs, relayer, rows, brackets, left>>
      /\ UNCHANGED <<funder, deaths, mixed, reverted>>
  BY DEF Good, FundingInv, WalletFinalize, serverVars, dbVars, historyVars
<1>2. PageMoves(l, "live", page[l].job, page[l].id)
  BY <1>1, GoesStep DEF PageAts
<1>3. PICK id \in Nat : id = page[l].id
  BY DEF Good, FundingInv, WebTypes, Pages
<1>4. <<l, id>> \in Owned /\ Wallet(l) = page[l].form.wallet
  BY <1>1, <1>3 DEF Good, FundingInv, OwnInv, PageInv, PageOK, AvaxAts, Wallet
<1>5. PICK w, signer : w = page[l].form.winners /\ signer = page[l].form.wallet
  OBVIOUS
<1>6. FinalizeTournament(id, w, signer)
  BY <1>3, <1>5 DEF WalletFinalize
<1>7. /\ id \in DOMAIN cups /\ OneCup(id) /\ cups'[id].winners = w
      /\ cups[id].verifier = signer
  BY <1>6, FinalizeShape DEF Good
<1>8. SameCups /\ FormsKept
  BY <1>1, <1>2, <1>7, MovesKeepForms DEF SameCups, OneCup
<1>9. WinnersAsEntered'
  BY <1>4, <1>5, <1>7, <1>8, WinnersKept DEF Good, FundingInv
<1>10. PageInv'
  <2>1. PageInv /\ PageOK(l)
    BY DEF Good, FundingInv, PageInv
  <2>2. PageOK(l)'
    BY <1>1, <1>2, <2>1 DEF PageOK, PageMoves, UsdAts, AvaxAts
  <2> QED
    BY <1>1, <1>2, <2>1, <2>2, PageMoveOK
<1>11. WebTypes'
  BY <1>1, <1>2 DEF WebTypes, PageMoves
<1>12. RelayerTypes'
  BY <1>1 DEF Good, FundingInv, RelayerTypes
<1>13. HistoryTypes'
  BY <1>1, <1>7 DEF Good, FundingInv, HistoryTypes, OneCup
<1>14. HolderInv'
  BY <1>1, SameHolder DEF Good, FundingInv
<1>15. PointerInv'
  BY <1>1, <1>2, PageMovePointer DEF Good, FundingInv
<1>16. CountInv'
  BY <1>1, <1>2, <1>8, PageMoveCount DEF Good, FundingInv
<1>17. OwnInv'
  <2>1. <<l, page[l].id>> \in Owned /\ "live" \notin AvaxAts
    BY <1>3, <1>4 DEF AvaxAts
  <2>2. PICK at \in {"live"} : PageMoves(l, at, page[l].job, page[l].id)
    BY <1>2
  <2>3. at # "mined" /\ at \notin AvaxAts /\ OwnInv /\ UNCHANGED <<jobs, relayer>>
    BY <1>1, <2>1, <2>2 DEF Good, FundingInv
  <2> QED
    BY <1>8, <2>1, <2>2, <2>3, PageMoveOwn
<1>18. RowInv'
  BY <1>1, <1>2, <1>8, PageMoveRow DEF Good, FundingInv
<1> QED
  BY <1>9, <1>10, <1>11, <1>12, <1>13, <1>14, <1>15, <1>16, <1>17, <1>18 DEF FundingInv

-----------------------------------------------------------------------------
(***************************************************************************)
(* A new cup.                                                              *)
(***************************************************************************)

\* Launches that have not read the id of their own creation.
LEMMA UnreadType ==
  ASSUME Good
  PROVE  /\ Unread \subseteq Launches
         /\ \A l \in Launches : page[l].at = "mined" => l \in Unread
         /\ relayer.at = "mined" => jobs[relayer.job].order \in Unread
<1>1. ASSUME NEW j \in DOMAIN jobs PROVE jobs[j].order \in Launches
  <2>1. jobs[j] \in FundJobs
    BY DEF Good, FundingInv, RelayerTypes
  <2> QED
    BY <2>1 DEF FundJobs
<1>2. relayer.at = "mined" => relayer.job \in DOMAIN jobs
  BY DEF Good, FundingInv, RelayerTypes
<1> QED
  BY <1>1, <1>2 DEF Unread

\* A creation that somebody has not read past is recorded.
LEMMA AddsFacts ==
  ASSUME Good, NEW l \in Launches \cup {Nobody}, Adds(l), FormsKept, reverted' = reverted,
         deaths' = deaths
  PROVE  /\ HistoryTypes' /\ Owned \subseteq Owned' /\ WinnersAsEntered'
         /\ \A k \in Unread : <<k, LastId'>> \in Owned'
         /\ l \in Launches => <<l, LastId'>> \in Owned'
<1> DEFINE new == Len(cups) + 1
<1>1. /\ DOMAIN cups' = DOMAIN cups \cup {new} /\ new \notin DOMAIN cups
      /\ Len(cups') = new /\ new \in Nat
      /\ funder' \in Seq(Launches \cup {Nobody}) /\ Len(funder') = Len(cups')
      /\ \A id \in DOMAIN cups : funder'[id] = funder[id]
      /\ funder'[new] = l
  BY AddedFrame DEF Good, FundingInv
<1>2. /\ \A id \in DOMAIN cups : cups'[id] = cups[id]
      /\ cups'[new].winners = <<>> /\ cups'[new].sponsor \in Accounts
      /\ mixed' = mixed \cup {<<a, l>> : a \in Unread}
  BY DEF Adds
<1>3. Unread \subseteq Launches
  BY UnreadType
<1>4. mixed' \in SUBSET (Launches \X (Launches \cup {Nobody}))
  BY <1>2, <1>3 DEF Good, FundingInv, HistoryTypes
<1>5. LastId' = new
  BY <1>1 DEF LastId
<1> HIDE DEF new
<1>6. HistoryTypes'
  BY <1>1, <1>2, <1>4 DEF Good, FundingInv, HistoryTypes
<1>7. Owned \subseteq Owned'
  BY <1>1, <1>2, OwnedGrows
<1>8. ASSUME NEW k \in Unread PROVE <<k, LastId'>> \in Owned'
  <2>1. <<k, l>> \in mixed' /\ k \in Launches
    BY <1>2, <1>3
  <2> QED
    BY <1>1, <1>5, <2>1 DEF Owned
<1>9. l \in Launches => <<l, LastId'>> \in Owned'
  BY <1>1, <1>5 DEF Owned
<1>10. WinnersAsEntered'
  <2>1. SUFFICES ASSUME NEW id \in DOMAIN cups', cups'[id].winners # <<>>
                 PROVE  \E k \in Launches :
                          /\ cups'[id].winners = page'[k].form.winners
                          /\ cups'[id].verifier = Wallet(k)'
                          /\ \/ funder'[id] = k \/ <<k, funder'[id]>> \in mixed'
                             \/ reverted' /\ Wallet(k)' = Relayer
    BY DEF WinnersAsEntered
  <2>2. id \in DOMAIN cups /\ cups'[id] = cups[id] /\ funder'[id] = funder[id]
    BY <1>1, <1>2, <2>1
  <2>3. \A k \in Launches : Wallet(k)' = Wallet(k)
    BY DEF FormsKept, Wallet
  <2>4. PICK k \in Launches :
          /\ cups[id].winners = page[k].form.winners
          /\ cups[id].verifier = Wallet(k)
          /\ \/ funder[id] = k \/ <<k, funder[id]>> \in mixed
             \/ reverted /\ Wallet(k) = Relayer
    BY <2>1, <2>2 DEF Good, FundingInv, WinnersAsEntered
  <2>5. page'[k].form = page[k].form /\ mixed \subseteq mixed'
    BY <1>2 DEF FormsKept
  <2> QED
    BY <2>2, <2>3, <2>4, <2>5
<1> QED
  BY <1>6, <1>7, <1>8, <1>9, <1>10

\* Rows stay with the cups that are there.
LEMMA AddsRow ==
  ASSUME Good, NEW l \in Launches \cup {Nobody}, Adds(l), reverted' = reverted,
         UNCHANGED dbVars, relayer'.at # "bracket" \/ relayer' = relayer,
         \A k \in Launches : page'[k] = page[k] \/ page'[k].at # "init bracket"
  PROVE  RowInv'
<1> SUFFICES ASSUME Clear' PROVE RowInv'
  BY DEF RowInv
<1>1. Clear /\ RowInv
  BY DEF Clear, Adds, Good, FundingInv
<1>2. /\ \A id \in DOMAIN cups : id \in DOMAIN cups' /\ funder'[id] = funder[id]
      /\ rows' = rows /\ brackets' = brackets
  BY AddedFrame DEF Good, FundingInv, dbVars
<1> QED
  BY <1>1, <1>2 DEF RowInv

\* Whatever else the step does: who creates, and who has created.
LEMMA AddsInv ==
  ASSUME Good, NEW l \in Launches \cup {Nobody}, Adds(l), FormsKept, reverted' = reverted,
         deaths' = deaths, UNCHANGED <<order, serverVars, jobs, dbVars>>, left' \in Bounds,
         page' \in [Launches -> Pages], PageInv', RelayerTypes',
         \A k \in Launches : \/ page'[k] = page[k]
                             \/ page'[k].at = "mined" /\ k = l /\ page'[k].id = page[k].id,
         \/ relayer' = relayer
         \/ relayer'.at = "mined" /\ relayer'.job = relayer.job
              /\ jobs[relayer.job].order = l,
         CountInv'
  PROVE  FundingInv'
<1>1. UNCHANGED <<order, capture, hook, intents, jobs, rows, brackets>>
  BY DEF serverVars, dbVars
<1>2. /\ HistoryTypes' /\ Owned \subseteq Owned' /\ WinnersAsEntered'
      /\ \A k \in Unread : <<k, LastId'>> \in Owned'
      /\ l \in Launches => <<l, LastId'>> \in Owned'
  BY AddsFacts
<1>3. WebTypes'
  BY <1>1 DEF Good, FundingInv, WebTypes
<1>4. HolderInv'
  BY <1>1, SameHolder DEF Good, FundingInv
<1>5. PointerInv'
  BY <1>1 DEF Good, FundingInv, PointerInv, JobOf
<1>6. RowInv'
  BY AddsRow
<1>7. /\ Unread \subseteq Launches
      /\ \A k \in Launches : page[k].at = "mined" => k \in Unread
      /\ relayer.at = "mined" => jobs[relayer.job].order \in Unread
  BY UnreadType
<1>8. \A k \in Launches :
        /\ page'[k].at = "mined" => <<k, LastId'>> \in Owned'
        /\ page'[k].id # 0 => <<k, page'[k].id>> \in Owned'
        /\ page'[k].at \in AvaxAts \ {"create", "mined"} => page'[k].id # 0
  <2> SUFFICES ASSUME NEW k \in Launches
               PROVE  /\ page'[k].at = "mined" => <<k, LastId'>> \in Owned'
                      /\ page'[k].id # 0 => <<k, page'[k].id>> \in Owned'
                      /\ page'[k].at \in AvaxAts \ {"create", "mined"} => page'[k].id # 0
    OBVIOUS
  <2>1. page[k].id # 0 => <<k, page[k].id>> \in Owned
    BY DEF Good, FundingInv, OwnInv
  <2>2. page[k].at \in AvaxAts \ {"create", "mined"} => page[k].id # 0
    BY DEF Good, FundingInv, OwnInv
  <2> QED
    BY <1>2, <1>7, <2>1, <2>2
<1>9. \A j \in DOMAIN jobs' :
        jobs'[j].status = "done" => <<jobs'[j].order, jobs'[j].id>> \in Owned'
  BY <1>1, <1>2 DEF Good, FundingInv, OwnInv
<1>10. /\ relayer'.at = "mined" => <<jobs'[relayer'.job].order, LastId'>> \in Owned'
       /\ relayer'.at \in KnowsId => <<jobs'[relayer'.job].order, relayer'.id>> \in Owned'
  <2>1. CASE relayer' = relayer
    BY <1>1, <1>2, <1>7, <2>1 DEF Good, FundingInv, OwnInv
  <2>2. CASE relayer'.at = "mined" /\ relayer'.job = relayer.job /\ jobs[relayer.job].order = l
    <3>1. l \in Launches
      <4>1. relayer'.job \in DOMAIN jobs
        BY <1>1, <2>2 DEF RelayerTypes
      <4>2. jobs[relayer.job] \in FundJobs
        BY <2>2, <4>1 DEF Good, FundingInv, RelayerTypes
      <4> QED
        BY <2>2, <4>2 DEF FundJobs
    <3> QED
      BY <1>1, <1>2, <2>2, <3>1 DEF KnowsId
  <2> QED
    BY <2>1, <2>2
<1>11. OwnInv'
  BY <1>8, <1>9, <1>10 DEF OwnInv
<1> QED
  BY <1>2, <1>3, <1>4, <1>5, <1>6, <1>11 DEF FundingInv

\* createTournamentERC20, past the page.
LEMMA OutsideSponsorInv ==
  ASSUME Good, CupInv', CupAssumption, NEW d \in left.outside, OutsideSponsor(d)
  PROVE  FundingInv'
<1>1. /\ Creates(Nobody, d.sponsor, d.token, d.amount, d.bps)
      /\ left' = [left EXCEPT !.outside = left.outside \ {d}]
      /\ UNCHANGED <<page, order, serverVars, jobs, relayer, dbVars, deaths, reverted>>
  BY DEF OutsideSponsor, pageVars
<1>2. left \in Bounds /\ d \in Deposits
  BY DEF Good, FundingInv, WebTypes, Bounds
<1>3. left' \in Bounds
  BY <1>1, <1>2 DEF Bounds
<1>4. PICK sponsor, token, amount, bps :
        sponsor \in Accounts /\ Creates(Nobody, sponsor, token, amount, bps)
  BY <1>1, <1>2 DEF Deposits
<1>5. Adds(Nobody)
  BY <1>4, CreatesStep DEF Good
<1>6. FormsKept /\ page' \in [Launches -> Pages] /\ PageInv' /\ RelayerTypes'
  BY <1>1 DEF FormsKept, dbVars, Good, FundingInv, WebTypes, RelayerTypes, PageInv, PageOK
<1>7. CountInv'
  <2>1. \A k \in Launches : Count'[k] = Count[k]
    BY <1>5, CountGrows DEF Good, FundingInv, Launches, Nobody
  <2>2. \A k \in Launches : (HasJob(k)' <=> HasJob(k))
    BY <1>1 DEF HasJob
  <2>3. \A j \in DOMAIN jobs : (Created(j)' <=> Created(j))
    BY <1>1 DEF Created
  <2> QED
    BY <1>1, <2>1, <2>2, <2>3 DEF Good, FundingInv, CountInv
<1>8. UNCHANGED <<order, serverVars, jobs, dbVars>> /\ relayer' = relayer
      /\ (\A k \in Launches : page'[k] = page[k]) /\ deaths' = deaths /\ reverted' = reverted
  BY <1>1
<1>9. Nobody \in Launches \cup {Nobody}
  OBVIOUS
<1> QED
  BY <1>3, <1>5, <1>6, <1>7, <1>8, <1>9, AddsInv

\* The page's one creation.
LEMMA WalletCreateInv ==
  ASSUME Good, CupInv', CupAssumption, NEW l \in Launches, WalletCreate(l)
  PROVE  FundingInv'
<1>1. /\ page[l].at = "create" /\ Goes(l, "mined") /\ WebTypes
      /\ Creates(l, page[l].form.wallet, Native, page[l].form.amount, page[l].form.bps)
      /\ UNCHANGED <<order, serverVars, jobs, relayer, dbVars, left, deaths, reverted>>
  BY DEF Good, FundingInv, WalletCreate
<1>2. PageMoves(l, "mined", page[l].job, page[l].id)
  BY <1>1, GoesStep DEF PageAts, AvaxAts
<1>3. page[l].form \in Forms /\ page[l].form.currency = "AVAX" /\ order[l] = "none"
  <2>1. page[l].form \in Forms /\ page[l].form.currency = "AVAX"
    BY <1>1, WalletOwner DEF Good, FundingInv, PageInv, PageOK, AvaxAts
  <2> QED
    BY <1>1, <2>1 DEF Good, FundingInv, PageInv, PageOK
<1>4. Adds(l)
  <2>1. PICK sponsor, token, amount, bps :
        sponsor \in Accounts /\ Creates(l, sponsor, token, amount, bps)
    BY <1>1, <1>3 DEF Forms
  <2> QED
    BY <2>1, CreatesStep DEF Good
<1>5. FormsKept /\ page' \in [Launches -> Pages]
  BY <1>2, MovesKeepForms DEF PageMoves
<1>6. PageInv'
  <2>1. PageInv /\ PageOK(l)
    BY DEF Good, FundingInv, PageInv
  <2>2. PageOK(l)'
    BY <1>1, <1>2, <2>1 DEF PageOK, PageMoves, UsdAts, AvaxAts
  <2> QED
    BY <1>1, <1>2, <2>1, <2>2, PageMoveOK
<1>7. RelayerTypes'
  BY <1>1 DEF dbVars, Good, FundingInv, RelayerTypes
<1>8. CountInv'
  <2>1. /\ \A k \in Launches : k # l => Count'[k] = Count[k]
        /\ Count'[l] = Count[l] + 1
    BY <1>4, CountGrows DEF Good, FundingInv
  <2>2. \A k \in Launches : (HasJob(k)' <=> HasJob(k))
    BY <1>1 DEF HasJob
  <2>3. \A j \in DOMAIN jobs : (Created(j)' <=> Created(j))
    BY <1>1 DEF Created
  <2>4. ~HasJob(l)
    BY <1>3, JobWallet DEF Good
  <2>5. Count[l] = 0
    <3>1. Count[l] \in Nat
      BY CountType DEF Good
    <3>2. ~(Count[l] > 0)
      BY <1>1, <2>4 DEF Good, FundingInv, CountInv
    <3> QED
      BY <3>1, <3>2
  <2>6. ASSUME NEW k \in Launches, k # l
        PROVE  /\ Count'[k] > 0 =>
                    \/ HasJob(k)'
                    \/ page'[k].form.currency = "AVAX" /\ page'[k].at \notin {"form", "create"}
               /\ page'[k].form.currency = "AVAX" => Count'[k] <= 1
               /\ \A j \in DOMAIN jobs' :
                    jobs'[j].order = k => Count'[k] <= deaths' + (IF Created(j)' THEN 1 ELSE 0)
    BY <1>1, <1>2, <2>1, <2>2, <2>3, <2>6 DEF Good, FundingInv, CountInv, PageMoves
  <2>7. /\ page'[l].form.currency = "AVAX" /\ page'[l].at = "mined" /\ Count'[l] = 1
        /\ \A j \in DOMAIN jobs' : jobs'[j].order # l
    BY <1>1, <1>2, <1>3, <2>1, <2>4, <2>5 DEF PageMoves, HasJob
  <2> QED
    BY <2>6, <2>7 DEF CountInv
<1>9. \A k \in Launches : \/ page'[k] = page[k]
                          \/ page'[k].at = "mined" /\ k = l /\ page'[k].id = page[k].id
  BY <1>2 DEF PageMoves
<1>10. UNCHANGED <<order, serverVars, jobs, dbVars>> /\ relayer' = relayer
       /\ deaths' = deaths /\ reverted' = reverted /\ left' \in Bounds
  BY <1>1 DEF WebTypes
<1> QED
  BY <1>4, <1>5, <1>6, <1>7, <1>8, <1>9, <1>10, AddsInv

\* The relayer's creation, and the one that is mined reverted.
LEMMA RelayerCreateInv ==
  ASSUME Good, CupInv', CupAssumption, FundingAssumption, RelayerCreate PROVE FundingInv'
<1>1. /\ relayer.at = "create" /\ relayer' = [relayer EXCEPT !.at = "mined"]
      /\ UNCHANGED <<page, order, serverVars, jobs, dbVars, left, deaths>>
  BY DEF RelayerCreate, pageVars
<1>2. PICK j \in DOMAIN jobs, id \in Nat, l \in Launches :
            /\ relayer.job = j /\ jobs[j].status = "pending" /\ jobs[j].order = l
            /\ relayer = [at |-> relayer.at, job |-> j, id |-> id]
            /\ jobs \in Seq(FundJobs)
  BY <1>1, InWork
<1>3. relayer'.at = "mined" /\ relayer'.job = j /\ relayer'.id = id
      /\ relayer' \in [at : RelayerAts, job : Nat, id : Nat]
  BY <1>1, <1>2 DEF RelayerAts, PastCreate
<1>4. HasJob(l) /\ Wallet(l) = Relayer /\ order[l] = "approved" /\ page[l].form.currency # "AVAX"
  <2>1. HasJob(l)
    BY <1>2 DEF HasJob
  <2>2. order[l] = "approved" /\ Wallet(l) = Relayer
    BY <2>1, JobWallet DEF Good
  <2> QED
    BY <2>1, <2>2 DEF Good, FundingInv, PageInv, PageOK
<1>5. FormsKept /\ page' \in [Launches -> Pages] /\ PageInv' /\ RelayerTypes'
  BY <1>1, <1>2, <1>3 DEF FormsKept, dbVars, Good, FundingInv, WebTypes, RelayerTypes, PageInv, PageOK
<1>6. /\ \A k \in Launches : (HasJob(k)' <=> HasJob(k))
      /\ \A i \in DOMAIN jobs : i # j => (Created(i)' <=> Created(i))
      /\ ~Created(j) /\ Created(j)' /\ Count \in [Launches -> Nat] /\ deaths \in Nat
  <2>1. \A k \in Launches : (HasJob(k)' <=> HasJob(k))
    BY <1>1 DEF HasJob
  <2>2. \A i \in DOMAIN jobs : i # j => (Created(i)' <=> Created(i))
    BY <1>1, <1>2, <1>3 DEF Created
  <2>3. ~Created(j) /\ Created(j)'
    BY <1>1, <1>2, <1>3 DEF Created, PastCreate, KnowsId
  <2>4. Count \in [Launches -> Nat] /\ deaths \in Nat
    BY CountType DEF Good, FundingInv, HistoryTypes
  <2> QED
    BY <2>1, <2>2, <2>3, <2>4
<1>7. ASSUME \A k \in Launches : k # l => Count'[k] = Count[k],
             Count'[l] \in {Count[l], Count[l] + 1}
      PROVE  CountInv'
  <2>1. \A i \in DOMAIN jobs : jobs[i].order = l => i = j
    BY <1>2 DEF Good, FundingInv, HolderInv, HolderOK
  <2>2. Count[l] \in Nat /\ Count'[l] <= deaths + 1
    <3>1. Count[l] <= deaths + 0
      BY <1>2, <1>6 DEF Good, FundingInv, CountInv
    <3> QED
      BY <1>6, <1>7, <3>1
  <2>3. ASSUME NEW k \in Launches, k # l
        PROVE  /\ Count'[k] > 0 =>
                    \/ HasJob(k)'
                    \/ page'[k].form.currency = "AVAX" /\ page'[k].at \notin {"form", "create"}
               /\ page'[k].form.currency = "AVAX" => Count'[k] <= 1
               /\ \A i \in DOMAIN jobs' :
                    jobs'[i].order = k => Count'[k] <= deaths' + (IF Created(i)' THEN 1 ELSE 0)
    BY <1>1, <1>2, <1>6, <1>7, <2>3 DEF Good, FundingInv, CountInv
  <2>4. /\ HasJob(l)' /\ page'[l].form.currency # "AVAX"
        /\ \A i \in DOMAIN jobs' :
             jobs'[i].order = l => Count'[l] <= deaths' + (IF Created(i)' THEN 1 ELSE 0)
    BY <1>1, <1>4, <1>6, <2>1, <2>2
  <2> QED
    BY <2>3, <2>4 DEF CountInv
<1>8. CASE Creates(l, Relayer, Native, FormOf(j).amount, BpsOf(j)) /\ UNCHANGED reverted
  <2>1. Adds(l)
    <3>1. PICK sponsor, token, amount, bps :
        sponsor \in Accounts /\ Creates(l, sponsor, token, amount, bps)
      BY <1>8, FundingAssumption DEF FundingAssumption
    <3> QED
      BY <3>1, CreatesStep DEF Good
  <2>2. CountInv'
    BY <1>7, <2>1, CountGrows DEF Good, FundingInv
  <2>3. UNCHANGED <<order, serverVars, jobs, dbVars>> /\ left' \in Bounds /\ deaths' = deaths
        /\ reverted' = reverted /\ \A k \in Launches : page'[k] = page[k]
    BY <1>1, <1>8 DEF Good, FundingInv, WebTypes
  <2>4. relayer'.at = "mined" /\ relayer'.job = relayer.job /\ jobs[relayer.job].order = l
    BY <1>2, <1>3
  <2> QED
    BY <1>5, <2>1, <2>2, <2>3, <2>4, AddsInv
<1>9. CASE reverted' = TRUE /\ UNCHANGED <<cupVars, funder, mixed>>
  <2>1. UNCHANGED <<page, order, capture, hook, intents, jobs, rows, brackets, left, deaths,
                    cups, funder, mixed>>
    BY <1>1, <1>9 DEF serverVars, dbVars, cupVars
  <2>2. WebTypes' /\ PointerInv' /\ HolderInv'
    BY <2>1, SameHolder DEF Good, FundingInv, WebTypes, PointerInv, JobOf
  <2>3. HistoryTypes'
    BY <1>9, <2>1 DEF Good, FundingInv, HistoryTypes
  <2>4. CountInv'
    <3>1. Count' = Count
      BY <2>1 DEF Count, CupsOf
    <3> QED
      BY <1>7, <3>1
  <2>5. Owned \subseteq Owned'
    BY <1>5, <1>9, <2>1, OwnedGrows
  <2>6. \A k \in Launches : Wallet(k)' = Wallet(k)
    BY <1>5 DEF FormsKept, Wallet
  <2>7. <<l, LastId'>> \in Owned'
    <3>1. LastId' \in Nat
      <4>1. cups' \in Seq(Cups)
        BY DEF CupInv
      <4> QED
        BY <4>1 DEF LastId
    <3> QED
      BY <1>4, <1>9, <2>6, <3>1 DEF Owned
  <2>8. OwnInv'
    <3>1. LastId' = LastId
      BY <2>1 DEF LastId
    <3>2. OwnInv
      BY DEF Good, FundingInv
    <3>3. relayer'.at \notin KnowsId
      BY <1>3 DEF KnowsId
    <3> QED
      BY <1>2, <1>3, <2>1, <2>5, <2>7, <3>1, <3>2, <3>3 DEF OwnInv
  <2>9. RowInv'
    BY <1>9 DEF RowInv, Clear
  <2>10. WinnersAsEntered'
    BY <1>9, <2>1, <2>6, SMTT(60) DEF Good, FundingInv, WinnersAsEntered
  <2> QED
    BY <1>5, <2>2, <2>3, <2>4, <2>8, <2>9, <2>10 DEF FundingInv
<1> QED
  BY <1>2, <1>8, <1>9 DEF RelayerCreate

-----------------------------------------------------------------------------
(***************************************************************************)
(* The pages, routes and the relayer only do what the contract allows.     *)
(***************************************************************************)
CreateArgs(sponsor, token, amount) ==
  sponsor \in Accounts /\ token \in Tokens /\ amount \in Nat

LEMMA CreatesIsStep ==
  ASSUME FundingAssumption, CupInv, NEW l, NEW sponsor, NEW token, NEW amount, NEW bps,
         CreateArgs(sponsor, token, amount), Creates(l, sponsor, token, amount, bps)
  PROVE  CupStep
<1>1. CreateTournament(sponsor, token, amount, bps, sponsor, now + Term)
  BY DEF Creates
<1>2. bps \in Seq(1 .. BPS)
  BY <1>1 DEF CreateTournament, MayCreate, IsSplit
<1>3. now + Term \in Nat
  <2>1. now \in Nat /\ Term \in Nat
    BY DEF CupInv, FundingAssumption
  <2> QED
    BY <2>1
<1>4. sponsor \in Accounts /\ token \in Tokens /\ amount \in Nat /\ sponsor \in Addr
  BY DEF CreateArgs, Addr
<1> QED
  BY <1>1, <1>2, <1>3, <1>4, Zenon DEF CupStep

LEMMA FinalizeIsStep ==
  ASSUME NEW id, NEW winners \in Seq(Addr), NEW signer \in Accounts,
         FinalizeTournament(id, winners, signer)
  PROVE  CupStep
<1>1. id \in DOMAIN cups /\ \A i \in DOMAIN winners : winners[i] \in Accounts
  BY DEF FinalizeTournament, MayFinalize, Addr
<1>2. winners \in Seq(Accounts)
  BY <1>1
<1> QED
  BY <1>1, <1>2, Zenon DEF CupStep

LEMMA FundingIsCupStep ==
  ASSUME CupAssumption, FundingAssumption, Good, [Next]_fundingVars
  PROVE  [CupStep]_cupVars
<1>1. ASSUME NEW l \in Launches, WalletCreate(l) PROVE CupStep
  <2>1. page[l].form \in Forms
    BY <1>1, WalletOwner DEF Good, WalletCreate, AvaxAts
  <2>2. PICK sponsor, amount, bps :
          /\ sponsor = page[l].form.wallet /\ amount = page[l].form.amount
          /\ bps = page[l].form.bps
    OBVIOUS
  <2>3. CreateArgs(sponsor, Native, amount) /\ Creates(l, sponsor, Native, amount, bps)
    BY <1>1, <2>1, <2>2 DEF CreateArgs, Forms, WalletCreate, CupAssumption
  <2> QED
    BY <2>3, CreatesIsStep DEF Good
<1>2. ASSUME NEW l \in Launches, WalletFinalize(l) PROVE CupStep
  <2>1. page[l].form \in Forms
    BY <1>2, WalletOwner DEF Good, WalletFinalize, AvaxAts
  <2>2. PICK id, winners, signer :
          /\ id = page[l].id /\ winners = page[l].form.winners /\ signer = page[l].form.wallet
    OBVIOUS
  <2>3. winners \in Seq(Addr) /\ signer \in Accounts /\ FinalizeTournament(id, winners, signer)
    BY <1>2, <2>1, <2>2 DEF Forms, WalletFinalize
  <2> QED
    BY <2>3, FinalizeIsStep
<1>3. ASSUME RelayerCreate PROVE [CupStep]_cupVars
  <2>1. PICK j \in DOMAIN jobs, id \in Nat, l \in Launches :
          relayer.job = j /\ jobs[j].order = l
    BY <1>3, InWork DEF RelayerCreate
  <2>2. HasJob(l) /\ order[l] = "approved"
    BY <2>1, JobWallet DEF Good, HasJob
  <2>3. page[l].form \in Forms
    <3>1. page[l].form.currency = "USD" /\ page[l].form \in Forms \cup {NoForm}
      BY <2>2 DEF Good, FundingInv, PageInv, PageOK, WebTypes, Pages
    <3> QED
      BY <3>1 DEF NoForm
  <2>4. PICK amount, bps : amount = FormOf(j).amount /\ bps = BpsOf(j)
    OBVIOUS
  <2>5. CreateArgs(Relayer, Native, amount)
    BY <2>1, <2>3, <2>4 DEF FormOf, Forms, CreateArgs, CupAssumption, FundingAssumption
  <2>6. Creates(l, Relayer, Native, amount, bps) \/ UNCHANGED cupVars
    BY <1>3, <2>1, <2>4 DEF RelayerCreate
  <2> QED
    BY <2>5, <2>6, CreatesIsStep DEF Good
<1>4. ASSUME RelayerFinalize PROVE [CupStep]_cupVars
  <2>1. PICK j \in DOMAIN jobs, id \in Nat, l \in Launches :
          relayer.job = j /\ relayer.id = id /\ jobs[j].order = l
    BY <1>4, InWork DEF RelayerFinalize
  <2>2. HasJob(l) /\ order[l] = "approved"
    BY <2>1, JobWallet DEF Good, HasJob
  <2>3. page[l].form \in Forms
    <3>1. page[l].form.currency = "USD" /\ page[l].form \in Forms \cup {NoForm}
      BY <2>2 DEF Good, FundingInv, PageInv, PageOK, WebTypes, Pages
    <3> QED
      BY <3>1 DEF NoForm
  <2>4. PICK winners : winners = EnteredBy(j)
    OBVIOUS
  <2>5. winners \in Seq(Addr)
    BY <2>1, <2>3, <2>4 DEF EnteredBy, FormOf, Forms
  <2>6. FinalizeTournament(id, winners, Relayer) \/ UNCHANGED cupVars
    BY <1>4, <2>1, <2>4 DEF RelayerFinalize
  <2> QED
    BY <2>5, <2>6, FinalizeIsStep DEF FundingAssumption
<1>5. ASSUME NEW d \in left.outside, OutsideSponsor(d) PROVE CupStep
  <2>1. d \in Deposits
    BY DEF Good, FundingInv, WebTypes, Bounds
  <2>2. PICK sponsor, token, amount, bps :
          sponsor = d.sponsor /\ token = d.token /\ amount = d.amount /\ bps = d.bps
    OBVIOUS
  <2>3. CreateArgs(sponsor, token, amount) /\ Creates(Nobody, sponsor, token, amount, bps)
    BY <1>5, <2>1, <2>2 DEF CreateArgs, Deposits, OutsideSponsor
  <2> QED
    BY <2>3, CreatesIsStep DEF Good
<1>6. ASSUME NEW id \in DOMAIN cups, Cancel(id) PROVE CupStep
  <2>1. PICK caller \in Accounts : CancelTournament(caller, id)
    BY <1>6 DEF Cancel, Good, FundingInv, HistoryTypes
  <2> QED
    BY <2>1, Zenon DEF CupStep
<1>7. ASSUME NEW id \in DOMAIN cups, NEW i \in DOMAIN cups[id].winners, Claim(id, i)
      PROVE  CupStep
  <2>1. PICK caller : caller = cups[id].winners[i]
    OBVIOUS
  <2>2. cups[id] \in Cups
    BY DEF Good, CupInv
  <2>3. cups[id].winners \in Seq(Accounts)
    BY <2>2 DEF Cups
  <2>4. caller \in Accounts /\ ClaimPrize(caller, id, i)
    BY <1>7, <2>1, <2>3 DEF Claim
  <2> QED
    BY <2>4, Zenon DEF CupStep
<1>8. CASE Move
  BY <1>8 DEF Move, CupStep
<1>9. CASE Failure
  BY <1>9 DEF Failure, RelayerDies, RelayerFails
<1>10. CASE UNCHANGED fundingVars
  BY <1>10 DEF fundingVars
<1>11. ASSUME NEW l \in Launches, NEW r \in 1 .. MaxCaptures,
              CaptureClaim(l, r) \/ CaptureEnqueue(l, r) \/ CaptureRecord(l, r)
       PROVE  UNCHANGED cupVars
  BY <1>11 DEF CaptureClaim, CaptureEnqueue, CaptureRecord
<1>12. ASSUME NEW l \in Launches,
              \/ Launch(l) \/ Approve(l) \/ PollJob(l) \/ HookClaim(l) \/ HookEnqueue(l)
              \/ WalletReadId(l) \/ InitCheck(l) \/ InitTournament(l) \/ InitBracket(l)
       PROVE  UNCHANGED cupVars
  BY <1>12 DEF Launch, Approve, PollJob, HookClaim, HookEnqueue, WalletReadId, InitCheck,
     InitTournament, InitBracket
<1>13. ASSUME NEW j \in DOMAIN jobs, RelayerTake(j) PROVE UNCHANGED cupVars
  BY <1>13 DEF RelayerTake
<1>14. ASSUME RelayerReadId \/ RelayerTournament \/ RelayerBracket \/ RelayerAnswer
       PROVE  UNCHANGED cupVars
  BY <1>14 DEF RelayerReadId, RelayerTournament, RelayerBracket, RelayerAnswer
<1> QED
  BY <1>1, <1>2, <1>3, <1>4, <1>5, <1>6, <1>7, <1>8, <1>9, <1>10, <1>11, <1>12, <1>13, <1>14
     DEF Next

-----------------------------------------------------------------------------
(***************************************************************************)
(* The theorems.                                                           *)
(***************************************************************************)
LEMMA FailureInv == ASSUME Good, Failure PROVE FundingInv'
<1>1. left' \in Bounds
  BY DEF Failure, Good, FundingInv, WebTypes, Bounds
<1> QED
  BY <1>1, RelayerDiesInv, RelayerFailsInv, RequestFailsInv DEF Failure

\* Every step keeps the invariant.
LEMMA FundingStep ==
  ASSUME CupAssumption, FundingAssumption, Good, FeeInv, [Next]_fundingVars
  PROVE  Good' /\ FeeInv'
<1>1. CupInv' /\ FeeInv'
  BY FundingIsCupStep, StepInv DEF Good
<1>2. FundingInv'
  <2>1. ASSUME NEW l \in Launches, Launch(l) \/ Approve(l) \/ PollJob(l) PROVE FundingInv'
    BY <2>1, LaunchInv, ApproveInv, PollJobInv
  <2>2. ASSUME NEW l \in Launches, NEW r \in 1 .. MaxCaptures,
               CaptureClaim(l, r) \/ CaptureEnqueue(l, r) \/ CaptureRecord(l, r)
        PROVE  FundingInv'
    BY <2>2, CaptureClaimInv, CaptureEnqueueInv, CaptureRecordInv
  <2>3. ASSUME NEW l \in Launches, HookClaim(l) \/ HookEnqueue(l) PROVE FundingInv'
    BY <2>3, HookClaimInv, HookEnqueueInv
  <2>4. ASSUME NEW l \in Launches, WalletCreate(l) \/ WalletReadId(l) \/ WalletFinalize(l)
        PROVE  FundingInv'
    BY <1>1, <2>4, WalletCreateInv, WalletReadIdInv, WalletFinalizeInv
  <2>5. ASSUME NEW l \in Launches, InitCheck(l) \/ InitTournament(l) \/ InitBracket(l)
        PROVE  FundingInv'
    BY <2>5, InitCheckInv, InitTournamentInv, InitBracketInv
  <2>6. ASSUME NEW j \in DOMAIN jobs, RelayerTake(j) PROVE FundingInv'
    BY <2>6, RelayerTakeInv
  <2>7. ASSUME RelayerCreate \/ RelayerReadId \/ RelayerFinalize PROVE FundingInv'
    BY <1>1, <2>7, RelayerCreateInv, RelayerReadIdInv, RelayerFinalizeInv
  <2>8. ASSUME RelayerTournament \/ RelayerBracket \/ RelayerAnswer PROVE FundingInv'
    BY <2>8, RelayerTournamentInv, RelayerBracketInv, RelayerAnswerInv
  <2>9. ASSUME NEW d \in left.outside, OutsideSponsor(d) PROVE FundingInv'
    BY <1>1, <2>9, OutsideSponsorInv
  <2>10. ASSUME NEW id \in DOMAIN cups, Cancel(id) PROVE FundingInv'
    BY <2>10, CancelStepInv
  <2>11. ASSUME NEW id \in DOMAIN cups, NEW i \in DOMAIN cups[id].winners, Claim(id, i)
         PROVE  FundingInv'
    BY <2>11, ClaimStepInv
  <2>12. CASE Move
    BY <2>12, MoveInv
  <2>13. CASE Failure
    BY <2>13, FailureInv
  <2>14. CASE UNCHANGED fundingVars
    <3>1. SameCups /\ WinnersAsEntered' /\ deaths' = deaths
      BY <2>14 DEF fundingVars, cupVars, historyVars, SameCups, Good, FundingInv,
         WinnersAsEntered, Wallet, pageVars
    <3>2. left' \in Bounds /\ UNCHANGED <<pageVars, serverVars, jobs, dbVars>> /\ relayer' = relayer
          /\ \A k \in DOMAIN cups : cups'[k].sponsor = cups[k].sponsor
      BY <2>14 DEF fundingVars, cupVars, Good, FundingInv, WebTypes
    <3> QED
      BY <3>1, <3>2, TradeInv
  <2> QED
    BY <2>1, <2>2, <2>3, <2>4, <2>5, <2>6, <2>7, <2>8, <2>9, <2>10, <2>11, <2>12, <2>13, <2>14
       DEF Next
<1> QED
  BY <1>1, <1>2 DEF Good

\* Nothing has been done yet.
LEMMA FundingInitInv ==
  ASSUME CupAssumption, FundingAssumption, Init PROVE Good /\ FeeInv
<1>1. CupInv /\ FeeInv
  BY CupInitInv DEF Init, CupInit, FeeInv
<1>2. PICK s \in Scenarios :
        /\ page = [l \in Launches |-> [at |-> "form", job |-> 0, id |-> 0,
                        form |-> IF l \in DOMAIN s.forms THEN s.forms[l] ELSE NoForm]]
        /\ left = [captures |-> s.captures, deliveries |-> s.deliveries,
                   failures |-> s.failures, moves |-> s.moves, outside |-> s.outside]
  BY DEF Init
<1>3. /\ s.forms \in Seq(Forms) /\ s.captures \in Nat /\ s.outside \in SUBSET Deposits
      /\ s.deliveries \in Nat /\ s.failures \in Nat /\ s.moves \in Nat
  BY DEF FundingAssumption
<1>4. page \in [Launches -> Pages]
      /\ \A l \in Launches : page[l].at = "form" /\ page[l].id = 0
  <2> DEFINE form(l) == IF l \in DOMAIN s.forms THEN s.forms[l] ELSE NoForm
  <2>1. \A l \in Launches : form(l) \in Forms \cup {NoForm}
    BY <1>3
  <2>2. page = [l \in Launches |-> [at |-> "form", job |-> 0, id |-> 0, form |-> form(l)]]
    BY <1>2
  <2> HIDE DEF form
  <2> QED
    BY <2>1, <2>2 DEF Pages, PageAts
<1>5. left \in Bounds
  BY <1>2, <1>3 DEF Bounds
<1>6. /\ order = [l \in Launches |-> "none"]
      /\ capture = [l \in Launches |-> [r \in 1 .. MaxCaptures |-> [at |-> "idle", job |-> 0]]]
      /\ hook = [l \in Launches |-> "idle"]
      /\ intents = [l \in Launches |-> [claimed |-> FALSE, job |-> 0]]
      /\ jobs = <<>> /\ relayer = [at |-> "idle", job |-> 0, id |-> 0]
      /\ rows = [id \in CupIds |-> Nobody] /\ brackets = [id \in CupIds |-> Nobody]
      /\ funder = <<>> /\ deaths = 0 /\ mixed = {} /\ reverted = FALSE /\ cups = <<>>
  BY DEF Init, CupInit, Resting
<1>7. WebTypes
  BY <1>4, <1>5, <1>6 DEF WebTypes, Requests, Intents
<1>8. relayer.at = "idle" /\ DOMAIN jobs = {} /\ DOMAIN cups = {}
  BY <1>6
<1>9. RelayerTypes
  BY <1>6, <1>8 DEF RelayerTypes, RelayerAts
<1>10. HistoryTypes
  <2>1. funder \in Seq(Launches \cup {Nobody}) /\ Len(funder) = Len(cups)
    BY <1>6
  <2>2. mixed \in SUBSET (Launches \X (Launches \cup {Nobody}))
    BY <1>6
  <2> QED
    BY <1>6, <1>8, <2>1, <2>2 DEF HistoryTypes
<1>11. PageInv
  BY <1>4, <1>6 DEF PageInv, PageOK, UsdAts, AvaxAts
<1>12. \A l \in Launches : ~HasJob(l)
  BY <1>8 DEF HasJob
<1>13. \A l \in Launches, r \in 1 .. MaxCaptures : capture[l][r].at = "idle"
  BY <1>6
<1>14. HolderInv
  BY <1>6, <1>8, <1>12, <1>13 DEF HolderInv, HolderOK, Enqueues
<1>15. PointerInv
  BY <1>4, <1>6, <1>13 DEF PointerInv
<1>16. \A l \in Launches : Count[l] = 0
  <2>1. \A l \in Launches : CupsOf(l) = {}
    BY <1>8 DEF CupsOf
  <2> QED
    BY <2>1, FS_EmptySet DEF Count
<1>17. CountInv
  BY <1>8, <1>16 DEF CountInv
<1>18. OwnInv
  BY <1>4, <1>8 DEF OwnInv, KnowsId, AvaxAts
<1>19. RowInv
  BY <1>4, <1>6, <1>8 DEF RowInv
<1>20. WinnersAsEntered
  BY <1>8 DEF WinnersAsEntered
<1> QED
  BY <1>1, <1>7, <1>9, <1>10, <1>11, <1>14, <1>15, <1>17, <1>18, <1>19, <1>20
     DEF Good, FundingInv

\* The invariant gives the properties.
LEMMA FundedOnceFollows == ASSUME Good PROVE FundedOnce
<1> SUFFICES ASSUME NEW l \in Launches
             PROVE  /\ Cardinality({j \in DOMAIN jobs : jobs[j].order = l}) <= 1
                    /\ Cardinality(CupsOf(l)) <= 1 + (IF order[l] = "none" THEN 0 ELSE deaths)
                    /\ CupsOf(l) # {} /\ Wallet(l) = Relayer => order[l] = "approved"
  BY DEF FundedOnce
<1>1. /\ HolderOK(l) /\ PageOK(l) /\ order[l] \in {"none", "created", "approved"}
      /\ deaths \in Nat /\ page[l].form \in Forms \cup {NoForm}
  BY DEF Good, FundingInv, HolderInv, PageInv, WebTypes, HistoryTypes, Pages
<1>2. Cardinality({j \in DOMAIN jobs : jobs[j].order = l}) <= 1
  <2> DEFINE S == {j \in DOMAIN jobs : jobs[j].order = l}
  <2>1. \A i, j \in S : i = j
    BY <1>1 DEF HolderOK
  <2>2. S = {} \/ \E j : S = {j}
    BY <2>1
  <2> HIDE DEF S
  <2>3. ASSUME S = {} PROVE Cardinality(S) = 0
    BY <2>3, FS_EmptySet
  <2>4. ASSUME NEW j, S = {j} PROVE Cardinality(S) = 1
    BY <2>4, FS_Singleton
  <2>5. Cardinality(S) = 0 \/ Cardinality(S) = 1
    BY <2>2, <2>3, <2>4, Zenon
  <2>6. Cardinality(S) <= 1
    BY <2>5
  <2> QED
    BY <2>6 DEF S
<1>3. Count[l] = Cardinality(CupsOf(l)) /\ Count[l] \in Nat
  BY CountType DEF Count, Good
<1>4. CupsOf(l) # {} => Count[l] > 0
  <2>1. IsFiniteSet(CupsOf(l))
    <3>1. DOMAIN cups = 1 .. Len(cups) /\ Len(cups) \in Int /\ 1 \in Int
      BY DEF Good, CupInv
    <3>2. CupsOf(l) \subseteq DOMAIN cups
      BY DEF CupsOf
    <3> QED
      BY <3>1, <3>2, FS_Interval, FS_Subset, Zenon
  <2>2. Cardinality(CupsOf(l)) = 0 => CupsOf(l) = {}
    BY <2>1, FS_EmptySet, Zenon
  <2> QED
    BY <1>3, <2>2
<1>5. Count[l] > 0 => \/ HasJob(l)
                      \/ page[l].form.currency = "AVAX" /\ page[l].at \notin {"form", "create"}
  BY DEF Good, FundingInv, CountInv
<1>6. Count[l] <= 1 + (IF order[l] = "none" THEN 0 ELSE deaths)
  <2>1. CASE ~(Count[l] > 0)
    BY <1>1, <1>3, <2>1
  <2>2. CASE HasJob(l)
    <3>1. PICK j \in DOMAIN jobs : jobs[j].order = l
      BY <2>2 DEF HasJob
    <3>2. Count[l] <= deaths + (IF Created(j) THEN 1 ELSE 0)
      BY <3>1 DEF Good, FundingInv, CountInv
    <3>3. order[l] = "approved"
      BY <2>2, JobWallet DEF Good
    <3> QED
      BY <1>1, <1>3, <3>2, <3>3
  <2>3. CASE page[l].form.currency = "AVAX"
    <3>1. Count[l] <= 1
      BY <2>3 DEF Good, FundingInv, CountInv
    <3> QED
      BY <1>1, <1>3, <3>1
  <2> QED
    BY <1>5, <2>1, <2>2, <2>3
<1>7. CupsOf(l) # {} /\ Wallet(l) = Relayer => order[l] = "approved"
  <2>1. CASE HasJob(l)
    BY <2>1, JobWallet DEF Good
  <2>2. CASE page[l].form.currency = "AVAX"
    <3>1. page[l].form \in Forms
      BY <1>1, <2>2 DEF NoForm
    <3> QED
      BY <2>2, <3>1 DEF Wallet, Forms
  <2> QED
    BY <1>4, <1>5, <2>1, <2>2
<1> QED
  BY <1>2, <1>3, <1>6, <1>7

LEMMA RightCupFollows == ASSUME Good PROVE RightCup
<1> SUFFICES ASSUME Clear PROVE
      /\ \A l \in Launches : page[l].id # 0 => page[l].id \in CupsOf(l)
      /\ \A j \in DOMAIN jobs : jobs[j].status = "done" => jobs[j].id \in CupsOf(jobs[j].order)
      /\ \A id \in CupIds : /\ rows[id] # Nobody => id \in CupsOf(rows[id])
                            /\ brackets[id] # Nobody => brackets[id] = rows[id]
  BY DEF RightCup, Clear
<1>1. \A l, id : <<l, id>> \in Owned => id \in CupsOf(l)
  BY OwnedClear DEF CupsOf
<1>2. OwnInv /\ RowInv
  BY DEF Good, FundingInv
<1> QED
  BY <1>1, <1>2 DEF OwnInv, RowInv, CupsOf

(***************************************************************************)
(* Pages, routes, webhooks and the relayer, whatever dies between two of   *)
(* their calls, only do to the contract what its functions allow: the      *)
(* funding path implements the specification of the cup contract.          *)
(***************************************************************************)
THEOREM FundingImplementsCups == Spec => CupSpec
<1>1. Init => Good /\ FeeInv
  BY FundingInitInv, CupAssumption, FundingAssumption
<1>2. Good /\ FeeInv /\ [Next]_fundingVars => (Good /\ FeeInv)'
  BY FundingStep, CupAssumption, FundingAssumption
<1>3. Good /\ [Next]_fundingVars => [CupStep]_cupVars
  BY FundingIsCupStep, CupAssumption, FundingAssumption
<1>4. Init => CupInit
  BY DEF Init
<1> QED
  BY <1>1, <1>2, <1>3, <1>4, PTL DEF Spec, CupSpec

\* The inductive invariant, for the theorems below.
LEMMA FundingInvariance == Spec => []Good
<1>1. Init => Good /\ FeeInv
  BY FundingInitInv, CupAssumption, FundingAssumption
<1>2. Good /\ FeeInv /\ [Next]_fundingVars => (Good /\ FeeInv)'
  BY FundingStep, CupAssumption, FundingAssumption
<1> QED
  BY <1>1, <1>2, PTL DEF Spec

\* So the contract stays solvent on this path: no cup that a page or the relayer
\* creates, finalizes or cancels is paid out of the pool of another.
THEOREM FundedCupsSolvent == Spec => []CupsSolvent
BY FundingImplementsCups, CupSolvency, PTL

\* "One PayPal order = one fund job" (capture/route.ts:50), for any number of
\* requests, deliveries and failures: an order has one job, and one cup more
\* than the relayer died at most, and nothing is funded before it is approved.
THEOREM OneOrderOneJob == Spec => []FundedOnce
<1>1. Good => FundedOnce
  BY FundedOnceFollows
<1> QED
  BY <1>1, FundingInvariance, PTL

\* Pages, jobs, tournaments and brackets hold the id of their own cup, unless
\* another creation came between a receipt and the reading of the id, or the
\* relayer's creation was mined reverted.
THEOREM OwnCup == Spec => []RightCup
<1>1. Good => RightCup
  BY RightCupFollows
<1> QED
  BY <1>1, FundingInvariance, PTL

\* Even then a cup gets the winners of a page of the same account.
THEOREM OwnWinners == Spec => []WinnersAsEntered
<1>1. Good => WinnersAsEntered
  BY DEF Good, FundingInv
<1> QED
  BY <1>1, FundingInvariance, PTL

=============================================================================
