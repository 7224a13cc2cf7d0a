------------------------ MODULE AMPSettlement_proofs ------------------------
(***************************************************************************)
(* The two match contracts.                                                *)
(***************************************************************************)
EXTENDS AMPSettlement, Totals_proofs

-----------------------------------------------------------------------------
(***************************************************************************)
(* The registry.  It is solvent under every settlement contract that       *)
(* distributes exactly the stakes of the matches it closes, provided that  *)
(* clients create matches on registered games only; and whatever clients   *)
(* do, a created match that was closed stays closed.                       *)
(***************************************************************************)

\* The storage types, with a balance that may still be any integer: that it
\* never goes below zero follows from solvency only.
StorageTypes ==
  /\ nextGameId \in 0 .. MaxGames
  /\ games \in [GameIds -> Games]
  /\ matches \in [MatchIds -> Matches]
  /\ pendingWithdrawals \in [Tokens -> [Addr -> Nat]]
  /\ feeBalances \in [Tokens -> Nat]
  /\ held \in [Tokens -> Int]
  /\ settlement \in BOOLEAN
  /\ registryPaused \in BOOLEAN
  /\ now \in Nat

-----------------------------------------------------------------------------
(***************************************************************************)
(* Types.                                                                  *)
(***************************************************************************)
LEMMA PlusType ==
  ASSUME NEW S, NEW f \in [S -> Nat], NEW x \in S, NEW n \in Nat
  PROVE  Plus(f, x, n) \in [S -> Nat]
BY DEF Plus

LEMMA PlusIntType ==
  ASSUME NEW S, NEW f \in [S -> Int], NEW x \in S, NEW n \in Nat
  PROVE  Plus(f, x, n) \in [S -> Int]
BY DEF Plus

\* What the fields of a stored match and of its game are.
LEMMA MatchFields ==
  ASSUME StorageTypes, NEW m \in MatchIds
  PROVE  /\ matches[m] \in Matches
         /\ matches[m].gameId \in GameIds
         /\ matches[m].playerA \in Addr /\ matches[m].playerB \in Addr
         /\ matches[m].stakeAmount \in Nat /\ matches[m].stakeAmountB \in Nat
         /\ matches[m].createdAt \in Nat
         /\ Pool(m) \in Nat
         /\ GameOf(m) \in Games
         /\ TokenOf(m) \in Tokens
         /\ GameOf(m).matchTimeout \in Nat
         /\ GameOf(m).studioFeeBps \in Nat
         /\ GameOf(m).studioFeeRecipient \in Addr
<1>1. /\ matches[m] \in Matches
      /\ matches[m].gameId \in GameIds
      /\ matches[m].playerA \in Addr /\ matches[m].playerB \in Addr
      /\ matches[m].stakeAmount \in Nat /\ matches[m].stakeAmountB \in Nat
      /\ matches[m].createdAt \in Nat
  BY DEF StorageTypes, Matches
<1>2. Pool(m) \in Nat
  BY <1>1 DEF Pool
<1>3. GameOf(m) \in Games
  BY <1>1 DEF GameOf, StorageTypes
<1>4. /\ TokenOf(m) \in Tokens
      /\ GameOf(m).matchTimeout \in Nat
      /\ GameOf(m).studioFeeBps \in Nat
      /\ GameOf(m).studioFeeRecipient \in Addr
  BY <1>3 DEF TokenOf, Games
<1> QED
  BY <1>1, <1>2, <1>3, <1>4

\* A received amount is a natural number, and nothing arrives of nothing.
LEMMA ReceivedType ==
  ASSUME NEW t, NEW n \in Nat, NEW got \in Received(t, n)
  PROVE  got \in Nat /\ (n = 0 => got = 0)
BY DEF Received

\* Crediting an account adds to the total of the credits.
LEMMA CreditTotal ==
  ASSUME NEW f \in [Addr -> Nat], NEW a \in Addr, NEW n \in Nat
  PROVE  /\ Plus(f, a, n) \in [Addr -> Nat]
         /\ Total(Plus(f, a, n)) = Total(f) + n
<1>1. IsFiniteSet(Addr)
  BY RegistryAssumption, FS_AddElement, Zenon DEF Addr
<1> QED
  BY <1>1, TotalPlus

\* Crediting a fee adds it to the credits, unless it stays in the owner's pot.
LEMMA CreditFeeTotal ==
  ASSUME NEW f \in [Addr -> Nat], NEW r \in Addr, NEW n \in Nat
  PROVE  /\ CreditFee(f, r, n) \in [Addr -> Nat]
         /\ Total(CreditFee(f, r, n))
              = Total(f) + (IF r = Zero THEN 0 ELSE n)
<1>1. IsFiniteSet(Addr)
  BY RegistryAssumption, FS_AddElement, Zenon DEF Addr
<1>2. Total(f) \in Nat
  BY <1>1, TotalType
<1>3. CASE r = Zero
  BY <1>2, <1>3 DEF CreditFee
<1>4. CASE r # Zero
  BY <1>1, <1>4, TotalPlus DEF CreditFee
<1> QED
  BY <1>3, <1>4

\* Crediting the four payments of a settlement adds up to what was paid, less
\* what stays in the owner's pot.
LEMMA PaidTotal ==
  ASSUME StorageTypes, NEW m \in MatchIds, NEW pay \in Payments,
         NEW f \in [Addr -> Nat]
  PROVE  /\ Paid(m, pay, f) \in [Addr -> Nat]
         /\ PotFees(pay) \in Nat
         /\ Total(Paid(m, pay, f)) + PotFees(pay)
              = Total(f) + pay.studioFee + pay.protocolFee + pay.toA + pay.toB
<1>1. /\ pay.studio \in Addr /\ pay.protocol \in Addr
      /\ pay.studioFee \in Nat /\ pay.protocolFee \in Nat
      /\ pay.toA \in Nat /\ pay.toB \in Nat
  BY DEF Payments
<1>2. IsFiniteSet(Addr)
  BY RegistryAssumption, FS_AddElement, Zenon DEF Addr
<1>3. matches[m].playerA \in Addr /\ matches[m].playerB \in Addr
  BY MatchFields
<1>4. PICK f1 \in [Addr -> Nat] :
        /\ f1 = CreditFee(f, pay.studio, pay.studioFee)
        /\ Total(f1) = Total(f) + (IF pay.studio = Zero THEN 0 ELSE pay.studioFee)
  BY <1>1, CreditFeeTotal
<1>5. PICK f2 \in [Addr -> Nat] :
        /\ f2 = CreditFee(f1, pay.protocol, pay.protocolFee)
        /\ Total(f2) = Total(f1)
                         + (IF pay.protocol = Zero THEN 0 ELSE pay.protocolFee)
  BY <1>1, CreditFeeTotal
<1>6. PICK f3 \in [Addr -> Nat] :
        /\ f3 = Plus(f2, matches[m].playerA, pay.toA)
        /\ Total(f3) = Total(f2) + pay.toA
  BY <1>1, <1>3, CreditTotal
<1>7. PICK f4 \in [Addr -> Nat] :
        /\ f4 = Plus(f3, matches[m].playerB, pay.toB)
        /\ Total(f4) = Total(f3) + pay.toB
  BY <1>1, <1>3, CreditTotal
<1>8. Paid(m, pay, f) = f4
  BY <1>4, <1>5, <1>6, <1>7 DEF Paid
<1>9. /\ Total(f) \in Nat /\ Total(f1) \in Nat /\ Total(f2) \in Nat
      /\ Total(f3) \in Nat /\ Total(f4) \in Nat
  BY <1>2, TotalType
<1>10. PotFees(pay) \in Nat
  BY <1>1 DEF PotFees
<1>11. Total(f4) + PotFees(pay)
         = Total(f) + pay.studioFee + pay.protocolFee + pay.toA + pay.toB
  BY <1>1, <1>4, <1>5, <1>6, <1>7, <1>9 DEF PotFees
<1> QED
  BY <1>8, <1>10, <1>11

\* The payments of a trusted settlement add up to the pool.
LEMMA TrustedPayment ==
  ASSUME StorageTypes, NEW m \in MatchIds, NEW newState, SplitPool(m, newState)
  PROVE  \E pay \in Payments :
           /\ pay.studioFee + pay.protocolFee + pay.toA + pay.toB = Pool(m)
           /\ SettleMatch(m, newState, pay)
<1> DEFINE Call(studio, studioFee, protocol, protocolFee, toA) ==
             SettleMatch(m, newState,
               [studio |-> studio, studioFee |-> studioFee,
                protocol |-> protocol, protocolFee |-> protocolFee, toA |-> toA,
                toB |-> Pool(m) - studioFee - protocolFee - toA])
<1>10. PICK studio \in Recipients \cup {Zero}, protocol \in Recipients \cup {Zero},
           studioFee \in 0 .. Pool(m) :
        \E protocolFee \in 0 .. Pool(m) - studioFee :
          \E toA \in 0 .. Pool(m) - studioFee - protocolFee :
            Call(studio, studioFee, protocol, protocolFee, toA)
  BY DEF SplitPool
<1>11. PICK protocolFee \in 0 .. Pool(m) - studioFee :
        \E toA \in 0 .. Pool(m) - studioFee - protocolFee :
          Call(studio, studioFee, protocol, protocolFee, toA)
  BY <1>10
<1>1. PICK toA \in 0 .. Pool(m) - studioFee - protocolFee :
        Call(studio, studioFee, protocol, protocolFee, toA)
  BY <1>11
<1> DEFINE toB == Pool(m) - studioFee - protocolFee - toA
           pay == [studio |-> studio, studioFee |-> studioFee,
                   protocol |-> protocol, protocolFee |-> protocolFee,
                   toA |-> toA, toB |-> toB]
<1>2. Pool(m) \in Nat
  BY MatchFields
<1>3. /\ studioFee \in Nat /\ protocolFee \in Nat /\ toA \in Nat /\ toB \in Nat
      /\ studioFee + protocolFee + toA + toB = Pool(m)
  BY <1>2
<1>4. studio \in Addr /\ protocol \in Addr
  BY RegistryAssumption DEF Addr
<1>5. SettleMatch(m, newState, pay)
  BY <1>1
<1> HIDE DEF toB
<1>6. pay \in Payments
  BY <1>3, <1>4 DEF Payments
<1>7. pay.studioFee + pay.protocolFee + pay.toA + pay.toB = Pool(m)
  BY <1>3
<1> HIDE DEF pay
<1> QED
  BY <1>5, <1>6, <1>7

\* A settlement call: its payment has the types of a payment, and is either
\* the whole pool of a match with an opponent or nothing at all.
LEMMA SettlementCall ==
  ASSUME StorageTypes, TrustedSettlement
  PROVE  \E m \in MatchIds, newState \in MatchStates, pay \in Payments :
           /\ SettleMatch(m, newState, pay)
           /\ \/ newState = "DISPUTED" /\ pay = NoPayment
              \/ /\ newState \in {"SETTLED", "EXPIRED"}
                 /\ matches[m].playerB # Zero
                 /\ pay.studioFee + pay.protocolFee + pay.toA + pay.toB = Pool(m)
<1>1. PICK m \in MatchIds :
        \/ SettleMatch(m, "DISPUTED", NoPayment)
        \/ /\ matches[m].playerB # Zero
           /\ SplitPool(m, "SETTLED") \/ SplitPool(m, "EXPIRED")
  BY DEF TrustedSettlement
<1>2. CASE SettleMatch(m, "DISPUTED", NoPayment)
  <2>1. NoPayment \in Payments
    BY DEF NoPayment, Payments, Addr
  <2> QED
    BY <1>2, <2>1 DEF MatchStates
<1>3. CASE matches[m].playerB # Zero /\ SplitPool(m, "SETTLED")
  BY <1>3, TrustedPayment DEF MatchStates
<1>4. CASE matches[m].playerB # Zero /\ SplitPool(m, "EXPIRED")
  BY <1>4, TrustedPayment DEF MatchStates
<1> QED
  BY <1>1, <1>2, <1>3, <1>4

-----------------------------------------------------------------------------
(***************************************************************************)
(* The invariant.  Solvency is inductive only together with the terms of   *)
(* the matches: nothing was staked for a match nobody created, no stake of *)
(* player B without a player B, no player B while OPEN, and a created      *)
(* match names a registered game, so that registerGame cannot change the   *)
(* token its stakes are owed in.                                           *)
(***************************************************************************)
MatchTerms ==
  \A m \in MatchIds :
    /\ ~Created(m) => matches[m].stakeAmount = 0 /\ matches[m].stakeAmountB = 0
    /\ matches[m].playerB = Zero => matches[m].stakeAmountB = 0
    /\ matches[m].state = "OPEN" => matches[m].playerB = Zero
    /\ Created(m) /\ ~EarlyCreate => matches[m].gameId < nextGameId

RegistryInv == StorageTypes /\ MatchTerms

LEMMA InitInv == RegistryInit => RegistryInv
<1> SUFFICES ASSUME RegistryInit PROVE RegistryInv
  OBVIOUS
<1>1. NoGame \in Games
  BY RegistryAssumption DEF NoGame, Games, Addr, Modes
<1>2. 0 \in GameIds
  BY RegistryAssumption DEF GameIds
<1>3. NoMatch \in Matches
  BY <1>2 DEF NoMatch, Matches, Addr, MatchStates
<1>4. StorageTypes
  <2>1. nextGameId \in 0 .. MaxGames /\ now \in Nat
    BY RegistryAssumption DEF RegistryInit
  <2>2. games \in [GameIds -> Games] /\ matches \in [MatchIds -> Matches]
    BY <1>1, <1>3 DEF RegistryInit
  <2>3. pendingWithdrawals \in [Tokens -> [Addr -> Nat]]
    BY DEF RegistryInit
  <2>4. feeBalances \in [Tokens -> Nat] /\ held \in [Tokens -> Int]
    BY DEF RegistryInit
  <2>5. settlement \in BOOLEAN /\ registryPaused \in BOOLEAN
    BY DEF RegistryInit
  <2> QED
    BY <2>1, <2>2, <2>3, <2>4, <2>5 DEF StorageTypes
<1>5. MatchTerms
  BY DEF RegistryInit, MatchTerms, Created, NoMatch
<1> QED
  BY <1>4, <1>5 DEF RegistryInv

-----------------------------------------------------------------------------
(***************************************************************************)
(* Each action preserves the invariant.                                    *)
(***************************************************************************)
LEMMA RegisterGameInv ==
  ASSUME RegistryInv, NEW a \in Accounts, NEW c \in Catalog, RegisterGame(a, c)
  PROVE  RegistryInv'
<1> USE DEF RegistryInv
<1>1. /\ UNCHANGED <<matches, pendingWithdrawals, feeBalances, held>>
      /\ UNCHANGED <<settlement, registryPaused, now>>
      /\ nextGameId < MaxGames /\ nextGameId' = nextGameId + 1
  BY DEF RegisterGame, money
<1>2. nextGameId \in Nat /\ MaxGames \in Nat /\ nextGameId' \in 0 .. MaxGames
  BY <1>1, RegistryAssumption DEF StorageTypes
<1>3. games' \in [GameIds -> Games]
  <2>1. c \in GameConfigs
    BY RegistryAssumption
  <2> DEFINE g == [admin |-> a, mode |-> c.mode, verifiers |-> c.verifiers,
                   minStake |-> c.minStake, stakeToken |-> c.stakeToken,
                   arbiter |-> c.arbiter, matchTimeout |-> DefaultTimeout,
                   studioFeeBps |-> 0, studioFeeRecipient |-> Zero]
  <2>2. g \in Games
    BY <2>1, RegistryAssumption DEF GameConfigs, Games, Addr
  <2>3. games' = [games EXCEPT ![nextGameId] = g]
    BY DEF RegisterGame
  <2> HIDE DEF g
  <2> QED
    BY <2>2, <2>3 DEF StorageTypes
<1>4. StorageTypes'
  BY <1>1, <1>2, <1>3 DEF StorageTypes
<1>5. MatchTerms'
  <2>1. \A m \in MatchIds : matches[m].gameId \in Nat
    BY MatchFields DEF GameIds
  <2> QED
    BY <1>1, <1>2, <2>1 DEF MatchTerms, Created
<1> QED
  BY <1>4, <1>5

LEMMA ConfigureGameInv ==
  ASSUME RegistryInv, NEW a \in Accounts, NEW g \in GameIds, NEW changed \in Games,
         ConfigureGame(a, g, changed)
  PROVE  RegistryInv'
<1> USE DEF RegistryInv
<1>1. /\ UNCHANGED <<nextGameId, matches, pendingWithdrawals, feeBalances, held>>
      /\ UNCHANGED <<settlement, registryPaused, now>>
      /\ games' = [games EXCEPT ![g] = changed]
  BY DEF ConfigureGame, money
<1>2. games' \in [GameIds -> Games]
  BY <1>1 DEF StorageTypes
<1>3. StorageTypes'
  BY <1>1, <1>2 DEF StorageTypes
<1>4. MatchTerms'
  BY <1>1 DEF MatchTerms, Created
<1> QED
  BY <1>3, <1>4

\* The three ways an admin configures a game keep it a game.
LEMMA AdministrationInv ==
  ASSUME RegistryInv, GameAdministration
  PROVE  RegistryInv'
<1>1. PICK a \in Admins :
        \/ \E c \in Catalog : RegisterGame(a, c)
        \/ \E g \in GameIds :
             \/ \E bps \in FeeChoices, r \in Recipients \cup {Zero} :
                  SetStudioFee(a, g, bps, r)
             \/ \E d \in TimeoutChoices : SetMatchTimeout(a, g, d)
             \/ \E c \in Catalog : UpdateGameVerifiers(a, g, c.verifiers)
  BY DEF GameAdministration
<1>2. a \in Accounts
  BY RegistryAssumption
<1>3. ASSUME NEW g \in GameIds PROVE games[g] \in Games
  BY DEF RegistryInv, StorageTypes
<1>4. ASSUME NEW g \in GameIds, NEW bps \in FeeChoices,
             NEW r \in Recipients \cup {Zero}, SetStudioFee(a, g, bps, r)
      PROVE  RegistryInv'
  <2>1. [games[g] EXCEPT !.studioFeeBps = bps, !.studioFeeRecipient = r] \in Games
    BY <1>3, RegistryAssumption DEF Games, Addr
  <2> QED
    BY <1>2, <1>4, <2>1, ConfigureGameInv DEF SetStudioFee
<1>5. ASSUME NEW g \in GameIds, NEW d \in TimeoutChoices, SetMatchTimeout(a, g, d)
      PROVE  RegistryInv'
  <2>1. [games[g] EXCEPT !.matchTimeout = d] \in Games
    BY <1>3, RegistryAssumption DEF Games
  <2> QED
    BY <1>2, <1>5, <2>1, ConfigureGameInv DEF SetMatchTimeout
<1>6. ASSUME NEW g \in GameIds, NEW c \in Catalog,
             UpdateGameVerifiers(a, g, c.verifiers)
      PROVE  RegistryInv'
  <2>1. [games[g] EXCEPT !.verifiers = c.verifiers] \in Games
    BY <1>3, RegistryAssumption DEF Games, GameConfigs
  <2> QED
    BY <1>2, <1>6, <2>1, ConfigureGameInv DEF UpdateGameVerifiers
<1> QED
  BY <1>1, <1>2, <1>4, <1>5, <1>6, RegisterGameInv

LEMMA CreateMatchInv ==
  ASSUME RegistryInv, NEW a \in Players, NEW g \in GameIds, NEW m \in MatchIds,
         NEW n \in Stakes, CreateMatch(a, g, m, n)
  PROVE  RegistryInv'
<1> USE DEF RegistryInv
<1>1. PICK got \in Received(games[g].stakeToken, n) :
        /\ matches' = [matches EXCEPT ![m] =
                         [NoMatch EXCEPT !.gameId = g, !.playerA = a,
                                         !.stakeAmount = got, !.createdAt = now]]
        /\ held' = Plus(held, games[g].stakeToken, got)
  BY DEF CreateMatch
<1>2. /\ UNCHANGED <<nextGameId, games, pendingWithdrawals, feeBalances>>
      /\ UNCHANGED <<settlement, registryPaused, now>>
      /\ EarlyCreate \/ g < nextGameId
  BY DEF CreateMatch
<1>3. got \in Nat
  BY RegistryAssumption, ReceivedType
<1>4. games[g].stakeToken \in Tokens
  BY DEF StorageTypes, Games
<1> DEFINE new == [NoMatch EXCEPT !.gameId = g, !.playerA = a,
                                  !.stakeAmount = got, !.createdAt = now]
<1>5. /\ new \in Matches
      /\ new.gameId = g /\ new.playerA = a /\ new.playerB = Zero
      /\ new.stakeAmountB = 0
  BY <1>3, RegistryAssumption DEF NoMatch, Matches, MatchStates, Addr, StorageTypes
<1>6. a # Zero
  BY RegistryAssumption
<1>7. matches' = [matches EXCEPT ![m] = new]
  BY <1>1
<1> HIDE DEF new
<1>8. matches' \in [MatchIds -> Matches]
  BY <1>5, <1>7 DEF StorageTypes
<1>9. held' \in [Tokens -> Int]
  BY <1>1, <1>3, <1>4, PlusIntType DEF StorageTypes
<1>10. StorageTypes'
  BY <1>2, <1>8, <1>9 DEF StorageTypes
<1>11. MatchTerms'
  <2> SUFFICES ASSUME NEW k \in MatchIds
      PROVE /\ ~Created(k)' => matches'[k].stakeAmount = 0 /\ matches'[k].stakeAmountB = 0
            /\ matches'[k].playerB = Zero => matches'[k].stakeAmountB = 0
            /\ matches'[k].state = "OPEN" => matches'[k].playerB = Zero
            /\ Created(k)' /\ ~EarlyCreate => matches'[k].gameId < nextGameId'
    BY DEF MatchTerms
  <2>1. CASE k = m
    <3>1. matches'[k] = new
      BY <1>7, <2>1 DEF StorageTypes
    <3> QED
      BY <1>2, <1>5, <1>6, <3>1 DEF Created
  <2>2. CASE k # m
    <3>1. matches'[k] = matches[k]
      BY <1>7, <2>2 DEF StorageTypes
    <3> QED
      BY <1>2, <3>1 DEF MatchTerms, Created
  <2> QED
    BY <2>1, <2>2
<1> QED
  BY <1>10, <1>11

LEMMA JoinMatchInv ==
  ASSUME RegistryInv, NEW b \in Players, NEW m \in MatchIds, JoinMatch(b, m)
  PROVE  RegistryInv'
<1> USE DEF RegistryInv
<1>1. PICK got \in Received(TokenOf(m), matches[m].stakeAmount) :
        /\ matches' = [matches EXCEPT ![m].stakeAmountB = got,
                                      ![m].playerB = b,
                                      ![m].state = "READY"]
        /\ held' = Plus(held, TokenOf(m), got)
  BY DEF JoinMatch
<1>2. /\ UNCHANGED <<nextGameId, games, pendingWithdrawals, feeBalances>>
      /\ UNCHANGED <<settlement, registryPaused, now>>
  BY DEF JoinMatch
<1>3. /\ matches[m] \in Matches /\ matches[m].stakeAmount \in Nat
      /\ TokenOf(m) \in Tokens
  BY MatchFields
<1>4. got \in Nat /\ (matches[m].stakeAmount = 0 => got = 0)
  BY <1>3, ReceivedType
<1> DEFINE new == [matches[m] EXCEPT !.stakeAmountB = got, !.playerB = b,
                                     !.state = "READY"]
<1>5. /\ new \in Matches
      /\ new.gameId = matches[m].gameId /\ new.playerA = matches[m].playerA
      /\ new.playerB = b /\ new.state = "READY"
      /\ new.stakeAmount = matches[m].stakeAmount /\ new.stakeAmountB = got
  BY <1>3, <1>4, RegistryAssumption DEF Matches, MatchStates, Addr
<1>6. b # Zero
  BY RegistryAssumption
<1>7. matches' = [matches EXCEPT ![m] = new]
  BY <1>1 DEF StorageTypes
<1> HIDE DEF new
<1>8. matches' \in [MatchIds -> Matches]
  BY <1>5, <1>7 DEF StorageTypes
<1>9. held' \in [Tokens -> Int]
  BY <1>1, <1>3, <1>4, PlusIntType DEF StorageTypes
<1>10. StorageTypes'
  BY <1>2, <1>8, <1>9 DEF StorageTypes
<1>11. MatchTerms'
  <2> SUFFICES ASSUME NEW k \in MatchIds
      PROVE /\ ~Created(k)' => matches'[k].stakeAmount = 0 /\ matches'[k].stakeAmountB = 0
            /\ matches'[k].playerB = Zero => matches'[k].stakeAmountB = 0
            /\ matches'[k].state = "OPEN" => matches'[k].playerB = Zero
            /\ Created(k)' /\ ~EarlyCreate => matches'[k].gameId < nextGameId'
    BY DEF MatchTerms
  <2>1. CASE k = m
    <3>1. matches'[k] = new
      BY <1>7, <2>1 DEF StorageTypes
    <3> QED
      BY <1>2, <1>4, <1>5, <1>6, <2>1, <3>1 DEF MatchTerms, Created
  <2>2. CASE k # m
    <3>1. matches'[k] = matches[k]
      BY <1>7, <2>2 DEF StorageTypes
    <3> QED
      BY <1>2, <3>1 DEF MatchTerms, Created
  <2> QED
    BY <2>1, <2>2
<1> QED
  BY <1>10, <1>11

\* A match that closes, or is disputed, keeps everything but its state and
\* possibly its refunded stake.
LEMMA ClosingTerms ==
  ASSUME RegistryInv, NEW m \in MatchIds, NEW newState \in MatchStates \ {"OPEN"},
         NEW stake \in {0, matches[m].stakeAmount},
         matches' = [matches EXCEPT ![m] = [matches[m] EXCEPT
                       !.state = newState, !.stakeAmount = stake]],
         nextGameId' = nextGameId
  PROVE  /\ matches' \in [MatchIds -> Matches]
         /\ MatchTerms'
<1> USE DEF RegistryInv
<1> DEFINE new == [matches[m] EXCEPT !.state = newState, !.stakeAmount = stake]
<1>1. matches[m] \in Matches /\ stake \in Nat
  BY MatchFields
<1>2. /\ new \in Matches
      /\ new.gameId = matches[m].gameId /\ new.playerA = matches[m].playerA
      /\ new.playerB = matches[m].playerB /\ new.state # "OPEN"
      /\ new.stakeAmount = stake /\ new.stakeAmountB = matches[m].stakeAmountB
  BY <1>1 DEF Matches
<1>3. matches' = [matches EXCEPT ![m] = new]
  OBVIOUS
<1> HIDE DEF new
<1>4. matches' \in [MatchIds -> Matches]
  BY <1>2, <1>3 DEF StorageTypes
<1>5. MatchTerms'
  <2> SUFFICES ASSUME NEW k \in MatchIds
      PROVE /\ ~Created(k)' => matches'[k].stakeAmount = 0 /\ matches'[k].stakeAmountB = 0
            /\ matches'[k].playerB = Zero => matches'[k].stakeAmountB = 0
            /\ matches'[k].state = "OPEN" => matches'[k].playerB = Zero
            /\ Created(k)' /\ ~EarlyCreate => matches'[k].gameId < nextGameId'
    BY DEF MatchTerms
  <2>1. CASE k = m
    <3>1. matches'[k] = new
      BY <1>3, <2>1 DEF StorageTypes
    <3> QED
      BY <1>2, <2>1, <3>1 DEF MatchTerms, Created
  <2>2. CASE k # m
    <3>1. matches'[k] = matches[k]
      BY <1>3, <2>2 DEF StorageTypes
    <3> QED
      BY <3>1 DEF MatchTerms, Created
  <2> QED
    BY <2>1, <2>2
<1> QED
  BY <1>4, <1>5

LEMMA CancelMatchInv ==
  ASSUME RegistryInv, NEW a \in Players, NEW m \in MatchIds, CancelMatch(a, m)
  PROVE  RegistryInv'
<1> USE DEF RegistryInv
<1>1. /\ UNCHANGED <<nextGameId, games, feeBalances, held>>
      /\ UNCHANGED <<settlement, registryPaused, now>>
  BY DEF CancelMatch
<1>2. matches' = [matches EXCEPT ![m] = [matches[m] EXCEPT !.state = "SETTLED",
                                                            !.stakeAmount = 0]]
  BY DEF CancelMatch, StorageTypes, Matches
<1>3. matches' \in [MatchIds -> Matches] /\ MatchTerms'
  BY <1>1, <1>2, ClosingTerms DEF MatchStates
<1>4. pendingWithdrawals' \in [Tokens -> [Addr -> Nat]]
  <2>1. /\ TokenOf(m) \in Tokens
        /\ pendingWithdrawals[TokenOf(m)] \in [Addr -> Nat]
        /\ a \in Addr /\ matches[m].stakeAmount \in Nat
    BY MatchFields, RegistryAssumption DEF StorageTypes, Addr
  <2>2. Plus(pendingWithdrawals[TokenOf(m)], a, matches[m].stakeAmount)
          \in [Addr -> Nat]
    BY <2>1, PlusType
  <2> QED
    BY <2>2 DEF CancelMatch, StorageTypes
<1> QED
  BY <1>1, <1>3, <1>4 DEF StorageTypes

\* What an expiry credits: the stakes of the match.
LEMMA RefundTotal ==
  ASSUME RegistryInv, NEW m \in MatchIds, NEW f \in [Addr -> Nat]
  PROVE  /\ Refunded(m, f) \in [Addr -> Nat]
         /\ Total(Refunded(m, f)) = Total(f) + Pool(m)
<1> USE DEF RegistryInv
<1>1. /\ matches[m].playerA \in Addr /\ matches[m].playerB \in Addr
      /\ matches[m].stakeAmount \in Nat /\ matches[m].stakeAmountB \in Nat
  BY MatchFields
<1>2. PICK g \in [Addr -> Nat] :
        /\ g = Plus(f, matches[m].playerA, matches[m].stakeAmount)
        /\ Total(g) = Total(f) + matches[m].stakeAmount
  BY <1>1, CreditTotal
<1>3. IsFiniteSet(Addr)
  BY RegistryAssumption, FS_AddElement, Zenon DEF Addr
<1>4. Total(f) \in Nat
  BY <1>3, TotalType
<1>5. CASE matches[m].playerB = Zero
  <2>1. matches[m].stakeAmountB = 0
    BY <1>5 DEF MatchTerms
  <2> QED
    BY <1>1, <1>2, <1>4, <1>5, <2>1 DEF Refunded, Pool
<1>6. CASE matches[m].playerB # Zero
  <2>1. PICK h \in [Addr -> Nat] :
          /\ h = Plus(g, matches[m].playerB, matches[m].stakeAmountB)
          /\ Total(h) = Total(g) + matches[m].stakeAmountB
    BY <1>1, CreditTotal
  <2>2. Refunded(m, f) = h
    BY <1>2, <1>6, <2>1 DEF Refunded
  <2> QED
    BY <1>1, <1>2, <1>4, <2>1, <2>2 DEF Pool
<1> QED
  BY <1>5, <1>6

LEMMA ExpireMatchInv ==
  ASSUME RegistryInv, NEW m \in MatchIds, ExpireMatch(m)
  PROVE  RegistryInv'
<1> USE DEF RegistryInv
<1>1. /\ UNCHANGED <<nextGameId, games, feeBalances, held>>
      /\ UNCHANGED <<settlement, registryPaused, now>>
  BY DEF ExpireMatch
<1>2. matches' = [matches EXCEPT ![m] = [matches[m] EXCEPT !.state = "EXPIRED",
                              !.stakeAmount = matches[m].stakeAmount]]
  BY DEF ExpireMatch, StorageTypes, Matches
<1>3. matches' \in [MatchIds -> Matches] /\ MatchTerms'
  BY <1>1, <1>2, ClosingTerms DEF MatchStates
<1>4. pendingWithdrawals' \in [Tokens -> [Addr -> Nat]]
  <2>1. pendingWithdrawals[TokenOf(m)] \in [Addr -> Nat]
    BY MatchFields DEF StorageTypes
  <2>2. Refunded(m, pendingWithdrawals[TokenOf(m)]) \in [Addr -> Nat]
    BY <2>1, RefundTotal
  <2> QED
    BY <2>2 DEF ExpireMatch, StorageTypes
<1> QED
  BY <1>1, <1>3, <1>4 DEF StorageTypes

LEMMA SettleMatchInv ==
  ASSUME RegistryInv, NEW m \in MatchIds, NEW newState \in MatchStates,
         NEW pay \in Payments, SettleMatch(m, newState, pay)
  PROVE  RegistryInv'
<1> USE DEF RegistryInv
<1>1. /\ UNCHANGED <<nextGameId, games, held>>
      /\ UNCHANGED <<settlement, registryPaused, now>>
      /\ newState \in MatchStates \ {"OPEN"}
  BY DEF SettleMatch
<1>2. matches' = [matches EXCEPT ![m] = [matches[m] EXCEPT !.state = newState,
                              !.stakeAmount = matches[m].stakeAmount]]
  BY DEF SettleMatch, StorageTypes, Matches
<1>3. matches' \in [MatchIds -> Matches] /\ MatchTerms'
  BY <1>1, <1>2, ClosingTerms
<1>4. /\ TokenOf(m) \in Tokens
      /\ pendingWithdrawals[TokenOf(m)] \in [Addr -> Nat]
  BY MatchFields DEF StorageTypes
<1>5. pendingWithdrawals' \in [Tokens -> [Addr -> Nat]]
  <2>1. Paid(m, pay, pendingWithdrawals[TokenOf(m)]) \in [Addr -> Nat]
    BY <1>4, PaidTotal
  <2> QED
    BY <2>1 DEF SettleMatch, StorageTypes
<1>6. feeBalances' \in [Tokens -> Nat]
  <2>1. PotFees(pay) \in Nat
    BY <1>4, PaidTotal
  <2> QED
    BY <1>4, <2>1, PlusType DEF SettleMatch, StorageTypes
<1> QED
  BY <1>1, <1>3, <1>5, <1>6 DEF StorageTypes

LEMMA WithdrawInv ==
  ASSUME RegistryInv, NEW a \in Accounts, NEW t \in Tokens, Withdraw(a, t)
  PROVE  RegistryInv'
<1> USE DEF RegistryInv
<1>1. /\ UNCHANGED <<nextGameId, games, matches, feeBalances>>
      /\ UNCHANGED <<settlement, registryPaused, now>>
  BY DEF Withdraw
<1>2. pendingWithdrawals' \in [Tokens -> [Addr -> Nat]] /\ held' \in [Tokens -> Int]
  <2>1. a \in Addr /\ pendingWithdrawals[t] \in [Addr -> Nat]
        /\ pendingWithdrawals[t][a] \in Nat
    BY DEF Addr, StorageTypes
  <2> QED
    BY <2>1 DEF Withdraw, StorageTypes
<1> QED
  BY <1>1, <1>2 DEF StorageTypes, MatchTerms, Created

LEMMA OwnerCallsInv ==
  ASSUME RegistryInv, OwnerCalls \/ Tick
  PROVE  RegistryInv'
<1> USE DEF RegistryInv
<1>1. CASE SetSettlement
  BY <1>1 DEF SetSettlement, money, StorageTypes, MatchTerms, Created
<1>2. CASE PauseRegistry
  BY <1>2 DEF PauseRegistry, money, StorageTypes, MatchTerms, Created
<1>3. ASSUME NEW t \in Tokens, WithdrawFees(t) PROVE RegistryInv'
  <2>1. feeBalances' \in [Tokens -> Nat] /\ held' \in [Tokens -> Int]
    BY <1>3 DEF WithdrawFees, StorageTypes
  <2> QED
    BY <1>3, <2>1 DEF WithdrawFees, StorageTypes, MatchTerms, Created
<1>4. CASE Tick
  BY <1>4 DEF Tick, money, StorageTypes, MatchTerms, Created
<1> QED
  BY <1>1, <1>2, <1>3, <1>4 DEF OwnerCalls

LEMMA StepInv == RegistryInv /\ [RegistryNext]_registryVars => RegistryInv'
<1> SUFFICES ASSUME RegistryInv, [RegistryNext]_registryVars PROVE RegistryInv'
  OBVIOUS
<1>1. CASE GameAdministration
  BY <1>1, AdministrationInv
<1>2. CASE PlayerCalls
  BY <1>2, CreateMatchInv, JoinMatchInv, CancelMatchInv, ExpireMatchInv
     DEF PlayerCalls
<1>3. CASE OwnerCalls \/ Tick
  BY <1>3, OwnerCallsInv
<1>4. CASE Withdrawals
  BY <1>4, WithdrawInv DEF Withdrawals
<1>5. CASE TrustedSettlement
  BY <1>5, SettlementCall, SettleMatchInv DEF RegistryInv
<1>6. CASE UNCHANGED registryVars
  BY <1>6 DEF registryVars, RegistryInv, StorageTypes, MatchTerms, Created
<1> QED
  BY <1>1, <1>2, <1>3, <1>4, <1>5, <1>6 DEF RegistryNext, RegistryStep

\* Storage keeps its types and matches their terms in every reachable state,
\* whatever game ids clients name.
THEOREM RegistryInvariance == RegistrySpec => []RegistryInv
BY InitInv, StepInv, PTL DEF RegistrySpec

-----------------------------------------------------------------------------
(***************************************************************************)
(* Solvency.                                                               *)
(***************************************************************************)
LEMMA LockedType ==
  RegistryInv => \A t \in Tokens : /\ Locked(t) \in [MatchIds -> Nat]
                                   /\ Total(Locked(t)) \in Nat
<1> SUFFICES ASSUME RegistryInv, NEW t \in Tokens
             PROVE  Locked(t) \in [MatchIds -> Nat] /\ Total(Locked(t)) \in Nat
  OBVIOUS
<1>1. \A m \in MatchIds : Pool(m) \in Nat
  BY MatchFields DEF RegistryInv
<1>2. Locked(t) \in [MatchIds -> Nat]
  BY <1>1 DEF Locked
<1> QED
  BY <1>2, TotalType, RegistryAssumption

LEMMA LockedTypePrime ==
  RegistryInv' => \A t \in Tokens : /\ Locked(t)' \in [MatchIds -> Nat]
                                    /\ Total(Locked(t))' \in Nat
<1>1. RegistryInv' => (\A t \in Tokens : /\ Locked(t) \in [MatchIds -> Nat]
                                         /\ Total(Locked(t)) \in Nat)'
  BY LockedType, PTL
<1> QED
  BY <1>1

\* When one match changes, what is locked changes by that match's stakes.
LEMMA OneMatchLocked ==
  ASSUME RegistryInv, RegistryInv', UNCHANGED games, NEW t \in Tokens,
         NEW m \in MatchIds, \A k \in MatchIds \ {m} : matches'[k] = matches[k]
  PROVE  Total(Locked(t))' = Total(Locked(t)) - Locked(t)[m] + Locked(t)'[m]
<1>1. \A k \in MatchIds \ {m} : Locked(t)'[k] = Locked(t)[k]
  BY DEF Locked, TokenOf, GameOf, Pool
<1>2. Locked(t) \in [MatchIds -> Nat] /\ Locked(t)' \in [MatchIds -> Nat]
  BY LockedType, LockedTypePrime
<1>3. Total(Locked(t)') = Total(Locked(t)) - Locked(t)[m] + Locked(t)'[m]
  BY <1>1, <1>2, TotalChange, RegistryAssumption
<1> QED
  BY <1>3 DEF Total, Coins

\* Each part of Owed(t) is a number.
LEMMA OwedParts ==
  ASSUME RegistryInv, NEW t \in Tokens
  PROVE  /\ Total(Locked(t)) \in Nat
         /\ pendingWithdrawals[t] \in [Addr -> Nat]
         /\ Total(pendingWithdrawals[t]) \in Nat
         /\ feeBalances[t] \in Nat
         /\ held[t] \in Int
<1>1. IsFiniteSet(Addr)
  BY RegistryAssumption, FS_AddElement, Zenon DEF Addr
<1>2. pendingWithdrawals[t] \in [Addr -> Nat] /\ feeBalances[t] \in Nat
      /\ held[t] \in Int
  BY DEF RegistryInv, StorageTypes
<1> QED
  BY <1>1, <1>2, LockedType, TotalType

LEMMA CreateMatchSolvent ==
  ASSUME RegistryInv, RegistryInv', Solvent, NEW a \in Players, NEW g \in GameIds,
         NEW m \in MatchIds, NEW n \in Stakes, CreateMatch(a, g, m, n)
  PROVE  Solvent'
<1> SUFFICES ASSUME NEW t \in Tokens
             PROVE  held'[t] = Total(Locked(t))' + Total(pendingWithdrawals'[t])
                                 + feeBalances'[t]
  BY DEF Solvent, Owed, Total, Coins
<1>1. PICK got \in Received(games[g].stakeToken, n) :
        /\ matches' = [matches EXCEPT ![m] =
                         [NoMatch EXCEPT !.gameId = g, !.playerA = a,
                                         !.stakeAmount = got, !.createdAt = now]]
        /\ held' = Plus(held, games[g].stakeToken, got)
  BY DEF CreateMatch
<1>2. UNCHANGED <<games, pendingWithdrawals, feeBalances>> /\ ~Created(m)
  BY DEF CreateMatch
<1>3. got \in Nat
  BY RegistryAssumption, ReceivedType
<1>4. Locked(t)[m] = 0
  BY <1>2, MatchFields DEF Locked, Pool, RegistryInv, MatchTerms
<1>5. Locked(t)'[m] = IF games[g].stakeToken = t THEN got ELSE 0
  <2>1. matches'[m] = [NoMatch EXCEPT !.gameId = g, !.playerA = a,
                                      !.stakeAmount = got, !.createdAt = now]
    BY <1>1 DEF RegistryInv, StorageTypes
  <2>2. /\ matches'[m].gameId = g /\ matches'[m].state = "OPEN"
        /\ matches'[m].stakeAmount = got /\ matches'[m].stakeAmountB = 0
    BY <2>1 DEF NoMatch
  <2> QED
    BY <1>2, <1>3, <2>2 DEF Locked, TokenOf, GameOf, Pool, Live
<1>6. Total(Locked(t))' = Total(Locked(t)) - Locked(t)[m] + Locked(t)'[m]
  <2>1. \A k \in MatchIds \ {m} : matches'[k] = matches[k]
    BY <1>1 DEF RegistryInv, StorageTypes
  <2> QED
    BY <1>2, <2>1, OneMatchLocked
<1>7. held'[t] = held[t] + (IF games[g].stakeToken = t THEN got ELSE 0)
  BY <1>1, <1>3 DEF Plus, RegistryInv, StorageTypes
<1>8. held[t] = Total(Locked(t)) + Total(pendingWithdrawals[t]) + feeBalances[t]
  BY DEF Solvent, Owed
<1> QED
  BY <1>2, <1>3, <1>4, <1>5, <1>6, <1>7, <1>8, OwedParts

LEMMA JoinMatchSolvent ==
  ASSUME RegistryInv, RegistryInv', Solvent, NEW b \in Players, NEW m \in MatchIds,
         JoinMatch(b, m)
  PROVE  Solvent'
<1> SUFFICES ASSUME NEW t \in Tokens
             PROVE  held'[t] = Total(Locked(t))' + Total(pendingWithdrawals'[t])
                                 + feeBalances'[t]
  BY DEF Solvent, Owed, Total, Coins
<1>1. PICK got \in Received(TokenOf(m), matches[m].stakeAmount) :
        /\ matches' = [matches EXCEPT ![m].stakeAmountB = got,
                                      ![m].playerB = b,
                                      ![m].state = "READY"]
        /\ held' = Plus(held, TokenOf(m), got)
  BY DEF JoinMatch
<1>2. UNCHANGED <<games, pendingWithdrawals, feeBalances>>
      /\ matches[m].state = "OPEN"
  BY DEF JoinMatch
<1>3. /\ matches[m] \in Matches /\ matches[m].stakeAmount \in Nat
      /\ TokenOf(m) \in Tokens /\ matches[m].stakeAmountB = 0
  BY <1>2, MatchFields DEF RegistryInv, MatchTerms
<1>4. got \in Nat
  BY <1>3, ReceivedType
<1>5. Locked(t)[m] = IF TokenOf(m) = t THEN matches[m].stakeAmount ELSE 0
  BY <1>2, <1>3 DEF Locked, Pool, Live
<1>6. Locked(t)'[m] = IF TokenOf(m) = t THEN matches[m].stakeAmount + got ELSE 0
  <2>1. /\ matches'[m].gameId = matches[m].gameId /\ matches'[m].state = "READY"
        /\ matches'[m].stakeAmount = matches[m].stakeAmount
        /\ matches'[m].stakeAmountB = got
    BY <1>1, <1>3 DEF RegistryInv, StorageTypes, Matches
  <2> QED
    BY <1>2, <2>1 DEF Locked, TokenOf, GameOf, Pool, Live
<1>7. Total(Locked(t))' = Total(Locked(t)) - Locked(t)[m] + Locked(t)'[m]
  <2>1. \A k \in MatchIds \ {m} : matches'[k] = matches[k]
    BY <1>1 DEF RegistryInv, StorageTypes
  <2> QED
    BY <1>2, <2>1, OneMatchLocked
<1>8. held'[t] = held[t] + (IF TokenOf(m) = t THEN got ELSE 0)
  BY <1>1, <1>3, <1>4 DEF Plus, RegistryInv, StorageTypes
<1>9. held[t] = Total(Locked(t)) + Total(pendingWithdrawals[t]) + feeBalances[t]
  BY DEF Solvent, Owed
<1> QED
  BY <1>2, <1>3, <1>4, <1>5, <1>6, <1>7, <1>8, <1>9, OwedParts

\* A match leaves escrow: nothing of it stays locked, and its stakes become
\* credits and fees of its own token.
LEMMA ReleaseSolvent ==
  ASSUME RegistryInv, RegistryInv', Solvent, NEW m \in MatchIds,
         UNCHANGED <<games, held>>,
         matches[m].state \in Live, matches'[m].state \notin Live,
         \A k \in MatchIds \ {m} : matches'[k] = matches[k],
         \A t \in Tokens \ {TokenOf(m)} :
           pendingWithdrawals'[t] = pendingWithdrawals[t]
           /\ feeBalances'[t] = feeBalances[t],
         Total(pendingWithdrawals'[TokenOf(m)]) + feeBalances'[TokenOf(m)]
           = Total(pendingWithdrawals[TokenOf(m)]) + feeBalances[TokenOf(m)] + Pool(m)
  PROVE  Solvent'
<1> SUFFICES ASSUME NEW t \in Tokens
             PROVE  held'[t] = Total(Locked(t))' + Total(pendingWithdrawals'[t])
                                 + feeBalances'[t]
  BY DEF Solvent, Owed, Total, Coins
<1>1. Locked(t)[m] = IF TokenOf(m) = t THEN Pool(m) ELSE 0
  BY DEF Locked
<1>2. Locked(t)'[m] = 0
  BY DEF Locked
<1>3. Total(Locked(t))' = Total(Locked(t)) - Locked(t)[m] + Locked(t)'[m]
  BY OneMatchLocked
<1>4. held[t] = Total(Locked(t)) + Total(pendingWithdrawals[t]) + feeBalances[t]
  BY DEF Solvent, Owed
<1>5. /\ Total(Locked(t)) \in Nat /\ Total(pendingWithdrawals[t]) \in Nat
      /\ feeBalances[t] \in Nat /\ Pool(m) \in Nat
  BY OwedParts, MatchFields DEF RegistryInv
<1>6. IsFiniteSet(Addr)
  BY RegistryAssumption, FS_AddElement, Zenon DEF Addr
<1>7. Total(pendingWithdrawals'[t]) \in Nat /\ feeBalances'[t] \in Nat
  BY <1>6, TotalType DEF RegistryInv, StorageTypes
<1>8. CASE t = TokenOf(m)
  BY <1>1, <1>2, <1>3, <1>4, <1>5, <1>7, <1>8
<1>9. CASE t # TokenOf(m)
  BY <1>1, <1>2, <1>3, <1>4, <1>5, <1>9
<1> QED
  BY <1>8, <1>9

LEMMA CancelMatchSolvent ==
  ASSUME RegistryInv, RegistryInv', Solvent, NEW a \in Players, NEW m \in MatchIds,
         CancelMatch(a, m)
  PROVE  Solvent'
<1>1. /\ UNCHANGED <<games, held>> /\ feeBalances' = feeBalances
      /\ matches[m].state \in Live
  BY DEF CancelMatch, Live
<1>2. matches'[m].state \notin Live /\ \A k \in MatchIds \ {m} : matches'[k] = matches[k]
  BY MatchFields DEF CancelMatch, RegistryInv, StorageTypes, Matches, Live
<1>3. Pool(m) = matches[m].stakeAmount /\ matches[m].stakeAmount \in Nat
  BY MatchFields DEF CancelMatch, RegistryInv, MatchTerms, Pool
<1>4. TokenOf(m) \in Tokens /\ pendingWithdrawals[TokenOf(m)] \in [Addr -> Nat]
      /\ a \in Addr
  BY MatchFields, RegistryAssumption DEF RegistryInv, StorageTypes, Addr
<1>5. /\ pendingWithdrawals'[TokenOf(m)]
           = Plus(pendingWithdrawals[TokenOf(m)], a, matches[m].stakeAmount)
      /\ \A t \in Tokens \ {TokenOf(m)} :
           pendingWithdrawals'[t] = pendingWithdrawals[t]
  BY <1>4 DEF CancelMatch, RegistryInv, StorageTypes
<1>6. Total(pendingWithdrawals'[TokenOf(m)])
        = Total(pendingWithdrawals[TokenOf(m)]) + Pool(m)
  BY <1>3, <1>4, <1>5, CreditTotal
<1>7. /\ Total(pendingWithdrawals[TokenOf(m)]) \in Nat
      /\ feeBalances[TokenOf(m)] \in Nat /\ Pool(m) \in Nat
  BY <1>3, <1>4, OwedParts
<1> QED
  BY <1>1, <1>2, <1>5, <1>6, <1>7, ReleaseSolvent

LEMMA ExpireMatchSolvent ==
  ASSUME RegistryInv, RegistryInv', Solvent, NEW m \in MatchIds, ExpireMatch(m)
  PROVE  Solvent'
<1>1. /\ UNCHANGED <<games, held>> /\ feeBalances' = feeBalances
      /\ matches[m].state \in Live
  BY DEF ExpireMatch
<1>2. matches'[m].state \notin Live /\ \A k \in MatchIds \ {m} : matches'[k] = matches[k]
  BY MatchFields DEF ExpireMatch, RegistryInv, StorageTypes, Matches, Live
<1>3. TokenOf(m) \in Tokens /\ pendingWithdrawals[TokenOf(m)] \in [Addr -> Nat]
      /\ Pool(m) \in Nat
  BY MatchFields DEF RegistryInv, StorageTypes
<1>4. /\ pendingWithdrawals'[TokenOf(m)]
           = Refunded(m, pendingWithdrawals[TokenOf(m)])
      /\ \A t \in Tokens \ {TokenOf(m)} :
           pendingWithdrawals'[t] = pendingWithdrawals[t]
  BY <1>3 DEF ExpireMatch, RegistryInv, StorageTypes
<1>5. Total(pendingWithdrawals'[TokenOf(m)])
        = Total(pendingWithdrawals[TokenOf(m)]) + Pool(m)
  BY <1>3, <1>4, RefundTotal
<1>6. /\ Total(pendingWithdrawals[TokenOf(m)]) \in Nat
      /\ feeBalances[TokenOf(m)] \in Nat
  BY <1>3, OwedParts
<1> QED
  BY <1>1, <1>2, <1>3, <1>4, <1>5, <1>6, ReleaseSolvent

\* A settlement call adds what it distributes to the claims on the match's
\* token, and leaves the other tokens alone.
LEMMA SettleMatchClaims ==
  ASSUME RegistryInv, NEW m \in MatchIds, NEW newState \in MatchStates,
         NEW pay \in Payments, SettleMatch(m, newState, pay)
  PROVE  /\ \A t \in Tokens \ {TokenOf(m)} :
              pendingWithdrawals'[t] = pendingWithdrawals[t]
              /\ feeBalances'[t] = feeBalances[t]
         /\ Total(pendingWithdrawals'[TokenOf(m)]) + feeBalances'[TokenOf(m)]
              = Total(pendingWithdrawals[TokenOf(m)]) + feeBalances[TokenOf(m)]
                + (pay.studioFee + pay.protocolFee + pay.toA + pay.toB)
<1> DEFINE f == pendingWithdrawals[TokenOf(m)]
           paid == Paid(m, pay, f)
           pot == PotFees(pay)
           sum == pay.studioFee + pay.protocolFee + pay.toA + pay.toB
<1>1. TokenOf(m) \in Tokens /\ f \in [Addr -> Nat]
  BY MatchFields DEF RegistryInv, StorageTypes
<1>2. /\ paid \in [Addr -> Nat] /\ pot \in Nat
      /\ Total(paid) + pot
           = Total(f) + pay.studioFee + pay.protocolFee + pay.toA + pay.toB
  BY <1>1, PaidTotal DEF RegistryInv
<1>3. /\ pay.studioFee \in Nat /\ pay.protocolFee \in Nat
      /\ pay.toA \in Nat /\ pay.toB \in Nat
  BY DEF Payments
<1>4. /\ Total(f) \in Nat /\ feeBalances[TokenOf(m)] \in Nat
  BY <1>1, OwedParts
<1>5. IsFiniteSet(Addr)
  BY RegistryAssumption, FS_AddElement, Zenon DEF Addr
<1>6. Total(paid) \in Nat
  BY <1>2, <1>5, TotalType
<1>7. /\ pendingWithdrawals' = [pendingWithdrawals EXCEPT ![TokenOf(m)] = paid]
      /\ feeBalances' = Plus(feeBalances, TokenOf(m), pot)
  BY DEF SettleMatch
<1>8. sum \in Nat /\ Total(paid) + pot = Total(f) + sum
  <2> HIDE DEF paid, pot, f
  <2> QED
    BY <1>2, <1>3, <1>4
<1> HIDE DEF paid, pot, sum
<1>9. /\ pendingWithdrawals'[TokenOf(m)] = paid
      /\ feeBalances'[TokenOf(m)] = feeBalances[TokenOf(m)] + pot
  BY <1>1, <1>7 DEF Plus, RegistryInv, StorageTypes
<1>10. \A t \in Tokens \ {TokenOf(m)} :
         pendingWithdrawals'[t] = pendingWithdrawals[t]
         /\ feeBalances'[t] = feeBalances[t]
  BY <1>1, <1>7 DEF Plus, RegistryInv, StorageTypes
<1>11. Total(paid) + (feeBalances[TokenOf(m)] + pot)
         = Total(f) + feeBalances[TokenOf(m)] + sum
  BY <1>2, <1>4, <1>6, <1>8
<1> QED
  BY <1>9, <1>10, <1>11 DEF sum

\* A dispute moves nothing.
LEMMA DisputeSolvent ==
  ASSUME RegistryInv, RegistryInv', Solvent, NEW m \in MatchIds,
         SettleMatch(m, "DISPUTED", NoPayment)
  PROVE  Solvent'
<1> SUFFICES ASSUME NEW t \in Tokens
             PROVE  held'[t] = Total(Locked(t))' + Total(pendingWithdrawals'[t])
                                 + feeBalances'[t]
  BY DEF Solvent, Owed, Total, Coins
<1>1. UNCHANGED <<games, held>> /\ matches[m].state \in Live
      /\ matches' = [matches EXCEPT ![m].state = "DISPUTED"]
  BY DEF SettleMatch
<1>2. NoPayment \in Payments /\ "DISPUTED" \in MatchStates
  BY DEF NoPayment, Payments, Addr, MatchStates
<1>3. /\ \A u \in Tokens \ {TokenOf(m)} :
           pendingWithdrawals'[u] = pendingWithdrawals[u]
           /\ feeBalances'[u] = feeBalances[u]
      /\ Total(pendingWithdrawals'[TokenOf(m)]) + feeBalances'[TokenOf(m)]
           = Total(pendingWithdrawals[TokenOf(m)]) + feeBalances[TokenOf(m)]
             + (NoPayment.studioFee + NoPayment.protocolFee
                + NoPayment.toA + NoPayment.toB)
  BY <1>2, SettleMatchClaims
<1>4. NoPayment.studioFee + NoPayment.protocolFee + NoPayment.toA + NoPayment.toB = 0
  BY DEF NoPayment
<1>5. Total(Locked(t))' = Total(Locked(t))
  <2>1. /\ matches'[m].state \in Live /\ matches'[m].gameId = matches[m].gameId
        /\ matches'[m].stakeAmount = matches[m].stakeAmount
        /\ matches'[m].stakeAmountB = matches[m].stakeAmountB
        /\ \A k \in MatchIds \ {m} : matches'[k] = matches[k]
    BY <1>1 DEF RegistryInv, StorageTypes, Matches, Live
  <2>2. Locked(t)'[m] = Locked(t)[m]
    BY <1>1, <2>1 DEF Locked, TokenOf, GameOf, Pool
  <2>3. Total(Locked(t))' = Total(Locked(t)) - Locked(t)[m] + Locked(t)'[m]
    BY <1>1, <2>1, OneMatchLocked
  <2>4. Total(Locked(t)) \in Nat /\ Locked(t)[m] \in Nat
    BY LockedType
  <2> QED
    BY <2>2, <2>3, <2>4
<1>6. held[t] = Total(Locked(t)) + Total(pendingWithdrawals[t]) + feeBalances[t]
  BY DEF Solvent, Owed
<1>7. IsFiniteSet(Addr)
  BY RegistryAssumption, FS_AddElement, Zenon DEF Addr
<1>8. Total(pendingWithdrawals'[t]) \in Nat /\ feeBalances'[t] \in Nat
  BY <1>7, TotalType DEF RegistryInv, StorageTypes
<1>9. held'[t] = held[t]
  BY <1>1
<1>10. Total(pendingWithdrawals'[t]) + feeBalances'[t]
         = Total(pendingWithdrawals[t]) + feeBalances[t]
  BY <1>3, <1>4, OwedParts
<1> QED
  BY <1>5, <1>6, <1>8, <1>9, <1>10, OwedParts

LEMMA TrustedSettlementSolvent ==
  ASSUME RegistryInv, RegistryInv', Solvent, TrustedSettlement
  PROVE  Solvent'
<1>1. PICK m \in MatchIds, newState \in MatchStates, pay \in Payments :
        /\ SettleMatch(m, newState, pay)
        /\ \/ newState = "DISPUTED" /\ pay = NoPayment
           \/ /\ newState \in {"SETTLED", "EXPIRED"}
              /\ matches[m].playerB # Zero
              /\ pay.studioFee + pay.protocolFee + pay.toA + pay.toB = Pool(m)
  BY SettlementCall DEF RegistryInv
<1>2. CASE newState = "DISPUTED" /\ pay = NoPayment
  BY <1>1, <1>2, DisputeSolvent
<1>3. CASE /\ newState \in {"SETTLED", "EXPIRED"}
           /\ pay.studioFee + pay.protocolFee + pay.toA + pay.toB = Pool(m)
  <2>1. UNCHANGED <<games, held>> /\ matches[m].state \in Live
        /\ matches' = [matches EXCEPT ![m].state = newState]
    BY <1>1 DEF SettleMatch
  <2>2. /\ matches'[m].state \notin Live
        /\ \A k \in MatchIds \ {m} : matches'[k] = matches[k]
    BY <1>3, <2>1 DEF RegistryInv, StorageTypes, Matches, Live
  <2>3. /\ \A t \in Tokens \ {TokenOf(m)} :
             pendingWithdrawals'[t] = pendingWithdrawals[t]
             /\ feeBalances'[t] = feeBalances[t]
        /\ Total(pendingWithdrawals'[TokenOf(m)]) + feeBalances'[TokenOf(m)]
             = Total(pendingWithdrawals[TokenOf(m)]) + feeBalances[TokenOf(m)]
               + Pool(m)
    BY <1>1, <1>3, SettleMatchClaims
  <2> QED
    BY <2>1, <2>2, <2>3, ReleaseSolvent
<1> QED
  BY <1>1, <1>2, <1>3

\* Registering a game cannot change the token of a match that holds stakes:
\* those matches name games registered before.
LEMMA RegisterGameSolvent ==
  ASSUME RegistryInv, RegistryInv', Solvent, ~EarlyCreate,
         NEW a \in Accounts, NEW c \in Catalog, RegisterGame(a, c)
  PROVE  Solvent'
<1>1. /\ UNCHANGED <<matches, pendingWithdrawals, feeBalances, held>>
      /\ \A g \in GameIds \ {nextGameId} : games'[g] = games[g]
  BY DEF RegisterGame, money, RegistryInv, StorageTypes
<1>2. ASSUME NEW t \in Tokens PROVE Locked(t)' = Locked(t)
  <2>1. ASSUME NEW m \in MatchIds PROVE Locked(t)'[m] = Locked(t)[m]
    <3>1. CASE Created(m)
      <4>1. matches[m].gameId \in GameIds /\ matches[m].gameId # nextGameId
        BY <3>1, MatchFields DEF RegistryInv, MatchTerms, StorageTypes, GameIds
      <4> QED
        BY <1>1, <4>1 DEF Locked, TokenOf, GameOf, Pool
    <3>2. CASE ~Created(m)
      <4>1. Pool(m) = 0
        BY <3>2 DEF RegistryInv, MatchTerms, Pool
      <4> QED
        BY <1>1, <4>1 DEF Locked, Pool
    <3> QED
      BY <3>1, <3>2
  <2> QED
    BY <2>1 DEF Locked
<1>3. ASSUME NEW t \in Tokens PROVE Owed(t)' = Owed(t)
  BY <1>1, <1>2 DEF Owed, Total, Coins
<1> QED
  BY <1>1, <1>3 DEF Solvent

\* An admin never changes the stake token of a game.
LEMMA ConfigureGameSolvent ==
  ASSUME RegistryInv, Solvent, NEW a, NEW g \in GameIds, NEW changed,
         changed.stakeToken = games[g].stakeToken, ConfigureGame(a, g, changed)
  PROVE  Solvent'
<1>1. /\ UNCHANGED <<matches, pendingWithdrawals, feeBalances, held>>
      /\ \A k \in GameIds : games'[k].stakeToken = games[k].stakeToken
  BY DEF ConfigureGame, money, RegistryInv, StorageTypes
<1>2. ASSUME NEW m \in MatchIds PROVE TokenOf(m)' = TokenOf(m) /\ Pool(m)' = Pool(m)
  BY <1>1, MatchFields DEF RegistryInv, TokenOf, GameOf, Pool
<1>3. ASSUME NEW t \in Tokens PROVE Owed(t)' = Owed(t)
  BY <1>1, <1>2 DEF Owed, Locked, Total, Coins
<1> QED
  BY <1>1, <1>3 DEF Solvent

LEMMA AdministrationSolvent ==
  ASSUME RegistryInv, RegistryInv', Solvent, ~EarlyCreate, GameAdministration
  PROVE  Solvent'
<1>1. PICK a \in Admins :
        \/ \E c \in Catalog : RegisterGame(a, c)
        \/ \E g \in GameIds :
             \/ \E bps \in FeeChoices, r \in Recipients \cup {Zero} :
                  SetStudioFee(a, g, bps, r)
             \/ \E d \in TimeoutChoices : SetMatchTimeout(a, g, d)
             \/ \E c \in Catalog : UpdateGameVerifiers(a, g, c.verifiers)
  BY DEF GameAdministration
<1>2. a \in Accounts
  BY RegistryAssumption
<1>3. ASSUME NEW g \in GameIds PROVE games[g] \in Games
  BY DEF RegistryInv, StorageTypes
<1>4. ASSUME NEW g \in GameIds, NEW bps \in FeeChoices,
             NEW r \in Recipients \cup {Zero}, SetStudioFee(a, g, bps, r)
      PROVE  Solvent'
  BY <1>3, <1>4, ConfigureGameSolvent DEF SetStudioFee, Games
<1>5. ASSUME NEW g \in GameIds, NEW d \in TimeoutChoices, SetMatchTimeout(a, g, d)
      PROVE  Solvent'
  BY <1>3, <1>5, ConfigureGameSolvent DEF SetMatchTimeout, Games
<1>6. ASSUME NEW g \in GameIds, NEW c \in Catalog,
             UpdateGameVerifiers(a, g, c.verifiers)
      PROVE  Solvent'
  BY <1>3, <1>6, ConfigureGameSolvent DEF UpdateGameVerifiers, Games
<1> QED
  BY <1>1, <1>2, <1>4, <1>5, <1>6, RegisterGameSolvent

LEMMA WithdrawSolvent ==
  ASSUME RegistryInv, RegistryInv', Solvent, NEW a \in Accounts, NEW t \in Tokens,
         Withdraw(a, t)
  PROVE  Solvent'
<1> SUFFICES ASSUME NEW u \in Tokens
             PROVE  held'[u] = Total(Locked(u))' + Total(pendingWithdrawals'[u])
                                 + feeBalances'[u]
  BY DEF Solvent, Owed, Total, Coins
<1> DEFINE credit == pendingWithdrawals[t][a]
<1>1. /\ UNCHANGED <<games, matches, feeBalances>>
      /\ pendingWithdrawals' = [pendingWithdrawals EXCEPT ![t][a] = 0]
      /\ held' = [held EXCEPT ![t] = @ - credit]
  BY DEF Withdraw
<1>2. Total(Locked(u))' = Total(Locked(u))
  BY <1>1 DEF Total, Coins, Locked, TokenOf, GameOf, Pool
<1>3. held[u] = Total(Locked(u)) + Total(pendingWithdrawals[u]) + feeBalances[u]
  BY DEF Solvent, Owed
<1>4. CASE u # t
  BY <1>1, <1>2, <1>3, <1>4 DEF RegistryInv, StorageTypes
<1>5. CASE u = t
  <2> DEFINE f == pendingWithdrawals[t]
             g == pendingWithdrawals'[t]
  <2>1. /\ f \in [Addr -> Nat] /\ g \in [Addr -> Nat] /\ a \in Addr
        /\ f[a] = credit /\ g[a] = 0 /\ \A x \in Addr \ {a} : g[x] = f[x]
    BY <1>1 DEF RegistryInv, StorageTypes, Addr
  <2>2. IsFiniteSet(Addr)
    BY RegistryAssumption, FS_AddElement, Zenon DEF Addr
  <2>3. credit \in Nat /\ held'[t] = held[t] - credit
    BY <1>1, <2>1 DEF RegistryInv, StorageTypes
  <2> HIDE DEF f, g, credit
  <2>4. Total(g) = Total(f) - f[a] + g[a]
    BY <2>1, <2>2, TotalChange
  <2>5. Total(f) \in Nat /\ Total(g) \in Nat
    BY <2>1, <2>2, TotalType
  <2>6. Total(g) = Total(f) - credit
    BY <2>1, <2>3, <2>4, <2>5
  <2>7. /\ held[t] = Total(Locked(t)) + Total(f) + feeBalances[t]
        /\ Total(Locked(t)) \in Nat /\ feeBalances[t] \in Nat
    BY <1>3, <1>5, OwedParts DEF f
  <2>8. held'[t] = Total(Locked(t)) + Total(g) + feeBalances[t]
    BY <2>3, <2>5, <2>6, <2>7
  <2> QED
    BY <1>1, <1>2, <1>5, <2>8 DEF g
<1> QED
  BY <1>4, <1>5

LEMMA OwnerCallsSolvent ==
  ASSUME RegistryInv, Solvent, OwnerCalls \/ Tick \/ UNCHANGED registryVars
  PROVE  Solvent'
<1>1. ASSUME UNCHANGED <<games, matches, money>> PROVE Solvent'
  BY <1>1 DEF money, Solvent, Owed, Total, Coins, Locked, TokenOf, GameOf, Pool
<1>2. ASSUME NEW t \in Tokens, WithdrawFees(t) PROVE Solvent'
  <2> SUFFICES ASSUME NEW u \in Tokens
               PROVE  held'[u] = Total(Locked(u))' + Total(pendingWithdrawals'[u])
                                   + feeBalances'[u]
    BY DEF Solvent, Owed, Total, Coins
  <2>1. UNCHANGED <<games, matches, pendingWithdrawals>>
    BY <1>2 DEF WithdrawFees
  <2>2. Total(Locked(u))' = Total(Locked(u))
    BY <2>1 DEF Total, Coins, Locked, TokenOf, GameOf, Pool
  <2>3. held[u] = Total(Locked(u)) + Total(pendingWithdrawals[u]) + feeBalances[u]
    BY DEF Solvent, Owed
  <2>4. /\ held'[u] = held[u] - (IF u = t THEN feeBalances[u] ELSE 0)
        /\ feeBalances'[u] = IF u = t THEN 0 ELSE feeBalances[u]
    BY <1>2 DEF WithdrawFees, RegistryInv, StorageTypes
  <2> QED
    BY <2>1, <2>2, <2>3, <2>4, OwedParts
<1>3. CASE SetSettlement
  BY <1>1, <1>3 DEF SetSettlement
<1>4. CASE PauseRegistry
  BY <1>1, <1>4 DEF PauseRegistry
<1>5. CASE Tick
  BY <1>1, <1>5 DEF Tick
<1>6. CASE UNCHANGED registryVars
  BY <1>1, <1>6 DEF registryVars, money
<1> QED
  BY <1>2, <1>3, <1>4, <1>5, <1>6 DEF OwnerCalls

LEMMA InitSolvent == RegistryInit => Solvent
<1> SUFFICES ASSUME RegistryInit, NEW t \in Tokens PROVE held[t] = Owed(t)
  BY DEF Solvent
<1>1. RegistryInv
  BY InitInv
<1>2. /\ Locked(t) \in [MatchIds -> Nat]
      /\ \A m \in MatchIds : Locked(t)[m] = 0
  BY <1>1, LockedType DEF RegistryInit, Locked, NoMatch, Pool
<1>3. /\ pendingWithdrawals[t] \in [Addr -> Nat]
      /\ \A a \in Addr : pendingWithdrawals[t][a] = 0
      /\ feeBalances[t] = 0 /\ held[t] = 0
  BY DEF RegistryInit
<1>4. Total(Locked(t)) = 0
  BY <1>2, TotalZero
<1>5. Total(pendingWithdrawals[t]) = 0
  BY <1>3, TotalZero
<1> QED
  BY <1>3, <1>4, <1>5 DEF Owed

LEMMA StepSolvent ==
  ASSUME ~EarlyCreate, RegistryInv, Solvent, [RegistryNext]_registryVars
  PROVE  Solvent'
<1>1. RegistryInv'
  BY StepInv
<1>2. CASE GameAdministration
  BY <1>1, <1>2, AdministrationSolvent
<1>3. CASE PlayerCalls
  BY <1>1, <1>3, CreateMatchSolvent, JoinMatchSolvent, CancelMatchSolvent,
     ExpireMatchSolvent DEF PlayerCalls
<1>4. CASE OwnerCalls \/ Tick \/ UNCHANGED registryVars
  BY <1>4, OwnerCallsSolvent
<1>5. CASE Withdrawals
  BY <1>1, <1>5, WithdrawSolvent DEF Withdrawals
<1>6. CASE TrustedSettlement
  BY <1>1, <1>6, TrustedSettlementSolvent
<1> QED
  BY <1>2, <1>3, <1>4, <1>5, <1>6 DEF RegistryNext, RegistryStep

\* As long as clients create matches on registered games only, the balance of
\* the registry in each token is exactly what it owes in it: for every number
\* of accounts, tokens, matches and games, every stake and fee, tokens that
\* charge fees on transfer included.
THEOREM RegistrySolvency ==
  ASSUME ~EarlyCreate
  PROVE  RegistrySpec => []Solvent
<1>1. RegistryInit => RegistryInv /\ Solvent
  BY InitInv, InitSolvent
<1>2. RegistryInv /\ Solvent /\ [RegistryNext]_registryVars
        => (RegistryInv /\ Solvent)'
  BY StepInv, StepSolvent
<1> QED
  BY <1>1, <1>2, PTL DEF RegistrySpec

\* No balance is ever taken below zero: what is held covers what is withdrawn.
THEOREM RegistryTypes ==
  ASSUME ~EarlyCreate
  PROVE  RegistrySpec => []RegistryTypeOK
<1>1. RegistryInv /\ Solvent => RegistryTypeOK
  <2> SUFFICES ASSUME RegistryInv, Solvent PROVE RegistryTypeOK
    OBVIOUS
  <2>1. ASSUME NEW t \in Tokens PROVE held[t] \in Nat
    BY OwedParts DEF Solvent, Owed
  <2>2. held \in [Tokens -> Nat]
    BY <2>1 DEF RegistryInv, StorageTypes
  <2> QED
    BY <2>2 DEF RegistryTypeOK, RegistryInv, StorageTypes
<1> QED
  BY <1>1, RegistryInvariance, RegistrySolvency, PTL

-----------------------------------------------------------------------------
(***************************************************************************)
(* Finality.                                                               *)
(***************************************************************************)
LEMMA StepFinal ==
  ASSUME RegistryInv, [RegistryNext]_registryVars, NEW m \in MatchIds,
         Created(m), matches[m].state \notin Live
  PROVE  matches'[m] = matches[m]
<1>1. ASSUME UNCHANGED matches PROVE matches'[m] = matches[m]
  BY <1>1
<1>2. ASSUME NEW k \in MatchIds, NEW newTerms, k # m,
             matches' = [matches EXCEPT ![k] = newTerms]
      PROVE  matches'[m] = matches[m]
  BY <1>2 DEF RegistryInv, StorageTypes
<1>3. CASE GameAdministration \/ OwnerCalls \/ Withdrawals \/ Tick
           \/ UNCHANGED registryVars
  <2>1. CASE GameAdministration
    BY <1>1, <2>1 DEF GameAdministration, RegisterGame, SetStudioFee,
       SetMatchTimeout, UpdateGameVerifiers, ConfigureGame
  <2>2. CASE OwnerCalls
    BY <1>1, <2>2 DEF OwnerCalls, SetSettlement, PauseRegistry, WithdrawFees
  <2>3. CASE Withdrawals
    BY <1>1, <2>3 DEF Withdrawals, Withdraw
  <2>4. CASE Tick
    BY <1>1, <2>4 DEF Tick
  <2>5. CASE UNCHANGED registryVars
    BY <1>1, <2>5 DEF registryVars
  <2> QED
    BY <1>3, <2>1, <2>2, <2>3, <2>4, <2>5
<1>4. ASSUME NEW k \in MatchIds, NEW a \in Players, NEW g \in GameIds, NEW n \in Stakes,
             CreateMatch(a, g, k, n)
      PROVE  matches'[m] = matches[m]
  BY <1>2, <1>4 DEF CreateMatch
<1>5. ASSUME NEW k \in MatchIds, NEW b \in Players, JoinMatch(b, k)
      PROVE  matches'[m] = matches[m]
  <2>1. k # m
    BY <1>5 DEF JoinMatch, Live
  <2> QED
    BY <1>5, <2>1 DEF JoinMatch, RegistryInv, StorageTypes
<1>6. ASSUME NEW k \in MatchIds, NEW a \in Players, CancelMatch(a, k)
      PROVE  matches'[m] = matches[m]
  <2>1. k # m
    BY <1>6 DEF CancelMatch, Live
  <2> QED
    BY <1>6, <2>1 DEF CancelMatch, RegistryInv, StorageTypes
<1>7. ASSUME NEW k \in MatchIds, ExpireMatch(k) PROVE matches'[m] = matches[m]
  BY <1>2, <1>7 DEF ExpireMatch, RegistryInv, StorageTypes
<1>8. ASSUME NEW k \in MatchIds, NEW newState, NEW pay, SettleMatch(k, newState, pay)
      PROVE  matches'[m] = matches[m]
  <2>1. k # m /\ matches' = [matches EXCEPT ![k].state = newState]
    BY <1>8 DEF SettleMatch
  <2> QED
    BY <2>1 DEF RegistryInv, StorageTypes
<1>9. CASE PlayerCalls
  BY <1>4, <1>5, <1>6, <1>7, <1>9 DEF PlayerCalls
<1>10. CASE TrustedSettlement
  BY <1>8, <1>10, SettlementCall DEF RegistryInv
<1> QED
  BY <1>3, <1>9, <1>10 DEF RegistryNext, RegistryStep

\* A created match that was settled, cancelled or expired is never settled,
\* refunded, reopened or overwritten again, whatever game ids clients name.
THEOREM MatchFinality == RegistrySpec => CreatedMatchFinal
<1>1. RegistryInv /\ [RegistryNext]_registryVars
        => [\A m \in MatchIds :
              Created(m) /\ matches[m].state \notin Live
                => matches'[m] = matches[m]]_registryVars
  BY StepFinal
<1> QED
  BY <1>1, RegistryInvariance, PTL DEF RegistrySpec, CreatedMatchFinal

LEMMA StepTerms ==
  ASSUME RegistryInv, [RegistryNext]_registryVars, NEW m \in MatchIds,
         Created(m), matches[m].playerB # Zero
  PROVE  matches'[m] = [matches[m] EXCEPT !.state = matches'[m].state]
<1> DEFINE Same == matches'[m] = [matches[m] EXCEPT !.state = matches'[m].state]
<1>1. /\ matches \in [MatchIds -> Matches] /\ matches[m] \in Matches
      /\ matches[m].state # "OPEN"
  BY DEF RegistryInv, StorageTypes, MatchTerms
<1>2. ASSUME matches'[m] = matches[m] PROVE Same
  BY <1>1, <1>2 DEF Matches
<1>3. ASSUME NEW newState, matches' = [matches EXCEPT ![m].state = newState]
      PROVE  Same
  BY <1>1, <1>3 DEF Matches
<1> HIDE DEF Same
<1>4. ASSUME NEW k \in MatchIds, NEW newTerms, k # m,
             matches' = [matches EXCEPT ![k] = newTerms]
      PROVE  Same
  BY <1>1, <1>2, <1>4
<1>5. ASSUME NEW k \in MatchIds, NEW newState,
             matches' = [matches EXCEPT ![k].state = newState]
      PROVE  Same
  BY <1>1, <1>3, <1>4, <1>5
<1>6. ASSUME NEW k \in MatchIds, NEW a \in Players, NEW g \in GameIds, NEW n \in Stakes,
             CreateMatch(a, g, k, n)
      PROVE  Same
  BY <1>4, <1>6 DEF CreateMatch
<1>7. ASSUME NEW k \in MatchIds, NEW b \in Players, JoinMatch(b, k) PROVE Same
  <2>1. k # m
    BY <1>1, <1>7 DEF JoinMatch
  <2> QED
    BY <1>1, <1>2, <1>7, <2>1 DEF JoinMatch
<1>8. ASSUME NEW k \in MatchIds, NEW a \in Players, CancelMatch(a, k) PROVE Same
  <2>1. k # m
    BY <1>1, <1>8 DEF CancelMatch
  <2> QED
    BY <1>1, <1>2, <1>8, <2>1 DEF CancelMatch
<1>9. ASSUME NEW k \in MatchIds, ExpireMatch(k) PROVE Same
  BY <1>5, <1>9 DEF ExpireMatch
<1>10. ASSUME NEW k \in MatchIds, NEW newState, NEW pay, SettleMatch(k, newState, pay)
       PROVE  Same
  BY <1>5, <1>10 DEF SettleMatch
<1>11. ASSUME GameAdministration \/ OwnerCalls \/ Withdrawals \/ Tick
              \/ UNCHANGED registryVars
       PROVE  Same
  BY <1>2, <1>11 DEF GameAdministration, RegisterGame, SetStudioFee, SetMatchTimeout,
     UpdateGameVerifiers, ConfigureGame, OwnerCalls, SetSettlement, PauseRegistry,
     WithdrawFees, Withdrawals, Withdraw, Tick, registryVars
<1>12. ASSUME PlayerCalls PROVE Same
  BY <1>6, <1>7, <1>8, <1>9, <1>12 DEF PlayerCalls
<1>13. ASSUME TrustedSettlement PROVE Same
  BY <1>10, <1>13, SettlementCall DEF RegistryInv
<1>14. Same
  BY <1>11, <1>12, <1>13 DEF RegistryNext, RegistryStep
<1> QED
  BY <1>14 DEF Same

\* The players, the game and the stakes of a joined match never change again,
\* through dispute, settlement and expiry, whatever the settlement contract
\* and the game's administrator do.
THEOREM TermsStand == RegistrySpec => JoinedMatchTerms
<1>1. RegistryInv /\ [RegistryNext]_registryVars
        => [\A m \in MatchIds :
              Created(m) /\ matches[m].playerB # Zero
                => matches'[m] = [matches[m] EXCEPT !.state = matches'[m].state]
              ]_registryVars
  BY StepTerms
<1> QED
  BY <1>1, RegistryInvariance, PTL DEF RegistrySpec, JoinedMatchTerms

-----------------------------------------------------------------------------
(***************************************************************************)
(* The two contracts together implement the registry under a trusted       *)
(* settlement contract, so what is proved of RegistrySpec holds of them.   *)
(***************************************************************************)

(***************************************************************************)
(* The invariant.  Fees go to configured recipients; a match that can be   *)
(* settled has an opponent; nobody reports for the absent player of a      *)
(* match that was joined before it was created, so such a match is never   *)
(* disputed or settled.                                                    *)
(***************************************************************************)
FeeRecipients ==
  /\ protocolFeeRecipient \in Recipients
  /\ \A g \in GameIds : games[g].studioFeeRecipient \in Recipients \cup {Zero}

SettlementTypes ==
  /\ protocolFeeBps \in Nat
  /\ settlements \in [MatchIds -> OutcomeCodes]
  /\ rtResults \in [MatchIds -> [Addr -> RtResults]]
  /\ settlementPaused \in BOOLEAN

Opponents ==
  \A m \in MatchIds :
    /\ matches[m].state \in {"READY", "DISPUTED"} => matches[m].playerB # Zero
    /\ ~Created(m) => matches[m].state # "DISPUTED" /\ settlements[m] = "NONE"
    /\ rtResults[m][Zero] = NoResult

SettlementInv == RegistryInv /\ FeeRecipients /\ SettlementTypes /\ Opponents

-----------------------------------------------------------------------------
(***************************************************************************)
(* Fee arithmetic.                                                         *)
(***************************************************************************)

\* Rounding down never lets two fees take more than the pool.
LEMMA FeesFitPool ==
  ASSUME NEW p \in Nat, NEW x \in Nat, NEW y \in Nat, NEW d \in Nat \ {0},
         x + y <= d
  PROVE  /\ (p * x) \div d \in Nat
         /\ (p * y) \div d \in Nat
         /\ (p * x) \div d + (p * y) \div d <= p
<1> DEFINE q == (p * x) \div d
           r == (p * y) \div d
<1>1. /\ p * x \in Nat /\ p * y \in Nat /\ p * d \in Nat
      /\ p * x + p * y <= p * d
  <2>1. p * (x + y) <= p * d
    OBVIOUS
  <2>2. p * (x + y) = p * x + p * y
    OBVIOUS
  <2> QED
    BY <2>1, <2>2
<1>2. q \in Nat /\ r \in Nat /\ d * q <= p * x /\ d * r <= p * y
  BY <1>1
<1> HIDE DEF q, r
<1>3. d * (q + r) <= p * d
  BY <1>1, <1>2
<1>4. q + r <= p
  BY <1>2, <1>3
<1> QED
  BY <1>2, <1>4 DEF q, r

\* Half of an amount and the rest of it.
LEMMA Halves ==
  ASSUME NEW n \in Nat
  PROVE  n \div 2 \in 0 .. n
OBVIOUS

\* The payment of an outcome, fees within the cap, is a split of the pool.
LEMMA PaymentSplitsPool ==
  ASSUME SettlementInv, NEW m \in MatchIds, FeesWithinCap(m),
         NEW outcome \in OutcomeCodes \ {"NONE"}
  PROVE  \E studio, protocol \in Recipients \cup {Zero}, studioFee \in 0 .. Pool(m) :
           \E protocolFee \in 0 .. Pool(m) - studioFee :
             \E toA \in 0 .. Pool(m) - studioFee - protocolFee :
               Payment(m, outcome) =
                 [studio |-> studio, studioFee |-> studioFee,
                  protocol |-> protocol, protocolFee |-> protocolFee, toA |-> toA,
                  toB |-> Pool(m) - studioFee - protocolFee - toA]
<1> DEFINE studio == GameOf(m).studioFeeRecipient
           protocol == protocolFeeRecipient
           p == Pool(m)
           sf == StudioFee(m)
           pf == ProtocolFee(m)
<1>1. /\ p \in Nat /\ matches[m].stakeAmount \in Nat
      /\ matches[m].stakeAmountB \in Nat
      /\ p = matches[m].stakeAmount + matches[m].stakeAmountB
      /\ GameOf(m).studioFeeBps \in Nat /\ protocolFeeBps \in Nat
      /\ matches[m].gameId \in GameIds
  BY MatchFields DEF SettlementInv, RegistryInv, SettlementTypes, Pool
<1>2. studio \in Recipients \cup {Zero} /\ protocol \in Recipients \cup {Zero}
  BY <1>1 DEF SettlementInv, FeeRecipients, GameOf
<1>3. sf \in Nat /\ pf \in Nat /\ sf + pf <= p
  <2>1. BPS \in Nat \ {0} /\ GameOf(m).studioFeeBps + protocolFeeBps <= BPS
    BY <1>1, RegistryAssumption, SettlementAssumption DEF FeesWithinCap
  <2>2. /\ (p * GameOf(m).studioFeeBps) \div BPS \in Nat
        /\ (p * protocolFeeBps) \div BPS \in Nat
        /\ (p * GameOf(m).studioFeeBps) \div BPS + (p * protocolFeeBps) \div BPS <= p
    BY <1>1, <2>1, FeesFitPool
  <2> DEFINE x == (p * GameOf(m).studioFeeBps) \div BPS
             y == (p * protocolFeeBps) \div BPS
  <2>3. sf \in {0, x} /\ pf = y
    BY DEF StudioFee, ProtocolFee
  <2> HIDE DEF x, y, sf, pf, p
  <2>4. x \in Nat /\ y \in Nat /\ x + y <= p
    BY <2>2 DEF x, y
  <2> QED
    BY <1>1, <2>3, <2>4
<1>4. CASE outcome = "CANCELLED"
  <2>1. Payment(m, outcome)
          = [studio |-> studio, studioFee |-> 0, protocol |-> protocol,
             protocolFee |-> 0, toA |-> matches[m].stakeAmount,
             toB |-> matches[m].stakeAmountB]
    BY <1>4 DEF Payment, NoPayment
  <2>2. /\ 0 \in 0 .. p /\ 0 \in 0 .. p - 0
        /\ matches[m].stakeAmount \in 0 .. p - 0 - 0
        /\ matches[m].stakeAmountB = p - 0 - 0 - matches[m].stakeAmount
    BY <1>1
  <2> QED
    BY <1>2, <2>1, <2>2
<1>5. CASE outcome \in {"WIN_A", "WIN_B", "DRAW"}
  <2> DEFINE amount == p - sf - pf
             shares == Split(outcome, amount)
  <2>1. amount \in Nat
    BY <1>1, <1>3
  <2>2. Payment(m, outcome)
          = [studio |-> studio, studioFee |-> sf, protocol |-> protocol,
             protocolFee |-> pf, toA |-> shares[1], toB |-> shares[2]]
    BY <1>5 DEF Payment
  <2>3. shares[1] \in 0 .. amount /\ shares[2] = amount - shares[1]
    <3> HIDE DEF amount
    <3> QED
      BY <1>5, <2>1, Halves DEF Split
  <2>4. /\ sf \in 0 .. p /\ pf \in 0 .. p - sf
        /\ shares[1] \in 0 .. p - sf - pf
        /\ shares[2] = p - sf - pf - shares[1]
    <3> HIDE DEF sf, pf, p, shares
    <3> QED
      BY <1>1, <1>3, <2>3
  <2> HIDE DEF sf, pf, p, shares
  <2> QED
    BY <1>2, <2>2, <2>4 DEF p
<1> QED
  BY <1>4, <1>5 DEF OutcomeCodes

\* A payout in a match with an opponent is a settlement the registry trusts.
LEMMA PayoutTrusted ==
  ASSUME SettlementInv, NEW m \in MatchIds, matches[m].playerB # Zero,
         NEW outcome \in OutcomeCodes, Payout(m, outcome)
  PROVE  TrustedSettlement
<1>1. FeesWithinCap(m) /\ outcome \in OutcomeCodes \ {"NONE"}
      /\ SettleMatch(m, "SETTLED", Payment(m, outcome))
  BY DEF Payout
<1>2. SplitPool(m, "SETTLED")
  BY <1>1, PaymentSplitsPool DEF SplitPool
<1> QED
  BY <1>2 DEF TrustedSettlement

-----------------------------------------------------------------------------
(***************************************************************************)
(* Every step of the two contracts is a step of the registry under a       *)
(* trusted settlement contract, or leaves the registry alone.              *)
(***************************************************************************)
LEMMA StepImplements ==
  ASSUME SettlementInv, [Next]_vars
  PROVE  [RegistryNext]_registryVars
<1>1. CASE RegistryStep /\ UNCHANGED settlementVars
  BY <1>1 DEF RegistryNext
<1>2. ASSUME NEW m \in MatchIds, NEW a \in Accounts, NEW outcome \in OutcomeCodes,
             SubmitAsyncResult(m, outcome, a)
      PROVE  TrustedSettlement
  BY <1>2, PayoutTrusted DEF SubmitAsyncResult, SettlementInv, Opponents
<1>3. ASSUME NEW m \in MatchIds, NEW a \in Accounts, NEW outcome \in OutcomeCodes,
             ResolveDispute(m, a, outcome)
      PROVE  TrustedSettlement
  BY <1>3, PayoutTrusted DEF ResolveDispute
<1>4. ASSUME NEW m \in MatchIds, NEW a \in Accounts, NEW result \in RtResults,
             SubmitRealTimeHashResult(m, a, result)
      PROVE  TrustedSettlement \/ UNCHANGED registryVars
  <2>1. CASE AwaitOpponent(m, a, result)
    BY <2>1 DEF AwaitOpponent
  <2>2. CASE AgreeWithOpponent(m, a, result)
    <3>1. result.outcome \in OutcomeCodes /\ matches[m].playerB # Zero
      BY <2>2 DEF AgreeWithOpponent, RecordRtResult, RtResults, SettlementInv,
         Opponents
    <3> QED
      BY <2>2, <3>1, PayoutTrusted DEF AgreeWithOpponent
  <2>3. CASE DisagreeWithOpponent(m, a, result)
    BY <2>3 DEF DisagreeWithOpponent, TrustedSettlement
  <2> QED
    BY <1>4, <2>1, <2>2, <2>3 DEF SubmitRealTimeHashResult
<1>5. CASE Settling
  BY <1>2, <1>3, <1>4, <1>5 DEF Settling, RegistryNext
<1>6. CASE SettlementAdministration
  BY <1>6 DEF SettlementAdministration, UpdateProtocolFeeBps,
     UpdateProtocolFeeRecipient, PauseSettlement
<1>7. CASE UNCHANGED vars
  BY <1>7 DEF vars
<1> QED
  BY <1>1, <1>5, <1>6, <1>7 DEF Next

-----------------------------------------------------------------------------
(***************************************************************************)
(* Each step preserves the invariant.                                      *)
(***************************************************************************)
LEMMA SettlementInitInv == Init => SettlementInv
<1> SUFFICES ASSUME Init PROVE SettlementInv
  OBVIOUS
<1>1. RegistryInv
  BY InitInv DEF Init
<1>2. FeeRecipients
  BY SettlementAssumption DEF Init, RegistryInit, NoGame, FeeRecipients
<1>3. SettlementTypes
  BY SettlementAssumption DEF Init, SettlementTypes, OutcomeCodes, NoResult, RtResults
<1>4. Opponents
  BY DEF Init, RegistryInit, NoMatch, Opponents, Created, Addr
<1> QED
  BY <1>1, <1>2, <1>3, <1>4 DEF SettlementInv

\* The registry's own calls keep the studio fee recipients configured.
LEMMA StudioRecipients ==
  ASSUME SettlementInv, RegistryStep, NEW k \in GameIds
  PROVE  games'[k].studioFeeRecipient \in Recipients \cup {Zero}
<1>1. /\ games \in [GameIds -> Games]
      /\ games[k].studioFeeRecipient \in Recipients \cup {Zero}
  BY DEF SettlementInv, RegistryInv, StorageTypes, FeeRecipients
<1>2. ASSUME UNCHANGED games
      PROVE  games'[k].studioFeeRecipient \in Recipients \cup {Zero}
  BY <1>1, <1>2
<1>3. ASSUME NEW a, NEW c, RegisterGame(a, c)
      PROVE  games'[k].studioFeeRecipient \in Recipients \cup {Zero}
  BY <1>1, <1>3 DEF RegisterGame
<1>4. ASSUME NEW a, NEW g \in GameIds, NEW bps, NEW r \in Recipients \cup {Zero},
             SetStudioFee(a, g, bps, r)
      PROVE  games'[k].studioFeeRecipient \in Recipients \cup {Zero}
  BY <1>1, <1>4 DEF SetStudioFee, ConfigureGame, Games
<1>5. ASSUME NEW a, NEW g \in GameIds, NEW d, SetMatchTimeout(a, g, d)
      PROVE  games'[k].studioFeeRecipient \in Recipients \cup {Zero}
  BY <1>1, <1>5 DEF SetMatchTimeout, ConfigureGame, Games
<1>6. ASSUME NEW a, NEW g \in GameIds, NEW v, UpdateGameVerifiers(a, g, v)
      PROVE  games'[k].studioFeeRecipient \in Recipients \cup {Zero}
  BY <1>1, <1>6 DEF UpdateGameVerifiers, ConfigureGame, Games
<1>7. CASE GameAdministration
  BY <1>3, <1>4, <1>5, <1>6, <1>7 DEF GameAdministration
<1>8. CASE PlayerCalls
  BY <1>2, <1>8 DEF PlayerCalls, CreateMatch, JoinMatch, CancelMatch, ExpireMatch
<1>9. CASE OwnerCalls \/ Withdrawals \/ Tick
  BY <1>2, <1>9 DEF OwnerCalls, SetSettlement, PauseRegistry, WithdrawFees,
     Withdrawals, Withdraw, Tick
<1> QED
  BY <1>7, <1>8, <1>9 DEF RegistryStep

\* The registry's own calls keep what the invariant says of the matches.
LEMMA RegistryStepOpponents ==
  ASSUME SettlementInv, RegistryStep, UNCHANGED settlementVars
  PROVE  Opponents'
<1>1. /\ matches \in [MatchIds -> Matches] /\ Opponents
      /\ UNCHANGED <<settlements, rtResults>>
  BY DEF SettlementInv, RegistryInv, StorageTypes, settlementVars
<1>2. ASSUME UNCHANGED matches PROVE Opponents'
  BY <1>1, <1>2 DEF Opponents, Created
<1>3. ASSUME NEW m \in MatchIds, NEW new,
             matches' = [matches EXCEPT ![m] = new],
             new.state \in {"READY", "DISPUTED"} => new.playerB # Zero,
             new.state # "DISPUTED",
             new.playerA = Zero => ~Created(m)
      PROVE  Opponents'
  <2> SUFFICES ASSUME NEW k \in MatchIds
      PROVE /\ matches'[k].state \in {"READY", "DISPUTED"} => matches'[k].playerB # Zero
            /\ ~Created(k)' => matches'[k].state # "DISPUTED" /\ settlements[k] = "NONE"
            /\ rtResults[k][Zero] = NoResult
    BY <1>1 DEF Opponents
  <2>1. CASE k = m
    BY <1>1, <1>3, <2>1 DEF Opponents, Created
  <2>2. CASE k # m
    BY <1>1, <1>3, <2>2 DEF Opponents, Created
  <2> QED
    BY <2>1, <2>2
<1>4. Zero \notin Players
  BY RegistryAssumption
<1>5. ASSUME NEW m \in MatchIds, NEW a \in Players, NEW g \in GameIds,
             NEW n \in Stakes, CreateMatch(a, g, m, n)
      PROVE  Opponents'
  <2>1. PICK got : matches' = [matches EXCEPT ![m] =
                     [NoMatch EXCEPT !.gameId = g, !.playerA = a,
                                     !.stakeAmount = got, !.createdAt = now]]
    BY <1>5 DEF CreateMatch
  <2> DEFINE new == [NoMatch EXCEPT !.gameId = g, !.playerA = a,
                                    !.stakeAmount = got, !.createdAt = now]
  <2>2. new.state = "OPEN" /\ new.playerA # Zero
    BY <1>4 DEF NoMatch
  <2> HIDE DEF new
  <2> QED
    BY <1>3, <2>1, <2>2 DEF new
<1>6. ASSUME NEW m \in MatchIds, NEW b \in Players, JoinMatch(b, m) PROVE Opponents'
  <2>1. PICK got : matches' = [matches EXCEPT ![m].stakeAmountB = got,
                                 ![m].playerB = b, ![m].state = "READY"]
    BY <1>6 DEF JoinMatch
  <2> DEFINE new == [matches[m] EXCEPT !.stakeAmountB = got, !.playerB = b,
                                       !.state = "READY"]
  <2>2. /\ new.state = "READY" /\ new.playerB # Zero
        /\ new.playerA = matches[m].playerA
    BY <1>1, <1>4 DEF Matches
  <2>3. matches' = [matches EXCEPT ![m] = new]
    BY <1>1, <2>1
  <2> HIDE DEF new
  <2> QED
    BY <1>3, <2>2, <2>3 DEF Created
<1>7. ASSUME NEW m \in MatchIds, NEW newState \in {"SETTLED", "EXPIRED"}, NEW stake,
             matches' = [matches EXCEPT ![m] = [matches[m] EXCEPT
                           !.state = newState, !.stakeAmount = stake]]
      PROVE  Opponents'
  <2> DEFINE new == [matches[m] EXCEPT !.state = newState, !.stakeAmount = stake]
  <2>1. new.state = newState /\ new.playerA = matches[m].playerA
    BY <1>1 DEF Matches
  <2>2. matches' = [matches EXCEPT ![m] = new]
    BY <1>7
  <2> HIDE DEF new
  <2> QED
    BY <1>3, <2>1, <2>2 DEF Created
<1>8. ASSUME NEW m \in MatchIds, NEW a, CancelMatch(a, m) PROVE Opponents'
  <2>1. matches' = [matches EXCEPT ![m] = [matches[m] EXCEPT
                      !.state = "SETTLED", !.stakeAmount = 0]]
    BY <1>1, <1>8 DEF CancelMatch, Matches
  <2> QED
    BY <1>7, <2>1
<1>9. ASSUME NEW m \in MatchIds, ExpireMatch(m) PROVE Opponents'
  <2>1. matches' = [matches EXCEPT ![m] = [matches[m] EXCEPT
                      !.state = "EXPIRED", !.stakeAmount = matches[m].stakeAmount]]
    BY <1>1, <1>9 DEF ExpireMatch, Matches
  <2> QED
    BY <1>7, <2>1
<1>10. CASE PlayerCalls
  BY <1>5, <1>6, <1>8, <1>9, <1>10 DEF PlayerCalls
<1>11. CASE GameAdministration
  BY <1>2, <1>11 DEF GameAdministration, RegisterGame, SetStudioFee,
     SetMatchTimeout, UpdateGameVerifiers, ConfigureGame
<1>12. CASE OwnerCalls \/ Withdrawals \/ Tick
  BY <1>2, <1>12 DEF OwnerCalls, SetSettlement, PauseRegistry, WithdrawFees,
     Withdrawals, Withdraw, Tick
<1> QED
  BY <1>10, <1>11, <1>12 DEF RegistryStep

\* What a settling call does, whichever it is: it may record the caller's
\* result, and it closes a created match with an opponent under a recorded
\* outcome, marks one disputed, or leaves the matches alone.
Closes(m, outcome) ==
  /\ Created(m) /\ matches[m].playerB # Zero /\ matches[m].state \in Live
  /\ outcome \in OutcomeCodes \ {"NONE"}
  /\ matches' = [matches EXCEPT ![m].state = "SETTLED"]
  /\ settlements' = [settlements EXCEPT ![m] = outcome]

Disputes(m) ==
  /\ Created(m) /\ matches[m].state = "READY"
  /\ matches' = [matches EXCEPT ![m].state = "DISPUTED"]
  /\ UNCHANGED settlements

LEMMA PayoutCloses ==
  ASSUME NEW m \in MatchIds, Created(m), matches[m].playerB # Zero,
         NEW outcome \in OutcomeCodes, Payout(m, outcome)
  PROVE  Closes(m, outcome) /\ UNCHANGED games
BY DEF Payout, SettleMatch, Closes

LEMMA SettlingStep ==
  ASSUME SettlementInv, Settling
  PROVE  /\ UNCHANGED <<games, protocolFeeBps, protocolFeeRecipient,
                        settlementPaused>>
         /\ \/ UNCHANGED <<matches, settlements>>
            \/ \E m \in MatchIds : Disputes(m)
            \/ \E m \in MatchIds, outcome \in OutcomeCodes : Closes(m, outcome)
         /\ \/ UNCHANGED rtResults
            \/ \E m \in MatchIds, a \in Accounts, result \in RtResults :
                 rtResults' = [rtResults EXCEPT ![m][a] = result]
<1>1. ASSUME NEW m \in MatchIds, NEW a \in Accounts, NEW outcome \in OutcomeCodes,
             SubmitAsyncResult(m, outcome, a)
      PROVE  /\ Closes(m, outcome)
             /\ UNCHANGED <<games, protocolFeeBps, protocolFeeRecipient,
                            settlementPaused, rtResults>>
  <2>1. Created(m) /\ matches[m].playerB # Zero
    BY <1>1 DEF SubmitAsyncResult, SettlementInv, Opponents
  <2> QED
    BY <1>1, <2>1, PayoutCloses DEF SubmitAsyncResult
<1>2. ASSUME NEW m \in MatchIds, NEW a \in Accounts, NEW outcome \in OutcomeCodes,
             ResolveDispute(m, a, outcome)
      PROVE  /\ Closes(m, outcome)
             /\ UNCHANGED <<games, protocolFeeBps, protocolFeeRecipient,
                            settlementPaused, rtResults>>
  <2>1. Created(m) /\ matches[m].playerB # Zero
    BY <1>2 DEF ResolveDispute, SettlementInv, Opponents
  <2> QED
    BY <1>2, <2>1, PayoutCloses DEF ResolveDispute
<1>3. ASSUME NEW m \in MatchIds, NEW a \in Accounts, NEW result \in RtResults,
             RecordRtResult(m, a, result),
             rtResults[m][Opponent(m, a)].outcome # "NONE"
      PROVE  Created(m) /\ matches[m].playerB # Zero /\ matches[m].state = "READY"
  <2>1. a # Zero /\ matches[m].state = "READY" /\ matches[m].playerB # Zero
    BY <1>3, RegistryAssumption DEF RecordRtResult, SettlementInv, Opponents
  <2>2. rtResults[m][Zero].outcome = "NONE"
    BY DEF SettlementInv, Opponents, NoResult
  <2> QED
    BY <1>3, <2>1, <2>2 DEF RecordRtResult, Opponent, Created
<1>4. ASSUME NEW m \in MatchIds, NEW a \in Accounts, NEW result \in RtResults,
             SubmitRealTimeHashResult(m, a, result)
      PROVE  /\ UNCHANGED <<games, protocolFeeBps, protocolFeeRecipient,
                            settlementPaused>>
             /\ \/ UNCHANGED <<matches, settlements>>
                \/ Disputes(m)
                \/ Closes(m, result.outcome)
             /\ rtResults' = [rtResults EXCEPT ![m][a] = result]
  <2>1. CASE AwaitOpponent(m, a, result)
    BY <2>1 DEF AwaitOpponent, RecordRtResult, registryVars
  <2>2. CASE AgreeWithOpponent(m, a, result)
    <3>1. /\ RecordRtResult(m, a, result) /\ Payout(m, result.outcome)
          /\ rtResults[m][Opponent(m, a)] = result
          /\ UNCHANGED <<protocolFeeBps, protocolFeeRecipient, settlementPaused>>
      BY <2>2 DEF AgreeWithOpponent
    <3>2. result.outcome # "NONE" /\ result.outcome \in OutcomeCodes
      BY <3>1 DEF Payout, RtResults
    <3>3. Created(m) /\ matches[m].playerB # Zero
      BY <1>3, <3>1, <3>2
    <3> QED
      BY <3>1, <3>2, <3>3, PayoutCloses DEF RecordRtResult
  <2>3. CASE DisagreeWithOpponent(m, a, result)
    <3>1. /\ RecordRtResult(m, a, result)
          /\ rtResults[m][Opponent(m, a)].outcome # "NONE"
          /\ SettleMatch(m, "DISPUTED", NoPayment)
          /\ UNCHANGED <<protocolFeeBps, protocolFeeRecipient, settlements,
                         settlementPaused>>
      BY <2>3 DEF DisagreeWithOpponent
    <3>2. Created(m) /\ matches[m].state = "READY"
      BY <1>3, <3>1
    <3> QED
      BY <3>1, <3>2 DEF RecordRtResult, SettleMatch, Disputes
  <2> QED
    BY <1>4, <2>1, <2>2, <2>3 DEF SubmitRealTimeHashResult
<1>5. PICK m \in MatchIds, a \in Accounts :
        \/ \E outcome \in OutcomeCodes :
             SubmitAsyncResult(m, outcome, a) \/ ResolveDispute(m, a, outcome)
        \/ \E result \in RtResults : SubmitRealTimeHashResult(m, a, result)
  BY DEF Settling
<1>6. CASE \E outcome \in OutcomeCodes :
             SubmitAsyncResult(m, outcome, a) \/ ResolveDispute(m, a, outcome)
  BY <1>1, <1>2, <1>6
<1>7. CASE \E result \in RtResults : SubmitRealTimeHashResult(m, a, result)
  <2>1. PICK result \in RtResults : SubmitRealTimeHashResult(m, a, result)
    BY <1>7
  <2>2. result.outcome \in OutcomeCodes
    BY DEF RtResults
  <2> QED
    BY <1>4, <2>1, <2>2
<1> QED
  BY <1>5, <1>6, <1>7

LEMMA SettlingInv ==
  ASSUME SettlementInv, Settling
  PROVE  FeeRecipients' /\ SettlementTypes' /\ Opponents'
<1>1. /\ matches \in [MatchIds -> Matches] /\ SettlementTypes /\ Opponents
      /\ FeeRecipients
  BY DEF SettlementInv, RegistryInv, StorageTypes
<1>2. UNCHANGED <<games, protocolFeeBps, protocolFeeRecipient, settlementPaused>>
  BY SettlingStep
<1>3. /\ settlements' \in [MatchIds -> OutcomeCodes]
      /\ \A k \in MatchIds :
           /\ matches'[k].state \in {"READY", "DISPUTED"} => matches'[k].playerB # Zero
           /\ ~Created(k)' => matches'[k].state # "DISPUTED" /\ settlements'[k] = "NONE"
  <2>1. CASE UNCHANGED <<matches, settlements>>
    BY <1>1, <2>1 DEF Opponents, Created, SettlementTypes
  <2>2. CASE \E m \in MatchIds : Disputes(m)
    BY <1>1, <2>2 DEF Disputes, Opponents, Created, SettlementTypes, Matches
  <2>3. CASE \E m \in MatchIds, outcome \in OutcomeCodes : Closes(m, outcome)
    BY <1>1, <2>3 DEF Closes, Opponents, Created, SettlementTypes, Matches
  <2> QED
    BY <2>1, <2>2, <2>3, SettlingStep
<1>4. /\ rtResults' \in [MatchIds -> [Addr -> RtResults]]
      /\ \A k \in MatchIds : rtResults'[k][Zero] = NoResult
  <2>1. CASE UNCHANGED rtResults
    BY <1>1, <2>1 DEF Opponents, SettlementTypes
  <2>2. CASE \E m \in MatchIds, a \in Accounts, result \in RtResults :
               rtResults' = [rtResults EXCEPT ![m][a] = result]
    <3>1. PICK m \in MatchIds, a \in Accounts, result \in RtResults :
            rtResults' = [rtResults EXCEPT ![m][a] = result]
      BY <2>2
    <3>2. a \in Addr /\ a # Zero /\ Zero \in Addr
      BY RegistryAssumption DEF Addr
    <3>3. rtResults' \in [MatchIds -> [Addr -> RtResults]]
      BY <1>1, <3>1, <3>2 DEF SettlementTypes
    <3>4. \A k \in MatchIds : rtResults'[k][Zero] = rtResults[k][Zero]
      BY <1>1, <3>1, <3>2 DEF SettlementTypes
    <3> QED
      BY <1>1, <3>3, <3>4 DEF Opponents
  <2> QED
    BY <2>1, <2>2, SettlingStep
<1> QED
  BY <1>1, <1>2, <1>3, <1>4 DEF FeeRecipients, SettlementTypes, Opponents

LEMMA SettlementStepInv == SettlementInv /\ [Next]_vars => SettlementInv'
<1> SUFFICES ASSUME SettlementInv, [Next]_vars PROVE SettlementInv'
  OBVIOUS
<1>1. RegistryInv'
  BY StepImplements, StepInv DEF SettlementInv
<1>2. FeeRecipients' /\ SettlementTypes' /\ Opponents'
  <2>1. CASE RegistryStep /\ UNCHANGED settlementVars
    <3>1. FeeRecipients'
      BY <2>1, StudioRecipients DEF SettlementInv, FeeRecipients, settlementVars
    <3> QED
      BY <2>1, <3>1, RegistryStepOpponents
         DEF SettlementInv, SettlementTypes, settlementVars
  <2>2. CASE Settling
    BY <2>2, SettlingInv
  <2>3. CASE SettlementAdministration
    <3>1. UNCHANGED <<games, matches, settlements, rtResults>>
      BY <2>3 DEF SettlementAdministration, UpdateProtocolFeeBps,
         UpdateProtocolFeeRecipient, PauseSettlement, registryVars
    <3>2. protocolFeeBps' \in Nat /\ protocolFeeRecipient' \in Recipients
          /\ settlementPaused' \in BOOLEAN
      BY <2>3, RegistryAssumption DEF SettlementAdministration,
         UpdateProtocolFeeBps, UpdateProtocolFeeRecipient, PauseSettlement,
         SettlementInv, SettlementTypes, FeeRecipients
    <3> QED
      BY <3>1, <3>2 DEF SettlementInv, SettlementTypes, FeeRecipients, Opponents,
         Created
  <2>4. CASE UNCHANGED vars
    BY <2>4 DEF vars, registryVars, settlementVars, SettlementInv,
       SettlementTypes, FeeRecipients, Opponents, Created
  <2> QED
    BY <2>1, <2>2, <2>3, <2>4 DEF Next
<1> QED
  BY <1>1, <1>2 DEF SettlementInv

THEOREM SettlementInvariance == Spec => []SettlementInv
BY SettlementInitInv, SettlementStepInv, PTL DEF Spec

-----------------------------------------------------------------------------
(***************************************************************************)
(* The results.                                                            *)
(***************************************************************************)

\* The settlement contract is trusted rightly: whatever fees, recipients and
\* rounding, every payout distributes exactly the two stakes of a match with
\* an opponent, so the two contracts implement the registry's specification.
THEOREM Implementation == Spec => RegistrySpec
<1>1. Init => RegistryInit
  BY DEF Init
<1>2. SettlementInv /\ [Next]_vars => [RegistryNext]_registryVars
  BY StepImplements
<1> QED
  BY <1>1, <1>2, SettlementInvariance, PTL DEF Spec, RegistrySpec

\* The two contracts together hold exactly what they owe, as long as clients
\* create matches on registered games only.
THEOREM Solvency ==
  ASSUME ~EarlyCreate
  PROVE  Spec => []Solvent
BY Implementation, RegistrySolvency, PTL

\* Every slot of both contracts keeps its type.
THEOREM TypeCorrectness ==
  ASSUME ~EarlyCreate
  PROVE  Spec => []TypeOK
<1>1. SettlementInv /\ RegistryTypeOK => TypeOK
  BY RegistryAssumption
     DEF SettlementInv, SettlementTypes, FeeRecipients, TypeOK
<1> QED
  BY <1>1, SettlementInvariance, Implementation, RegistryTypes, PTL

LEMMA RecordInit == Init => SettledIffRecorded
BY DEF Init, RegistryInit, NoMatch, SettledIffRecorded, Created

LEMMA RecordStep ==
  SettlementInv /\ SettledIffRecorded /\ [Next]_vars => SettledIffRecorded'
<1> SUFFICES ASSUME SettlementInv, SettledIffRecorded, [Next]_vars,
                    NEW k \in MatchIds, Created(k)'
             PROVE  settlements'[k] # "NONE" <=>
                      matches'[k].state = "SETTLED" /\ matches'[k].playerB # Zero
  BY DEF SettledIffRecorded
<1>1. /\ matches \in [MatchIds -> Matches] /\ Opponents /\ MatchTerms
      /\ settlements \in [MatchIds -> OutcomeCodes]
  BY DEF SettlementInv, RegistryInv, StorageTypes, SettlementTypes
<1>2. ASSUME matches'[k] = matches[k], settlements'[k] = settlements[k]
      PROVE  settlements'[k] # "NONE" <=>
               matches'[k].state = "SETTLED" /\ matches'[k].playerB # Zero
  BY <1>2 DEF SettledIffRecorded, Created
<1>3. ASSUME settlements'[k] = "NONE",
             ~(matches'[k].state = "SETTLED" /\ matches'[k].playerB # Zero)
      PROVE  settlements'[k] # "NONE" <=>
               matches'[k].state = "SETTLED" /\ matches'[k].playerB # Zero
  BY <1>3
<1>4. matches[k].state # "SETTLED" => settlements[k] = "NONE"
  BY <1>1 DEF SettledIffRecorded, Opponents
<1>5. CASE RegistryStep /\ UNCHANGED settlementVars
  <2>1. settlements' = settlements
    BY <1>5 DEF settlementVars
  <2>2. CASE UNCHANGED matches
    BY <1>2, <2>1, <2>2
  <2>3. ASSUME NEW m \in MatchIds, NEW a, NEW g, NEW n, CreateMatch(a, g, m, n)
        PROVE  \/ matches'[k] = matches[k]
               \/ settlements[k] = "NONE" /\ matches'[k].state # "SETTLED"
    <3>1. CASE k = m
      BY <1>1, <2>3, <3>1 DEF CreateMatch, NoMatch, Opponents
    <3>2. CASE k # m
      BY <1>1, <2>3, <3>2 DEF CreateMatch
    <3> QED
      BY <3>1, <3>2
  <2>4. ASSUME NEW m \in MatchIds, NEW b, JoinMatch(b, m)
        PROVE  \/ matches'[k] = matches[k]
               \/ settlements[k] = "NONE" /\ matches'[k].state # "SETTLED"
    <3>1. CASE k = m
      BY <1>1, <1>4, <2>4, <3>1 DEF JoinMatch, Matches
    <3>2. CASE k # m
      BY <1>1, <2>4, <3>2 DEF JoinMatch
    <3> QED
      BY <3>1, <3>2
  <2>5. ASSUME NEW m \in MatchIds, NEW a, CancelMatch(a, m)
        PROVE  \/ matches'[k] = matches[k]
               \/ settlements[k] = "NONE" /\ matches'[k].playerB = Zero
    <3>1. CASE k = m
      BY <1>1, <1>4, <2>5, <3>1 DEF CancelMatch, Matches, MatchTerms
    <3>2. CASE k # m
      BY <1>1, <2>5, <3>2 DEF CancelMatch
    <3> QED
      BY <3>1, <3>2
  <2>6. ASSUME NEW m \in MatchIds, ExpireMatch(m)
        PROVE  \/ matches'[k] = matches[k]
               \/ settlements[k] = "NONE" /\ matches'[k].state # "SETTLED"
    <3>1. CASE k = m
      BY <1>1, <1>4, <2>6, <3>1 DEF ExpireMatch, Matches, Live
    <3>2. CASE k # m
      BY <1>1, <2>6, <3>2 DEF ExpireMatch
    <3> QED
      BY <3>1, <3>2
  <2>7. CASE PlayerCalls
    BY <1>2, <1>3, <2>1, <2>3, <2>4, <2>5, <2>6, <2>7 DEF PlayerCalls
  <2>8. GameAdministration \/ OwnerCalls \/ Withdrawals \/ Tick => UNCHANGED matches
    BY DEF GameAdministration, RegisterGame, SetStudioFee, SetMatchTimeout,
       UpdateGameVerifiers, ConfigureGame, OwnerCalls, SetSettlement,
       PauseRegistry, WithdrawFees, Withdrawals, Withdraw, Tick
  <2> QED
    BY <1>5, <2>2, <2>7, <2>8 DEF RegistryStep
<1>6. CASE Settling
  <2>1. CASE UNCHANGED <<matches, settlements>>
    BY <1>2, <2>1
  <2>2. CASE \E m \in MatchIds : Disputes(m)
    BY <1>1, <1>2, <1>3, <1>4, <2>2 DEF Disputes, Matches
  <2>3. CASE \E m \in MatchIds, outcome \in OutcomeCodes : Closes(m, outcome)
    <3>1. PICK m \in MatchIds, outcome \in OutcomeCodes : Closes(m, outcome)
      BY <2>3
    <3>2. CASE k = m
      BY <1>1, <3>1, <3>2 DEF Closes, Matches
    <3>3. CASE k # m
      BY <1>1, <1>2, <3>1, <3>3 DEF Closes
    <3> QED
      BY <3>2, <3>3
  <2> QED
    BY <1>6, <2>1, <2>2, <2>3, SettlingStep
<1>7. CASE SettlementAdministration \/ UNCHANGED vars
  BY <1>2, <1>7 DEF SettlementAdministration, UpdateProtocolFeeBps,
     UpdateProtocolFeeRecipient, PauseSettlement, vars, registryVars, settlementVars
<1> QED
  BY <1>5, <1>6, <1>7 DEF Next

\* The registry shows a match settled between two players exactly when the
\* settlement contract recorded an outcome for it.
THEOREM ContractsAgree == Spec => []SettledIffRecorded
BY RecordInit, RecordStep, SettlementInvariance, PTL DEF Spec

-----------------------------------------------------------------------------
(***************************************************************************)
(* The owner's pot.                                                        *)
(***************************************************************************)

\* A payout charges a fee only for a recipient it names.
LEMMA NoPotFees ==
  ASSUME SettlementInv, NEW m \in MatchIds, NEW outcome \in OutcomeCodes
  PROVE  PotFees(Payment(m, outcome)) = 0
<1>1. protocolFeeRecipient # Zero
  BY RegistryAssumption DEF SettlementInv, FeeRecipients
<1>2. CASE outcome = "CANCELLED"
  BY <1>1, <1>2 DEF Payment, NoPayment, PotFees
<1>3. CASE outcome # "CANCELLED"
  <2>1. /\ Payment(m, outcome).studio = GameOf(m).studioFeeRecipient
        /\ Payment(m, outcome).studioFee = StudioFee(m)
        /\ Payment(m, outcome).protocol = protocolFeeRecipient
    BY <1>3 DEF Payment
  <2>2. GameOf(m).studioFeeRecipient = Zero => StudioFee(m) = 0
    BY DEF StudioFee
  <2> QED
    BY <1>1, <2>1, <2>2 DEF PotFees
<1> QED
  BY <1>2, <1>3

LEMMA EmptyPotStep ==
  SettlementInv /\ FeePotStaysEmpty /\ [Next]_vars => FeePotStaysEmpty'
<1> SUFFICES ASSUME SettlementInv, FeePotStaysEmpty, [Next]_vars
             PROVE  FeePotStaysEmpty'
  OBVIOUS
<1>1. feeBalances \in [Tokens -> Nat]
  BY DEF SettlementInv, RegistryInv, StorageTypes
<1>2. ASSUME UNCHANGED feeBalances PROVE FeePotStaysEmpty'
  BY <1>2 DEF FeePotStaysEmpty
<1>3. ASSUME NEW m \in MatchIds, NEW newState, NEW pay, PotFees(pay) = 0,
             SettleMatch(m, newState, pay)
      PROVE  FeePotStaysEmpty'
  <2>1. feeBalances' = [feeBalances EXCEPT ![TokenOf(m)] = feeBalances[TokenOf(m)] + 0]
    BY <1>3 DEF SettleMatch, Plus
  <2> QED
    BY <1>1, <2>1 DEF FeePotStaysEmpty
<1>4. ASSUME NEW m \in MatchIds, NEW outcome \in OutcomeCodes, Payout(m, outcome)
      PROVE  FeePotStaysEmpty'
  BY <1>3, <1>4, NoPotFees DEF Payout
<1>5. PotFees(NoPayment) = 0
  BY DEF PotFees, NoPayment
<1>6. CASE RegistryStep /\ UNCHANGED settlementVars
  <2>1. CASE OwnerCalls
    BY <1>2, <2>1 DEF OwnerCalls, SetSettlement, PauseRegistry, WithdrawFees,
       FeePotStaysEmpty, money
  <2>2. CASE GameAdministration \/ Withdrawals \/ Tick
    BY <1>2, <2>2 DEF GameAdministration, RegisterGame, SetStudioFee,
       SetMatchTimeout, UpdateGameVerifiers, ConfigureGame, Withdrawals,
       Withdraw, Tick, money
  <2>3. CASE PlayerCalls
    BY <1>2, <2>3 DEF PlayerCalls, CreateMatch, JoinMatch, CancelMatch,
       ExpireMatch
  <2> QED
    BY <1>6, <2>1, <2>2, <2>3 DEF RegistryStep
<1>7. CASE Settling
  <2>1. ASSUME NEW m \in MatchIds, NEW a \in Accounts, NEW result \in RtResults,
               SubmitRealTimeHashResult(m, a, result)
        PROVE  FeePotStaysEmpty'
    <3>1. CASE AwaitOpponent(m, a, result)
      BY <1>2, <3>1 DEF AwaitOpponent, registryVars
    <3>2. CASE AgreeWithOpponent(m, a, result)
      BY <1>4, <3>2 DEF AgreeWithOpponent, RtResults
    <3>3. CASE DisagreeWithOpponent(m, a, result)
      BY <1>3, <1>5, <3>3 DEF DisagreeWithOpponent
    <3> QED
      BY <2>1, <3>1, <3>2, <3>3 DEF SubmitRealTimeHashResult
  <2> QED
    BY <1>4, <1>7, <2>1 DEF Settling, SubmitAsyncResult, ResolveDispute
<1>8. CASE SettlementAdministration \/ UNCHANGED vars
  BY <1>2, <1>8 DEF SettlementAdministration, UpdateProtocolFeeBps,
     UpdateProtocolFeeRecipient, PauseSettlement, vars, registryVars
<1> QED
  BY <1>6, <1>7, <1>8 DEF Next

\* No fee is ever stranded in the owner's pot, whatever recipients studios and
\* the owner configure or clear between stake and payout: a studio without a
\* recipient is charged no fee and the protocol's recipient is never address(0).
THEOREM EmptyPot == Spec => []FeePotStaysEmpty
<1>1. Init => FeePotStaysEmpty
  BY DEF Init, RegistryInit, FeePotStaysEmpty
<1> QED
  BY <1>1, EmptyPotStep, SettlementInvariance, PTL DEF Spec

-----------------------------------------------------------------------------
(***************************************************************************)
(* Agreement.  That an agreement binds is inductive only with three facts  *)
(* about the registry: the players of a created match are two accounts, an *)
(* id not yet registered names the game that nobody administers, and a     *)
(* match with an outcome names a registered game, so that registerGame     *)
(* cannot put it into hash-agreement mode afterwards.                      *)
(***************************************************************************)
TwoPlayers ==
  \A m \in MatchIds : Created(m) => matches[m].playerA # matches[m].playerB

UnregisteredGames == \A g \in GameIds : g >= nextGameId => games[g] = NoGame

RecordedOnRegistered ==
  \A m \in MatchIds : settlements[m] # "NONE" => matches[m].gameId < nextGameId

AgreementInv == TwoPlayers /\ UnregisteredGames /\ RecordedOnRegistered

LEMMA AgreementInit == Init => AgreementInv /\ AgreementBinds
<1> SUFFICES ASSUME Init PROVE AgreementInv /\ AgreementBinds
  OBVIOUS
<1>1. TwoPlayers /\ UnregisteredGames
  BY DEF Init, RegistryInit, NoMatch, TwoPlayers, UnregisteredGames, Created
<1>2. RecordedOnRegistered /\ AgreementBinds
  BY DEF Init, RegistryInit, NoMatch, RecordedOnRegistered, AgreementBinds
<1> QED
  BY <1>1, <1>2 DEF AgreementInv

\* What a step of the registry does to one match and to the registered games.
LEMMA RegistryMatchStep ==
  ASSUME SettlementInv, RegistryStep, NEW k \in MatchIds
  PROVE  \/ matches'[k] = matches[k]
         \/ /\ ~Created(k) /\ matches'[k].playerA # Zero
            /\ matches'[k].playerB = Zero /\ matches'[k].state = "OPEN"
         \/ /\ matches[k].state = "OPEN" /\ matches'[k].state = "READY"
            /\ matches'[k].playerA = matches[k].playerA
            /\ matches'[k].playerB # matches[k].playerA
            /\ matches'[k].gameId = matches[k].gameId
         \/ /\ matches[k].state \in Live /\ matches'[k].state \in {"SETTLED", "EXPIRED"}
            /\ matches'[k].playerA = matches[k].playerA
            /\ matches'[k].playerB = matches[k].playerB
            /\ matches'[k].gameId = matches[k].gameId
<1> DEFINE Goal ==
         \/ matches'[k] = matches[k]
         \/ /\ ~Created(k) /\ matches'[k].playerA # Zero
            /\ matches'[k].playerB = Zero /\ matches'[k].state = "OPEN"
         \/ /\ matches[k].state = "OPEN" /\ matches'[k].state = "READY"
            /\ matches'[k].playerA = matches[k].playerA
            /\ matches'[k].playerB # matches[k].playerA
            /\ matches'[k].gameId = matches[k].gameId
         \/ /\ matches[k].state \in Live /\ matches'[k].state \in {"SETTLED", "EXPIRED"}
            /\ matches'[k].playerA = matches[k].playerA
            /\ matches'[k].playerB = matches[k].playerB
            /\ matches'[k].gameId = matches[k].gameId
<1>1. matches \in [MatchIds -> Matches] /\ matches[k] \in Matches
  BY DEF SettlementInv, RegistryInv, StorageTypes
<1>2. ASSUME UNCHANGED matches PROVE Goal
  BY <1>2
<1>3. ASSUME NEW m \in MatchIds, NEW a \in Players, NEW g, NEW n, CreateMatch(a, g, m, n)
      PROVE  Goal
  <2>1. CASE k = m
    <3>1. matches'[k].playerA = a /\ matches'[k].playerB = Zero
          /\ matches'[k].state = "OPEN"
      BY <1>1, <1>3, <2>1 DEF CreateMatch, NoMatch
    <3> QED
      BY <1>3, <2>1, <3>1, RegistryAssumption DEF CreateMatch
  <2>2. CASE k # m
    BY <1>1, <1>3, <2>2 DEF CreateMatch
  <2> QED
    BY <2>1, <2>2
<1>4. ASSUME NEW m \in MatchIds, NEW b, JoinMatch(b, m) PROVE Goal
  <2>1. CASE k = m
    BY <1>1, <1>4, <2>1 DEF JoinMatch, Matches
  <2>2. CASE k # m
    BY <1>1, <1>4, <2>2 DEF JoinMatch
  <2> QED
    BY <2>1, <2>2
<1>5. ASSUME NEW m \in MatchIds, NEW a, CancelMatch(a, m) PROVE Goal
  <2>1. CASE k = m
    BY <1>1, <1>5, <2>1 DEF CancelMatch, Matches, Live
  <2>2. CASE k # m
    BY <1>1, <1>5, <2>2 DEF CancelMatch
  <2> QED
    BY <2>1, <2>2
<1>6. ASSUME NEW m \in MatchIds, ExpireMatch(m) PROVE Goal
  <2>1. CASE k = m
    BY <1>1, <1>6, <2>1 DEF ExpireMatch, Matches
  <2>2. CASE k # m
    BY <1>1, <1>6, <2>2 DEF ExpireMatch
  <2> QED
    BY <2>1, <2>2
<1> HIDE DEF Goal
<1>7. ASSUME PlayerCalls PROVE Goal
  BY <1>3, <1>4, <1>5, <1>6, <1>7 DEF PlayerCalls
<1>8. ASSUME GameAdministration PROVE Goal
  BY <1>2, <1>8 DEF GameAdministration, RegisterGame, SetStudioFee,
     SetMatchTimeout, UpdateGameVerifiers, ConfigureGame
<1>9. ASSUME OwnerCalls \/ Withdrawals \/ Tick PROVE Goal
  BY <1>2, <1>9 DEF OwnerCalls, SetSettlement, PauseRegistry, WithdrawFees,
     Withdrawals, Withdraw, Tick
<1>10. Goal
  BY <1>7, <1>8, <1>9 DEF RegistryStep
<1> QED
  BY <1>10 DEF Goal

\* Ids are handed out in order, a registered game keeps its mode, and nobody
\* configures an id before it is handed out.
LEMMA GamesStep ==
  ASSUME SettlementInv, UnregisteredGames, RegistryStep
  PROVE  /\ nextGameId' \in Nat /\ nextGameId' >= nextGameId
         /\ \A g \in GameIds :
              /\ g < nextGameId => games'[g].mode = games[g].mode
              /\ g >= nextGameId' => games'[g] = NoGame
<1> DEFINE Goal == /\ nextGameId' \in Nat /\ nextGameId' >= nextGameId
                   /\ \A g \in GameIds :
                        /\ g < nextGameId => games'[g].mode = games[g].mode
                        /\ g >= nextGameId' => games'[g] = NoGame
<1>1. /\ games \in [GameIds -> Games] /\ nextGameId \in Nat /\ MaxGames \in Nat
      /\ nextGameId \in 0 .. MaxGames
  BY RegistryAssumption DEF SettlementInv, RegistryInv, StorageTypes
<1>2. GameIds \subseteq Nat
  BY <1>1 DEF GameIds
<1>3. ASSUME UNCHANGED <<games, nextGameId>> PROVE Goal
  BY <1>1, <1>3 DEF UnregisteredGames
<1>4. ASSUME NEW a, NEW c, RegisterGame(a, c) PROVE Goal
  <2>1. nextGameId' = nextGameId + 1
    BY <1>4 DEF RegisterGame
  <2>2. ASSUME NEW g \in GameIds, g # nextGameId PROVE games'[g] = games[g]
    BY <1>1, <1>4, <2>2 DEF RegisterGame
  <2>3. nextGameId' \in Nat /\ nextGameId' >= nextGameId
    BY <1>1, <2>1
  <2>4. ASSUME NEW g \in GameIds, g < nextGameId PROVE games'[g].mode = games[g].mode
    BY <1>1, <1>2, <2>2, <2>4
  <2>5. ASSUME NEW g \in GameIds, g >= nextGameId' PROVE games'[g] = NoGame
    <3>1. g # nextGameId /\ g >= nextGameId
      BY <1>1, <1>2, <2>1, <2>5
    <3> QED
      BY <2>2, <3>1 DEF UnregisteredGames
  <2> QED
    BY <2>3, <2>4, <2>5
<1>5. ASSUME NEW a \in Admins, NEW h \in GameIds, NEW changed, ConfigureGame(a, h, changed),
             changed.mode = games[h].mode
      PROVE  Goal
  <2>1. a # Zero
    BY RegistryAssumption
  <2>2. ~(h >= nextGameId)
    BY <1>5, <2>1 DEF ConfigureGame, UnregisteredGames, NoGame
  <2>3. ASSUME NEW g \in GameIds, g # h PROVE games'[g] = games[g]
    BY <1>1, <1>5, <2>3 DEF ConfigureGame
  <2>4. games'[h].mode = games[h].mode /\ nextGameId' = nextGameId
    BY <1>1, <1>5 DEF ConfigureGame
  <2>5. ASSUME NEW g \in GameIds PROVE games'[g].mode = games[g].mode
    BY <2>3, <2>4
  <2>6. ASSUME NEW g \in GameIds, g >= nextGameId' PROVE games'[g] = NoGame
    BY <2>2, <2>3, <2>4, <2>6 DEF UnregisteredGames
  <2> QED
    BY <1>1, <2>4, <2>5, <2>6
<1>6. ASSUME NEW h \in GameIds PROVE games[h] \in Games
  BY <1>1
<1> HIDE DEF Goal
<1>7. ASSUME NEW a \in Admins, NEW h \in GameIds, NEW bps, NEW r, SetStudioFee(a, h, bps, r)
      PROVE  Goal
  BY <1>5, <1>6, <1>7 DEF SetStudioFee, Games
<1>8. ASSUME NEW a \in Admins, NEW h \in GameIds, NEW d, SetMatchTimeout(a, h, d)
      PROVE  Goal
  BY <1>5, <1>6, <1>8 DEF SetMatchTimeout, Games
<1>9. ASSUME NEW a \in Admins, NEW h \in GameIds, NEW v, UpdateGameVerifiers(a, h, v)
      PROVE  Goal
  BY <1>5, <1>6, <1>9 DEF UpdateGameVerifiers, Games
<1>10. ASSUME GameAdministration PROVE Goal
  BY <1>4, <1>7, <1>8, <1>9, <1>10 DEF GameAdministration
<1>11. ASSUME PlayerCalls PROVE Goal
  BY <1>3, <1>11 DEF PlayerCalls, CreateMatch, JoinMatch, CancelMatch, ExpireMatch
<1>12. ASSUME OwnerCalls \/ Withdrawals \/ Tick PROVE Goal
  BY <1>3, <1>12 DEF OwnerCalls, SetSettlement, PauseRegistry, WithdrawFees,
     Withdrawals, Withdraw, Tick
<1>13. Goal
  BY <1>10, <1>11, <1>12 DEF RegistryStep
<1> QED
  BY <1>13 DEF Goal

\* Whoever closes a match does so under a game that was registered: an id not
\* yet registered has no verifier, no arbiter and no hash agreement.
LEMMA ClosersAreRegistered ==
  ASSUME SettlementInv, UnregisteredGames, NEW m \in MatchIds, NEW a \in Accounts
  PROVE  /\ a \in GameOf(m).verifiers => matches[m].gameId < nextGameId
         /\ a = GameOf(m).arbiter => matches[m].gameId < nextGameId
         /\ GameOf(m).mode = "RT_HASH_AGREE" => matches[m].gameId < nextGameId
<1>1. matches[m].gameId \in GameIds /\ nextGameId \in Nat /\ GameIds \subseteq Nat
  BY MatchFields, RegistryAssumption
     DEF SettlementInv, RegistryInv, StorageTypes, GameIds
<1>2. ASSUME ~(matches[m].gameId < nextGameId) PROVE GameOf(m) = NoGame
  <2>1. matches[m].gameId >= nextGameId
    <3>1. matches[m].gameId \in Nat /\ nextGameId \in Nat
      BY <1>1
    <3> QED
      BY <1>2, <3>1
  <2> QED
    BY <1>1, <2>1 DEF UnregisteredGames, GameOf
<1>3. a # Zero
  BY RegistryAssumption
<1> QED
  BY <1>2, <1>3 DEF NoGame

LEMMA AgreementInvStep ==
  ASSUME SettlementInv, AgreementInv, [Next]_vars
  PROVE  AgreementInv'
<1>1. /\ matches \in [MatchIds -> Matches] /\ Opponents
      /\ settlements \in [MatchIds -> OutcomeCodes]
      /\ TwoPlayers /\ UnregisteredGames /\ RecordedOnRegistered
      /\ nextGameId \in Nat /\ GameIds \subseteq Nat
  BY RegistryAssumption DEF SettlementInv, RegistryInv, StorageTypes,
     SettlementTypes, AgreementInv, GameIds
<1>2. CASE RegistryStep /\ UNCHANGED settlementVars
  <2>1. settlements' = settlements
    BY <1>2 DEF settlementVars
  <2>2. TwoPlayers'
    <3> SUFFICES ASSUME NEW k \in MatchIds, Created(k)'
                 PROVE  matches'[k].playerA # matches'[k].playerB
      BY DEF TwoPlayers
    <3> QED
      BY <1>1, <1>2, RegistryMatchStep DEF TwoPlayers, Created
  <2>3. nextGameId' \in Nat /\ nextGameId' >= nextGameId /\ UnregisteredGames'
    BY <1>1, <1>2, GamesStep DEF UnregisteredGames
  <2>4. RecordedOnRegistered'
    <3> SUFFICES ASSUME NEW k \in MatchIds, settlements'[k] # "NONE"
                 PROVE  matches'[k].gameId < nextGameId'
      BY DEF RecordedOnRegistered
    <3>1. Created(k) /\ matches[k].gameId < nextGameId /\ matches[k].gameId \in Nat
      BY <1>1, <2>1 DEF RecordedOnRegistered, Opponents, Matches
    <3>2. matches'[k].gameId = matches[k].gameId
      BY <1>2, <3>1, RegistryMatchStep
    <3> QED
      BY <1>1, <2>3, <3>1, <3>2
  <2> QED
    BY <2>2, <2>3, <2>4 DEF AgreementInv
<1>3. ASSUME UNCHANGED <<matches, games, nextGameId, settlements>>
      PROVE  AgreementInv'
  BY <1>1, <1>3 DEF AgreementInv, TwoPlayers, UnregisteredGames,
     RecordedOnRegistered, Created
<1>4. ASSUME NEW m \in MatchIds, NEW newState, NEW pay, SettleMatch(m, newState, pay),
             \/ UNCHANGED settlements
             \/ /\ matches[m].gameId < nextGameId
                /\ \E outcome : settlements' = [settlements EXCEPT ![m] = outcome]
      PROVE  AgreementInv'
  <2>1. /\ matches' = [matches EXCEPT ![m].state = newState]
        /\ UNCHANGED <<games, nextGameId>>
    BY <1>4 DEF SettleMatch
  <2>2. ASSUME NEW k \in MatchIds
        PROVE  /\ matches'[k].playerA = matches[k].playerA
               /\ matches'[k].playerB = matches[k].playerB
               /\ matches'[k].gameId = matches[k].gameId
    BY <1>1, <2>1 DEF Matches
  <2>3. TwoPlayers' /\ UnregisteredGames'
    BY <1>1, <2>1, <2>2 DEF TwoPlayers, UnregisteredGames, Created
  <2>4. ASSUME NEW k \in MatchIds, settlements'[k] # "NONE"
        PROVE  matches[k].gameId < nextGameId
    BY <1>1, <1>4, <2>4 DEF RecordedOnRegistered
  <2> QED
    BY <2>1, <2>2, <2>3, <2>4 DEF AgreementInv, RecordedOnRegistered
<1>5. ASSUME NEW m \in MatchIds, NEW outcome, Payout(m, outcome),
             matches[m].gameId < nextGameId
      PROVE  AgreementInv'
  BY <1>4, <1>5 DEF Payout
<1>6. ASSUME NEW m \in MatchIds, NEW a \in Accounts, NEW result \in RtResults,
             SubmitRealTimeHashResult(m, a, result)
      PROVE  AgreementInv'
  <2>1. CASE AwaitOpponent(m, a, result)
    BY <1>3, <2>1 DEF AwaitOpponent, registryVars
  <2>2. CASE AgreeWithOpponent(m, a, result)
    <3>1. matches[m].gameId < nextGameId
      BY <1>1, <2>2, ClosersAreRegistered DEF AgreeWithOpponent, RecordRtResult
    <3> QED
      BY <1>5, <2>2, <3>1 DEF AgreeWithOpponent
  <2>3. CASE DisagreeWithOpponent(m, a, result)
    BY <1>4, <2>3 DEF DisagreeWithOpponent
  <2> QED
    BY <1>6, <2>1, <2>2, <2>3 DEF SubmitRealTimeHashResult
<1>7. ASSUME NEW m \in MatchIds, NEW a \in Accounts, NEW outcome \in OutcomeCodes,
             SubmitAsyncResult(m, outcome, a) \/ ResolveDispute(m, a, outcome)
      PROVE  AgreementInv'
  <2>1. matches[m].gameId < nextGameId /\ Payout(m, outcome)
    BY <1>1, <1>7, ClosersAreRegistered DEF SubmitAsyncResult, ResolveDispute
  <2> QED
    BY <1>5, <2>1
<1>8. CASE Settling
  BY <1>6, <1>7, <1>8 DEF Settling
<1>9. CASE SettlementAdministration \/ UNCHANGED vars
  BY <1>3, <1>9 DEF SettlementAdministration, UpdateProtocolFeeBps,
     UpdateProtocolFeeRecipient, PauseSettlement, vars, registryVars, settlementVars
<1> QED
  BY <1>2, <1>8, <1>9 DEF Next

\* What AgreementBinds says of one match.
Binds(m) ==
  /\ matches[m].state = "DISPUTED"
       => rtResults[m][matches[m].playerA] # rtResults[m][matches[m].playerB]
  /\ Created(m) /\ GameOf(m).mode = "RT_HASH_AGREE" /\ settlements[m] # "NONE"
     /\ rtResults[m][matches[m].playerA] = rtResults[m][matches[m].playerB]
       => settlements[m] = rtResults[m][matches[m].playerA].outcome

\* A match the step leaves alone stays bound.
LEMMA OtherBinds ==
  ASSUME NEW k \in MatchIds, Binds(k),
         matches'[k] = matches[k], rtResults'[k] = rtResults[k],
         settlements'[k] = settlements[k],
         settlements[k] # "NONE" => GameOf(k)'.mode = GameOf(k).mode
  PROVE  Binds(k)'
BY DEF Binds, Created

LEMMA RegistryBinds ==
  ASSUME SettlementInv, AgreementInv, SettledIffRecorded, NEW k \in MatchIds,
         Binds(k), RegistryStep, UNCHANGED settlementVars
  PROVE  Binds(k)'
<1>1. /\ matches[k] \in Matches /\ matches[k].gameId \in GameIds /\ Opponents
      /\ UNCHANGED <<settlements, rtResults>>
  BY MatchFields DEF SettlementInv, RegistryInv, settlementVars
<1>2. matches[k].state # "SETTLED" => settlements[k] = "NONE"
  BY <1>1 DEF SettledIffRecorded, Opponents
<1>3. CASE matches'[k] = matches[k]
  <2>1. settlements[k] # "NONE" => GameOf(k)'.mode = GameOf(k).mode
    BY <1>1, <1>3, GamesStep DEF AgreementInv, RecordedOnRegistered, GameOf
  <2> QED
    BY <1>1, <1>3, <2>1, OtherBinds
<1>4. CASE matches'[k] # matches[k]
  <2>1. settlements'[k] = "NONE" /\ matches'[k].state # "DISPUTED"
    BY <1>1, <1>2, <1>4, RegistryMatchStep DEF Opponents, Live
  <2> QED
    BY <2>1 DEF Binds
<1> QED
  BY <1>3, <1>4

LEMMA SettlingBinds ==
  ASSUME SettlementInv, AgreementInv, SettledIffRecorded, NEW k \in MatchIds,
         Binds(k), Settling
  PROVE  Binds(k)'
<1>1. /\ matches \in [MatchIds -> Matches] /\ matches[k] \in Matches /\ Opponents
      /\ settlements \in [MatchIds -> OutcomeCodes]
      /\ rtResults \in [MatchIds -> [Addr -> RtResults]]
      /\ matches[k].playerA \in Addr /\ matches[k].playerB \in Addr
  BY MatchFields DEF SettlementInv, RegistryInv, StorageTypes, SettlementTypes
<1>2. matches[k].state # "SETTLED" => settlements[k] = "NONE"
  BY <1>1 DEF SettledIffRecorded, Opponents
<1>3. games' = games
  BY SettlingStep
<1>4. ASSUME NEW m \in MatchIds, NEW newState, NEW pay, SettleMatch(m, newState, pay)
      PROVE  /\ k # m => matches'[k] = matches[k]
             /\ k = m => /\ matches'[k].state = newState
                         /\ matches'[k].playerA = matches[k].playerA
                         /\ matches'[k].playerB = matches[k].playerB
                         /\ GameOf(k)' = GameOf(k)
  BY <1>1, <1>3, <1>4 DEF SettleMatch, Matches, GameOf
<1>5. ASSUME NEW m \in MatchIds, k # m, matches'[k] = matches[k],
             rtResults'[k] = rtResults[k], settlements'[k] = settlements[k]
      PROVE  Binds(k)'
  BY <1>3, <1>5, OtherBinds DEF GameOf
<1>6. ASSUME NEW m \in MatchIds, NEW outcome, Payout(m, outcome)
      PROVE  /\ k # m => matches'[k] = matches[k] /\ settlements'[k] = settlements[k]
             /\ k = m => /\ settlements'[k] = outcome /\ matches'[k].state = "SETTLED"
                         /\ matches'[k].playerA = matches[k].playerA
                         /\ matches'[k].playerB = matches[k].playerB
                         /\ GameOf(k)' = GameOf(k)
  BY <1>1, <1>4, <1>6 DEF Payout
<1>7. ASSUME NEW m \in MatchIds, NEW a \in Accounts, NEW outcome \in OutcomeCodes,
             SubmitAsyncResult(m, outcome, a)
      PROVE  Binds(k)'
  <2>1. Payout(m, outcome) /\ rtResults' = rtResults
        /\ GameOf(m).mode = "ASYNC_VERIFIER"
    BY <1>7 DEF SubmitAsyncResult
  <2>2. CASE k = m
    BY <1>6, <2>1, <2>2 DEF Binds
  <2>3. CASE k # m
    BY <1>5, <1>6, <2>1, <2>3
  <2> QED
    BY <2>2, <2>3
<1>8. ASSUME NEW m \in MatchIds, NEW a \in Accounts, NEW outcome \in OutcomeCodes,
             ResolveDispute(m, a, outcome)
      PROVE  Binds(k)'
  <2>1. Payout(m, outcome) /\ rtResults' = rtResults
        /\ matches[m].state = "DISPUTED"
    BY <1>8 DEF ResolveDispute
  <2>2. CASE k = m
    BY <1>6, <2>1, <2>2 DEF Binds
  <2>3. CASE k # m
    BY <1>5, <1>6, <2>1, <2>3
  <2> QED
    BY <2>2, <2>3
<1>9. ASSUME NEW m \in MatchIds, NEW a \in Accounts, NEW result \in RtResults,
             RecordRtResult(m, a, result)
      PROVE  /\ k # m => rtResults'[k] = rtResults[k]
             /\ k = m => /\ rtResults'[k][a] = result
                         /\ \A b \in Addr : b # a => rtResults'[k][b] = rtResults[k][b]
             /\ matches[m].state = "READY"
             /\ a \in {matches[m].playerA, matches[m].playerB}
  BY <1>1, <1>9 DEF RecordRtResult, Addr
<1>10. ASSUME NEW m \in MatchIds, NEW a \in Accounts, NEW result \in RtResults,
              AwaitOpponent(m, a, result)
       PROVE  Binds(k)'
  <2>1. RecordRtResult(m, a, result) /\ UNCHANGED <<matches, settlements>>
    BY <1>10 DEF AwaitOpponent, registryVars
  <2>2. CASE k = m
    <3>1. matches'[k].state = "READY" /\ settlements'[k] = "NONE"
      BY <1>2, <1>9, <2>1, <2>2
    <3> QED
      BY <3>1 DEF Binds
  <2>3. CASE k # m
    BY <1>5, <1>9, <2>1, <2>3
  <2> QED
    BY <2>2, <2>3
<1>11. ASSUME NEW m \in MatchIds, NEW a \in Accounts, NEW result \in RtResults,
              AgreeWithOpponent(m, a, result)
       PROVE  Binds(k)'
  <2>1. /\ RecordRtResult(m, a, result) /\ Payout(m, result.outcome)
        /\ rtResults[m][Opponent(m, a)] = result
    BY <1>11 DEF AgreeWithOpponent
  <2>2. CASE k = m
    <3>1. rtResults'[k][matches[k].playerA] = result
          /\ rtResults'[k][matches[k].playerB] = result
      BY <1>1, <1>9, <2>1, <2>2 DEF Opponent
    <3> QED
      BY <1>6, <2>1, <2>2, <3>1 DEF Binds
  <2>3. CASE k # m
    BY <1>5, <1>6, <1>9, <2>1, <2>3
  <2> QED
    BY <2>2, <2>3
<1>12. ASSUME NEW m \in MatchIds, NEW a \in Accounts, NEW result \in RtResults,
              DisagreeWithOpponent(m, a, result)
       PROVE  Binds(k)'
  <2>1. /\ RecordRtResult(m, a, result) /\ SettleMatch(m, "DISPUTED", NoPayment)
        /\ rtResults[m][Opponent(m, a)].outcome # "NONE"
        /\ rtResults[m][Opponent(m, a)] # result
        /\ settlements' = settlements
    BY <1>12 DEF DisagreeWithOpponent
  <2>2. CASE k = m
    <3>1. settlements'[k] = "NONE"
      BY <1>2, <1>9, <2>1, <2>2
    <3>2. a # Zero /\ rtResults[k][Zero].outcome = "NONE"
      BY <1>1, RegistryAssumption DEF Opponents, NoResult
    <3>3. Created(k)
      BY <1>9, <2>1, <2>2, <3>2 DEF Opponent, Created
    <3>4. matches[k].playerA # matches[k].playerB
      BY <3>3 DEF AgreementInv, TwoPlayers
    <3>5. rtResults'[k][matches[k].playerA] # rtResults'[k][matches[k].playerB]
      BY <1>1, <1>9, <2>1, <2>2, <3>4 DEF Opponent
    <3> QED
      BY <1>4, <2>1, <2>2, <3>1, <3>5 DEF Binds
  <2>3. CASE k # m
    BY <1>4, <1>5, <1>9, <2>1, <2>3
  <2> QED
    BY <2>2, <2>3
<1> QED
  BY <1>7, <1>8, <1>10, <1>11, <1>12 DEF Settling, SubmitRealTimeHashResult

LEMMA AgreementStep ==
  ASSUME SettlementInv, AgreementInv, SettledIffRecorded, AgreementBinds, [Next]_vars
  PROVE  AgreementBinds'
<1> SUFFICES ASSUME NEW k \in MatchIds PROVE Binds(k)'
  BY DEF AgreementBinds, Binds
<1>1. Binds(k)
  BY DEF AgreementBinds, Binds
<1>2. CASE RegistryStep /\ UNCHANGED settlementVars
  BY <1>1, <1>2, RegistryBinds
<1>3. CASE Settling
  BY <1>1, <1>3, SettlingBinds
<1>4. CASE SettlementAdministration \/ UNCHANGED vars
  <2>1. UNCHANGED <<games, matches, settlements, rtResults>>
    BY <1>4 DEF SettlementAdministration, UpdateProtocolFeeBps,
       UpdateProtocolFeeRecipient, PauseSettlement, vars, registryVars, settlementVars
  <2> QED
    BY <1>1, <2>1, OtherBinds DEF GameOf
<1> QED
  BY <1>2, <1>3, <1>4 DEF Next

\* In hash-agreement mode two equal reports can neither be disputed nor
\* overruled, whatever the players reported before, and whatever the owner,
\* the studio and the arbiter do, on registered games and early ones.
THEOREM AgreementsBind == Spec => []AgreementBinds
<1>1. SettlementInv /\ AgreementInv /\ [Next]_vars => AgreementInv'
  BY AgreementInvStep
<1>2. SettlementInv /\ AgreementInv /\ SettledIffRecorded /\ AgreementBinds
        /\ [Next]_vars => AgreementBinds'
  BY AgreementStep
<1> QED
  BY <1>1, <1>2, AgreementInit, SettlementInvariance, ContractsAgree, PTL DEF Spec

-----------------------------------------------------------------------------
(***************************************************************************)
(* What a payout, a refund and an expiry credit to one account.            *)
(***************************************************************************)
Share(a, x, n) == IF a = x THEN n ELSE 0

LEMMA ShareType ==
  ASSUME NEW a, NEW x, NEW n \in Nat
  PROVE  Share(a, x, n) \in 0 .. n
BY DEF Share

LEMMA PlusAt ==
  ASSUME NEW f \in [Addr -> Nat], NEW x \in Addr, NEW n \in Nat, NEW a \in Addr
  PROVE  /\ Plus(f, x, n) \in [Addr -> Nat]
         /\ Plus(f, x, n)[a] = f[a] + Share(a, x, n)
BY DEF Plus, Share

LEMMA CreditFeeAt ==
  ASSUME NEW f \in [Addr -> Nat], NEW r \in Addr, NEW n \in Nat, NEW a \in Addr
  PROVE  /\ CreditFee(f, r, n) \in [Addr -> Nat]
         /\ \E fee \in 0 .. n : CreditFee(f, r, n)[a] = f[a] + fee
<1>1. CASE r = Zero
  BY <1>1 DEF CreditFee
<1>2. CASE r # Zero
  <2>1. CreditFee(f, r, n) = Plus(f, r, n)
    BY <1>2 DEF CreditFee
  <2>2. Share(a, r, n) \in 0 .. n
    BY ShareType
  <2> QED
    BY <2>1, <2>2, PlusAt
<1> QED
  BY <1>1, <1>2

\* A payment credits each player's share, and fees to whoever receives them.
LEMMA PaidAt ==
  ASSUME StorageTypes, NEW m \in MatchIds, NEW pay \in Payments,
         NEW f \in [Addr -> Nat], NEW a \in Addr
  PROVE  \E fees \in 0 .. pay.studioFee + pay.protocolFee :
           Paid(m, pay, f)[a] = f[a] + fees
                                + Share(a, matches[m].playerA, pay.toA)
                                + Share(a, matches[m].playerB, pay.toB)
<1> DEFINE f1 == CreditFee(f, pay.studio, pay.studioFee)
           f2 == CreditFee(f1, pay.protocol, pay.protocolFee)
           f3 == Plus(f2, matches[m].playerA, pay.toA)
           f4 == Plus(f3, matches[m].playerB, pay.toB)
<1>1. /\ pay.studio \in Addr /\ pay.protocol \in Addr
      /\ pay.studioFee \in Nat /\ pay.protocolFee \in Nat
      /\ pay.toA \in Nat /\ pay.toB \in Nat
  BY DEF Payments
<1>2. matches[m].playerA \in Addr /\ matches[m].playerB \in Addr
  BY MatchFields
<1>3. Paid(m, pay, f) = f4
  BY DEF Paid
<1>4. f1 \in [Addr -> Nat] /\ \E fee \in 0 .. pay.studioFee : f1[a] = f[a] + fee
  <2>1. PICK r \in Addr, n \in Nat : r = pay.studio /\ n = pay.studioFee
    BY <1>1
  <2> QED
    BY <2>1, CreditFeeAt
<1> HIDE DEF f1
<1>5. f2 \in [Addr -> Nat] /\ \E fee \in 0 .. pay.protocolFee : f2[a] = f1[a] + fee
  <2>1. PICK r \in Addr, n \in Nat : r = pay.protocol /\ n = pay.protocolFee
    BY <1>1
  <2> QED
    BY <1>4, <2>1, CreditFeeAt, ZenonT(40)
<1> HIDE DEF f2
<1>6. f3 \in [Addr -> Nat] /\ f3[a] = f2[a] + Share(a, matches[m].playerA, pay.toA)
  <2>1. PICK x \in Addr, n \in Nat : x = matches[m].playerA /\ n = pay.toA
    BY <1>1, <1>2
  <2>2. f2 \in [Addr -> Nat]
    BY <1>5
  <2>3. /\ Plus(f2, x, n) \in [Addr -> Nat]
        /\ Plus(f2, x, n)[a] = f2[a] + Share(a, x, n)
    BY <2>2, PlusAt
  <2> QED
    BY <2>1, <2>3
<1> HIDE DEF f3
<1>7. f4[a] = f3[a] + Share(a, matches[m].playerB, pay.toB)
  <2>1. PICK x \in Addr, n \in Nat : x = matches[m].playerB /\ n = pay.toB
    BY <1>1, <1>2
  <2>2. f3 \in [Addr -> Nat]
    BY <1>6
  <2>3. Plus(f3, x, n)[a] = f3[a] + Share(a, x, n)
    BY <2>2, PlusAt
  <2> QED
    BY <2>1, <2>3
<1> HIDE DEF f4
<1>8. PICK fee1 \in 0 .. pay.studioFee : f1[a] = f[a] + fee1
  BY <1>4
<1>9. PICK fee2 \in 0 .. pay.protocolFee : f2[a] = f1[a] + fee2
  BY <1>5
<1>10. /\ f[a] \in Nat
       /\ Share(a, matches[m].playerA, pay.toA) \in Nat
       /\ Share(a, matches[m].playerB, pay.toB) \in Nat
  BY <1>1, ShareType
<1>11. /\ fee1 + fee2 \in 0 .. pay.studioFee + pay.protocolFee
       /\ f4[a] = f[a] + (fee1 + fee2)
                  + Share(a, matches[m].playerA, pay.toA)
                  + Share(a, matches[m].playerB, pay.toB)
  BY <1>1, <1>6, <1>7, <1>8, <1>9, <1>10
<1> QED
  BY <1>3, <1>11

\* A refund credits each player what the registry received from that player.
LEMMA RefundedAt ==
  ASSUME StorageTypes, MatchTerms, NEW m \in MatchIds, NEW f \in [Addr -> Nat],
         NEW a \in Addr
  PROVE  Refunded(m, f)[a] = f[a] + Share(a, matches[m].playerA, matches[m].stakeAmount)
                                  + Share(a, matches[m].playerB, matches[m].stakeAmountB)
<1>1. /\ matches[m].playerA \in Addr /\ matches[m].playerB \in Addr
      /\ matches[m].stakeAmount \in Nat /\ matches[m].stakeAmountB \in Nat
  BY MatchFields
<1>2. PICK x \in Addr, y \in Addr, toA \in Nat, toB \in Nat :
        /\ x = matches[m].playerA /\ y = matches[m].playerB
        /\ toA = matches[m].stakeAmount /\ toB = matches[m].stakeAmountB
  BY <1>1
<1> DEFINE f1 == Plus(f, x, toA)
<1>3. f1 \in [Addr -> Nat] /\ f1[a] = f[a] + Share(a, x, toA)
  BY PlusAt
<1> HIDE DEF f1
<1>4. f1[a] \in Nat
  BY <1>3
<1>5. CASE matches[m].playerB = Zero
  <2>1. Refunded(m, f) = f1
    BY <1>5, <1>2 DEF Refunded, f1
  <2>2. matches[m].stakeAmountB = 0
    BY <1>5 DEF MatchTerms
  <2>3. Share(a, matches[m].playerB, matches[m].stakeAmountB) = 0
    BY <2>2 DEF Share
  <2> QED
    BY <1>3, <1>4, <1>2, <2>1, <2>3
<1>6. CASE matches[m].playerB # Zero
  <2>1. Refunded(m, f) = Plus(f1, y, toB)
    BY <1>6, <1>2 DEF Refunded, f1
  <2>2. Refunded(m, f)[a] = f1[a] + Share(a, y, toB)
    BY <1>3, <2>1, PlusAt
  <2> QED
    BY <1>3, <1>2, <2>2
<1> QED
  BY <1>5, <1>6

\* The settling call that changes a match disputes it or pays it out.
LEMMA SettlingPays ==
  ASSUME SettlementInv, Settling, NEW k \in MatchIds,
         \/ matches'[k] # matches[k]
         \/ settlements'[k] # settlements[k]
  PROVE  \/ matches'[k].state = "DISPUTED" /\ settlements'[k] = settlements[k]
         \/ \E outcome \in OutcomeCodes \ {"NONE"} :
              Payout(k, outcome) /\ Created(k) /\ matches[k].playerB # Zero
<1> DEFINE Goal ==
             \/ matches'[k].state = "DISPUTED" /\ settlements'[k] = settlements[k]
             \/ \E outcome \in OutcomeCodes \ {"NONE"} :
                  Payout(k, outcome) /\ Created(k) /\ matches[k].playerB # Zero
<1>1. /\ matches \in [MatchIds -> Matches] /\ Opponents
      /\ settlements \in [MatchIds -> OutcomeCodes]
  BY DEF SettlementInv, RegistryInv, StorageTypes, SettlementTypes
<1>2. ASSUME NEW m \in MatchIds, NEW outcome \in OutcomeCodes, Payout(m, outcome),
             matches[m].playerB # Zero
      PROVE  Goal
  <2>1. k = m
    BY <1>1, <1>2 DEF Payout, SettleMatch
  <2>2. settlements'[k] # "NONE" /\ matches'[k].state = "SETTLED"
    BY <1>1, <1>2, <2>1 DEF Payout, SettleMatch
  <2>3. ASSUME NEW n \in MatchIds, Disputes(n) PROVE FALSE
    BY <1>1, <1>2, <2>1, <2>2, <2>3 DEF Disputes
  <2>4. ASSUME NEW n \in MatchIds, NEW o \in OutcomeCodes, Closes(n, o)
        PROVE  Created(k)
    <3>1. n = k
      BY <1>1, <2>4 DEF Closes
    <3> QED
      BY <2>4, <3>1 DEF Closes
  <2>5. Created(k)
    BY <2>3, <2>4, SettlingStep
  <2> QED
    BY <1>2, <2>1, <2>5 DEF Payout
<1>3. ASSUME NEW m \in MatchIds, NEW a \in Accounts, NEW result \in RtResults,
             SubmitRealTimeHashResult(m, a, result)
      PROVE  Goal
  <2>1. CASE AwaitOpponent(m, a, result)
    BY <2>1 DEF AwaitOpponent, registryVars
  <2>2. CASE AgreeWithOpponent(m, a, result)
    <3>1. result.outcome \in OutcomeCodes /\ matches[m].playerB # Zero
      BY <1>1, <2>2 DEF AgreeWithOpponent, RecordRtResult, RtResults, Opponents
    <3> QED
      BY <1>2, <2>2, <3>1 DEF AgreeWithOpponent
  <2>3. CASE DisagreeWithOpponent(m, a, result)
    BY <1>1, <2>3 DEF DisagreeWithOpponent, SettleMatch, Matches
  <2> QED
    BY <1>3, <2>1, <2>2, <2>3 DEF SubmitRealTimeHashResult
<1>4. ASSUME NEW m \in MatchIds, NEW a \in Accounts, NEW outcome \in OutcomeCodes,
             SubmitAsyncResult(m, outcome, a) \/ ResolveDispute(m, a, outcome)
      PROVE  Goal
  <2>1. matches[m].playerB # Zero /\ Payout(m, outcome)
    BY <1>1, <1>4 DEF SubmitAsyncResult, ResolveDispute, Opponents
  <2> QED
    BY <1>2, <2>1
<1> HIDE DEF Goal
<1>5. Goal
  BY <1>3, <1>4 DEF Settling
<1> QED
  BY <1>5 DEF Goal

-----------------------------------------------------------------------------
(***************************************************************************)
(* Refunds.                                                                *)
(***************************************************************************)
LEMMA Shares ==
  ASSUME NEW x, NEW y, NEW n, NEW k
  PROVE  /\ Share(x, x, n) = n
         /\ y # x => Share(y, x, n) = 0
BY DEF Share

\* Each player's share, and nobody else's, is what RefundsAreExact asks for.
LEMMA ExactShares ==
  ASSUME SettlementInv, AgreementInv, NEW m \in MatchIds, Created(m),
         \A a \in Addr :
           Gain(m, a) = Share(a, matches[m].playerA, matches[m].stakeAmount)
                          + Share(a, matches[m].playerB, matches[m].stakeAmountB)
  PROVE  /\ Gain(m, matches[m].playerA) = matches[m].stakeAmount
         /\ matches[m].playerB # Zero =>
              Gain(m, matches[m].playerB) = matches[m].stakeAmountB
         /\ \A a \in Accounts \ {matches[m].playerA, matches[m].playerB} :
              Gain(m, a) = 0
<1>1. /\ matches[m].playerA \in Addr /\ matches[m].playerB \in Addr
      /\ matches[m].stakeAmount \in Nat /\ matches[m].stakeAmountB \in Nat
      /\ matches[m].playerA # matches[m].playerB
      /\ Accounts \subseteq Addr
  BY MatchFields DEF SettlementInv, RegistryInv, AgreementInv, TwoPlayers, Addr
<1>2. Gain(m, matches[m].playerA) = matches[m].stakeAmount + 0
  BY <1>1, Shares
<1>3. Gain(m, matches[m].playerB) = 0 + matches[m].stakeAmountB
  BY <1>1, Shares
<1>4. ASSUME NEW a \in Accounts \ {matches[m].playerA, matches[m].playerB}
      PROVE  Gain(m, a) = 0 + 0
  BY <1>1, Shares
<1> QED
  BY <1>1, <1>2, <1>3, <1>4

LEMMA RefundStep ==
  ASSUME SettlementInv, AgreementInv, [Next]_vars, NEW m \in MatchIds,
         EndsWithoutWinner(m), NEW a \in Addr
  PROVE  Gain(m, a) = Share(a, matches[m].playerA, matches[m].stakeAmount)
                        + Share(a, matches[m].playerB, matches[m].stakeAmountB)
<1> DEFINE t    == TokenOf(m)
           Goal == Gain(m, a) = Share(a, matches[m].playerA, matches[m].stakeAmount)
                                + Share(a, matches[m].playerB, matches[m].stakeAmountB)
<1>1. /\ matches \in [MatchIds -> Matches] /\ StorageTypes /\ MatchTerms /\ Opponents
      /\ pendingWithdrawals \in [Tokens -> [Addr -> Nat]] /\ t \in Tokens
      /\ matches[m].stakeAmount \in Nat /\ matches[m].stakeAmountB \in Nat
  BY MatchFields DEF SettlementInv, RegistryInv, StorageTypes
<1>2. /\ Created(m) /\ matches[m].state \in Live
      /\ matches'[m].state \in {"EXPIRED", "SETTLED"}
      /\ matches'[m].state = "SETTLED" => settlements'[m] \in {"NONE", "CANCELLED"}
      /\ matches'[m] # matches[m]
  BY DEF EndsWithoutWinner, Live
<1>3. /\ Share(a, matches[m].playerA, matches[m].stakeAmount) \in Nat
      /\ Share(a, matches[m].playerB, matches[m].stakeAmountB) \in Nat
      /\ pendingWithdrawals[t] \in [Addr -> Nat] /\ pendingWithdrawals[t][a] \in Nat
  BY <1>1, ShareType
<1> HIDE DEF t
<1>4. ASSUME NEW k \in MatchIds, ExpireMatch(k) PROVE Goal
  <2>1. k = m
    BY <1>1, <1>2, <1>4 DEF ExpireMatch
  <2>2. pendingWithdrawals'[t] = Refunded(m, pendingWithdrawals[t])
    BY <1>1, <1>4, <2>1 DEF ExpireMatch, t
  <2>3. Refunded(m, pendingWithdrawals[t])[a]
          = pendingWithdrawals[t][a]
              + Share(a, matches[m].playerA, matches[m].stakeAmount)
              + Share(a, matches[m].playerB, matches[m].stakeAmountB)
    BY <1>1, <1>3, RefundedAt
  <2>4. Gain(m, a) = pendingWithdrawals'[t][a] - pendingWithdrawals[t][a]
    BY DEF Gain, t
  <2> QED
    BY <1>3, <2>2, <2>3, <2>4
<1>5. ASSUME NEW k \in MatchIds, NEW b \in Players, CancelMatch(b, k) PROVE Goal
  <2>1. k = m
    BY <1>1, <1>2, <1>5 DEF CancelMatch
  <2>2. /\ pendingWithdrawals'[t]
             = Plus(pendingWithdrawals[t], b, matches[m].stakeAmount)
        /\ b = matches[m].playerA /\ b \in Addr
        /\ matches[m].stakeAmountB = 0
    BY <1>1, <1>5, <2>1, RegistryAssumption DEF CancelMatch, t, MatchTerms, Addr
  <2>3. PICK n \in Nat, f \in [Addr -> Nat] :
          n = matches[m].stakeAmount /\ f = pendingWithdrawals[t]
    BY <1>1, <1>3
  <2>4. Plus(f, b, n)[a] = f[a] + Share(a, b, n)
    BY <2>2, PlusAt
  <2>5. Gain(m, a) = pendingWithdrawals'[t][a] - pendingWithdrawals[t][a]
    BY DEF Gain, t
  <2>6. Share(a, matches[m].playerB, matches[m].stakeAmountB) = 0
    BY <2>2 DEF Share
  <2> QED
    BY <1>3, <2>2, <2>3, <2>4, <2>5, <2>6
<1>6. ASSUME RegistryStep, UNCHANGED settlementVars PROVE Goal
  <2>1. ASSUME NEW k \in MatchIds, NEW b, NEW g, NEW n, CreateMatch(b, g, k, n)
        PROVE  FALSE
    BY <1>1, <1>2, <2>1 DEF CreateMatch, NoMatch
  <2>2. ASSUME NEW k \in MatchIds, NEW b, JoinMatch(b, k) PROVE FALSE
    BY <1>1, <1>2, <2>2 DEF JoinMatch, Matches
  <2>3. GameAdministration \/ OwnerCalls \/ Withdrawals \/ Tick => UNCHANGED matches
    BY DEF GameAdministration, RegisterGame, SetStudioFee, SetMatchTimeout,
       UpdateGameVerifiers, ConfigureGame, OwnerCalls, SetSettlement,
       PauseRegistry, WithdrawFees, Withdrawals, Withdraw, Tick
  <2>4. PlayerCalls
    BY <1>2, <1>6, <2>3 DEF RegistryStep
  <2> HIDE DEF Goal
  <2> QED
    BY <1>4, <1>5, <2>1, <2>2, <2>4 DEF PlayerCalls
<1>7. ASSUME Settling PROVE Goal
  <2>1. PICK outcome \in OutcomeCodes \ {"NONE"} : Payout(m, outcome)
    BY <1>2, <1>7, SettlingPays DEF SettlementInv
  <2>2. outcome = "CANCELLED"
    <3>1. settlements'[m] = outcome /\ matches'[m].state = "SETTLED"
      BY <1>1, <2>1 DEF Payout, SettleMatch, SettlementInv, SettlementTypes
    <3> QED
      BY <1>2, <3>1
  <2> DEFINE pay == Payment(m, outcome)
  <2>3. /\ pay.studioFee = 0 /\ pay.protocolFee = 0
        /\ pay.toA = matches[m].stakeAmount /\ pay.toB = matches[m].stakeAmountB
    BY <2>2 DEF Payment, NoPayment
  <2>4. pay \in Payments
    <3>1. GameOf(m).studioFeeRecipient \in Addr /\ protocolFeeRecipient \in Addr
      BY <1>1, MatchFields, RegistryAssumption DEF SettlementInv, FeeRecipients, Addr
    <3> QED
      BY <1>1, <2>2, <3>1 DEF Payment, NoPayment, Payments
  <2>5. pendingWithdrawals'[t] = Paid(m, pay, pendingWithdrawals[t])
    BY <1>1, <2>1 DEF Payout, SettleMatch, t
  <2> HIDE DEF pay
  <2>6. PICK fees \in 0 .. pay.studioFee + pay.protocolFee :
          Paid(m, pay, pendingWithdrawals[t])[a]
            = pendingWithdrawals[t][a] + fees + Share(a, matches[m].playerA, pay.toA)
                                              + Share(a, matches[m].playerB, pay.toB)
    BY <1>1, <1>3, <2>4, PaidAt
  <2>7. fees = 0
    BY <2>3
  <2>8. Gain(m, a) = pendingWithdrawals'[t][a] - pendingWithdrawals[t][a]
    BY DEF Gain, t
  <2> QED
    BY <1>3, <2>3, <2>5, <2>6, <2>7, <2>8
<1>8. ASSUME SettlementAdministration \/ UNCHANGED vars PROVE Goal
  BY <1>2, <1>8 DEF SettlementAdministration, UpdateProtocolFeeBps,
     UpdateProtocolFeeRecipient, PauseSettlement, vars, registryVars
<1> HIDE DEF Goal
<1>9. Goal
  BY <1>6, <1>7, <1>8 DEF Next
<1> QED
  BY <1>9 DEF Goal

\* A match that ends without a winner, by cancellation, expiry or a CANCELLED
\* outcome, gives each player exactly the stake received from that player and
\* nobody else anything, whatever fees are configured at the time.
THEOREM ExactRefunds == Spec => RefundsAreExact
<1>1. SettlementInv /\ AgreementInv /\ [Next]_vars => AgreementInv'
  BY AgreementInvStep
<1>2. SettlementInv /\ AgreementInv /\ [Next]_vars =>
        [\A m \in MatchIds :
           EndsWithoutWinner(m) =>
             /\ Gain(m, matches[m].playerA) = matches[m].stakeAmount
             /\ matches[m].playerB # Zero =>
                  Gain(m, matches[m].playerB) = matches[m].stakeAmountB
             /\ \A a \in Accounts \ {matches[m].playerA, matches[m].playerB} :
                  Gain(m, a) = 0]_vars
  <2> SUFFICES ASSUME SettlementInv, AgreementInv, [Next]_vars, NEW m \in MatchIds,
                      EndsWithoutWinner(m)
               PROVE  /\ Gain(m, matches[m].playerA) = matches[m].stakeAmount
                      /\ matches[m].playerB # Zero =>
                           Gain(m, matches[m].playerB) = matches[m].stakeAmountB
                      /\ \A a \in Accounts \ {matches[m].playerA, matches[m].playerB} :
                           Gain(m, a) = 0
    OBVIOUS
  <2>1. Created(m)
    BY DEF EndsWithoutWinner
  <2> QED
    BY <2>1, RefundStep, ExactShares
<1> QED
  BY <1>1, <1>2, AgreementInit, SettlementInvariance, PTL DEF Spec, RefundsAreExact

-----------------------------------------------------------------------------
(***************************************************************************)
(* Winners.                                                                *)
(***************************************************************************)
LEMMA TotalOfOne ==
  ASSUME NEW x, NEW f \in [{x} -> Nat]
  PROVE  Total(f) = f[x]
<1> DEFINE zero == [y \in {x} |-> 0]
<1>1. IsFiniteSet({x})
  BY FS_Singleton
<1>2. zero \in [{x} -> Nat] /\ zero[x] = 0 /\ \A y \in {x} : zero[y] = 0
  OBVIOUS
<1> HIDE DEF zero
<1>3. Total(zero) = 0
  BY <1>2, TotalZero
<1>4. \A y \in {x} \ {x} : f[y] = zero[y]
  OBVIOUS
<1>5. Total(f) = Total(zero) - zero[x] + f[x]
  BY <1>1, <1>2, <1>4, TotalChange
<1>6. f[x] \in Nat
  OBVIOUS
<1> QED
  BY <1>2, <1>3, <1>5, <1>6

LEMMA TotalOfTwo ==
  ASSUME NEW x, NEW y, x # y, NEW f \in [{x, y} -> Nat]
  PROVE  Total(f) = f[x] + f[y]
<1> DEFINE S    == {x, y}
           zero == [z \in S |-> 0]
           half == [z \in S |-> IF z = x THEN f[x] ELSE 0]
<1>1. IsFiniteSet(S)
  <2>1. IsFiniteSet({x}) /\ S = {x} \cup {y}
    BY FS_Singleton
  <2> QED
    BY <2>1, FS_AddElement
<1>2. f \in [S -> Nat] /\ f[x] \in Nat /\ f[y] \in Nat
  OBVIOUS
<1>3. /\ zero \in [S -> Nat] /\ zero[x] = 0 /\ \A z \in S : zero[z] = 0
      /\ half \in [S -> Nat] /\ half[x] = f[x] /\ half[y] = 0
      /\ x \in S /\ y \in S
      /\ \A z \in S \ {x} : half[z] = zero[z]
      /\ \A z \in S \ {y} : f[z] = half[z]
  BY <1>2
<1> HIDE DEF zero, half, S
<1>4. Total(zero) = 0
  BY <1>3, TotalZero
<1>5. Total(half) = Total(zero) - zero[x] + half[x]
  BY <1>1, <1>3, TotalChange
<1>6. Total(f) = Total(half) - half[y] + f[y]
  BY <1>1, <1>2, <1>3, TotalChange
<1> QED
  BY <1>2, <1>3, <1>4, <1>5, <1>6

\* Two rounded fees at rates x and y leave at least 1 - c/d of p, when the
\* rates add up to at most c/d.
LEMMA FeesLeave ==
  ASSUME NEW p \in Nat, NEW x \in Nat, NEW y \in Nat, NEW c \in Nat,
         NEW d \in Nat \ {0}, x + y <= c
  PROVE  d * (p - (p * x) \div d - (p * y) \div d) >= (d - c) * p
<1> DEFINE q == (p * x) \div d
           r == (p * y) \div d
<1>1. q \in Int /\ r \in Int /\ d * q <= p * x /\ d * r <= p * y
  <2>1. p * x \in Nat /\ p * y \in Nat
    OBVIOUS
  <2> QED
    BY <2>1
<1> HIDE DEF q, r
<1>2. p * x + p * y <= p * c
  <2>1. p * (x + y) <= p * c
    OBVIOUS
  <2>2. p * (x + y) = p * x + p * y
    OBVIOUS
  <2> QED
    BY <2>1, <2>2
<1>3. d * (p - q - r) = d * p - d * q - d * r
  BY <1>1
<1>4. (d - c) * p = d * p - p * c
  OBVIOUS
<1>5. /\ d * q \in Int /\ d * r \in Int /\ d * p \in Int /\ p * c \in Int
      /\ p * x \in Int /\ p * y \in Int
  BY <1>1
<1>6. d * (p - q - r) >= (d - c) * p
  BY <1>1, <1>2, <1>3, <1>4, <1>5
<1> QED
  BY <1>6 DEF q, r

\* The players' shares of a played match are the pool less its fees, and the
\* loser has none.
LEMMA PlayedShares ==
  ASSUME SettlementInv, NEW m \in MatchIds, FeesWithinCap(m),
         NEW outcome \in {"WIN_A", "WIN_B", "DRAW"}
  PROVE  LET pay == Payment(m, outcome)
         IN /\ pay \in Payments
            /\ pay.toA + pay.toB = Pool(m) - StudioFee(m) - ProtocolFee(m)
            /\ outcome = "WIN_A" => pay.toB = 0
            /\ outcome = "WIN_B" => pay.toA = 0
<1> DEFINE pay == Payment(m, outcome)
           n   == Pool(m) - StudioFee(m) - ProtocolFee(m)
<1>1. outcome \in OutcomeCodes \ {"NONE"}
  BY DEF OutcomeCodes
<1>2. PICK studio \in Recipients \cup {Zero}, protocol \in Recipients \cup {Zero},
           studioFee \in 0 .. Pool(m) :
        \E protocolFee \in 0 .. Pool(m) - studioFee :
          \E toA \in 0 .. Pool(m) - studioFee - protocolFee :
            pay = [studio |-> studio, studioFee |-> studioFee,
                   protocol |-> protocol, protocolFee |-> protocolFee, toA |-> toA,
                   toB |-> Pool(m) - studioFee - protocolFee - toA]
  BY <1>1, PaymentSplitsPool
<1>3. PICK protocolFee \in 0 .. Pool(m) - studioFee :
        \E toA \in 0 .. Pool(m) - studioFee - protocolFee :
          pay = [studio |-> studio, studioFee |-> studioFee,
                 protocol |-> protocol, protocolFee |-> protocolFee, toA |-> toA,
                 toB |-> Pool(m) - studioFee - protocolFee - toA]
  BY <1>2
<1>4. PICK toA \in 0 .. Pool(m) - studioFee - protocolFee :
        pay = [studio |-> studio, studioFee |-> studioFee,
               protocol |-> protocol, protocolFee |-> protocolFee, toA |-> toA,
               toB |-> Pool(m) - studioFee - protocolFee - toA]
  BY <1>3
<1>5. Pool(m) \in Nat
  BY MatchFields DEF SettlementInv, RegistryInv
<1>6. /\ pay.studioFee = StudioFee(m) /\ pay.protocolFee = ProtocolFee(m)
      /\ pay.toA = Split(outcome, n)[1] /\ pay.toB = Split(outcome, n)[2]
  BY DEF Payment
<1>7. (outcome = "WIN_A" => pay.toB = 0) /\ (outcome = "WIN_B" => pay.toA = 0)
  BY <1>6 DEF Split
<1> HIDE DEF pay
<1>8. pay \in Payments
  <2>1. studio \in Addr /\ protocol \in Addr
    BY RegistryAssumption DEF Addr
  <2>2. /\ studioFee \in Nat /\ protocolFee \in Nat /\ toA \in Nat
        /\ Pool(m) - studioFee - protocolFee - toA \in Nat
    BY <1>5
  <2> QED
    BY <1>4, <2>1, <2>2 DEF Payments
<1>9. pay.toA + pay.toB = n
  <2>1. /\ pay.toA = toA /\ pay.toB = Pool(m) - studioFee - protocolFee - toA
        /\ studioFee = StudioFee(m) /\ protocolFee = ProtocolFee(m)
    BY <1>4, <1>6
  <2> QED
    BY <1>5, <2>1
<1> QED
  BY <1>7, <1>8, <1>9 DEF pay

\* What the studio and the protocol leave of the pool.
LEMMA PoolLessFees ==
  ASSUME SettlementInv, NEW m \in MatchIds, FeesWithinCap(m)
  PROVE  /\ Pool(m) - StudioFee(m) - ProtocolFee(m) \in Int
         /\ BPS * (Pool(m) - StudioFee(m) - ProtocolFee(m))
              >= (BPS - MaxTotalFeeBps) * Pool(m)
<1>1. PICK p \in Nat, x \in Nat, y \in Nat, c \in Nat, d \in Nat \ {0} :
        /\ p = Pool(m) /\ x = GameOf(m).studioFeeBps /\ y = protocolFeeBps
        /\ c = MaxTotalFeeBps /\ d = BPS
  BY MatchFields, RegistryAssumption, SettlementAssumption
     DEF SettlementInv, RegistryInv, SettlementTypes
<1>2. x + y <= c
  BY <1>1 DEF FeesWithinCap
<1>3. ProtocolFee(m) = (p * y) \div d
  BY <1>1 DEF ProtocolFee
<1>4. CASE GameOf(m).studioFeeRecipient = Zero
  <2>1. StudioFee(m) = 0
    BY <1>4 DEF StudioFee
  <2>2. d * (p - (p * 0) \div d - (p * y) \div d) >= (d - c) * p
    <3>1. 0 + y <= c
      BY <1>2
    <3> QED
      BY <3>1, FeesLeave
  <2>3. (p * 0) \div d = 0
    OBVIOUS
  <2>4. (p * y) \div d \in Int
    <3>1. p * y \in Int
      OBVIOUS
    <3> QED
      BY <3>1
  <2> QED
    BY <1>1, <1>3, <2>1, <2>2, <2>3, <2>4
<1>5. CASE GameOf(m).studioFeeRecipient # Zero
  <2>1. StudioFee(m) = (p * x) \div d
    BY <1>1, <1>5 DEF StudioFee
  <2>2. d * (p - (p * x) \div d - (p * y) \div d) >= (d - c) * p
    BY <1>2, FeesLeave
  <2>3. (p * y) \div d \in Int /\ (p * x) \div d \in Int
    <3>1. p * y \in Int /\ p * x \in Int
      OBVIOUS
    <3> QED
      BY <3>1
  <2> QED
    BY <1>1, <1>3, <2>1, <2>2, <2>3
<1> QED
  BY <1>4, <1>5

\* A winner gains at least the winner's share: fees may come on top, when the
\* winner is their recipient.
LEMMA GainAtLeast ==
  ASSUME SettlementInv, NEW m \in MatchIds, NEW outcome, Payout(m, outcome),
         Payment(m, outcome) \in Payments, NEW a \in Addr
  PROVE  /\ Gain(m, a) \in Nat
         /\ Gain(m, a) >= Share(a, matches[m].playerA, Payment(m, outcome).toA)
                            + Share(a, matches[m].playerB, Payment(m, outcome).toB)
<1> DEFINE t   == TokenOf(m)
           pay == Payment(m, outcome)
<1>1. /\ StorageTypes /\ t \in Tokens
      /\ pendingWithdrawals \in [Tokens -> [Addr -> Nat]]
  BY MatchFields DEF SettlementInv, RegistryInv, StorageTypes
<1>2. pendingWithdrawals'[t] = Paid(m, pay, pendingWithdrawals[t])
  BY <1>1 DEF Payout, SettleMatch
<1>3. Gain(m, a) = pendingWithdrawals'[t][a] - pendingWithdrawals[t][a]
  BY DEF Gain
<1>4. /\ pay \in Payments /\ pay.studioFee \in Nat /\ pay.protocolFee \in Nat
      /\ pay.toA \in Nat /\ pay.toB \in Nat
  BY DEF Payments
<1> HIDE DEF t, pay
<1>5. /\ pendingWithdrawals[t] \in [Addr -> Nat] /\ pendingWithdrawals[t][a] \in Nat
      /\ Share(a, matches[m].playerA, pay.toA) \in Nat
      /\ Share(a, matches[m].playerB, pay.toB) \in Nat
  BY <1>1, <1>4, ShareType
<1>6. PICK fees \in 0 .. pay.studioFee + pay.protocolFee :
        Paid(m, pay, pendingWithdrawals[t])[a]
          = pendingWithdrawals[t][a] + fees + Share(a, matches[m].playerA, pay.toA)
                                            + Share(a, matches[m].playerB, pay.toB)
  BY <1>1, <1>4, <1>5, PaidAt
<1>7. fees \in Nat
  BY <1>4
<1>8. /\ Gain(m, a) \in Nat
      /\ Gain(m, a) >= Share(a, matches[m].playerA, pay.toA)
                         + Share(a, matches[m].playerB, pay.toB)
  BY <1>2, <1>3, <1>5, <1>6, <1>7
<1> QED
  BY <1>8 DEF pay

LEMMA WinnersStep ==
  ASSUME SettlementInv, AgreementInv, [Next]_vars, NEW m \in MatchIds,
         settlements[m] = "NONE", settlements'[m] \in {"WIN_A", "WIN_B", "DRAW"}
  PROVE  LET winners == Winners(m, settlements'[m])
             gains   == [a \in winners |-> Gain(m, a)]
         IN BPS * Total(gains) >= (BPS - MaxTotalFeeBps) * Pool(m)
<1> DEFINE winners == Winners(m, settlements'[m])
           gains   == [a \in winners |-> Gain(m, a)]
           n       == Pool(m) - StudioFee(m) - ProtocolFee(m)
           A       == matches[m].playerA
           B       == matches[m].playerB
<1>1. settlements \in [MatchIds -> OutcomeCodes] /\ StorageTypes
      /\ A \in Addr /\ B \in Addr
  BY MatchFields DEF SettlementInv, SettlementTypes, RegistryInv
<1>2. Settling
  BY DEF Next, SettlementAdministration, UpdateProtocolFeeBps,
     UpdateProtocolFeeRecipient, PauseSettlement, vars, settlementVars
<1>3. PICK outcome \in OutcomeCodes \ {"NONE"} : Payout(m, outcome) /\ Created(m)
  BY <1>2, SettlingPays
<1>4. outcome = settlements'[m] /\ FeesWithinCap(m)
  BY <1>1, <1>3 DEF Payout
<1>5. A # B
  BY <1>3 DEF AgreementInv, TwoPlayers
<1> DEFINE pay == Payment(m, outcome)
<1>6. /\ pay \in Payments /\ pay.toA \in Nat /\ pay.toB \in Nat
      /\ pay.toA + pay.toB = n
      /\ outcome = "WIN_A" => pay.toB = 0
      /\ outcome = "WIN_B" => pay.toA = 0
  <2>1. outcome \in {"WIN_A", "WIN_B", "DRAW"}
    BY <1>4
  <2>2. /\ pay \in Payments
        /\ pay.toA + pay.toB = n
        /\ outcome = "WIN_A" => pay.toB = 0
        /\ outcome = "WIN_B" => pay.toA = 0
    BY <1>4, <2>1, PlayedShares
  <2> QED
    BY <2>2 DEF Payments
<1>7. n \in Int /\ BPS * n >= (BPS - MaxTotalFeeBps) * Pool(m)
  BY <1>4, PoolLessFees
<1>8. \A a \in Addr : /\ Gain(m, a) \in Nat
                      /\ Gain(m, a) >= Share(a, A, pay.toA) + Share(a, B, pay.toB)
  BY <1>3, <1>6, GainAtLeast
<1> HIDE DEF pay, n
<1>9. Gain(m, A) \in Nat /\ Gain(m, B) \in Nat
      /\ Gain(m, A) >= pay.toA /\ Gain(m, B) >= pay.toB
  <2>1. Share(A, A, pay.toA) = pay.toA /\ Share(A, B, pay.toB) = 0
    BY <1>5, Shares
  <2>2. Share(B, A, pay.toA) = 0 /\ Share(B, B, pay.toB) = pay.toB
    BY <1>5, Shares
  <2> QED
    BY <1>1, <1>6, <1>8, <2>1, <2>2
<1> HIDE DEF A, B
<1>10. Total(gains) \in Nat /\ Total(gains) >= n
  <2>1. CASE outcome = "WIN_A"
    <3>1. winners = {A}
      BY <1>4, <2>1 DEF Winners, A
    <3>2. gains \in [{A} -> Nat] /\ gains[A] = Gain(m, A)
      BY <1>9, <3>1
    <3> HIDE DEF gains
    <3>3. Total(gains) = Gain(m, A)
      BY <3>2, TotalOfOne
    <3> QED
      BY <1>6, <1>9, <2>1, <3>3
  <2>2. CASE outcome = "WIN_B"
    <3>1. winners = {B}
      BY <1>4, <2>2 DEF Winners, B
    <3>2. gains \in [{B} -> Nat] /\ gains[B] = Gain(m, B)
      BY <1>9, <3>1
    <3> HIDE DEF gains
    <3>3. Total(gains) = Gain(m, B)
      BY <3>2, TotalOfOne
    <3> QED
      BY <1>6, <1>9, <2>2, <3>3
  <2>3. CASE outcome = "DRAW"
    <3>1. winners = {A, B}
      BY <1>4, <2>3 DEF Winners, A, B
    <3>2. /\ gains \in [{A, B} -> Nat]
          /\ gains[A] = Gain(m, A) /\ gains[B] = Gain(m, B)
      BY <1>9, <3>1
    <3> HIDE DEF gains
    <3>3. Total(gains) = gains[A] + gains[B]
      BY <1>5, <3>2, TotalOfTwo, Zenon
    <3> QED
      BY <1>6, <1>9, <3>2, <3>3
  <2> QED
    BY <1>4, <2>1, <2>2, <2>3
<1> HIDE DEF gains
<1>11. BPS * Total(gains) >= (BPS - MaxTotalFeeBps) * Pool(m)
  <2>1. BPS \in Nat /\ MaxTotalFeeBps \in Int /\ Pool(m) \in Nat
    BY <1>1, MatchFields, RegistryAssumption, SettlementAssumption
  <2>2. BPS * Total(gains) >= BPS * n
    BY <1>7, <1>10, <2>1
  <2>3. BPS * Total(gains) \in Int /\ BPS * n \in Int
        /\ (BPS - MaxTotalFeeBps) * Pool(m) \in Int
    BY <1>7, <1>10, <2>1
  <2> QED
    BY <1>7, <2>2, <2>3
<1> QED
  BY <1>11 DEF gains

\* The winners of a played match gain the pool less at most the combined cap
\* of _payout, whatever the studio and the owner configured and however the
\* fees and the halves of a draw are rounded.
THEOREM WinnersShare == Spec => WinnersKeepTheRest
<1>1. SettlementInv /\ AgreementInv /\ [Next]_vars => AgreementInv'
  BY AgreementInvStep
<1>2. SettlementInv /\ AgreementInv /\ [Next]_vars =>
        [\A m \in MatchIds :
           settlements[m] = "NONE" /\ settlements'[m] \in {"WIN_A", "WIN_B", "DRAW"}
             => LET winners == Winners(m, settlements'[m])
                    gains   == [a \in winners |-> Gain(m, a)]
                IN BPS * Total(gains) >= (BPS - MaxTotalFeeBps) * Pool(m)]_vars
  BY WinnersStep
<1> QED
  BY <1>1, <1>2, AgreementInit, SettlementInvariance, PTL
     DEF Spec, WinnersKeepTheRest

=============================================================================
