---------------------------- MODULE AMPRegistry ----------------------------
(***************************************************************************)
(* The contract AMPRegistry: games, matches, the stakes it holds in escrow *)
(* and the credits that players and fee recipients pull with withdraw().   *)
(* Every action is one transaction; a call that reverts is no step.        *)
(*                                                                         *)
(* RegistrySpec composes the registry with the weakest settlement contract *)
(* it can be trusted to: one whose settleMatch calls distribute exactly    *)
(* the stakes of the match.  Module AMPSettlement models the settlement    *)
(* contract of this system and is checked to implement RegistrySpec.       *)
(***************************************************************************)
EXTENDS Integers, FiniteSets, Totals

CONSTANTS
  Accounts,        \* externally owned addresses
  Zero,            \* address(0)
  Tokens,          \* stake tokens; token Native stands for address(0)
  Native,
  FeeOnTransfer,   \* tokens that may deliver less than was sent
  MatchIds,        \* match ids chosen by the clients
  Admins,          \* bound: accounts that register games
  Players,         \* bound: accounts that create and join matches
  Recipients,      \* bound: fee recipients that are configured
  OwnerMoves,      \* bound: the switches the owner uses
  MaxGames,        \* bound: game ids the model registers
  Catalog,         \* bound: the configurations games are registered with
  Stakes,          \* bound: stakes sent with createMatch
  FeeChoices,      \* bound: fees, in basis points, that admins configure
  TimeoutChoices,  \* bound: match timeouts that admins configure
  BPS,             \* 10000 in the code
  MaxStudioFeeBps, \* 500 in the code
  MaxVerifiers,    \* 10 in the code
  DefaultTimeout,  \* 1 hour in the code
  MinTimeout,      \* 5 minutes in the code
  MaxTimeout,      \* 30 days in the code
  MaxTime,         \* bound: the last block timestamp
  EarlyCreate      \* may a client name a game id before registerGame did?

Addr    == Accounts \cup {Zero}
GameIds == 0 .. MaxGames - 1
Modes   == {"ASYNC_VERIFIER", "RT_HASH_AGREE"}
MatchStates == {"OPEN", "READY", "SETTLED", "EXPIRED", "DISPUTED"}
Live    == {"OPEN", "READY", "DISPUTED"}

GameConfigs == [mode : Modes, verifiers : SUBSET Accounts, minStake : Nat,
                stakeToken : Tokens, arbiter : Addr]

ASSUME RegistryAssumption ==
  /\ Zero \notin Accounts
  /\ IsFiniteSet(Accounts) /\ IsFiniteSet(MatchIds)
  /\ Admins \subseteq Accounts /\ Players \subseteq Accounts
  /\ Recipients \subseteq Accounts
  /\ Native \in Tokens /\ FeeOnTransfer \subseteq Tokens \ {Native}
  /\ MaxGames \in Nat \ {0}
  /\ Catalog \subseteq GameConfigs
  /\ Stakes \subseteq Nat /\ FeeChoices \subseteq Nat
  /\ TimeoutChoices \subseteq Nat /\ MinTimeout \in Nat /\ MaxTimeout \in Nat
  /\ BPS \in Nat \ {0} /\ MaxStudioFeeBps \in Nat /\ MaxVerifiers \in Nat
  /\ DefaultTimeout \in Nat /\ MaxTime \in Nat
  /\ EarlyCreate \in BOOLEAN

VARIABLES
  nextGameId, games, matches,
  pendingWithdrawals, \* credits, by token and account
  feeBalances,        \* the owner's fee pot, by token
  held,               \* the registry's balance, by token
  settlement,         \* does `settlement` name the settlement contract?
  registryPaused,
  now                 \* block.timestamp

registryVars == <<nextGameId, games, matches, pendingWithdrawals, feeBalances,
                  held, settlement, registryPaused, now>>

money == <<pendingWithdrawals, feeBalances, held>>

(***************************************************************************)
(* Storage that was never written reads as zeroes: an unregistered game is *)
(* an admin-less native-token game, an unused match id an OPEN match with  *)
(* no player A.                                                            *)
(***************************************************************************)
NoGame == [admin |-> Zero, mode |-> "ASYNC_VERIFIER", verifiers |-> {},
           minStake |-> 0, stakeToken |-> Native, arbiter |-> Zero,
           matchTimeout |-> 0, studioFeeBps |-> 0, studioFeeRecipient |-> Zero]

NoMatch == [gameId |-> 0, playerA |-> Zero, playerB |-> Zero,
            stakeAmount |-> 0, stakeAmountB |-> 0, state |-> "OPEN",
            createdAt |-> 0]

GameOf(m)  == games[matches[m].gameId]
TokenOf(m) == GameOf(m).stakeToken
Created(m) == matches[m].playerA # Zero
Pool(m)    == matches[m].stakeAmount + matches[m].stakeAmountB

(***************************************************************************)
(* What the registry's balance grows by when n units of token t are sent.  *)
(***************************************************************************)
Received(t, n) == IF t \in FeeOnTransfer THEN 0 .. n ELSE {n}

RegistryInit ==
  /\ nextGameId = 0
  /\ games = [g \in GameIds |-> NoGame]
  /\ matches = [m \in MatchIds |-> NoMatch]
  /\ pendingWithdrawals = [t \in Tokens |-> [a \in Addr |-> 0]]
  /\ feeBalances = [t \in Tokens |-> 0]
  /\ held = [t \in Tokens |-> 0]
  /\ settlement = FALSE
  /\ registryPaused = FALSE
  /\ now = 0

-----------------------------------------------------------------------------
(***************************************************************************)
(* Games.                                                                  *)
(***************************************************************************)
RegisterGame(a, c) ==
  /\ ~registryPaused
  /\ nextGameId < MaxGames
  /\ Cardinality(c.verifiers) <= MaxVerifiers
  /\ c.mode = "RT_HASH_AGREE" => c.arbiter # Zero
  /\ games' = [games EXCEPT ![nextGameId] =
                 [admin |-> a, mode |-> c.mode, verifiers |-> c.verifiers,
                  minStake |-> c.minStake, stakeToken |-> c.stakeToken,
                  arbiter |-> c.arbiter, matchTimeout |-> DefaultTimeout,
                  studioFeeBps |-> 0, studioFeeRecipient |-> Zero]]
  /\ nextGameId' = nextGameId + 1
  /\ UNCHANGED <<matches, money, settlement, registryPaused, now>>

ConfigureGame(a, g, changed) ==
  /\ a = games[g].admin
  /\ games' = [games EXCEPT ![g] = changed]
  /\ UNCHANGED <<nextGameId, matches, money, settlement, registryPaused, now>>

SetStudioFee(a, g, bps, recipient) ==
  /\ bps <= MaxStudioFeeBps
  /\ bps > 0 => recipient # Zero
  /\ ConfigureGame(a, g, [games[g] EXCEPT !.studioFeeBps = bps,
                                          !.studioFeeRecipient = recipient])

SetMatchTimeout(a, g, timeout) ==
  /\ timeout \in MinTimeout .. MaxTimeout
  /\ ConfigureGame(a, g, [games[g] EXCEPT !.matchTimeout = timeout])

UpdateGameVerifiers(a, g, verifiers) ==
  /\ Cardinality(verifiers) <= MaxVerifiers
  /\ ConfigureGame(a, g, [games[g] EXCEPT !.verifiers = verifiers])

-----------------------------------------------------------------------------
(***************************************************************************)
(* Matches.  The contract never asks whether a game id is registered;      *)
(* EarlyCreate says whether the clients modelled here do.  The clock bound *)
(* leaves every match room for its longest timeout.                        *)
(***************************************************************************)
ClockLeavesRoom == now + 3 * MaxTimeout <= MaxTime

CreateMatch(a, g, m, n) ==
  /\ ~registryPaused
  /\ ~Created(m)
  /\ EarlyCreate \/ g < nextGameId
  /\ ClockLeavesRoom
  /\ n >= games[g].minStake
  /\ \E got \in Received(games[g].stakeToken, n) :
       /\ matches' = [matches EXCEPT ![m] =
                        [NoMatch EXCEPT !.gameId = g, !.playerA = a,
                                        !.stakeAmount = got,
                                        !.createdAt = now]]
       /\ held' = Plus(held, games[g].stakeToken, got)
  /\ UNCHANGED <<nextGameId, games, pendingWithdrawals, feeBalances,
                 settlement, registryPaused, now>>

JoinMatch(b, m) ==
  /\ ~registryPaused
  /\ matches[m].state = "OPEN"
  /\ b # matches[m].playerA
  /\ \E got \in Received(TokenOf(m), matches[m].stakeAmount) :
       /\ TokenOf(m) # Native => got # 0
       /\ matches' = [matches EXCEPT ![m].stakeAmountB = got,
                                     ![m].playerB = b,
                                     ![m].state = "READY"]
       /\ held' = Plus(held, TokenOf(m), got)
  /\ UNCHANGED <<nextGameId, games, pendingWithdrawals, feeBalances,
                 settlement, registryPaused, now>>

\* Variant (no specification uses it): a joined match may be cancelled too.
CancelMatchOnceJoined(a, m) ==
  /\ ~registryPaused
  /\ matches[m].state \in {"OPEN", "READY"}
  /\ a = matches[m].playerA
  /\ matches' = [matches EXCEPT ![m].state = "SETTLED", ![m].stakeAmount = 0]
  /\ pendingWithdrawals' = [pendingWithdrawals EXCEPT
                              ![TokenOf(m)] = Plus(@, a, matches[m].stakeAmount)]
  /\ UNCHANGED <<nextGameId, games, feeBalances, held,
                 settlement, registryPaused, now>>

CancelMatch(a, m) ==
  /\ ~registryPaused
  /\ matches[m].state = "OPEN"
  /\ a = matches[m].playerA
  /\ matches' = [matches EXCEPT ![m].state = "SETTLED", ![m].stakeAmount = 0]
  /\ pendingWithdrawals' = [pendingWithdrawals EXCEPT
                              ![TokenOf(m)] = Plus(@, a, matches[m].stakeAmount)]
  /\ UNCHANGED <<nextGameId, games, feeBalances, held,
                 settlement, registryPaused, now>>

ExpiresAt(m) ==
  matches[m].createdAt +
    (IF matches[m].state = "DISPUTED" THEN 3 ELSE 1) * GameOf(m).matchTimeout

\* Variant: both players are refunded what player A staked.
RefundedStakeAToBoth(m, credits) ==
  LET refundA == Plus(credits, matches[m].playerA, matches[m].stakeAmount)
  IN IF matches[m].playerB = Zero
     THEN refundA
     ELSE Plus(refundA, matches[m].playerB, matches[m].stakeAmount)

Refunded(m, credits) ==
  LET refundA == Plus(credits, matches[m].playerA, matches[m].stakeAmount)
  IN IF matches[m].playerB = Zero
     THEN refundA
     ELSE Plus(refundA, matches[m].playerB, matches[m].stakeAmountB)

\* Variants: the state is not checked; the pause blocks the refund.
ExpireMatchInAnyState(m) ==
  /\ now >= ExpiresAt(m)
  /\ matches' = [matches EXCEPT ![m].state = "EXPIRED"]
  /\ pendingWithdrawals' = [pendingWithdrawals EXCEPT
                              ![TokenOf(m)] = Refunded(m, @)]
  /\ UNCHANGED <<nextGameId, games, feeBalances, held,
                 settlement, registryPaused, now>>

ExpireMatchUnlessPaused(m) ==
  ~registryPaused /\ matches[m].state \in Live /\ ExpireMatchInAnyState(m)

ExpireMatch(m) ==
  /\ matches[m].state \in Live
  /\ now >= ExpiresAt(m)
  /\ matches' = [matches EXCEPT ![m].state = "EXPIRED"]
  /\ pendingWithdrawals' = [pendingWithdrawals EXCEPT
                              ![TokenOf(m)] = Refunded(m, @)]
  /\ UNCHANGED <<nextGameId, games, feeBalances, held,
                 settlement, registryPaused, now>>

(***************************************************************************)
(* settleMatch: `pay` names what the settlement contract distributes: the  *)
(* studio fee, the protocol fee, and the amounts of players A and B.  A    *)
(* fee without a recipient stays in the owner's pot.                       *)
(***************************************************************************)
Payments == [studio : Addr, studioFee : Nat, protocol : Addr,
             protocolFee : Nat, toA : Nat, toB : Nat]

NoPayment == [studio |-> Zero, studioFee |-> 0, protocol |-> Zero,
              protocolFee |-> 0, toA |-> 0, toB |-> 0]

PotFees(pay) == (IF pay.studio = Zero THEN pay.studioFee ELSE 0)
                + (IF pay.protocol = Zero THEN pay.protocolFee ELSE 0)

\* Variant: a fee without a recipient is credited to address(0) as well.
CreditFeeToZero(f, recipient, fee) == Plus(f, recipient, fee)

CreditFee(f, recipient, fee) == IF recipient = Zero THEN f
                                                    ELSE Plus(f, recipient, fee)

Paid(m, pay, credits) ==
  LET studioPaid == CreditFee(credits, pay.studio, pay.studioFee)
      feesPaid   == CreditFee(studioPaid, pay.protocol, pay.protocolFee)
      paidA      == Plus(feesPaid, matches[m].playerA, pay.toA)
  IN Plus(paidA, matches[m].playerB, pay.toB)

SettleMatch(m, newState, pay) ==
  /\ settlement
  /\ matches[m].state \in Live
  /\ newState \in {"SETTLED", "EXPIRED", "DISPUTED"}
  /\ matches' = [matches EXCEPT ![m].state = newState]
  /\ feeBalances' = Plus(feeBalances, TokenOf(m), PotFees(pay))
  /\ pendingWithdrawals' = [pendingWithdrawals EXCEPT
                              ![TokenOf(m)] = Paid(m, pay, @)]
  /\ UNCHANGED <<nextGameId, games, held, settlement, registryPaused, now>>

-----------------------------------------------------------------------------
(***************************************************************************)
(* Pulling the money out, and administration.                              *)
(***************************************************************************)
\* Variant: the credit is not reset.
WithdrawKeepingCredit(a, t) ==
  /\ pendingWithdrawals[t][a] # 0
  /\ held' = [held EXCEPT ![t] = @ - pendingWithdrawals[t][a]]
  /\ UNCHANGED <<nextGameId, games, matches, pendingWithdrawals, feeBalances,
                 settlement, registryPaused, now>>

Withdraw(a, t) ==
  /\ pendingWithdrawals[t][a] # 0
  /\ pendingWithdrawals' = [pendingWithdrawals EXCEPT ![t][a] = 0]
  /\ held' = [held EXCEPT ![t] = @ - pendingWithdrawals[t][a]]
  /\ UNCHANGED <<nextGameId, games, matches, feeBalances,
                 settlement, registryPaused, now>>

WithdrawFees(t) ==
  /\ feeBalances[t] # 0
  /\ feeBalances' = [feeBalances EXCEPT ![t] = 0]
  /\ held' = [held EXCEPT ![t] = @ - feeBalances[t]]
  /\ UNCHANGED <<nextGameId, games, matches, pendingWithdrawals,
                 settlement, registryPaused, now>>

SetSettlement ==
  /\ \/ settlement' = TRUE
     \/ "replace settlement" \in OwnerMoves /\ settlement' = FALSE
  /\ UNCHANGED <<nextGameId, games, matches, money, registryPaused, now>>

PauseRegistry ==
  /\ "pause registry" \in OwnerMoves
  /\ registryPaused' = ~registryPaused
  /\ UNCHANGED <<nextGameId, games, matches, money, settlement, now>>

Tick ==
  /\ now < MaxTime
  /\ now' = now + 1
  /\ UNCHANGED <<nextGameId, games, matches, money, settlement, registryPaused>>

-----------------------------------------------------------------------------
GameAdministration ==
  \E a \in Admins :
    \/ \E c \in Catalog : RegisterGame(a, c)
    \/ \E g \in GameIds :
         \/ \E bps \in FeeChoices, r \in Recipients \cup {Zero} : SetStudioFee(a, g, bps, r)
         \/ \E d \in TimeoutChoices : SetMatchTimeout(a, g, d)
         \/ \E c \in Catalog : UpdateGameVerifiers(a, g, c.verifiers)

PlayerCalls ==
  \E m \in MatchIds :
    \/ \E a \in Players, g \in GameIds, n \in Stakes : CreateMatch(a, g, m, n)
    \/ \E b \in Players : JoinMatch(b, m)
    \/ \E a \in Players : CancelMatch(a, m)
    \/ ExpireMatch(m)

OwnerCalls == SetSettlement \/ PauseRegistry \/ \E t \in Tokens : WithdrawFees(t)

Withdrawals == \E a \in Accounts, t \in Tokens : Withdraw(a, t)

RegistryStep == GameAdministration \/ PlayerCalls \/ OwnerCalls \/ Withdrawals
                \/ Tick

(***************************************************************************)
(* What the registry relies on: a settlement contract moves nothing when   *)
(* it marks a match disputed, and closes only a match with an opponent,    *)
(* distributing exactly the two stakes.                                    *)
(***************************************************************************)
SplitPool(m, newState) ==
  \E studio, protocol \in Recipients \cup {Zero}, studioFee \in 0 .. Pool(m) :
    \E protocolFee \in 0 .. Pool(m) - studioFee :
      \E toA \in 0 .. Pool(m) - studioFee - protocolFee :
        SettleMatch(m, newState,
          [studio |-> studio, studioFee |-> studioFee,
           protocol |-> protocol, protocolFee |-> protocolFee, toA |-> toA,
           toB |-> Pool(m) - studioFee - protocolFee - toA])

TrustedSettlement ==
  \E m \in MatchIds :
    \/ SettleMatch(m, "DISPUTED", NoPayment)
    \/ /\ matches[m].playerB # Zero
       /\ \/ SplitPool(m, "SETTLED")
          \/ SplitPool(m, "EXPIRED")

RegistryNext == RegistryStep \/ TrustedSettlement

RegistrySpec == RegistryInit /\ [][RegistryNext]_registryVars

-----------------------------------------------------------------------------
(***************************************************************************)
(* Types.                                                                  *)
(***************************************************************************)
Games == [admin : Addr, mode : Modes, verifiers : SUBSET Accounts,
          minStake : Nat, stakeToken : Tokens, arbiter : Addr,
          matchTimeout : Nat, studioFeeBps : Nat, studioFeeRecipient : Addr]

Matches == [gameId : GameIds, playerA : Addr, playerB : Addr,
            stakeAmount : Nat, stakeAmountB : Nat, state : MatchStates,
            createdAt : Nat]

\* Every storage slot keeps its type; in particular no unsigned subtraction
\* (a withdrawal from the balance) ever goes below zero.
RegistryTypeOK ==
  /\ nextGameId \in 0 .. MaxGames
  /\ games \in [GameIds -> Games]
  /\ matches \in [MatchIds -> Matches]
  /\ pendingWithdrawals \in [Tokens -> [Addr -> Nat]]
  /\ feeBalances \in [Tokens -> Nat]
  /\ held \in [Tokens -> Nat]
  /\ settlement \in BOOLEAN
  /\ registryPaused \in BOOLEAN
  /\ now \in Nat

(***************************************************************************)
(* What the registry owes in token t: the stakes of live matches, the      *)
(* credits not yet withdrawn and the owner's fee pot.                      *)
(***************************************************************************)
Locked(t) == [m \in MatchIds |->
                IF matches[m].state \in Live /\ TokenOf(m) = t
                THEN Pool(m) ELSE 0]

Owed(t) == Total(Locked(t)) + Total(pendingWithdrawals[t]) + feeBalances[t]

\* The registry's balance in each token is exactly what it owes in it: every
\* credit is backed and no unit is stranded, whatever the order of joins,
\* cancellations, expiries, settlements and withdrawals.
Solvent == \A t \in Tokens : held[t] = Owed(t)

\* A created match that is SETTLED or EXPIRED never changes again: it cannot
\* be settled or refunded twice, reopened or overwritten by a new match.
CreatedMatchFinal ==
  [][\A m \in MatchIds :
       Created(m) /\ matches[m].state \notin Live
         => matches'[m] = matches[m]]_registryVars

\* The players, the game and the stakes of a joined match stay what they were
\* when the players sent their money, through dispute, settlement or expiry.
JoinedMatchTerms ==
  [][\A m \in MatchIds :
       Created(m) /\ matches[m].playerB # Zero
         => matches'[m] = [matches[m] EXCEPT !.state = matches'[m].state]
       ]_registryVars
=============================================================================
