--------------------------- MODULE TournamentCup ---------------------------
(***************************************************************************)
(* The contract AMPTournamentCup: prize pools, each paid by a sponsor,     *)
(* refunded to the sponsor or claimed by the attested winners.  All pools  *)
(* of a token share one balance.  Every action is one transaction; a call  *)
(* that reverts is no step.                                                *)
(***************************************************************************)
EXTENDS Integers, Sequences, FiniteSets, Totals

CONSTANTS
    Accounts,             \* externally owned addresses
    Zero,                 \* address(0)
    Tokens, Native,       \* prize tokens; Native stands for address(0)
    FeeOnTransfer,        \* tokens that may deliver less than was sent
    BPS,                  \* 10000 in the code
    MaxPlacements,        \* 16 in the code
    MaxProtocolFeeBps,    \* 500 in the code
    ProtocolFees,         \* bound: fees the owner configures
    MaxTime               \* bound: the last block timestamp

Addr == Accounts \cup {Zero}

ASSUME CupAssumption ==
    /\ Zero \notin Accounts
    /\ IsFiniteSet(Tokens) /\ Native \in Tokens
    /\ FeeOnTransfer \subseteq Tokens \ {Native}
    /\ BPS \in Nat \ {0} /\ MaxPlacements \in Nat
    /\ MaxProtocolFeeBps \in 0 .. BPS /\ ProtocolFees \subseteq Nat
    /\ MaxTime \in Nat

VARIABLES
    cups,          \* _tournaments, by id; nextTournamentId is Len(cups) + 1
    balance,       \* what the contract holds of each token
    protocolFee,   \* protocolFeeBps
    paused,
    now            \* block.timestamp

cupVars == <<cups, balance, protocolFee, paused, now>>

-----------------------------------------------------------------------------
(* A prize pool. *)

\* A payout structure: one share per placement, the shares sum to BPS.
IsSplit(bps) ==
    /\ bps \in Seq(1 .. BPS)
    /\ Len(bps) \in 1 .. MaxPlacements
    /\ Total(bps) = BPS

\* "paid" is a history variable: what left the contract on behalf of the cup.
Cups == [sponsor : Addr, token : Tokens, prizePool : Nat \ {0},
         payoutBps : Seq(1 .. BPS),
         verifier : Accounts, winners : Seq(Accounts),
         state : {"OPEN", "FINALIZED", "COMPLETE", "CANCELLED"},
         finalizeDeadline : Nat, claimed : SUBSET Nat, paid : Nat]

\* The balance difference the contract observes.
Received(token, amount) == IF token \in FeeOnTransfer THEN 1 .. amount ELSE {amount}

Share(cup, i) == (cup.prizePool * cup.payoutBps[i]) \div BPS

CupInit ==
    /\ cups = <<>>
    /\ balance = [t \in Tokens |-> 0]
    /\ protocolFee = 0
    /\ paused = FALSE
    /\ now = 0

-----------------------------------------------------------------------------
\* The checks of createTournament and createTournamentERC20.
MayCreate(amount, bps, verifier, deadline) ==
    /\ ~paused
    /\ amount > 0
    /\ verifier # Zero
    /\ IsSplit(bps)
    /\ deadline > now

\* createTournament (token Native) and createTournamentERC20.
CreateTournament(sponsor, token, amount, bps, verifier, deadline) ==
    /\ MayCreate(amount, bps, verifier, deadline)
    /\ \E received \in Received(token, amount) :
          /\ received > 0
          /\ cups' = Append(cups,
                [sponsor |-> sponsor, token |-> token, prizePool |-> received,
                 payoutBps |-> bps, verifier |-> verifier, winners |-> <<>>,
                 state |-> "OPEN", finalizeDeadline |-> deadline,
                 claimed |-> {}, paid |-> 0])
          /\ balance' = [balance EXCEPT ![token] = @ + received]
    /\ UNCHANGED <<protocolFee, paused, now>>

\* The sponsor while it is open, anyone once the deadline has passed.
CancelTournament(caller, id) ==
    LET cup == cups[id] IN
    /\ cup.state = "OPEN"
    /\ now > cup.finalizeDeadline \/ caller = cup.sponsor
    /\ cups' = [cups EXCEPT ![id].state = "CANCELLED", ![id].paid = @ + cup.prizePool]
    /\ balance' = [balance EXCEPT ![cup.token] = @ - cup.prizePool]
    /\ UNCHANGED <<protocolFee, paused, now>>

\* Variant: any signature will do.
MayFinalizeVariant(id, winners, signer) ==
    /\ ~paused
    /\ id \in DOMAIN cups
    /\ cups[id].state = "OPEN"
    /\ now <= cups[id].finalizeDeadline
    /\ Len(winners) = Len(cups[id].payoutBps)

\* signer: whose signature over (id, winners) the caller submits.
MayFinalize(id, winners, signer) ==
    /\ ~paused
    /\ id \in DOMAIN cups
    /\ cups[id].state = "OPEN"
    /\ now <= cups[id].finalizeDeadline
    /\ Len(winners) = Len(cups[id].payoutBps)
    /\ signer = cups[id].verifier
    /\ \A i \in DOMAIN winners : winners[i] # Zero

FinalizeTournament(id, winners, signer) ==
    /\ MayFinalize(id, winners, signer)
    /\ cups' = [cups EXCEPT ![id].state = "FINALIZED", ![id].winners = winners]
    /\ UNCHANGED <<balance, protocolFee, paused, now>>

MayClaim(caller, id, i) ==
    /\ ~paused
    /\ cups[id].state \in {"FINALIZED", "COMPLETE"}
    /\ i \in DOMAIN cups[id].winners
    /\ cups[id].winners[i] = caller
    /\ i \notin cups[id].claimed

\* Variant (no specification uses it): the placement is not marked as claimed.
ClaimPrizeVariant(caller, id, i) ==
    /\ MayClaim(caller, id, i)
    /\ cups' = [cups EXCEPT ![id].paid = @ + Share(cups[id], i)]
    /\ balance' = [balance EXCEPT ![cups[id].token] = @ - Share(cups[id], i)]
    /\ UNCHANGED <<protocolFee, paused, now>>

\* The winner receives the share without the protocol fee, the recipient the fee.
ClaimPrize(caller, id, i) ==
    LET cup     == cups[id]
        share   == Share(cup, i)
        fee     == (share * protocolFee) \div BPS
        payout  == share - fee
        claimed == cup.claimed \cup {i}
    IN  /\ MayClaim(caller, id, i)
        /\ cups' = [cups EXCEPT
               ![id].claimed = claimed,
               ![id].state   = IF claimed = DOMAIN cup.winners THEN "COMPLETE" ELSE @,
               ![id].paid    = @ + payout + fee]
        /\ balance' = [balance EXCEPT ![cup.token] = @ - (payout + fee)]
        /\ UNCHANGED <<protocolFee, paused, now>>

-----------------------------------------------------------------------------
(* The owner; time. *)

UpdateProtocolFeeBps(fee) ==
    /\ fee <= MaxProtocolFeeBps
    /\ protocolFee' = fee
    /\ UNCHANGED <<cups, balance, paused, now>>

PauseCup ==
    /\ paused' = ~paused
    /\ UNCHANGED <<cups, balance, protocolFee, now>>

Tick ==
    /\ now < MaxTime /\ now' = now + 1
    /\ UNCHANGED <<cups, balance, protocolFee, paused>>

CupStep ==
    \/ \E sponsor \in Accounts, token \in Tokens, amount \in Nat, bps \in Seq(1 .. BPS),
          verifier \in Addr, deadline \in Nat :
          CreateTournament(sponsor, token, amount, bps, verifier, deadline)
    \/ \E id \in DOMAIN cups :
          \/ \E caller \in Accounts : CancelTournament(caller, id)
          \/ \E winners \in Seq(Accounts), signer \in Accounts :
                FinalizeTournament(id, winners, signer)
          \/ \E caller \in Accounts, i \in DOMAIN cups[id].winners : ClaimPrize(caller, id, i)
    \/ \E fee \in ProtocolFees : UpdateProtocolFeeBps(fee)
    \/ PauseCup
    \/ Tick

CupSpec == CupInit /\ [][CupStep]_cupVars

-----------------------------------------------------------------------------
(* Solvency. *)

\* What the contract must still be able to send for a cup.
Left(cup) == cup.prizePool - cup.paid

LeftIn(token) ==
    Total([id \in DOMAIN cups |-> IF cups[id].token = token THEN Left(cups[id]) ELSE 0])

\* Pools never draw on one another: no cup has sent more than its sponsor paid
\* in, each prize not yet claimed can be sent from what is left of the own pool
\* whatever was claimed before, in any order and at any fee, and the balance in
\* a token is what is left of its pools (division leaves dust, and fees on
\* transfer make a pool smaller than its deposit).
CupsSolvent ==
    /\ \A id \in DOMAIN cups :
          /\ cups[id].paid <= cups[id].prizePool
          /\ cups[id].state = "OPEN" => cups[id].paid = 0
          /\ \A i \in DOMAIN cups[id].winners \ cups[id].claimed :
                Share(cups[id], i) <= Left(cups[id])
    /\ \A token \in Tokens : balance[token] = LeftIn(token)
=============================================================================
