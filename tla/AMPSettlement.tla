--------------------------- MODULE AMPSettlement ---------------------------
(***************************************************************************)
(* The contract AMPSettlement together with the registry it settles in:    *)
(* verifier-signed results, agreement of both players on a transcript      *)
(* hash, the arbiter's verdict on a dispute, and the split of the pool     *)
(* between winner, studio and protocol.                                    *)
(***************************************************************************)
EXTENDS AMPRegistry

CONSTANTS
  Deployer,              \* owner; the first recipient of the protocol fee
  Transcripts,           \* bound: transcript hashes
  NoTranscript,          \* bytes32(0)
  DefaultProtocolFeeBps, \* 100 in the code
  MaxProtocolFeeBps,     \* 500 in the code
  MaxTotalFeeBps         \* 800 in the code

OutcomeCodes == {"NONE", "WIN_A", "WIN_B", "DRAW", "CANCELLED"}

ASSUME SettlementAssumption ==
  /\ Deployer \in Recipients
  /\ NoTranscript \in Transcripts
  /\ DefaultProtocolFeeBps \in Nat /\ MaxProtocolFeeBps \in Nat
  /\ DefaultProtocolFeeBps <= MaxProtocolFeeBps
  /\ MaxTotalFeeBps \in 0 .. BPS

VARIABLES
  protocolFeeBps, protocolFeeRecipient,
  settlements,      \* recorded outcome of each match
  rtResults,        \* last result each player reported for a match
  settlementPaused

settlementVars == <<protocolFeeBps, protocolFeeRecipient, settlements,
                    rtResults, settlementPaused>>
vars == <<registryVars, settlementVars>>

RtResults == [outcome : OutcomeCodes, transcriptHash : Transcripts]
NoResult  == [outcome |-> "NONE", transcriptHash |-> NoTranscript]

Init ==
  /\ RegistryInit
  /\ protocolFeeBps = DefaultProtocolFeeBps
  /\ protocolFeeRecipient = Deployer
  /\ settlements = [m \in MatchIds |-> "NONE"]
  /\ rtResults = [m \in MatchIds |-> [a \in Addr |-> NoResult]]
  /\ settlementPaused = FALSE

-----------------------------------------------------------------------------
(***************************************************************************)
(* _payout.  Fees are charged on the pool at the rates configured now, and *)
(* only when the match was played; a draw gives the odd unit to player B.  *)
(***************************************************************************)
\* Variant (no specification uses it): each fee is capped, their sum is not.
FeesWithinOwnCaps(m) == /\ GameOf(m).studioFeeBps <= MaxStudioFeeBps
                        /\ protocolFeeBps <= MaxProtocolFeeBps

FeesWithinCap(m) == GameOf(m).studioFeeBps + protocolFeeBps <= MaxTotalFeeBps

StudioFee(m) == IF GameOf(m).studioFeeRecipient = Zero THEN 0
                ELSE (Pool(m) * GameOf(m).studioFeeBps) \div BPS

ProtocolFee(m) == (Pool(m) * protocolFeeBps) \div BPS

\* Variant: a draw gives both players the lower half.
SplitRoundedDown(outcome, amount) ==
  CASE outcome = "WIN_A" -> <<amount, 0>>
    [] outcome = "WIN_B" -> <<0, amount>>
    [] outcome = "DRAW"  -> <<amount \div 2, amount \div 2>>

Split(outcome, amount) ==
  CASE outcome = "WIN_A" -> <<amount, 0>>
    [] outcome = "WIN_B" -> <<0, amount>>
    [] outcome = "DRAW"  -> <<amount \div 2, amount - amount \div 2>>

Payment(m, outcome) ==
  IF outcome = "CANCELLED"
  THEN [NoPayment EXCEPT !.studio = GameOf(m).studioFeeRecipient,
                         !.protocol = protocolFeeRecipient,
                         !.toA = matches[m].stakeAmount,
                         !.toB = matches[m].stakeAmountB]
  ELSE LET shares == Split(outcome, Pool(m) - StudioFee(m) - ProtocolFee(m))
       IN [studio |-> GameOf(m).studioFeeRecipient, studioFee |-> StudioFee(m),
           protocol |-> protocolFeeRecipient, protocolFee |-> ProtocolFee(m),
           toA |-> shares[1], toB |-> shares[2]]

Payout(m, outcome) ==
  /\ outcome # "NONE"
  /\ FeesWithinCap(m)
  /\ settlements' = [settlements EXCEPT ![m] = outcome]
  /\ SettleMatch(m, "SETTLED", Payment(m, outcome))

-----------------------------------------------------------------------------
(***************************************************************************)
(* A result signed by one of the game's verifiers, submitted by anyone.    *)
(* The signer must be a verifier when the call executes, whoever was one   *)
(* when it signed.  A verifier signs only for a match it saw created.      *)
(***************************************************************************)
SubmitAsyncResult(m, outcome, signer) ==
  /\ ~settlementPaused
  /\ Created(m)
  /\ GameOf(m).mode = "ASYNC_VERIFIER"
  /\ matches[m].state = "READY"
  /\ signer \in GameOf(m).verifiers
  /\ Payout(m, outcome)
  /\ UNCHANGED <<protocolFeeBps, protocolFeeRecipient, rtResults,
                 settlementPaused>>

Opponent(m, a) == IF a = matches[m].playerA THEN matches[m].playerB
                                            ELSE matches[m].playerA

(***************************************************************************)
(* One player reports the outcome and the hash of the transcript.  The     *)
(* first report waits, and may be replaced by its author; the second pays  *)
(* out or opens a dispute.                                                 *)
(***************************************************************************)
RecordRtResult(m, a, result) ==
  /\ ~settlementPaused
  /\ GameOf(m).mode = "RT_HASH_AGREE"
  /\ matches[m].state = "READY"
  /\ a \in {matches[m].playerA, matches[m].playerB}
  /\ rtResults' = [rtResults EXCEPT ![m][a] = result]

AwaitOpponent(m, a, result) ==
  /\ RecordRtResult(m, a, result)
  /\ rtResults[m][Opponent(m, a)].outcome = "NONE"
  /\ UNCHANGED <<registryVars, protocolFeeBps, protocolFeeRecipient,
                 settlements, settlementPaused>>

AgreeWithOpponent(m, a, result) ==
  /\ RecordRtResult(m, a, result)
  /\ rtResults[m][Opponent(m, a)] = result
  /\ Payout(m, result.outcome)
  /\ UNCHANGED <<protocolFeeBps, protocolFeeRecipient, settlementPaused>>

DisagreeWithOpponent(m, a, result) ==
  /\ RecordRtResult(m, a, result)
  /\ rtResults[m][Opponent(m, a)].outcome # "NONE"
  /\ rtResults[m][Opponent(m, a)] # result
  /\ SettleMatch(m, "DISPUTED", NoPayment)
  /\ UNCHANGED <<protocolFeeBps, protocolFeeRecipient, settlements,
                 settlementPaused>>

\* Variant: the arbiter need not wait for a dispute.
ResolveWithoutDispute(m, a, enforcedOutcome) ==
  /\ ~settlementPaused
  /\ matches[m].state \in {"READY", "DISPUTED"}
  /\ a = GameOf(m).arbiter
  /\ matches[m].playerB # Zero
  /\ Payout(m, enforcedOutcome)
  /\ UNCHANGED <<protocolFeeBps, protocolFeeRecipient, rtResults,
                 settlementPaused>>

ResolveDispute(m, a, enforcedOutcome) ==
  /\ ~settlementPaused
  /\ matches[m].state = "DISPUTED"
  /\ a = GameOf(m).arbiter
  /\ matches[m].playerB # Zero
  /\ Payout(m, enforcedOutcome)
  /\ UNCHANGED <<protocolFeeBps, protocolFeeRecipient, rtResults,
                 settlementPaused>>

-----------------------------------------------------------------------------
UpdateProtocolFeeBps(bps) ==
  /\ bps <= MaxProtocolFeeBps
  /\ protocolFeeBps' = bps
  /\ UNCHANGED <<registryVars, protocolFeeRecipient, settlements, rtResults,
                 settlementPaused>>

\* Variant: the recipient may be cleared.
UpdateProtocolFeeRecipientToAny(recipient) ==
  /\ protocolFeeRecipient' = recipient
  /\ UNCHANGED <<registryVars, protocolFeeBps, settlements, rtResults,
                 settlementPaused>>

UpdateProtocolFeeRecipient(recipient) ==
  /\ recipient # Zero
  /\ protocolFeeRecipient' = recipient
  /\ UNCHANGED <<registryVars, protocolFeeBps, settlements, rtResults,
                 settlementPaused>>

PauseSettlement ==
  /\ "pause settlement" \in OwnerMoves
  /\ settlementPaused' = ~settlementPaused
  /\ UNCHANGED <<registryVars, protocolFeeBps, protocolFeeRecipient,
                 settlements, rtResults>>

-----------------------------------------------------------------------------
SubmitRealTimeHashResult(m, a, result) ==
  \/ AwaitOpponent(m, a, result)
  \/ AgreeWithOpponent(m, a, result)
  \/ DisagreeWithOpponent(m, a, result)

Settling ==
  \E m \in MatchIds, a \in Accounts :
    \/ \E outcome \in OutcomeCodes :
         \/ SubmitAsyncResult(m, outcome, a)
         \/ ResolveDispute(m, a, outcome)
    \/ \E result \in RtResults : SubmitRealTimeHashResult(m, a, result)

SettlementAdministration ==
  \/ \E bps \in FeeChoices : UpdateProtocolFeeBps(bps)
  \/ \E a \in Recipients \cup {Zero} : UpdateProtocolFeeRecipient(a)
  \/ PauseSettlement

Next == \/ RegistryStep /\ UNCHANGED settlementVars
        \/ Settling
        \/ SettlementAdministration

Spec == Init /\ [][Next]_vars

(***************************************************************************)
(* Time passes, and somebody calls expireMatch once it may be called: the  *)
(* call needs no permission, no pause blocks it, and each player of a live *)
(* match has a stake to win back.                                          *)
(***************************************************************************)
Fairness ==
  /\ WF_vars(Tick /\ UNCHANGED settlementVars)
  /\ \A m \in MatchIds : WF_vars(ExpireMatch(m) /\ UNCHANGED settlementVars)

FairSpec == Spec /\ Fairness

\* Every slot of both contracts keeps its type.
TypeOK ==
  /\ RegistryTypeOK
  /\ protocolFeeBps \in Nat
  /\ protocolFeeRecipient \in Accounts
  /\ settlements \in [MatchIds -> OutcomeCodes]
  /\ rtResults \in [MatchIds -> [Addr -> RtResults]]
  /\ settlementPaused \in BOOLEAN

(***************************************************************************)
(* How much the claim of account a on the token of match m grows.          *)
(***************************************************************************)
Gain(m, a) == pendingWithdrawals'[TokenOf(m)][a]
                - pendingWithdrawals[TokenOf(m)][a]

Winners(m, outcome) ==
  CASE outcome = "WIN_A" -> {matches[m].playerA}
    [] outcome = "WIN_B" -> {matches[m].playerB}
    [] OTHER             -> {matches[m].playerA, matches[m].playerB}

\* Whatever fees studio and owner configured before or after the stakes came
\* in, the winners of a played match receive the pool less at most the
\* combined cap of _payout, rounding included.
WinnersKeepTheRest ==
  [][\A m \in MatchIds :
       settlements[m] = "NONE" /\ settlements'[m] \in {"WIN_A", "WIN_B", "DRAW"}
         => LET winners == Winners(m, settlements'[m])
                gains   == [a \in winners |-> Gain(m, a)]
            IN BPS * Total(gains) >= (BPS - MaxTotalFeeBps) * Pool(m)]_vars

EndsWithoutWinner(m) ==
  /\ Created(m)
  /\ matches[m].state \in Live
  /\ \/ matches'[m].state = "EXPIRED"
     \/ matches'[m].state = "SETTLED" /\ settlements'[m] \in {"NONE", "CANCELLED"}

\* A match that ends without a winner (cancelled by its creator, expired, or
\* settled as CANCELLED) gives each player exactly the stake the registry
\* received from that player, and charges no fee.
RefundsAreExact ==
  [][\A m \in MatchIds :
       EndsWithoutWinner(m) =>
         /\ Gain(m, matches[m].playerA) = matches[m].stakeAmount
         /\ matches[m].playerB # Zero =>
              Gain(m, matches[m].playerB) = matches[m].stakeAmountB
         /\ \A a \in Accounts \ {matches[m].playerA, matches[m].playerB} :
              Gain(m, a) = 0]_vars

\* The two contracts agree: a created match has a recorded outcome exactly
\* when the registry shows it settled between two players.
SettledIffRecorded ==
  \A m \in MatchIds :
    Created(m) =>
      (settlements[m] # "NONE" <=>
         matches[m].state = "SETTLED" /\ matches[m].playerB # Zero)

\* In hash-agreement mode a match is disputed only when the two reports
\* differ, and an outcome is enforced against a report only then: an agreement
\* of the players can neither be disputed nor overruled by the arbiter.
AgreementBinds ==
  \A m \in MatchIds :
    LET a == rtResults[m][matches[m].playerA]
        b == rtResults[m][matches[m].playerB]
    IN /\ matches[m].state = "DISPUTED" => a # b
       /\ Created(m) /\ GameOf(m).mode = "RT_HASH_AGREE"
            /\ settlements[m] # "NONE" /\ a = b
          => settlements[m] = a.outcome

\* The owner's pot stays empty: this settlement contract always names a fee
\* recipient, so every fee is a credit and withdrawFees() has nothing to pay.
FeePotStaysEmpty == \A t \in Tokens : feeBalances[t] = 0

\* No stake stays locked for ever: every created match is eventually settled,
\* cancelled or expired, even while both contracts are paused or the fees are
\* configured above the cap and no settlement can succeed.
StakesReleased ==
  \A m \in MatchIds : Created(m) ~> matches[m].state \notin Live
=============================================================================
