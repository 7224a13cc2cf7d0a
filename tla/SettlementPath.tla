--------------------------- MODULE SettlementPath ---------------------------
(***************************************************************************)
(* How the verdict on a staked match reaches the chain: the match of       *)
(* amp-server (MatchLifecycle), its settlement jobs, the relayer that      *)
(* works them off, and the match in the registry, which the players and    *)
(* anybody with the attestation can move as well.  It begins when the      *)
(* escrow has been verified and the match is live.  AMPSettlement has the  *)
(* contracts in full; here they are what one match shows to the server.    *)
(***************************************************************************)
EXTENDS MatchLifecycle

CONSTANT Modes  \* bound: settlement modes of the game the stakes were put in

ASSUME ModesAssumption ==
  /\ "staked" \in Kinds
  /\ Modes \subseteq {"ASYNC_VERIFIER", "RT_HASH_AGREE"}

VARIABLES
  mode,      \* the game's settlement mode
  idFits,    \* is the on-chain id less than 2^63?
  chain,     \* the registry's match, once both stakes are in
  hashes,    \* rtResults: the players who have submitted their result
  relayer,   \* where the relayer is in the oldest pending job
  answers    \* the status of each answered job, oldest first

pathVars == <<mode, idFits, chain, hashes, relayer, answers>>
allVars  == <<vars, pathVars>>

\* An agreement, an attestation or the arbiter settles; a timeout refunds.
Ready == [state |-> "READY", by |-> "nobody", outcome |-> "none"]

PathInit ==
  /\ kind = "staked"
  /\ row = [NoRow EXCEPT !.state = "live"]
  /\ reports = [p \in Players |-> NoReport]
  /\ ratings = [p \in Players |-> [won |-> 0, lost |-> 0, drew |-> 0]]
  /\ jobs = <<>>
  /\ task = [t \in Tasks |-> Idle]
  /\ liveMatches = 1
  /\ onChain = TRUE
  /\ arbitrations = 0 /\ failures = 0
  /\ mode \in Modes
  /\ idFits \in BOOLEAN
  /\ chain = Ready
  /\ hashes = {}
  /\ relayer = "idle"
  /\ answers = <<>>

SettleBy(who, outcome) ==
  chain' = [state |-> "SETTLED", by |-> who, outcome |-> outcome]

-----------------------------------------------------------------------------
(***************************************************************************)
(* The chain.  The registry's timeout, an hour unless the studio sets it,  *)
(* may well be over before the server is done.                             *)
(***************************************************************************)
\* submitAsyncResult with the verifier's signature on an outcome; elsewhere it
\* reverts.
MaySubmit == mode = "ASYNC_VERIFIER" /\ chain.state = "READY"

\* Anybody may submit the attestation, which the server hands out.
SubmitAttestation ==
  /\ row.attested # "none"
  /\ MaySubmit
  /\ SettleBy("verifier", row.attested)
  /\ UNCHANGED <<vars, mode, idFits, hashes, relayer, answers>>

\* A player submits on chain the result and hash that the server was told.
SubmitHash(p) ==
  /\ mode = "RT_HASH_AGREE" /\ chain.state = "READY"
  /\ p \in Reported \ hashes
  /\ hashes' = hashes \cup {p}
  /\ IF hashes' # Players THEN UNCHANGED chain
     ELSE IF HashesAgree /\ Claim("A") = Claim("B") THEN SettleBy("players", Claim(p))
     ELSE chain' = [chain EXCEPT !.state = "DISPUTED"]
  /\ UNCHANGED <<vars, mode, idFits, relayer, answers>>

ResolveDispute(outcome) ==
  /\ chain.state = "DISPUTED"
  /\ SettleBy("arbiter", outcome)
  /\ UNCHANGED <<vars, mode, idFits, hashes, relayer, answers>>

ExpireOnChain ==
  /\ chain.state \in {"READY", "DISPUTED"}
  /\ chain' = [chain EXCEPT !.state = "EXPIRED"]
  /\ UNCHANGED <<vars, mode, idFits, hashes, relayer, answers>>

-----------------------------------------------------------------------------
(***************************************************************************)
(* The relayer: poll_once and settle_match_job.                            *)
(***************************************************************************)
job == Len(answers) + 1

\* A bug: only matches that are still settling are worked on.
TakeJobIfSettling ==
  /\ relayer = "idle"
  /\ job \in DOMAIN jobs /\ row.state = "settling"
  /\ IF idFits THEN relayer' = "submit" /\ UNCHANGED answers
     ELSE answers' = Append(answers, "failed") /\ UNCHANGED relayer
  /\ UNCHANGED <<vars, mode, idFits, chain, hashes>>

\* The id was written as an unsigned number and is read as a signed one.
TakeJob ==
  /\ relayer = "idle"
  /\ job \in DOMAIN jobs
  /\ IF idFits THEN relayer' = "submit" /\ UNCHANGED answers
     ELSE answers' = Append(answers, "failed") /\ UNCHANGED relayer
  /\ UNCHANGED <<vars, mode, idFits, chain, hashes>>

\* The gas is fixed, so nothing simulates the call: when it reverts it is mined
\* all the same, and its receipt is as good as any.
SubmitAsyncResult ==
  /\ relayer = "submit"
  /\ IF MaySubmit THEN SettleBy("verifier", jobs[job]) ELSE UNCHANGED chain
  /\ relayer' = "mined"
  /\ UNCHANGED <<vars, mode, idFits, hashes, answers>>

\* A bug: the row is written before the transaction is mined.
RecordSettledEarly ==
  /\ relayer \in {"submit", "mined"}
  /\ SetState("settled")
  /\ relayer' = "recorded"
  /\ UNCHANGED <<kind, reports, ratings, jobs, task, liveMatches, onChain, counts>>
  /\ UNCHANGED <<mode, idFits, chain, hashes, answers>>

RecordSettled ==
  /\ relayer = "mined"
  /\ SetState("settled")
  /\ relayer' = "recorded"
  /\ UNCHANGED <<kind, reports, ratings, jobs, task, liveMatches, onChain, counts>>
  /\ UNCHANGED <<mode, idFits, chain, hashes, answers>>

AnswerJob ==
  /\ relayer = "recorded"
  /\ answers' = Append(answers, "done")
  /\ relayer' = "idle"
  /\ UNCHANGED <<vars, mode, idFits, chain, hashes>>

\* A call fails, and the job with it, whatever it did so far; or the relayer
\* dies, and the job is pending still.
RelayerStops ==
  /\ relayer # "idle" /\ failures < MaxFailures
  /\ failures' = failures + 1
  /\ relayer' = "idle"
  /\ \/ answers' = Append(answers, "failed")
     \/ UNCHANGED answers
  /\ UNCHANGED <<kind, row, reports, ratings, jobs, task, liveMatches, onChain, arbitrations>>
  /\ UNCHANGED <<mode, idFits, chain, hashes>>

-----------------------------------------------------------------------------
Relaying == TakeJob \/ SubmitAsyncResult \/ RecordSettled \/ AnswerJob

PathNext ==
  \/ Next /\ UNCHANGED pathVars
  \/ SubmitAttestation
  \/ \E p \in Players : SubmitHash(p)
  \/ \E v \in Verdicts : ResolveDispute(v)
  \/ ExpireOnChain
  \/ Relaying \/ RelayerStops

PathSpec == PathInit /\ [][PathNext]_allVars

\* The server as in MatchLifecycle, and the relayer's loop.
FairPathSpec == PathSpec /\ Fairness /\ WF_allVars(Relaying)

-----------------------------------------------------------------------------
\* The chain pays what the server recorded, whichever of the players, the
\* relayer or a holder of the attestation was first, and however often the
\* match was finalized; an operator or an arbiter may rule otherwise.
PaidAsRecorded ==
  chain.by \in {"players", "verifier"} /\ row.outcome # "none" /\ arbitrations = 0
    => chain.outcome = row.outcome

\* A row that says "settled" is: the chain has paid the match or refunded it.
SettledIsFinal == row.state = "settled" => chain.state \in {"SETTLED", "EXPIRED"}

\* The same for games settled by the verifier.
AsyncSettledIsFinal == mode = "ASYNC_VERIFIER" => SettledIsFinal

\* A verdict handed to the relayer is paid, or the stakes are refunded, unless
\* the relayer cannot read the job or something failed.
JobsArePaid ==
  mode = "ASYNC_VERIFIER" /\ idFits /\ jobs # <<>>
    ~> chain.state # "READY" \/ failures > 0
=============================================================================
