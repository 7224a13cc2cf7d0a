--------------------------- MODULE MatchLifecycle ---------------------------
(***************************************************************************)
(* One match of amp-server: its row in amp_matches, the players' reports,  *)
(* the ratings, the settlement jobs, and the tasks that work on them.  A   *)
(* task is a request handler or the sweep loop; it runs from await to      *)
(* await, so one step of it is one database statement (or chain read) and  *)
(* the code up to the next one.  Matches share no state except the counter *)
(* of live matches, of which liveMatches is the part this match adds.      *)
(***************************************************************************)
EXTENDS Integers, Sequences, FiniteSets

CONSTANTS
  Kinds,           \* bound: kinds of match created: "free", "staked", "bot"
  ReportChoices,   \* bound: reports a player may submit
  NoHash,          \* a report without a transcript hash
  Signer,          \* are verifier key and settlement address configured?
  ArbitratedIn,    \* row states in which the operator decides to arbitrate
  Rulings,         \* bound: what the operator may rule
  MaxArbitrations, \* bound: arbitration requests
  MaxFailures      \* bound: failed or dropped tasks, and restarts

Players  == {"A", "B"}
Tasks    == Players \cup {"maker", "verify", "sweep", "operator"}
Verdicts == {"win_a", "win_b", "draw"}
RowStates == {"none", "escrow_pending", "live", "agreed", "settling_rt",
              "settling", "settled", "disputed", "cancelled"}
NoReport == [result |-> "none", hash |-> NoHash]

ASSUME LifecycleAssumption ==
  /\ Kinds \subseteq {"free", "staked", "bot"}
  /\ \A r \in ReportChoices : r.result \in {"win", "loss", "draw"}
  /\ Signer \in BOOLEAN
  /\ ArbitratedIn \subseteq RowStates \ {"none"}
  /\ Rulings \subseteq Verdicts \cup {"cancelled"}
  /\ MaxArbitrations \in Nat /\ MaxFailures \in Nat

VARIABLES
  kind,         \* what the matchmaker created; "none" before
  row,          \* state, outcome, attested outcome, expires_at and
                \* settle_deadline passed?
  reports,      \* amp_match_reports: the first report of each player
  ratings,      \* wins, losses and draws added to each player's profile
  jobs,         \* outcomes of the settle_match jobs, oldest first
  task,         \* where each task is, and what it remembers
  liveMatches,  \* what this match adds to AppState.live_matches
  onChain,      \* is the match READY in the registry, with both stakes?
  arbitrations, failures

vars == <<kind, row, reports, ratings, jobs, task, liveMatches, onChain,
          arbitrations, failures>>
counts == <<arbitrations, failures>>

Idle == [pc |-> "idle", report |-> NoReport, outcome |-> "none",
         direct |-> FALSE]

NoRow == [state |-> "none", outcome |-> "none", attested |-> "none",
          expired |-> FALSE, lapsed |-> FALSE]

Init ==
  /\ kind = "none"
  /\ row = NoRow
  /\ reports = [p \in Players |-> NoReport]
  /\ ratings = [p \in Players |-> [won |-> 0, lost |-> 0, drew |-> 0]]
  /\ jobs = <<>>
  /\ task = [t \in Tasks |-> Idle]
  /\ liveMatches = 0
  /\ onChain = FALSE
  /\ arbitrations = 0 /\ failures = 0

At(t, pc)   == task[t].pc = pc
Goto(t, pc) == task' = [task EXCEPT ![t].pc = pc]
Done(t)     == task' = [task EXCEPT ![t] = Idle]

\* The last step of a task that ends the match also uncounts it.
Finish(t) == Done(t) /\ liveMatches' = liveMatches - 1

Quiescent == \A t \in Tasks : At(t, "idle")

SetState(state) == row' = [row EXCEPT !.state = state]

-----------------------------------------------------------------------------
(***************************************************************************)
(* What reports say.                                                       *)
(***************************************************************************)
Reported == {p \in Players : reports[p] # NoReport}

Claim(p) ==
  CASE reports[p].result = "draw"  -> "draw"
    [] reports[p].result = "win"   -> IF p = "A" THEN "win_a" ELSE "win_b"
    [] reports[p].result = "loss"  -> IF p = "A" THEN "win_b" ELSE "win_a"

HashesDiffer == /\ NoHash \notin {reports[p].hash : p \in Players}
                /\ reports["A"].hash # reports["B"].hash

HashesAgree == reports["A"].hash = reports["B"].hash /\ reports["A"].hash # NoHash

\* Variant (no specification uses it): in a conflict player B is believed.
ReconcileBelievingB == IF Reported = Players /\ ~HashesDiffer
                       THEN Claim("B") ELSE "none"

Reconcile == IF Reported = Players /\ ~HashesDiffer /\ Claim("A") = Claim("B")
             THEN Claim("A")
             ELSE "none"

\* Both players signed (every report on a staked match is) the same hash: the
\* players settle on chain themselves, the relayer only after the grace window.
DirectRt == kind = "staked" /\ Reported = Players /\ HashesAgree

\* Variant: the reporter is taken to be player A.
DefaultForA(p) == IF reports[p].result = "draw" THEN "draw"
                  ELSE IF reports[p].result = "win" THEN "win_a" ELSE "win_b"

\* reconcile_default: a lone report stands.
Default(p) == Claim(p)

-----------------------------------------------------------------------------
(***************************************************************************)
(* Creation and escrow.  A staked match is live once escrow_verify saw the *)
(* registry's match READY; confirm_escrow restarts the expiry.             *)
(***************************************************************************)
CreateMatch(k) ==
  /\ kind = "none"
  /\ kind' = k
  /\ SetState(IF k = "staked" THEN "escrow_pending" ELSE "live")
  /\ Goto("maker", "count")
  /\ UNCHANGED <<reports, ratings, jobs, liveMatches, onChain, counts>>

CountMatch ==
  /\ At("maker", "count")
  /\ liveMatches' = liveMatches + 1
  /\ Done("maker")
  /\ UNCHANGED <<kind, row, reports, ratings, jobs, onChain, counts>>

VerifyEscrow ==
  /\ At("verify", "idle")
  /\ row.state = "escrow_pending"
  /\ Goto("verify", "read chain")
  /\ UNCHANGED <<kind, row, reports, ratings, jobs, liveMatches, onChain, counts>>

\* Variant: any match found on chain will do.
ReadAnyChainState ==
  /\ At("verify", "read chain")
  /\ Goto("verify", "confirm")
  /\ UNCHANGED <<kind, row, reports, ratings, jobs, liveMatches, onChain, counts>>

ReadChain ==
  /\ At("verify", "read chain")
  /\ IF onChain THEN Goto("verify", "confirm") ELSE Done("verify")
  /\ UNCHANGED <<kind, row, reports, ratings, jobs, liveMatches, onChain, counts>>

ConfirmEscrow ==
  /\ At("verify", "confirm")
  /\ IF row.state = "escrow_pending"
     THEN /\ row' = [row EXCEPT !.state = "live", !.expired = FALSE]
          /\ liveMatches' = liveMatches + 1
     ELSE UNCHANGED <<row, liveMatches>>
  /\ Done("verify")
  /\ UNCHANGED <<kind, reports, ratings, jobs, onChain, counts>>

-----------------------------------------------------------------------------
(***************************************************************************)
(* Finalizing: apply_outcome and sign_and_store, for any task at "agree"   *)
(* that remembers an outcome.  No statement looks at the row's state.      *)
(***************************************************************************)
MarkAgreed(t) ==
  /\ At(t, "agree")
  /\ row' = [row EXCEPT
               !.state = IF task[t].direct THEN "settling_rt" ELSE "agreed",
               !.outcome = task[t].outcome,
               !.lapsed = FALSE]
  /\ Goto(t, "rate A")
  /\ UNCHANGED <<kind, reports, ratings, jobs, liveMatches, onChain, counts>>

\* Variant: both players are scored as player A.
ScoredAsA(p, outcome) ==
  CASE outcome = "draw"  -> "drew"
    [] outcome = "win_a" -> "won"
    [] OTHER             -> "lost"

Score(p, outcome) ==
  CASE outcome = "draw"                                  -> "drew"
    [] outcome = IF p = "A" THEN "win_a" ELSE "win_b"    -> "won"
    [] OTHER                                             -> "lost"

ApplyRating(p, t) ==
  ratings' = [ratings EXCEPT ![p][Score(p, task[t].outcome)] = @ + 1]

RateA(t) ==
  /\ At(t, "rate A")
  /\ ApplyRating("A", t)
  /\ Goto(t, "rate B")
  /\ UNCHANGED <<kind, row, reports, jobs, liveMatches, onChain, counts>>

RateB(t) ==
  /\ At(t, "rate B")
  /\ ApplyRating("B", t)
  /\ IF Signer THEN Goto(t, "attest") /\ UNCHANGED liveMatches ELSE Finish(t)
  /\ UNCHANGED <<kind, row, reports, jobs, onChain, counts>>

SetAttestation(t) ==
  /\ At(t, "attest")
  /\ row' = [row EXCEPT !.attested = task[t].outcome]
  /\ IF kind = "staked" /\ ~task[t].direct
     THEN Goto(t, "job") /\ UNCHANGED liveMatches
     ELSE Finish(t)
  /\ UNCHANGED <<kind, reports, ratings, jobs, onChain, counts>>

\* Variant: an error of the insert is ignored.
InsertSettleJobOrNot(t) ==
  /\ At(t, "job")
  /\ \/ jobs' = Append(jobs, task[t].outcome) /\ UNCHANGED failures
     \/ failures < MaxFailures /\ failures' = failures + 1 /\ UNCHANGED jobs
  /\ Goto(t, "settling")
  /\ UNCHANGED <<kind, row, reports, ratings, liveMatches, onChain, arbitrations>>

InsertSettleJob(t) ==
  /\ At(t, "job")
  /\ jobs' = Append(jobs, task[t].outcome)
  /\ Goto(t, "settling")
  /\ UNCHANGED <<kind, row, reports, ratings, liveMatches, onChain, counts>>

SetSettling(t) ==
  /\ At(t, "settling")
  /\ SetState("settling")
  /\ Finish(t)
  /\ UNCHANGED <<kind, reports, ratings, jobs, onChain, counts>>

SetDisputed(t) ==
  /\ At(t, "dispute")
  /\ SetState("disputed")
  /\ Done(t)
  /\ UNCHANGED <<kind, reports, ratings, jobs, liveMatches, onChain, counts>>

-----------------------------------------------------------------------------
(***************************************************************************)
(* report_outcome, for player p.  The house bot of a bot match, player B,  *)
(* sends no reports.                                                       *)
(***************************************************************************)
ReportOutcome(p, r) ==
  /\ At(p, "idle")
  /\ row.state = "live"
  /\ kind = "bot" => p = "A"
  /\ task' = [task EXCEPT ![p].pc = "insert", ![p].report = r]
  /\ UNCHANGED <<kind, row, reports, ratings, jobs, liveMatches, onChain, counts>>

InsertReport(p) ==
  /\ At(p, "insert")
  /\ IF reports[p] = NoReport
     THEN /\ reports' = [reports EXCEPT ![p] = task[p].report]
          /\ task' = [task EXCEPT ![p].pc = IF kind = "bot" THEN "finalize bot"
                                                           ELSE "read reports",
                                  ![p].report = NoReport]
     ELSE Done(p) /\ UNCHANGED reports
  /\ UNCHANGED <<kind, row, ratings, jobs, liveMatches, onChain, counts>>

FinalizeBotMatch(p) ==
  /\ At(p, "finalize bot")
  /\ row' = IF row.state = "live"
            THEN [row EXCEPT !.state = "agreed", !.outcome = Claim(p)]
            ELSE row
  /\ Finish(p)
  /\ UNCHANGED <<kind, reports, ratings, jobs, onChain, counts>>

ReadReports(p) ==
  /\ At(p, "read reports")
  /\ IF Reported # Players THEN Done(p)
     ELSE IF Reconcile = "none" THEN Goto(p, "dispute")
     ELSE task' = [task EXCEPT ![p].pc = "agree", ![p].outcome = Reconcile,
                               ![p].direct = DirectRt]
  /\ UNCHANGED <<kind, row, reports, ratings, jobs, liveMatches, onChain, counts>>

-----------------------------------------------------------------------------
(***************************************************************************)
(* sweep_once: lapsed escrow windows, lapsed direct settlements, expired   *)
(* live matches.  Each list is read by one query and worked off after it;  *)
(* a query that does not list the match is no step.                        *)
(***************************************************************************)
Sweep(found, pc, outcome) ==
  /\ At("sweep", "idle")
  /\ found
  /\ task' = [task EXCEPT !["sweep"].pc = pc, !["sweep"].outcome = outcome]
  /\ UNCHANGED <<kind, row, reports, ratings, jobs, liveMatches, onChain, counts>>

ExpiredEscrow == row.state = "escrow_pending" /\ row.expired
RtOverdue     == row.state = "settling_rt" /\ row.lapsed
ExpiredLive   == row.state = "live" /\ row.expired

SweepEscrow == Sweep(ExpiredEscrow, "cancel escrow", "none")

CancelEscrow ==
  /\ At("sweep", "cancel escrow")
  /\ SetState("cancelled")
  /\ Done("sweep")
  /\ UNCHANGED <<kind, reports, ratings, jobs, liveMatches, onChain, counts>>

\* Variants: a missing attestation is not noticed; a match without one is
\* skipped; the fallback only closes the match.
SweepOverdueBlindly == Sweep(RtOverdue, "fallback job", row.attested)

SweepOverdueAttested ==
  Sweep(RtOverdue /\ row.attested # "none", "fallback job", row.attested)

SweepOverdueGivingUp == Sweep(RtOverdue, "give up", "none")

SweepOverdue ==
  Sweep(RtOverdue, IF row.attested = "none" THEN "give up" ELSE "fallback job",
        row.attested)

GiveUpRt ==
  /\ At("sweep", "give up")
  /\ SetState("agreed")
  /\ Done("sweep")
  /\ UNCHANGED <<kind, reports, ratings, jobs, liveMatches, onChain, counts>>

FallbackJob ==
  /\ At("sweep", "fallback job")
  /\ jobs' = Append(jobs, task["sweep"].outcome)
  /\ Goto("sweep", "fallback settling")
  /\ UNCHANGED <<kind, row, reports, ratings, liveMatches, onChain, counts>>

FallbackSettling ==
  /\ At("sweep", "fallback settling")
  /\ SetState("settling")
  /\ Done("sweep")
  /\ UNCHANGED <<kind, reports, ratings, jobs, liveMatches, onChain, counts>>

SweepExpired == Sweep(ExpiredLive, "get reports", "none")

GetReports ==
  /\ At("sweep", "get reports")
  /\ CASE Reported = {}      -> Goto("sweep", "cancel")
       [] Reported = Players -> Goto("sweep", "dispute")
       [] OTHER -> \E p \in Reported :
            task' = [task EXCEPT !["sweep"].pc = "agree",
                                 !["sweep"].outcome = Default(p)]
  /\ UNCHANGED <<kind, row, reports, ratings, jobs, liveMatches, onChain, counts>>

CancelExpired ==
  /\ At("sweep", "cancel")
  /\ SetState("cancelled")
  /\ Finish("sweep")
  /\ UNCHANGED <<kind, reports, ratings, jobs, onChain, counts>>

-----------------------------------------------------------------------------
(***************************************************************************)
(* admin_arbitrate.  The handler accepts any match in any state; the       *)
(* operator calls it for matches seen in a state of ArbitratedIn.          *)
(***************************************************************************)
Arbitrate(verdict) ==
  /\ At("operator", "idle")
  /\ row.state \in ArbitratedIn
  /\ arbitrations < MaxArbitrations
  /\ arbitrations' = arbitrations + 1
  /\ task' = [task EXCEPT !["operator"].pc = IF verdict = "cancelled"
                                             THEN "cancel match" ELSE "agree",
                          !["operator"].outcome = verdict]
  /\ UNCHANGED <<kind, row, reports, ratings, jobs, liveMatches, onChain, failures>>

CancelByOperator ==
  /\ At("operator", "cancel match")
  /\ row' = IF row.state = "live"
            THEN [row EXCEPT !.state = "cancelled", !.outcome = "cancelled"]
            ELSE row
  /\ Finish("operator")
  /\ UNCHANGED <<kind, reports, ratings, jobs, onChain, counts>>

-----------------------------------------------------------------------------
(***************************************************************************)
(* Environment: time, the registry, failures.  The grace window of a       *)
(* direct settlement is minutes long, and no request is still being        *)
(* finalized when it ends.  A statement that fails, or a client that hangs *)
(* up, drops the task; a restart drops all of them and recounts.           *)
(***************************************************************************)
Expire ==
  /\ row.state \in {"escrow_pending", "live"} /\ ~row.expired
  /\ row' = [row EXCEPT !.expired = TRUE]
  /\ UNCHANGED <<kind, reports, ratings, jobs, task, liveMatches, onChain, counts>>

Lapse ==
  /\ row.state = "settling_rt" /\ ~row.lapsed
  /\ \A t \in Tasks \ {"sweep"} : At(t, "idle")
  /\ row' = [row EXCEPT !.lapsed = TRUE]
  /\ UNCHANGED <<kind, reports, ratings, jobs, task, liveMatches, onChain, counts>>

EscrowFunded ==
  /\ kind = "staked"
  /\ ~onChain
  /\ onChain' = TRUE
  /\ UNCHANGED <<kind, row, reports, ratings, jobs, task, liveMatches, counts>>

Fail(t) ==
  /\ failures < MaxFailures
  /\ ~At(t, "idle")
  /\ failures' = failures + 1
  /\ Done(t)
  /\ UNCHANGED <<kind, row, reports, ratings, jobs, liveMatches, onChain, arbitrations>>

Restart ==
  /\ failures < MaxFailures
  /\ failures' = failures + 1
  /\ task' = [t \in Tasks |-> Idle]
  /\ liveMatches' = IF row.state = "live" THEN 1 ELSE 0
  /\ UNCHANGED <<kind, row, reports, ratings, jobs, onChain, arbitrations>>

-----------------------------------------------------------------------------
Finalizing(t) == \/ MarkAgreed(t) \/ RateA(t) \/ RateB(t) \/ SetAttestation(t)
                 \/ InsertSettleJob(t) \/ SetSettling(t) \/ SetDisputed(t)

Sweeping == \/ SweepEscrow \/ CancelEscrow
            \/ SweepOverdue \/ GiveUpRt \/ FallbackJob \/ FallbackSettling
            \/ SweepExpired \/ GetReports \/ CancelExpired
            \/ Finalizing("sweep")

Reporting(p) == InsertReport(p) \/ FinalizeBotMatch(p) \/ ReadReports(p) \/ Finalizing(p)

Arbitrating == CancelByOperator \/ Finalizing("operator")

Verifying == ReadChain \/ ConfirmEscrow

Next ==
  \/ \E k \in Kinds : CreateMatch(k)
  \/ CountMatch
  \/ VerifyEscrow \/ Verifying
  \/ \E p \in Players : Reporting(p) \/ \E r \in ReportChoices : ReportOutcome(p, r)
  \/ Sweeping
  \/ Arbitrating \/ \E v \in Rulings : Arbitrate(v)
  \/ Expire \/ Lapse \/ EscrowFunded
  \/ Restart \/ \E t \in Tasks : Fail(t)

Spec == Init /\ [][Next]_vars

(***************************************************************************)
(* Time passes; the runtime polls every task; the sweep loop comes round.  *)
(* Players and operator need never call anything.                          *)
(***************************************************************************)
Fairness ==
  /\ WF_vars(Expire) /\ WF_vars(Lapse)
  /\ WF_vars(CountMatch) /\ WF_vars(Verifying)
  /\ WF_vars(Sweeping)
  /\ \A p \in Players : WF_vars(Reporting(p))
  /\ WF_vars(Arbitrating)

FairSpec == Spec /\ Fairness

\* Rows, reports, ratings and tasks keep their types; a settlement job always
\* carries an outcome the contract can pay out.
TypeOK ==
  /\ kind \in Kinds \cup {"none"}
  /\ row \in [state : RowStates, outcome : Verdicts \cup {"none", "cancelled"},
              attested : Verdicts \cup {"none"}, expired : BOOLEAN, lapsed : BOOLEAN]
  /\ reports \in [Players -> ReportChoices \cup {NoReport}]
  /\ ratings \in [Players -> [won : Nat, lost : Nat, drew : Nat]]
  /\ \A i \in DOMAIN jobs : jobs[i] \in Verdicts
  /\ DOMAIN task = Tasks
  /\ liveMatches \in Int
  /\ onChain \in BOOLEAN
  /\ arbitrations \in 0 .. MaxArbitrations
  /\ failures \in 0 .. MaxFailures

\* However often reports, sweep and retries finalize the same match, every
\* settlement job asks for the outcome of the row, and a player reported that
\* outcome; only the operator can ask for another one.
JobsCarryTheVerdict ==
  arbitrations = 0 =>
    \A i \in DOMAIN jobs : /\ jobs[i] = row.outcome
                           /\ jobs[i] \in {Claim(p) : p \in Reported}

\* A verdict stands: a report that arrives while the sweep settles the match
\* by default may dispute it, but never turns it into another verdict.
VerdictStands ==
  [][arbitrations = 0 /\ row.outcome # "none" => row'.outcome = row.outcome]_vars

\* When nothing failed and nothing is under way, each win is the opponent's
\* loss and each draw the opponent's draw, however many tasks finalized.
RatingsMirrored ==
  Quiescent /\ failures = 0 =>
    /\ ratings["A"].won = ratings["B"].lost
    /\ ratings["A"].lost = ratings["B"].won
    /\ ratings["A"].drew = ratings["B"].drew

\* A match that waits for the relayer has a job for the relayer, whichever
\* statement of whichever task failed.
SettlingHasJob == row.state = "settling" => jobs # <<>>

\* A settlement job exists only for a staked match whose two stakes are in
\* the registry's escrow.
JobsAreEscrowed == jobs # <<>> => kind = "staked" /\ onChain

\* A match does not stay open: it is agreed, disputed or cancelled in the end,
\* even if no player ever reports and some tasks fail half-way.
MatchEnds ==
  row.state \in {"escrow_pending", "live", "settling_rt"}
    ~> row.state \notin {"escrow_pending", "live", "settling_rt"}

\* When no task fails, a staked match with a verdict is handed to the relayer
\* in the end, at once or after the players' window to settle directly, unless
\* a late statement of the sweep or of a conflicting report closed it: it is
\* never left agreed, with the stakes in escrow and nobody to settle them.
VerdictReachesRelayer ==
  kind = "staked" /\ row.outcome \in Verdicts
    ~> \/ jobs # <<>>
       \/ row.state \in {"cancelled", "disputed"}
       \/ failures > 0

-----------------------------------------------------------------------------
(***************************************************************************)
(* What comments of the code say and the code does not do.                 *)
(***************************************************************************)
\* "both players report consistent results -> agreed": when all is done, such
\* a match is neither disputed nor cancelled.
ConsistentReportsAgree ==
  Quiescent /\ arbitrations = 0 /\ Reconcile # "none"
    => row.state \notin {"disputed", "cancelled"}

\* "Count live matches for the active-match cap": a match that is over is no
\* longer counted.
EndedMatchUncounted ==
  Quiescent /\ row.state \notin {"none", "escrow_pending", "live"}
    => liveMatches <= 0
=============================================================================
