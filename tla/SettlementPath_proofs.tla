----------------------- MODULE SettlementPath_proofs ------------------------
(***************************************************************************)
(* The proofs about a verdict, in two parts.  The first is about           *)
(* MatchLifecycle: what one match of the server guarantees, for any        *)
(* reports, rulings, interleaving of its tasks, failures and restarts.     *)
(* The second is about SettlementPath: what the way of the verdict to the  *)
(* chain guarantees, whoever reaches the chain first: the relayer, a       *)
(* player with the attestation, or the players with their hashes.          *)
(***************************************************************************)
EXTENDS SettlementPath, TLAPS

(***************************************************************************)
(*                        The match of the server                          *)
(***************************************************************************)

\* The tasks that may decide the match.
Finalizers == {"A", "B", "sweep", "operator"}

Pcs == {"idle", "count", "read chain", "confirm", "insert", "finalize bot",
        "read reports", "agree", "rate A", "rate B", "attest", "job", "settling",
        "dispute", "cancel escrow", "give up", "fallback job",
        "fallback settling", "get reports", "cancel", "cancel match"}

\* Where a task works with the verdict it remembers, and where the row has it.
Decided  == {"rate A", "rate B", "attest", "job", "fallback job"}
Deciding == {"agree"} \cup Decided

Outcomes == Verdicts \cup {"none", "cancelled"}

Rows == [state : RowStates, outcome : Outcomes, attested : Verdicts \cup {"none"},
         expired : BOOLEAN, lapsed : BOOLEAN]

Scores == [won : Nat, lost : Nat, drew : Nat]

TaskRecords == [pc : Pcs, report : ReportChoices \cup {NoReport},
                outcome : Outcomes, direct : BOOLEAN]

-----------------------------------------------------------------------------
(***************************************************************************)
(* The inductive invariant, in parts.                                      *)
(***************************************************************************)
TaskOK(r) ==
  /\ r.pc = "insert" => r.report \in ReportChoices
  /\ r.pc \in Deciding => r.outcome \in Verdicts

LifeInv ==
  /\ kind \in Kinds \cup {"none"}
  /\ row \in Rows
  /\ reports \in [Players -> ReportChoices \cup {NoReport}]
  /\ ratings \in [Players -> Scores]
  /\ jobs \in Seq(Verdicts)
  /\ task \in [Tasks -> TaskRecords]
  /\ \A t \in Tasks : TaskOK(task[t])
  /\ liveMatches \in Int
  /\ onChain \in BOOLEAN
  /\ arbitrations \in 0 .. MaxArbitrations
  /\ failures \in 0 .. MaxFailures

\* Nothing happens to a match before it is created.
FreshInv ==
  kind = "none" => /\ row.state = "none" /\ jobs = <<>> /\ Reported = {}
                   /\ \A t \in Tasks : At(t, "idle")

\* The job is inserted before the row is set to "settling".
JobInv ==
  /\ row.state = "settling" => jobs # <<>>
  /\ \A t \in Tasks : task[t].pc \in {"settling", "fallback settling"} => jobs # <<>>

\* Does the operator leave alone a match whose escrow was never verified?
EscrowFirst == ArbitratedIn \cap {"escrow_pending", "cancelled"} = {}

\* Until its escrow is verified, only the sweep touches a staked match.
EscrowInv ==
  /\ jobs # <<>> => kind = "staked"
  /\ row.state = "settling_rt" => kind = "staked"
  /\ \A t \in Tasks :
       task[t].pc \in {"job", "fallback job"} \/ task[t].direct => kind = "staked"
  /\ EscrowFirst /\ kind = "staked" /\ ~onChain =>
       /\ row.state \in {"escrow_pending", "cancelled"}
       /\ jobs = <<>>
       /\ At("A", "idle") /\ At("B", "idle") /\ At("operator", "idle")
       /\ task["sweep"].pc \in {"idle", "cancel escrow"}
       /\ ~At("verify", "confirm")

\* The house bot reports nothing.
BotInv ==
  /\ kind = "bot" => Reported \subseteq {"A"} /\ At("B", "idle")
  /\ \A p \in Players : At(p, "finalize bot") => p \in Reported /\ kind = "bot"

Claimed == {Claim(p) : p \in Reported}

\* Before the operator rules there is one verdict, and it was claimed: whoever
\* is about to write one either finds none in the row or writes the same.
TaskVerdict(t) ==
  /\ task[t].pc \in Decided => task[t].outcome = row.outcome
  /\ At(t, "agree") => /\ task[t].outcome \in Claimed
                       /\ row.outcome \in {"none", task[t].outcome}

VerdictInv ==
  arbitrations = 0 =>
    /\ At("operator", "idle")
    /\ row.outcome \in Claimed \cup {"none"}
    /\ row.attested \in {"none", row.outcome}
    /\ jobs # <<>> => row.outcome # "none"
    /\ \A i \in DOMAIN jobs : jobs[i] = row.outcome
    /\ \A t \in Finalizers : TaskVerdict(t)
    /\ \A p \in Players : At(p, "agree") => task[p].outcome = Reconcile

\* Scored for A and not yet for B.
Halfway(t, outcome) == IF At(t, "rate B") /\ task[t].outcome = outcome THEN 1 ELSE 0

AllHalfway(outcome) == Halfway("A", outcome) + Halfway("B", outcome)
                         + Halfway("sweep", outcome) + Halfway("operator", outcome)

MirrorInv ==
  failures = 0 =>
    /\ ratings["A"].won  = ratings["B"].lost + AllHalfway("win_a")
    /\ ratings["A"].lost = ratings["B"].won  + AllHalfway("win_b")
    /\ ratings["A"].drew = ratings["B"].drew + AllHalfway("draw")

Safe == LifeInv /\ JobInv /\ EscrowInv /\ BotInv /\ VerdictInv /\ MirrorInv

Inv == Safe /\ FreshInv

-----------------------------------------------------------------------------
(***************************************************************************)
(* What the helpers do to one task, to the row and to the ratings.         *)
(***************************************************************************)
Moves(t) == /\ task' \in [Tasks -> TaskRecords]
            /\ \A s \in Tasks : s # t => task'[s] = task[s]

Becomes(t, pc, report, outcome, direct) ==
  /\ Moves(t)
  /\ task'[t].pc = pc /\ task'[t].report = report
  /\ task'[t].outcome = outcome /\ task'[t].direct = direct

RowBecomes(state, outcome, attested) ==
  /\ row' \in Rows
  /\ row'.state = state /\ row'.outcome = outcome /\ row'.attested = attested

Steady == kind' = kind /\ onChain' = onChain

Typed ==
  /\ row \in Rows /\ jobs \in Seq(Verdicts) /\ ratings \in [Players -> Scores]
  /\ reports \in [Players -> ReportChoices \cup {NoReport}] /\ liveMatches \in Int
  /\ arbitrations \in 0 .. MaxArbitrations /\ failures \in 0 .. MaxFailures
  /\ task \in [Tasks -> TaskRecords]

\* Nothing but the row, one task and the count of live matches changes.
Quiet == /\ Steady /\ jobs' = jobs /\ ratings' = ratings /\ reports' = reports
         /\ arbitrations' = arbitrations /\ failures' = failures

TypesKept ==
  /\ row' \in Rows /\ jobs' \in Seq(Verdicts) /\ ratings' \in [Players -> Scores]
  /\ reports' \in [Players -> ReportChoices \cup {NoReport}] /\ liveMatches' \in Int
  /\ arbitrations' \in 0 .. MaxArbitrations /\ failures' \in 0 .. MaxFailures

\* A task that is done forgets its request.
LEMMA IdleType ==
  /\ Idle \in TaskRecords /\ TaskOK(Idle)
  /\ Idle.pc = "idle" /\ Idle.report = NoReport /\ Idle.outcome = "none"
  /\ Idle.direct = FALSE
BY DEF Idle, TaskRecords, Pcs, Outcomes, TaskOK, Deciding, Decided

\* Goto moves one task, which remembers what it did.
LEMMA GotoStep ==
  ASSUME task \in [Tasks -> TaskRecords], NEW t \in Tasks, NEW pc \in Pcs, Goto(t, pc)
  PROVE  Becomes(t, pc, task[t].report, task[t].outcome, task[t].direct)
<1>1. task' = [task EXCEPT ![t] = [@ EXCEPT !.pc = pc]]
  BY DEF Goto
<1>2. [task[t] EXCEPT !.pc = pc] \in TaskRecords
  BY DEF TaskRecords
<1> QED
  BY <1>1, <1>2 DEF TaskRecords, Becomes, Moves

\* Done ends the request of one task.
LEMMA DoneStep ==
  ASSUME task \in [Tasks -> TaskRecords], NEW t \in Tasks, Done(t)
  PROVE  Becomes(t, "idle", NoReport, "none", FALSE)
BY IdleType DEF Done, Becomes, Moves

\* A request handler takes or drops a report.
LEMMA ReportStep ==
  ASSUME task \in [Tasks -> TaskRecords], NEW t \in Tasks, NEW pc \in Pcs,
         NEW r \in ReportChoices \cup {NoReport},
         task' = [task EXCEPT ![t].pc = pc, ![t].report = r]
  PROVE  Becomes(t, pc, r, task[t].outcome, task[t].direct)
<1> DEFINE moved == [task[t] EXCEPT !.pc = pc, !.report = r]
<1>1. task' = [task EXCEPT ![t] = moved]
  OBVIOUS
<1>2. /\ moved \in TaskRecords /\ moved.pc = pc /\ moved.report = r
      /\ moved.outcome = task[t].outcome /\ moved.direct = task[t].direct
  BY DEF TaskRecords
<1> HIDE DEF moved
<1> QED
  BY <1>1, <1>2 DEF Becomes, Moves

\* A task takes up an outcome.
LEMMA OutcomeStep ==
  ASSUME task \in [Tasks -> TaskRecords], NEW t \in Tasks, NEW pc \in Pcs,
         NEW o \in Outcomes, task' = [task EXCEPT ![t].pc = pc, ![t].outcome = o]
  PROVE  Becomes(t, pc, task[t].report, o, task[t].direct)
<1> DEFINE moved == [task[t] EXCEPT !.pc = pc, !.outcome = o]
<1>1. task' = [task EXCEPT ![t] = moved]
  OBVIOUS
<1>2. /\ moved \in TaskRecords /\ moved.pc = pc /\ moved.report = task[t].report
      /\ moved.outcome = o /\ moved.direct = task[t].direct
  BY DEF TaskRecords
<1> HIDE DEF moved
<1> QED
  BY <1>1, <1>2 DEF Becomes, Moves

\* A task takes up an outcome, and how it is to be settled.
LEMMA AgreeStep ==
  ASSUME task \in [Tasks -> TaskRecords], NEW t \in Tasks, NEW pc \in Pcs,
         NEW o \in Outcomes, NEW d \in BOOLEAN,
         task' = [task EXCEPT ![t].pc = pc, ![t].outcome = o, ![t].direct = d]
  PROVE  Becomes(t, pc, task[t].report, o, d)
<1> DEFINE moved == [task[t] EXCEPT !.pc = pc, !.outcome = o, !.direct = d]
<1>1. task' = [task EXCEPT ![t] = moved]
  OBVIOUS
<1>2. moved \in TaskRecords
  BY DEF TaskRecords
<1>3. /\ moved.pc = pc /\ moved.report = task[t].report
      /\ moved.outcome = o /\ moved.direct = d
  BY DEF TaskRecords
<1> HIDE DEF moved
<1>4. /\ task' \in [Tasks -> TaskRecords] /\ task'[t] = moved
      /\ \A s \in Tasks : s # t => task'[s] = task[s]
  BY <1>1, <1>2
<1> QED
  BY <1>3, <1>4, Zenon DEF Becomes, Moves

\* SetState leaves the verdict alone.
LEMMA SetStateStep ==
  ASSUME row \in Rows, NEW state \in RowStates, SetState(state)
  PROVE  RowBecomes(state, row.outcome, row.attested)
BY DEF SetState, Rows, RowBecomes, Moves

\* A step that does not touch the row.
LEMMA RowStays ==
  ASSUME row \in Rows, row' = row
  PROVE  RowBecomes(row.state, row.outcome, row.attested)
BY DEF RowBecomes, Moves

\* update_rating adds one result to one player's profile.
LEMMA ScoreStep ==
  ASSUME ratings \in [Players -> Scores], NEW p \in Players, NEW t, ApplyRating(p, t)
  PROVE  /\ ratings' \in [Players -> Scores]
         /\ \A q \in Players : q # p => ratings'[q] = ratings[q]
         /\ LET s == Score(p, task[t].outcome) IN
            /\ ratings'[p].won = ratings[p].won + (IF s = "won" THEN 1 ELSE 0)
            /\ ratings'[p].lost = ratings[p].lost + (IF s = "lost" THEN 1 ELSE 0)
            /\ ratings'[p].drew = ratings[p].drew + (IF s = "drew" THEN 1 ELSE 0)
<1>1. Score(p, task[t].outcome) \in {"won", "lost", "drew"}
  BY DEF Score
<1>2. CASE Score(p, task[t].outcome) = "won"
  <2>1. ratings' = [ratings EXCEPT ![p]["won"] = ratings[p]["won"] + 1]
    BY <1>2 DEF ApplyRating
  <2>2. ratings' = [ratings EXCEPT ![p] = [ratings[p] EXCEPT !.won = ratings[p].won + 1]]
    BY <2>1
  <2>3. [ratings[p] EXCEPT !.won = ratings[p].won + 1] \in Scores
    BY DEF Scores
  <2>4. ratings' \in [Players -> Scores]
    BY <2>2, <2>3
  <2> QED
    BY <1>2, <2>2, <2>4 DEF Scores
<1>3. CASE Score(p, task[t].outcome) = "lost"
  <2>1. ratings' = [ratings EXCEPT ![p]["lost"] = ratings[p]["lost"] + 1]
    BY <1>3 DEF ApplyRating
  <2>2. ratings' = [ratings EXCEPT ![p] = [ratings[p] EXCEPT !.lost = ratings[p].lost + 1]]
    BY <2>1
  <2>3. [ratings[p] EXCEPT !.lost = ratings[p].lost + 1] \in Scores
    BY DEF Scores
  <2>4. ratings' \in [Players -> Scores]
    BY <2>2, <2>3
  <2> QED
    BY <1>3, <2>2, <2>4 DEF Scores
<1>4. CASE Score(p, task[t].outcome) = "drew"
  <2>1. ratings' = [ratings EXCEPT ![p]["drew"] = ratings[p]["drew"] + 1]
    BY <1>4 DEF ApplyRating
  <2>2. ratings' = [ratings EXCEPT ![p] = [ratings[p] EXCEPT !.drew = ratings[p].drew + 1]]
    BY <2>1
  <2>3. [ratings[p] EXCEPT !.drew = ratings[p].drew + 1] \in Scores
    BY DEF Scores
  <2>4. ratings' \in [Players -> Scores]
    BY <2>2, <2>3
  <2> QED
    BY <1>4, <2>2, <2>4 DEF Scores
<1> QED
  BY <1>1, <1>2, <1>3, <1>4

-----------------------------------------------------------------------------
(***************************************************************************)
(* What reports say.                                                       *)
(***************************************************************************)

\* An empty slot is not a report.
LEMMA NoReportIsNone ==
  ASSUME LifecycleAssumption PROVE NoReport \notin ReportChoices
BY DEF LifecycleAssumption, NoReport

\* reconcile_default: a lone report claims one of the three verdicts.
LEMMA ClaimType ==
  ASSUME LifecycleAssumption, LifeInv, NEW p \in Players, p \in Reported
  PROVE  Claim(p) \in Verdicts
<1>1. reports[p] \in ReportChoices
  BY DEF LifeInv, Reported
<1>2. reports[p].result \in {"win", "loss", "draw"}
  BY <1>1 DEF LifecycleAssumption
<1> QED
  BY <1>2 DEF Claim, Verdicts

\* reconcile: what two consistent reports agree on is what both claim.
LEMMA ReconcileType ==
  ASSUME LifecycleAssumption, LifeInv, Reconcile # "none"
  PROVE  /\ Reported = Players /\ \A p \in Players : Reconcile = Claim(p)
         /\ Reconcile \in Verdicts
<1>1. Reported = Players /\ \A p \in Players : Reconcile = Claim(p)
  BY DEF Reconcile, Players
<1> QED
  BY <1>1, ClaimType DEF Players

-----------------------------------------------------------------------------
(***************************************************************************)
(* One lemma for each part of the invariant: when a step that moves one    *)
(* task preserves it.                                                      *)
(***************************************************************************)

\* Types.
LEMMA LifeMove ==
  ASSUME LifeInv, Steady, TypesKept, NEW t \in Tasks, Moves(t), TaskOK(task'[t])
  PROVE  LifeInv'
<1>1. \A s \in Tasks : TaskOK(task'[s])
  BY DEF LifeInv, Moves
<1>2. task' \in [Tasks -> TaskRecords]
  BY DEF Moves
<1> QED
  BY <1>1, <1>2 DEF LifeInv, Steady, TypesKept

\* Jobs before "settling".
LEMMA JobMove ==
  ASSUME JobInv, NEW t \in Tasks, Moves(t),
         jobs # <<>> => jobs' # <<>>,
         row'.state = "settling" \/ task'[t].pc \in {"settling", "fallback settling"}
           => jobs' # <<>>
  PROVE  JobInv'
BY DEF JobInv, Moves

\* Escrow before everything else.
LEMMA EscrowMove ==
  ASSUME EscrowInv, Steady, NEW t \in Tasks, Moves(t),
         (\/ jobs' # <<>> \/ row'.state = "settling_rt"
          \/ task'[t].pc \in {"job", "fallback job"} \/ task'[t].direct)
           => kind = "staked",
         EscrowFirst /\ kind = "staked" /\ ~onChain =>
           /\ row'.state \in {"escrow_pending", "cancelled"}
           /\ jobs' = <<>>
           /\ t \in {"A", "B", "operator"} => task'[t].pc = "idle"
           /\ t = "sweep" => task'[t].pc \in {"idle", "cancel escrow"}
           /\ t = "verify" => task'[t].pc # "confirm"
  PROVE  EscrowInv'
BY DEF EscrowInv, Moves, Steady, At, Tasks, Players

\* Bots.
LEMMA BotMove ==
  ASSUME BotInv, Steady, NEW t \in Tasks, Moves(t), reports' = reports,
         task'[t].pc # "finalize bot",
         kind = "bot" /\ t = "B" => task'[t].pc = "idle"
  PROVE  BotInv'
BY DEF BotInv, Moves, Steady, At, Tasks, Players, Reported

\* The verdict, when the step does not write it.
LEMMA VerdictMove ==
  ASSUME VerdictInv, NEW t \in Tasks, Moves(t), row'.outcome = row.outcome,
         reports' = reports, arbitrations' = arbitrations,
         arbitrations = 0 =>
           /\ t = "operator" => task'[t].pc = "idle"
           /\ row'.attested \in {"none", row.outcome}
           /\ jobs' # <<>> => row.outcome # "none"
           /\ \A i \in DOMAIN jobs' : jobs'[i] = row.outcome
           /\ task'[t].pc \in Decided => task'[t].outcome = row.outcome
           /\ task'[t].pc = "agree" => /\ task'[t].outcome \in Claimed
                                       /\ row.outcome \in {"none", task'[t].outcome}
                                       /\ t \in Players => task'[t].outcome = Reconcile
  PROVE  VerdictInv'
<1>1. Claimed' = Claimed /\ Reconcile' = Reconcile
  BY DEF Claimed, Claim, Reported, Reconcile, HashesDiffer
<1>2. ASSUME arbitrations = 0, NEW s \in Finalizers
      PROVE  TaskVerdict(s)'
  BY <1>1, <1>2 DEF VerdictInv, Moves, TaskVerdict, At, Finalizers, Tasks, Players
<1>3. ASSUME arbitrations = 0, NEW p \in Players, task'[p].pc = "agree"
      PROVE  task'[p].outcome = Reconcile
  BY <1>3 DEF VerdictInv, Moves, At, Tasks
<1>4. arbitrations = 0 => task'["operator"].pc = "idle"
  BY DEF VerdictInv, Moves, At, Tasks
<1> QED
  BY <1>1, <1>2, <1>3, <1>4 DEF VerdictInv, At

\* Whoever is about to write a verdict is about to write the same.
LEMMA OneVerdict ==
  ASSUME LifecycleAssumption, LifeInv, VerdictInv, arbitrations = 0,
         NEW s \in Finalizers, NEW t \in Finalizers, At(s, "agree"), At(t, "agree")
  PROVE  task[s].outcome = task[t].outcome
<1>1. task[s].outcome \in Claimed /\ task[t].outcome \in Claimed
  BY DEF VerdictInv, TaskVerdict
<1>2. s # "operator" /\ t # "operator"
  BY DEF VerdictInv, At
<1>3. ASSUME NEW p \in Players, At(p, "agree")
      PROVE  \A c \in Claimed : c = task[p].outcome
  <2>1. task[p].outcome = Reconcile /\ Reconcile \in Verdicts
    BY <1>3 DEF VerdictInv, LifeInv, TaskOK, Deciding, At, Tasks
  <2>2. \A q \in Players : Reconcile = Claim(q)
    BY <2>1, ReconcileType DEF Verdicts
  <2> QED
    BY <2>1, <2>2 DEF Claimed, Reported
<1> QED
  BY <1>1, <1>2, <1>3 DEF Finalizers, Players

\* The verdict, when the step writes one that was claimed.
LEMMA VerdictWrite ==
  ASSUME LifeInv, VerdictInv, NEW t \in Tasks, Moves(t), row'.attested = row.attested,
         reports' = reports, arbitrations' = arbitrations, jobs' = jobs,
         arbitrations = 0 =>
           /\ t # "operator" /\ task'[t].pc # "agree"
           /\ row'.outcome \in Claimed /\ row'.outcome # "none"
           /\ row.outcome \in {"none", row'.outcome}
           /\ task'[t].pc \in Decided => task'[t].outcome = row'.outcome
           /\ \A s \in Finalizers : At(s, "agree") => task[s].outcome = row'.outcome
  PROVE  VerdictInv'
<1>1. Claimed' = Claimed /\ Reconcile' = Reconcile
  BY DEF Claimed, Claim, Reported, Reconcile, HashesDiffer
<1>2. ASSUME arbitrations = 0, NEW s \in Finalizers
      PROVE  TaskVerdict(s)'
  <2>1. s \in Tasks /\ (task[s].pc \in Decided => task[s].outcome = row'.outcome)
    BY <1>2 DEF VerdictInv, TaskVerdict, LifeInv, TaskOK, Deciding, Verdicts, Finalizers,
                Tasks, Players
  <2> QED
    BY <1>1, <1>2, <2>1 DEF VerdictInv, Moves, TaskVerdict, At, Finalizers, Tasks, Players
<1>3. ASSUME arbitrations = 0, NEW p \in Players, task'[p].pc = "agree"
      PROVE  task'[p].outcome = Reconcile
  BY <1>3 DEF VerdictInv, Moves, At, Tasks
<1>4. arbitrations = 0 => task'["operator"].pc = "idle"
  BY DEF VerdictInv, Moves, At, Tasks
<1>5. arbitrations = 0 => \A i \in DOMAIN jobs : jobs[i] = row'.outcome
  BY DEF VerdictInv, LifeInv
<1> QED
  BY <1>1, <1>2, <1>3, <1>4, <1>5 DEF VerdictInv, At

\* The ratings, when the step does not write them.
LEMMA MirrorMove ==
  ASSUME MirrorInv, NEW t \in Tasks, Moves(t), failures' = failures, ratings' = ratings,
         task'[t].pc # "rate B", task[t].pc # "rate B"
  PROVE  MirrorInv'
<1>1. \A s \in Finalizers : \A x : Halfway(s, x)' = Halfway(s, x)
  BY DEF Moves, Halfway, At, Finalizers, Tasks, Players
<1> QED
  BY <1>1 DEF MirrorInv, AllHalfway, Finalizers

-----------------------------------------------------------------------------
(***************************************************************************)
(* Every step preserves the invariant.                                     *)
(***************************************************************************)

\* What of the types the steps need.
LEMMA LifeTyped == ASSUME LifeInv PROVE Typed
BY DEF LifeInv, Typed

\* Counts are numbers.
LEMMA HalfwayNat ==
  ASSUME NEW x
  PROVE  /\ \A s : Halfway(s, x) \in Nat /\ Halfway(s, x)' \in Nat
         /\ AllHalfway(x) \in Nat /\ AllHalfway(x)' \in Nat
<1>1. \A s : Halfway(s, x) \in Nat
  BY DEF Halfway
<1>2. \A s : Halfway(s, x)' \in Nat
  BY DEF Halfway
<1>3. AllHalfway(x) \in Nat
  BY <1>1 DEF AllHalfway
<1>4. AllHalfway(x)' \in Nat
  BY <1>2 DEF AllHalfway
<1> QED
  BY <1>1, <1>2, <1>3, <1>4

\* A step that moves one task changes the half-way counts by its own.
LEMMA HalfwayStep ==
  ASSUME NEW t \in Finalizers, Moves(t), NEW x
  PROVE  AllHalfway(x)' = (AllHalfway(x) - Halfway(t, x)) + Halfway(t, x)'
<1>1. \A s \in Finalizers : s # t => Halfway(s, x)' = Halfway(s, x)
  BY DEF Moves, Halfway, At, Finalizers, Tasks, Players
<1>2. \A s : Halfway(s, x) \in Nat /\ Halfway(s, x)' \in Nat
  BY HalfwayNat
<1> QED
  BY <1>1, <1>2 DEF AllHalfway, Finalizers

\* apply_outcome and sign_and_store.
LEMMA SafeFinalizing ==
  ASSUME LifecycleAssumption, Safe, NEW t \in Finalizers, Finalizing(t)
  PROVE  Safe'
<1>0. t \in Tasks
  BY DEF Finalizers, Tasks, Players
<1>i. LifeInv /\ JobInv /\ EscrowInv /\ BotInv /\ VerdictInv /\ MirrorInv
  BY DEF Safe
<1>y. Typed
  BY <1>i, LifeTyped
<1>o. task[t].pc \in Deciding => task[t].outcome \in Verdicts
  BY <1>0, <1>i DEF LifeInv, TaskOK
<1>e. EscrowFirst /\ kind = "staked" /\ ~onChain => task[t].pc \in {"idle", "cancel escrow"}
  BY <1>i DEF EscrowInv, At, Finalizers
<1>b. kind = "bot" /\ t = "B" => task[t].pc = "idle"
  BY <1>i DEF BotInv, At
<1>v. arbitrations = 0 /\ t = "operator" => task[t].pc = "idle"
  BY <1>i DEF VerdictInv, At
<1>d. task[t].direct => kind = "staked"
  BY <1>0, <1>i DEF EscrowInv
<1>w. arbitrations = 0 /\ task[t].pc \in Decided => task[t].outcome = row.outcome
  BY <1>i DEF VerdictInv, TaskVerdict
<1>1. CASE MarkAgreed(t)
  <2> DEFINE state == IF task[t].direct THEN "settling_rt" ELSE "agreed"
  <2>1. /\ task[t].pc = "agree" /\ Steady /\ jobs' = jobs /\ ratings' = ratings
        /\ reports' = reports /\ liveMatches' = liveMatches
        /\ arbitrations' = arbitrations /\ failures' = failures
    BY <1>1 DEF MarkAgreed, Steady, counts, At
  <2>2. /\ Moves(t) /\ task'[t].pc = "rate A"
        /\ task'[t].outcome = task[t].outcome /\ task'[t].direct = task[t].direct
    BY <1>0, <1>y, <1>1, GotoStep DEF MarkAgreed, Pcs, Becomes, Typed
  <2>3. task[t].outcome \in Verdicts
    BY <1>o, <2>1 DEF Deciding
  <2>4. RowBecomes(state, task[t].outcome, row.attested)
    BY <1>y, <1>1, <2>3 DEF MarkAgreed, Rows, RowStates, Outcomes, RowBecomes, Typed
  <2> HIDE DEF state
  <2>5. LifeInv'
    BY <1>0, <1>i, <1>y, <2>1, <2>2, <2>3, <2>4, LifeMove
    DEF RowBecomes, TypesKept, TaskOK, Typed
  <2>6. JobInv'
    BY <1>0, <1>i, <2>1, <2>2, <2>4, JobMove DEF RowBecomes, state
  <2>7. EscrowInv'
    BY <1>0, <1>i, <1>e, <1>d, <2>1, <2>2, <2>4, EscrowMove DEF RowBecomes, state, EscrowInv
  <2>8. BotInv'
    BY <1>0, <1>i, <1>b, <2>1, <2>2, BotMove
  <2>9. VerdictInv'
    <3>1. arbitrations = 0 => /\ t # "operator" /\ task[t].outcome \in Claimed
                              /\ row.outcome \in {"none", task[t].outcome}
      BY <1>i, <1>v, <2>1 DEF VerdictInv, TaskVerdict, At
    <3>2. arbitrations = 0 =>
            \A s \in Finalizers : At(s, "agree") => task[s].outcome = task[t].outcome
      BY <1>i, <2>1, OneVerdict DEF At
    <3> QED
      BY <1>0, <1>i, <2>1, <2>2, <2>3, <2>4, <3>1, <3>2, VerdictWrite
      DEF RowBecomes, Verdicts
  <2>10. MirrorInv'
    BY <1>0, <1>i, <2>1, <2>2, MirrorMove DEF At
  <2> QED
    BY <2>5, <2>6, <2>7, <2>8, <2>9, <2>10 DEF Safe
<1>2. CASE RateA(t)
  <2>1. /\ task[t].pc = "rate A" /\ Steady /\ row' = row /\ jobs' = jobs
        /\ reports' = reports /\ liveMatches' = liveMatches
        /\ arbitrations' = arbitrations /\ failures' = failures
    BY <1>2 DEF RateA, Steady, counts, At
  <2>2. /\ Moves(t) /\ task'[t].pc = "rate B"
        /\ task'[t].outcome = task[t].outcome /\ task'[t].direct = task[t].direct
    BY <1>0, <1>y, <1>2, GotoStep DEF RateA, Pcs, Becomes, Typed
  <2>3. task[t].outcome \in Verdicts
    BY <1>o, <2>1 DEF Deciding, Decided
  <2>4. ApplyRating("A", t) /\ ratings \in [Players -> Scores] /\ "A" \in Players
    BY <1>2, <1>y DEF RateA, Typed, Players
  <2>5. LifeInv'
    <3>1. ratings' \in [Players -> Scores]
      BY <2>4, ScoreStep
    <3> QED
      BY <1>0, <1>i, <1>y, <2>1, <2>2, <2>3, <3>1, LifeMove DEF TypesKept, TaskOK, Typed
  <2>6. JobInv'
    BY <1>0, <1>i, <2>1, <2>2, JobMove DEF JobInv
  <2>7. EscrowInv'
    BY <1>0, <1>i, <1>e, <1>d, <2>1, <2>2, EscrowMove DEF EscrowInv
  <2>8. BotInv'
    BY <1>0, <1>i, <1>b, <2>1, <2>2, BotMove
  <2>9. VerdictInv'
    BY <1>0, <1>i, <1>v, <1>w, <2>1, <2>2, VerdictMove DEF VerdictInv, Decided
  <2>10. MirrorInv'
    <3>1. ASSUME NEW x
          PROVE  AllHalfway(x)' = AllHalfway(x) + (IF task[t].outcome = x THEN 1 ELSE 0)
      <4>1. Halfway(t, x) = 0 /\ Halfway(t, x)' = IF task[t].outcome = x THEN 1 ELSE 0
        BY <2>1, <2>2 DEF Halfway, At
      <4>2. AllHalfway(x)' = (AllHalfway(x) - Halfway(t, x)) + Halfway(t, x)'
        BY <2>2, HalfwayStep
      <4>3. AllHalfway(x) \in Nat
        BY HalfwayNat
      <4> QED
        BY <4>1, <4>2, <4>3
    <3>2. /\ ratings'["B"] = ratings["B"]
          /\ ratings'["A"].won = ratings["A"].won + (IF task[t].outcome = "win_a" THEN 1 ELSE 0)
          /\ ratings'["A"].lost = ratings["A"].lost + (IF task[t].outcome = "win_b" THEN 1 ELSE 0)
          /\ ratings'["A"].drew = ratings["A"].drew + (IF task[t].outcome = "draw" THEN 1 ELSE 0)
      BY <2>3, <2>4, ScoreStep DEF Score, Verdicts, Players
    <3>3. \A p \in Players : /\ ratings[p].won \in Nat /\ ratings[p].lost \in Nat
                             /\ ratings[p].drew \in Nat
      BY <1>y DEF Typed, Scores
    <3>4. \A x : AllHalfway(x) \in Nat
      BY HalfwayNat
    <3>5. failures = 0 => /\ ratings["A"].won  = ratings["B"].lost + AllHalfway("win_a")
                          /\ ratings["A"].lost = ratings["B"].won  + AllHalfway("win_b")
                          /\ ratings["A"].drew = ratings["B"].drew + AllHalfway("draw")
      BY <1>i DEF MirrorInv
    <3>6. failures = 0 => ratings'["A"].won = ratings'["B"].lost + AllHalfway("win_a")'
      <4>1. AllHalfway("win_a")' = AllHalfway("win_a") + (IF task[t].outcome = "win_a" THEN 1 ELSE 0)
        BY <3>1
      <4>2. ratings'["A"].won = ratings["A"].won + (IF task[t].outcome = "win_a" THEN 1 ELSE 0) /\ ratings'["B"].lost = ratings["B"].lost
        BY <3>2
      <4>3. ratings["A"].won \in Nat /\ ratings["B"].lost \in Nat /\ AllHalfway("win_a") \in Nat
        BY <3>3, <3>4 DEF Players
      <4>4. failures = 0 => ratings["A"].won = ratings["B"].lost + AllHalfway("win_a")
        BY <3>5
      <4> QED
        BY <4>1, <4>2, <4>3, <4>4
    <3>7. failures = 0 => ratings'["A"].lost = ratings'["B"].won + AllHalfway("win_b")'
      <4>1. AllHalfway("win_b")' = AllHalfway("win_b") + (IF task[t].outcome = "win_b" THEN 1 ELSE 0)
        BY <3>1
      <4>2. ratings'["A"].lost = ratings["A"].lost + (IF task[t].outcome = "win_b" THEN 1 ELSE 0) /\ ratings'["B"].won = ratings["B"].won
        BY <3>2
      <4>3. ratings["A"].lost \in Nat /\ ratings["B"].won \in Nat /\ AllHalfway("win_b") \in Nat
        BY <3>3, <3>4 DEF Players
      <4>4. failures = 0 => ratings["A"].lost = ratings["B"].won + AllHalfway("win_b")
        BY <3>5
      <4> QED
        BY <4>1, <4>2, <4>3, <4>4
    <3>8. failures = 0 => ratings'["A"].drew = ratings'["B"].drew + AllHalfway("draw")'
      <4>1. AllHalfway("draw")' = AllHalfway("draw") + (IF task[t].outcome = "draw" THEN 1 ELSE 0)
        BY <3>1
      <4>2. ratings'["A"].drew = ratings["A"].drew + (IF task[t].outcome = "draw" THEN 1 ELSE 0) /\ ratings'["B"].drew = ratings["B"].drew
        BY <3>2
      <4>3. ratings["A"].drew \in Nat /\ ratings["B"].drew \in Nat /\ AllHalfway("draw") \in Nat
        BY <3>3, <3>4 DEF Players
      <4>4. failures = 0 => ratings["A"].drew = ratings["B"].drew + AllHalfway("draw")
        BY <3>5
      <4> QED
        BY <4>1, <4>2, <4>3, <4>4
    <3> QED
      BY <2>1, <3>6, <3>7, <3>8 DEF MirrorInv
  <2> QED
    BY <2>5, <2>6, <2>7, <2>8, <2>9, <2>10 DEF Safe
<1>3. CASE RateB(t)
  <2>1. /\ task[t].pc = "rate B" /\ Steady /\ row' = row /\ jobs' = jobs
        /\ reports' = reports
        /\ arbitrations' = arbitrations /\ failures' = failures
    BY <1>3 DEF RateB, Steady, counts, At
  <2>2. Goto(t, "attest") \/ Done(t)
    BY <1>3 DEF RateB, Finish
  <2>3. Becomes(t, "attest", task[t].report, task[t].outcome, task[t].direct)
          \/ Becomes(t, "idle", NoReport, "none", FALSE)
    BY <1>0, <1>y, <2>2, GotoStep, DoneStep DEF Pcs, Typed
  <2>4. /\ Moves(t) /\ task'[t].pc \in {"attest", "idle"}
        /\ task'[t].pc = "attest" => task'[t].outcome = task[t].outcome
        /\ task'[t].direct => task[t].direct
    BY <2>3 DEF Becomes
  <2>5. task[t].outcome \in Verdicts
    BY <1>o, <2>1 DEF Deciding, Decided
  <2>6. ApplyRating("B", t) /\ ratings \in [Players -> Scores] /\ "B" \in Players
    BY <1>3, <1>y DEF RateB, Typed, Players
  <2>7. LifeInv'
    <3>1. ratings' \in [Players -> Scores]
      BY <2>6, ScoreStep
    <3>2. liveMatches' = liveMatches \/ liveMatches' = liveMatches - 1
      BY <1>3 DEF RateB, Finish
    <3>3. liveMatches' \in Int
      BY <1>y, <3>2 DEF Typed
    <3>4. TypesKept
      BY <1>y, <2>1, <3>1, <3>3 DEF TypesKept, Typed
    <3> QED
      BY <1>0, <1>i, <2>1, <2>4, <2>5, <3>4, LifeMove DEF TaskOK, Deciding, Decided
  <2>8. JobInv'
    BY <1>0, <1>i, <2>1, <2>4, JobMove DEF JobInv
  <2>9. EscrowInv'
    BY <1>0, <1>i, <1>e, <1>d, <2>1, <2>4, EscrowMove DEF EscrowInv
  <2>10. BotInv'
    BY <1>0, <1>i, <1>b, <2>1, <2>4, BotMove
  <2>11. VerdictInv'
    BY <1>0, <1>i, <1>v, <1>w, <2>1, <2>4, VerdictMove DEF VerdictInv, Decided
  <2>12. MirrorInv'
    <3>1. ASSUME NEW x
          PROVE  AllHalfway(x) = AllHalfway(x)' + (IF task[t].outcome = x THEN 1 ELSE 0)
      <4>1. Halfway(t, x)' = 0 /\ Halfway(t, x) = IF task[t].outcome = x THEN 1 ELSE 0
        BY <2>1, <2>4 DEF Halfway, At
      <4> QED
        BY <2>4, <4>1, HalfwayStep, HalfwayNat
    <3>2. /\ ratings'["A"] = ratings["A"]
          /\ ratings'["B"].won = ratings["B"].won + (IF task[t].outcome = "win_b" THEN 1 ELSE 0)
          /\ ratings'["B"].lost = ratings["B"].lost + (IF task[t].outcome = "win_a" THEN 1 ELSE 0)
          /\ ratings'["B"].drew = ratings["B"].drew + (IF task[t].outcome = "draw" THEN 1 ELSE 0)
      BY <2>5, <2>6, ScoreStep DEF Score, Verdicts, Players
    <3>3. \A p \in Players : /\ ratings[p].won \in Nat /\ ratings[p].lost \in Nat
                             /\ ratings[p].drew \in Nat
      BY <1>y DEF Typed, Scores
    <3>4. \A x : AllHalfway(x)' \in Nat
      BY HalfwayNat
    <3>5. failures = 0 => /\ ratings["A"].won  = ratings["B"].lost + AllHalfway("win_a")
                          /\ ratings["A"].lost = ratings["B"].won  + AllHalfway("win_b")
                          /\ ratings["A"].drew = ratings["B"].drew + AllHalfway("draw")
      BY <1>i DEF MirrorInv
    <3>6. failures = 0 => ratings'["A"].won = ratings'["B"].lost + AllHalfway("win_a")'
      <4>1. AllHalfway("win_a") = AllHalfway("win_a")' + (IF task[t].outcome = "win_a" THEN 1 ELSE 0)
        BY <3>1
      <4>2. ratings'["B"].lost = ratings["B"].lost + (IF task[t].outcome = "win_a" THEN 1 ELSE 0) /\ ratings'["A"].won = ratings["A"].won
        BY <3>2
      <4>3. ratings["A"].won \in Nat /\ ratings["B"].lost \in Nat /\ AllHalfway("win_a")' \in Nat
        BY <3>3, <3>4 DEF Players
      <4>4. failures = 0 => ratings["A"].won = ratings["B"].lost + AllHalfway("win_a")
        BY <3>5
      <4> QED
        BY <4>1, <4>2, <4>3, <4>4
    <3>7. failures = 0 => ratings'["A"].lost = ratings'["B"].won + AllHalfway("win_b")'
      <4>1. AllHalfway("win_b") = AllHalfway("win_b")' + (IF task[t].outcome = "win_b" THEN 1 ELSE 0)
        BY <3>1
      <4>2. ratings'["B"].won = ratings["B"].won + (IF task[t].outcome = "win_b" THEN 1 ELSE 0) /\ ratings'["A"].lost = ratings["A"].lost
        BY <3>2
      <4>3. ratings["A"].lost \in Nat /\ ratings["B"].won \in Nat /\ AllHalfway("win_b")' \in Nat
        BY <3>3, <3>4 DEF Players
      <4>4. failures = 0 => ratings["A"].lost = ratings["B"].won + AllHalfway("win_b")
        BY <3>5
      <4> QED
        BY <4>1, <4>2, <4>3, <4>4
    <3>8. failures = 0 => ratings'["A"].drew = ratings'["B"].drew + AllHalfway("draw")'
      <4>1. AllHalfway("draw") = AllHalfway("draw")' + (IF task[t].outcome = "draw" THEN 1 ELSE 0)
        BY <3>1
      <4>2. ratings'["B"].drew = ratings["B"].drew + (IF task[t].outcome = "draw" THEN 1 ELSE 0) /\ ratings'["A"].drew = ratings["A"].drew
        BY <3>2
      <4>3. ratings["A"].drew \in Nat /\ ratings["B"].drew \in Nat /\ AllHalfway("draw")' \in Nat
        BY <3>3, <3>4 DEF Players
      <4>4. failures = 0 => ratings["A"].drew = ratings["B"].drew + AllHalfway("draw")
        BY <3>5
      <4> QED
        BY <4>1, <4>2, <4>3, <4>4
    <3> QED
      BY <2>1, <3>6, <3>7, <3>8 DEF MirrorInv
  <2> QED
    BY <2>7, <2>8, <2>9, <2>10, <2>11, <2>12 DEF Safe
<1>4. CASE SetAttestation(t)
  <2>1. /\ task[t].pc = "attest" /\ Steady /\ jobs' = jobs /\ ratings' = ratings
        /\ reports' = reports /\ arbitrations' = arbitrations /\ failures' = failures
    BY <1>4 DEF SetAttestation, Steady, counts, At
  <2>2. (Goto(t, "job") /\ kind = "staked") \/ Done(t)
    BY <1>4 DEF SetAttestation, Finish
  <2>3. \/ Becomes(t, "job", task[t].report, task[t].outcome, task[t].direct) /\ kind = "staked"
        \/ Becomes(t, "idle", NoReport, "none", FALSE)
    BY <1>0, <1>y, <2>2, GotoStep, DoneStep DEF Pcs, Typed
  <2>4. /\ Moves(t) /\ task'[t].pc \in {"job", "idle"}
        /\ task'[t].pc = "job" => task'[t].outcome = task[t].outcome /\ kind = "staked"
        /\ task'[t].direct => task[t].direct
    BY <2>3 DEF Becomes
  <2>5. task[t].outcome \in Verdicts
    BY <1>o, <2>1 DEF Deciding, Decided
  <2>6. RowBecomes(row.state, row.outcome, task[t].outcome)
    BY <1>y, <1>4, <2>5 DEF SetAttestation, Rows, RowBecomes, Typed
  <2>7. LifeInv'
    <3>1. liveMatches' = liveMatches \/ liveMatches' = liveMatches - 1
      BY <1>4 DEF SetAttestation, Finish
    <3>2. liveMatches' \in Int
      BY <1>y, <3>1 DEF Typed
    <3>3. TypesKept
      BY <1>y, <2>1, <2>6, <3>2 DEF TypesKept, Typed, RowBecomes
    <3> QED
      BY <1>0, <1>i, <2>1, <2>4, <2>5, <3>3, LifeMove DEF TaskOK, Deciding, Decided
  <2>8. JobInv'
    BY <1>0, <1>i, <2>1, <2>4, <2>6, JobMove DEF JobInv, RowBecomes
  <2>9. EscrowInv'
    BY <1>0, <1>i, <1>e, <1>d, <2>1, <2>4, <2>6, EscrowMove DEF EscrowInv, RowBecomes
  <2>10. BotInv'
    BY <1>0, <1>i, <1>b, <2>1, <2>4, BotMove
  <2>11. VerdictInv'
    BY <1>0, <1>i, <1>v, <1>w, <2>1, <2>4, <2>6, VerdictMove DEF VerdictInv, Decided, RowBecomes
  <2>12. MirrorInv'
    BY <1>0, <1>i, <2>1, <2>4, MirrorMove
  <2> QED
    BY <2>7, <2>8, <2>9, <2>10, <2>11, <2>12 DEF Safe
<1>5. CASE InsertSettleJob(t)
  <2>1. /\ task[t].pc = "job" /\ Steady /\ row' = row /\ ratings' = ratings
        /\ reports' = reports /\ liveMatches' = liveMatches
        /\ arbitrations' = arbitrations /\ failures' = failures
        /\ jobs' = Append(jobs, task[t].outcome)
    BY <1>5 DEF InsertSettleJob, Steady, counts, At
  <2>2. /\ Moves(t) /\ task'[t].pc = "settling"
        /\ task'[t].outcome = task[t].outcome /\ task'[t].direct = task[t].direct
    BY <1>0, <1>y, <1>5, GotoStep DEF InsertSettleJob, Pcs, Becomes, Typed
  <2>3. task[t].outcome \in Verdicts
    BY <1>o, <2>1 DEF Deciding, Decided
  <2>4. /\ jobs' \in Seq(Verdicts) /\ jobs' # <<>>
        /\ \A i \in DOMAIN jobs' : \/ i \in DOMAIN jobs /\ jobs'[i] = jobs[i]
                                   \/ jobs'[i] = task[t].outcome
    BY <1>y, <2>1, <2>3 DEF Typed
  <2>5. LifeInv'
    BY <1>0, <1>i, <1>y, <2>1, <2>2, <2>3, <2>4, LifeMove
    DEF TypesKept, TaskOK, Typed, Deciding, Decided
  <2>6. JobInv'
    BY <1>0, <1>i, <2>2, <2>4, JobMove
  <2>7. EscrowInv'
    <3>1. kind = "staked"
      BY <1>0, <1>i, <2>1 DEF EscrowInv
    <3> QED
      BY <1>0, <1>i, <1>e, <2>1, <2>2, <3>1, EscrowMove
  <2>8. BotInv'
    BY <1>0, <1>i, <1>b, <2>1, <2>2, BotMove
  <2>9. VerdictInv'
    <3>1. arbitrations = 0 => task[t].outcome = row.outcome /\ row.outcome # "none"
      BY <1>w, <2>1, <2>3 DEF Decided, Verdicts
    <3>2. arbitrations = 0 => \A i \in DOMAIN jobs' : jobs'[i] = row.outcome
      BY <1>i, <2>4, <3>1 DEF VerdictInv
    <3> QED
      BY <1>0, <1>i, <1>v, <2>1, <2>2, <3>1, <3>2, VerdictMove DEF VerdictInv, Decided
  <2>10. MirrorInv'
    BY <1>0, <1>i, <2>1, <2>2, MirrorMove
  <2> QED
    BY <2>5, <2>6, <2>7, <2>8, <2>9, <2>10 DEF Safe
<1>6. CASE SetSettling(t) \/ SetDisputed(t)
  <2>1. /\ Steady /\ jobs' = jobs /\ ratings' = ratings /\ reports' = reports
        /\ arbitrations' = arbitrations /\ failures' = failures /\ Done(t)
        /\ task[t].pc \in {"settling", "dispute"}
        /\ liveMatches' = liveMatches \/ liveMatches' = liveMatches - 1
    BY <1>6 DEF SetSettling, SetDisputed, Finish, Steady, counts, At
  <2>2. RowBecomes(IF task[t].pc = "settling" THEN "settling" ELSE "disputed",
                   row.outcome, row.attested)
    BY <1>y, <1>6, SetStateStep DEF SetSettling, SetDisputed, At, RowStates, Typed
  <2>3. /\ Moves(t) /\ task'[t].pc = "idle" /\ task'[t].direct = FALSE
    BY <1>0, <1>y, <2>1, DoneStep DEF Becomes, Typed
  <2>4. LifeInv'
    <3>1. liveMatches' \in Int
      BY <1>y, <2>1 DEF Typed
    <3> QED
      BY <1>0, <1>i, <1>y, <2>1, <2>2, <2>3, <3>1, LifeMove
      DEF TypesKept, TaskOK, Typed, Deciding, Decided, RowBecomes
  <2>5. JobInv'
    BY <1>0, <1>i, <2>1, <2>2, <2>3, JobMove DEF JobInv, RowBecomes
  <2>6. EscrowInv'
    BY <1>0, <1>i, <1>e, <2>1, <2>2, <2>3, EscrowMove DEF EscrowInv, RowBecomes
  <2>7. BotInv'
    BY <1>0, <1>i, <2>1, <2>3, BotMove
  <2>8. VerdictInv'
    BY <1>0, <1>i, <2>1, <2>2, <2>3, VerdictMove DEF VerdictInv, Decided, RowBecomes
  <2>9. MirrorInv'
    BY <1>0, <1>i, <2>1, <2>3, MirrorMove
  <2> QED
    BY <2>4, <2>5, <2>6, <2>7, <2>8, <2>9 DEF Safe
<1> QED
  BY <1>1, <1>2, <1>3, <1>4, <1>5, <1>6 DEF Finalizing

\* A step that neither decides anything nor touches what was decided.
LEMMA QuietMove ==
  ASSUME Safe, Quiet, NEW t \in Tasks, Moves(t), NEW state,
         RowBecomes(state, row.outcome, row.attested), liveMatches' \in Int,
         /\ task'[t].pc \notin Deciding \cup {"finalize bot", "settling", "fallback settling"}
         /\ task'[t].pc = "insert" => task'[t].report \in ReportChoices
         /\ task'[t].direct => task[t].direct
         /\ task[t].pc # "rate B",
         /\ state = "settling" => jobs # <<>>
         /\ state = "settling_rt" => row.state = "settling_rt",
         /\ kind = "bot" /\ t = "B" => task'[t].pc = "idle"
         /\ arbitrations = 0 /\ t = "operator" => task'[t].pc = "idle"
         /\ EscrowFirst /\ kind = "staked" /\ ~onChain =>
              /\ state \in {"escrow_pending", "cancelled"}
              /\ t \in {"A", "B", "operator"} => task'[t].pc = "idle"
              /\ t = "sweep" => task'[t].pc \in {"idle", "cancel escrow"}
              /\ t = "verify" => task'[t].pc # "confirm"
  PROVE  Safe'
<1>i. LifeInv /\ JobInv /\ EscrowInv /\ BotInv /\ VerdictInv /\ MirrorInv
  BY DEF Safe
<1>q. /\ Steady /\ jobs' = jobs /\ ratings' = ratings /\ reports' = reports
      /\ arbitrations' = arbitrations /\ failures' = failures
  BY DEF Quiet
<1>r. /\ row' \in Rows /\ row'.state = state /\ row'.outcome = row.outcome
      /\ row'.attested = row.attested
  BY DEF RowBecomes
<1>p. /\ task'[t].pc # "agree" /\ task'[t].pc \notin Decided
      /\ task'[t].pc \notin {"settling", "fallback settling", "finalize bot"}
  BY DEF Deciding
<1>1. LifeInv'
  BY <1>i, <1>q, <1>r, LifeMove DEF TypesKept, TaskOK, LifeInv
<1>2. JobInv'
  BY <1>i, <1>q, <1>r, <1>p, JobMove
<1>3. EscrowInv'
  BY <1>i, <1>q, <1>r, <1>p, EscrowMove DEF Decided, EscrowInv
<1>4. BotInv'
  BY <1>i, <1>q, <1>p, BotMove
<1>5. VerdictInv'
  BY <1>i, <1>q, <1>r, <1>p, VerdictMove DEF VerdictInv
<1>6. MirrorInv'
  BY <1>i, <1>q, <1>p, MirrorMove DEF Decided
<1> QED
  BY <1>1, <1>2, <1>3, <1>4, <1>5, <1>6 DEF Safe

\* report_outcome, up to the verdict.
LEMMA SafeReporting ==
  ASSUME LifecycleAssumption, Safe, NEW p \in Players,
         InsertReport(p) \/ FinalizeBotMatch(p) \/ ReadReports(p)
           \/ \E r \in ReportChoices : ReportOutcome(p, r)
  PROVE  Safe'
<1>0. p \in Tasks /\ p \in {"A", "B"} /\ p # "sweep" /\ p # "verify" /\ p # "operator"
  BY DEF Tasks, Players
<1>i. LifeInv /\ JobInv /\ EscrowInv /\ BotInv /\ VerdictInv /\ MirrorInv
  BY DEF Safe
<1>y. Typed
  BY <1>i, LifeTyped
<1>e. EscrowFirst /\ kind = "staked" /\ ~onChain =>
        task[p].pc = "idle" /\ row.state \in {"escrow_pending", "cancelled"}
  BY <1>0, <1>i DEF EscrowInv, At
<1>b. kind = "bot" /\ p = "B" => task[p].pc = "idle"
  BY <1>i DEF BotInv, At
<1>d. task[p].direct => kind = "staked"
  BY <1>0, <1>i DEF EscrowInv
<1>1. ASSUME NEW r \in ReportChoices, ReportOutcome(p, r)
      PROVE  Safe'
  <2>1. /\ Quiet /\ row' = row /\ liveMatches' = liveMatches /\ task[p].pc = "idle"
        /\ row.state = "live" /\ (kind = "bot" => p = "A")
    BY <1>1 DEF ReportOutcome, Quiet, Steady, counts, At
  <2>2. Becomes(p, "insert", r, task[p].outcome, task[p].direct)
    BY <1>0, <1>1, <1>y, ReportStep DEF ReportOutcome, Typed, Pcs
  <2>3. /\ Moves(p) /\ task'[p].pc = "insert" /\ task'[p].report = r
        /\ task'[p].direct = task[p].direct
    BY <2>2 DEF Becomes
  <2>4. RowBecomes(row.state, row.outcome, row.attested) /\ liveMatches' \in Int
    BY <1>y, <2>1, RowStays DEF Typed
  <2> QED
    BY <1>0, <1>e, <2>1, <2>3, <2>4, QuietMove DEF Deciding, Decided
<1>2. CASE InsertReport(p) /\ reports[p] = NoReport
  <2> DEFINE pc == IF kind = "bot" THEN "finalize bot" ELSE "read reports"
  <2>1. /\ Steady /\ row' = row /\ jobs' = jobs /\ ratings' = ratings
        /\ liveMatches' = liveMatches /\ arbitrations' = arbitrations /\ failures' = failures
        /\ task[p].pc = "insert" /\ reports' = [reports EXCEPT ![p] = task[p].report]
    BY <1>2 DEF InsertReport, Steady, counts, At
  <2>2. Becomes(p, pc, NoReport, task[p].outcome, task[p].direct)
    BY <1>0, <1>2, <1>y, ReportStep DEF InsertReport, Typed, Pcs
  <2>3. /\ Moves(p) /\ task'[p].pc = pc /\ task'[p].direct = task[p].direct
    BY <2>2 DEF Becomes
  <2>4. task[p].report \in ReportChoices
    BY <1>0, <1>i, <2>1 DEF LifeInv, TaskOK
  <2>5. /\ reports' \in [Players -> ReportChoices \cup {NoReport}]
        /\ Reported' = Reported \cup {p}
        /\ \A q \in Reported : reports'[q] = reports[q]
    <3>1. reports \in [Players -> ReportChoices \cup {NoReport}] /\ reports[p] = NoReport
      BY <1>2, <1>y DEF Typed
    <3>2. task[p].report # NoReport
      BY <2>4, NoReportIsNone
    <3>3. reports' \in [Players -> ReportChoices \cup {NoReport}] /\ reports'[p] = task[p].report
      BY <2>1, <2>4, <3>1
    <3>4. \A q \in Players : q # p => reports'[q] = reports[q]
      BY <2>1, <3>1
    <3> QED
      BY <3>1, <3>2, <3>3, <3>4 DEF Reported
  <2>6. LifeInv'
    BY <1>0, <1>i, <1>y, <2>1, <2>3, <2>5, LifeMove
    DEF TypesKept, TaskOK, Typed, Deciding, Decided
  <2>7. JobInv'
    BY <1>0, <1>i, <2>1, <2>3, JobMove DEF JobInv
  <2>8. EscrowInv'
    BY <1>0, <1>i, <1>e, <1>d, <2>1, <2>3, EscrowMove DEF EscrowInv
  <2>9. BotInv'
    <3>1. kind' = "bot" => Reported' \subseteq {"A"} /\ task'["B"].pc = "idle"
      BY <1>0, <1>i, <1>b, <2>1, <2>3, <2>5 DEF BotInv, Steady, Moves, At, Tasks, Players
    <3>2. ASSUME NEW q \in Players, task'[q].pc = "finalize bot"
          PROVE  q \in Reported' /\ kind' = "bot"
      BY <1>0, <1>i, <2>1, <2>3, <2>5, <3>2 DEF BotInv, Steady, Moves, At, Tasks
    <3> QED
      BY <3>1, <3>2 DEF BotInv, At
  <2>10. VerdictInv'
    <3>0. \A q \in Reported : Claim(q)' = Claim(q)
      BY <2>5 DEF Claim
    <3>1. Claimed \subseteq Claimed'
      BY <2>5, <3>0 DEF Claimed
    <3>2. ASSUME arbitrations = 0, NEW s \in Finalizers
          PROVE  TaskVerdict(s)'
      <4>1. s = p => task'[s].pc \notin Decided /\ task'[s].pc # "agree"
        BY <2>3 DEF Decided
      <4>2. s # p => task'[s] = task[s]
        BY <2>3 DEF Moves, Finalizers, Tasks, Players
      <4>3. TaskVerdict(s)
        BY <1>i, <3>2 DEF VerdictInv
      <4> QED
        BY <2>1, <3>1, <4>1, <4>2, <4>3 DEF TaskVerdict, At
    <3>3. ASSUME arbitrations = 0, NEW q \in Players, task'[q].pc = "agree"
          PROVE  FALSE
      <4>1. q # p /\ At(q, "agree")
        BY <1>0, <2>3, <3>3 DEF Moves, At, Tasks
      <4>2. Reconcile # "none"
        BY <1>0, <1>i, <3>3, <4>1 DEF VerdictInv, LifeInv, TaskOK, Deciding, At, Tasks, Verdicts
      <4> QED
        BY <1>2, <1>i, <4>2, ReconcileType DEF Reported
    <3>4. arbitrations = 0 => task'["operator"].pc = "idle"
      BY <1>0, <1>i, <2>3 DEF VerdictInv, Moves, At, Tasks
    <3> QED
      BY <1>i, <2>1, <3>1, <3>2, <3>3, <3>4 DEF VerdictInv, At
  <2>11. MirrorInv'
    BY <1>0, <1>i, <2>1, <2>3, MirrorMove
  <2> QED
    BY <2>6, <2>7, <2>8, <2>9, <2>10, <2>11 DEF Safe
<1>3. CASE InsertReport(p) /\ reports[p] # NoReport
  <2>1. /\ Quiet /\ row' = row /\ liveMatches' = liveMatches /\ task[p].pc = "insert" /\ Done(p)
    BY <1>3 DEF InsertReport, Quiet, Steady, counts, At
  <2>2. Moves(p) /\ task'[p].pc = "idle" /\ task'[p].direct = FALSE
    BY <1>0, <1>y, <2>1, DoneStep DEF Becomes, Typed
  <2>3. RowBecomes(row.state, row.outcome, row.attested) /\ liveMatches' \in Int
    BY <1>y, <2>1, RowStays DEF Typed
  <2> QED
    BY <1>0, <1>i, <1>e, <2>1, <2>2, <2>3, QuietMove DEF Deciding, Decided, JobInv
<1>4. CASE FinalizeBotMatch(p)
  <2>1. /\ Quiet /\ task[p].pc = "finalize bot" /\ Done(p) /\ liveMatches' = liveMatches - 1
    BY <1>4 DEF FinalizeBotMatch, Finish, Quiet, Steady, counts, At
  <2>2. /\ Steady /\ jobs' = jobs /\ ratings' = ratings /\ reports' = reports
        /\ arbitrations' = arbitrations /\ failures' = failures
    BY <2>1 DEF Quiet
  <2>3. Moves(p) /\ task'[p].pc = "idle" /\ task'[p].direct = FALSE
    BY <1>0, <1>y, <2>1, DoneStep DEF Becomes, Typed
  <2>4. kind = "bot" /\ p \in Reported /\ Claimed = {Claim(p)} /\ Claim(p) \in Verdicts
    <3>1. kind = "bot" /\ p \in Reported /\ Reported = {p}
      BY <1>i, <2>1 DEF BotInv, At
    <3> QED
      BY <1>i, <3>1, ClaimType DEF Claimed
  <2>5. \/ RowBecomes("agreed", Claim(p), row.attested)
        \/ RowBecomes(row.state, row.outcome, row.attested)
    BY <1>4, <1>y, <2>4 DEF FinalizeBotMatch, Typed, Rows, RowStates, Outcomes, RowBecomes
  <2>6. /\ row' \in Rows /\ row'.state \in {row.state, "agreed"}
        /\ row'.outcome \in {row.outcome, Claim(p)} /\ row'.attested = row.attested
    BY <2>5 DEF RowBecomes
  <2>7. LifeInv'
    <3>1. liveMatches' = liveMatches - 1 /\ liveMatches \in Int
      BY <1>y, <1>4 DEF Typed, FinalizeBotMatch, Finish
    <3>2. liveMatches' \in Int
      BY <3>1
    <3> QED
      BY <1>0, <1>i, <1>y, <2>2, <2>3, <2>6, <3>2, LifeMove
      DEF TypesKept, TaskOK, Typed, Deciding, Decided
  <2>8. JobInv'
    BY <1>0, <1>i, <2>2, <2>3, <2>6, JobMove DEF JobInv
  <2>9. EscrowInv'
    BY <1>0, <1>i, <2>2, <2>3, <2>4, <2>6, EscrowMove DEF EscrowInv
  <2>10. BotInv'
    BY <1>0, <1>i, <2>2, <2>3, BotMove
  <2>11. VerdictInv'
    <3>1. arbitrations = 0 => /\ row.outcome \in {"none", Claim(p)}
                              /\ \A s \in Finalizers : At(s, "agree") => task[s].outcome = Claim(p)
      BY <1>i, <2>4 DEF VerdictInv, TaskVerdict
    <3>2. CASE row'.outcome = row.outcome
      BY <1>0, <1>i, <2>2, <2>3, <2>6, <3>2, VerdictMove DEF VerdictInv, Decided
    <3>3. CASE row'.outcome = Claim(p)
      BY <1>0, <1>i, <2>2, <2>3, <2>4, <2>6, <3>1, <3>3, VerdictWrite DEF Decided, Verdicts
    <3> QED
      BY <2>6, <3>2, <3>3
  <2>12. MirrorInv'
    BY <1>0, <1>i, <2>1, <2>2, <2>3, MirrorMove
  <2> QED
    BY <2>7, <2>8, <2>9, <2>10, <2>11, <2>12 DEF Safe
<1>5. CASE ReadReports(p) /\ (Done(p) \/ Goto(p, "dispute"))
  <2>1. /\ Quiet /\ row' = row /\ liveMatches' = liveMatches /\ task[p].pc = "read reports"
    BY <1>5 DEF ReadReports, Quiet, Steady, counts, At
  <2>2. \/ Becomes(p, "idle", NoReport, "none", FALSE)
        \/ Becomes(p, "dispute", task[p].report, task[p].outcome, task[p].direct)
    BY <1>0, <1>y, <1>5, GotoStep, DoneStep DEF Typed, Pcs
  <2>3. Moves(p) /\ task'[p].pc \in {"idle", "dispute"} /\ (task'[p].direct => task[p].direct)
    BY <2>2 DEF Becomes
  <2>4. RowBecomes(row.state, row.outcome, row.attested) /\ liveMatches' \in Int
    BY <1>y, <2>1, RowStays DEF Typed
  <2> QED
    BY <1>0, <1>i, <1>e, <1>b, <2>1, <2>3, <2>4, QuietMove DEF Deciding, Decided, JobInv
<1>6. CASE ReadReports(p) /\ ~(Done(p) \/ Goto(p, "dispute"))
  <2>1. /\ Quiet /\ row' = row /\ liveMatches' = liveMatches /\ task[p].pc = "read reports"
        /\ Reconcile # "none"
        /\ task' = [task EXCEPT ![p].pc = "agree", ![p].outcome = Reconcile, ![p].direct = DirectRt]
    BY <1>6 DEF ReadReports, Quiet, Steady, counts, At
  <2>2. /\ Steady /\ jobs' = jobs /\ ratings' = ratings /\ reports' = reports
        /\ arbitrations' = arbitrations /\ failures' = failures
    BY <2>1 DEF Quiet
  <2>3. /\ Reported = Players /\ Reconcile \in Verdicts /\ Claimed = {Reconcile}
    BY <1>0, <1>i, <2>1, ReconcileType DEF Claimed
  <2>4. Becomes(p, "agree", task[p].report, Reconcile, DirectRt)
    <3>1. DirectRt \in BOOLEAN /\ Reconcile \in Outcomes
      BY <2>3 DEF DirectRt, Outcomes
    <3> QED
      BY <1>0, <1>y, <2>1, <3>1, AgreeStep DEF Typed, Pcs
  <2>5. /\ Moves(p) /\ task'[p].pc = "agree" /\ task'[p].outcome = Reconcile
        /\ task'[p].direct = DirectRt
    BY <2>4 DEF Becomes
  <2>6. LifeInv'
    BY <1>0, <1>i, <1>y, <2>1, <2>2, <2>3, <2>5, LifeMove
    DEF TypesKept, TaskOK, Typed
  <2>7. JobInv'
    BY <1>0, <1>i, <2>1, <2>2, <2>5, JobMove DEF JobInv
  <2>8. EscrowInv'
    BY <1>0, <1>i, <1>e, <2>1, <2>2, <2>5, EscrowMove DEF EscrowInv, DirectRt
  <2>9. BotInv'
    BY <1>0, <1>i, <1>b, <2>1, <2>2, <2>5, BotMove
  <2>10. VerdictInv'
    <3>1. arbitrations = 0 => row.outcome \in {"none", Reconcile}
      BY <1>i, <2>3 DEF VerdictInv
    <3>2. task'[p].pc \notin Decided /\ task'[p].outcome = Reconcile /\ Moves(p)
      BY <2>5 DEF Decided
    <3>3. row'.outcome = row.outcome /\ row'.attested = row.attested
      BY <2>1
    <3>4. arbitrations = 0 => /\ row.attested \in {"none", row.outcome}
                              /\ jobs # <<>> => row.outcome # "none"
                              /\ \A i \in DOMAIN jobs : jobs[i] = row.outcome
      BY <1>i DEF VerdictInv
    <3> QED
      BY <1>0, <1>i, <2>2, <2>3, <3>1, <3>2, <3>3, <3>4, VerdictMove
  <2>11. MirrorInv'
    BY <1>0, <1>i, <2>1, <2>2, <2>5, MirrorMove
  <2> QED
    BY <2>6, <2>7, <2>8, <2>9, <2>10, <2>11 DEF Safe
<1> QED
  BY <1>1, <1>2, <1>3, <1>4, <1>5, <1>6

\* sweep_once.
LEMMA SafeSweeping ==
  ASSUME LifecycleAssumption, Safe, Sweeping
  PROVE  Safe'
<1>0. "sweep" \in Tasks /\ "sweep" \in Finalizers /\ "sweep" \notin Players
  BY DEF Tasks, Finalizers, Players
<1>i. LifeInv /\ JobInv /\ EscrowInv /\ BotInv /\ VerdictInv /\ MirrorInv
  BY DEF Safe
<1>y. Typed
  BY <1>i, LifeTyped
<1>e. EscrowFirst /\ kind = "staked" /\ ~onChain =>
        /\ task["sweep"].pc \in {"idle", "cancel escrow"}
        /\ row.state \in {"escrow_pending", "cancelled"}
  BY <1>i DEF EscrowInv
<1>s. (row.state = "settling" => jobs # <<>>) /\ (row.state = "settling_rt" => kind = "staked")
  BY <1>i DEF JobInv, EscrowInv
<1>a. ASSUME NEW found, NEW pc \in Pcs, NEW o \in Outcomes, Sweep(found, pc, o)
      PROVE  /\ Quiet /\ row' = row /\ liveMatches' \in Int /\ task["sweep"].pc = "idle" /\ found
             /\ Moves("sweep") /\ task'["sweep"].pc = pc /\ task'["sweep"].outcome = o
             /\ task'["sweep"].direct = task["sweep"].direct
             /\ RowBecomes(row.state, row.outcome, row.attested)
  <2>1. /\ Quiet /\ row' = row /\ liveMatches' = liveMatches /\ At("sweep", "idle") /\ found
        /\ task' = [task EXCEPT !["sweep"].pc = pc, !["sweep"].outcome = o]
    BY <1>a DEF Sweep, Quiet, Steady, counts
  <2>2. Becomes("sweep", pc, task["sweep"].report, o, task["sweep"].direct)
    BY <1>0, <1>y, <2>1, OutcomeStep DEF Typed
  <2> QED
    BY <1>y, <2>1, <2>2, RowStays DEF Typed, Becomes, At
<1>b. ASSUME Done("sweep")
      PROVE  Moves("sweep") /\ task'["sweep"].pc = "idle" /\ task'["sweep"].direct = FALSE
  BY <1>0, <1>y, <1>b, DoneStep DEF Becomes, Typed
<1>1. CASE SweepEscrow
  <2>1. Sweep(ExpiredEscrow, "cancel escrow", "none")
    BY <1>1 DEF SweepEscrow
  <2>2. "cancel escrow" \in Pcs /\ "none" \in Outcomes
    BY DEF Pcs, Outcomes
  <2> QED
    BY <1>0, <1>a, <1>e, <1>s, <2>1, <2>2, QuietMove, ZenonT(40) DEF Deciding, Decided
<1>2. CASE CancelEscrow \/ CancelExpired
  <2>1. /\ Quiet /\ Done("sweep") /\ SetState("cancelled")
        /\ task["sweep"].pc \in {"cancel escrow", "cancel"}
        /\ liveMatches' = liveMatches \/ liveMatches' = liveMatches - 1
    BY <1>2 DEF CancelEscrow, CancelExpired, Finish, Quiet, Steady, counts, At
  <2>2. RowBecomes("cancelled", row.outcome, row.attested)
    BY <1>y, <2>1, SetStateStep DEF Typed, RowStates
  <2>3. (liveMatches' = liveMatches \/ liveMatches' = liveMatches - 1) /\ liveMatches \in Int
    BY <1>y, <2>1 DEF Typed
  <2>4. liveMatches' \in Int
    BY <2>3
  <2> QED
    BY <1>0, <1>b, <2>1, <2>2, <2>4, QuietMove DEF Deciding, Decided
<1>3. CASE SweepOverdue /\ row.attested = "none"
  <2>1. Sweep(RtOverdue, "give up", "none")
    BY <1>3 DEF SweepOverdue
  <2>2. "give up" \in Pcs /\ "none" \in Outcomes
    BY DEF Pcs, Outcomes
  <2>3. RtOverdue
    BY <1>a, <2>1, <2>2
  <2> QED
    BY <1>0, <1>a, <1>e, <1>s, <2>1, <2>2, <2>3, QuietMove, ZenonT(40) DEF Deciding, Decided, RtOverdue
<1>4. CASE SweepOverdue /\ row.attested # "none"
  <2>1. Sweep(RtOverdue, "fallback job", row.attested)
    BY <1>4 DEF SweepOverdue
  <2>2. "fallback job" \in Pcs /\ row.attested \in Outcomes /\ row.attested \in Verdicts
    BY <1>4, <1>y DEF Pcs, Outcomes, Typed, Rows
  <2>3. /\ Quiet /\ row' = row /\ liveMatches' \in Int /\ task["sweep"].pc = "idle" /\ RtOverdue
        /\ Moves("sweep") /\ task'["sweep"].pc = "fallback job"
        /\ task'["sweep"].outcome = row.attested
        /\ task'["sweep"].direct = task["sweep"].direct
    BY <1>a, <2>1, <2>2
  <2>4. /\ Steady /\ jobs' = jobs /\ ratings' = ratings /\ reports' = reports
        /\ arbitrations' = arbitrations /\ failures' = failures
    BY <2>3 DEF Quiet
  <2>5. kind = "staked" /\ row.state = "settling_rt"
    BY <1>s, <2>3 DEF RtOverdue
  <2>6. LifeInv'
    BY <1>0, <1>i, <1>y, <2>2, <2>3, <2>4, LifeMove DEF TypesKept, TaskOK, Typed
  <2>7. JobInv'
    BY <1>0, <1>s, <1>i, <2>3, <2>4, JobMove
  <2>8. EscrowInv'
    BY <1>0, <1>i, <1>e, <2>3, <2>4, <2>5, EscrowMove
  <2>9. BotInv'
    BY <1>0, <1>i, <2>3, <2>4, <2>5, BotMove
  <2>10. VerdictInv'
    BY <1>0, <1>i, <1>4, <2>3, <2>4, VerdictMove DEF VerdictInv
  <2>11. MirrorInv'
    BY <1>0, <1>i, <2>3, <2>4, MirrorMove
  <2> QED
    BY <2>6, <2>7, <2>8, <2>9, <2>10, <2>11 DEF Safe
<1>5. CASE GiveUpRt \/ FallbackSettling
  <2>1. /\ Quiet /\ Done("sweep") /\ liveMatches' = liveMatches
        /\ task["sweep"].pc \in {"give up", "fallback settling"}
    BY <1>5 DEF GiveUpRt, FallbackSettling, Quiet, Steady, counts, At
  <2>2. RowBecomes(IF task["sweep"].pc = "give up" THEN "agreed" ELSE "settling",
                   row.outcome, row.attested)
    BY <1>5, <1>y, SetStateStep DEF GiveUpRt, FallbackSettling, At, Typed, RowStates
  <2>3. liveMatches' \in Int
    BY <1>y, <2>1 DEF Typed
  <2>4. task["sweep"].pc = "fallback settling" => jobs # <<>>
    BY <1>0, <1>i DEF JobInv
  <2> QED
    BY <1>0, <1>b, <1>e, <2>1, <2>2, <2>3, <2>4, QuietMove DEF Deciding, Decided
<1>6. CASE FallbackJob
  <2>1. /\ task["sweep"].pc = "fallback job" /\ Steady /\ row' = row /\ ratings' = ratings
        /\ reports' = reports /\ liveMatches' = liveMatches
        /\ arbitrations' = arbitrations /\ failures' = failures
        /\ jobs' = Append(jobs, task["sweep"].outcome)
    BY <1>6 DEF FallbackJob, Steady, counts, At
  <2>2. /\ Moves("sweep") /\ task'["sweep"].pc = "fallback settling"
        /\ task'["sweep"].outcome = task["sweep"].outcome
        /\ task'["sweep"].direct = task["sweep"].direct
    BY <1>0, <1>y, <1>6, GotoStep DEF FallbackJob, Pcs, Becomes, Typed
  <2> DEFINE o == task["sweep"].outcome
  <2>3. o \in Verdicts
    BY <1>0, <1>i, <2>1 DEF LifeInv, TaskOK, Deciding, Decided
  <2> HIDE DEF o
  <2>4. /\ jobs' \in Seq(Verdicts) /\ jobs' # <<>>
        /\ \A i \in DOMAIN jobs' : \/ i \in DOMAIN jobs /\ jobs'[i] = jobs[i]
                                   \/ jobs'[i] = o
    <3>1. jobs \in Seq(Verdicts) /\ jobs' = Append(jobs, o)
      BY <1>y, <2>1 DEF Typed, o
    <3> QED
      BY <2>3, <3>1
  <2>5. LifeInv'
    BY <1>0, <1>i, <1>y, <2>1, <2>2, <2>4, LifeMove
    DEF TypesKept, TaskOK, Typed, Deciding, Decided
  <2>6. JobInv'
    BY <1>0, <1>i, <2>2, <2>4, JobMove
  <2>7. EscrowInv'
    <3>1. kind = "staked"
      BY <1>0, <1>i, <2>1 DEF EscrowInv
    <3> QED
      BY <1>0, <1>i, <1>e, <2>1, <2>2, <3>1, EscrowMove
  <2>8. BotInv'
    BY <1>0, <1>i, <2>1, <2>2, BotMove
  <2>9. VerdictInv'
    <3>1. arbitrations = 0 => o = row.outcome /\ row.outcome # "none"
      BY <1>0, <1>i, <2>1, <2>3 DEF VerdictInv, TaskVerdict, Decided, Verdicts, o
    <3>2. arbitrations = 0 => \A i \in DOMAIN jobs' : jobs'[i] = row.outcome
      BY <1>i, <2>4, <3>1 DEF VerdictInv
    <3> QED
      BY <1>0, <1>i, <2>1, <2>2, <3>1, <3>2, VerdictMove DEF VerdictInv, Decided
  <2>10. MirrorInv'
    BY <1>0, <1>i, <2>1, <2>2, MirrorMove
  <2> QED
    BY <2>5, <2>6, <2>7, <2>8, <2>9, <2>10 DEF Safe
<1>7. CASE SweepExpired
  <2>1. Sweep(ExpiredLive, "get reports", "none")
    BY <1>7 DEF SweepExpired
  <2>2. "get reports" \in Pcs /\ "none" \in Outcomes
    BY DEF Pcs, Outcomes
  <2>3. ExpiredLive
    BY <1>a, <2>1, <2>2
  <2> QED
    BY <1>0, <1>a, <1>e, <1>s, <2>1, <2>2, <2>3, QuietMove, ZenonT(40) DEF Deciding, Decided, ExpiredLive
<1>8. CASE GetReports /\ (Goto("sweep", "cancel") \/ Goto("sweep", "dispute"))
  <2>1. /\ Quiet /\ row' = row /\ liveMatches' = liveMatches /\ task["sweep"].pc = "get reports"
    BY <1>8 DEF GetReports, Quiet, Steady, counts, At
  <2>2. /\ Moves("sweep") /\ task'["sweep"].pc \in {"cancel", "dispute"}
        /\ task'["sweep"].direct = task["sweep"].direct
    BY <1>0, <1>y, <1>8, GotoStep DEF Pcs, Becomes, Typed
  <2>3. RowBecomes(row.state, row.outcome, row.attested) /\ liveMatches' \in Int
    BY <1>y, <2>1, RowStays DEF Typed
  <2> QED
    BY <1>0, <1>e, <1>s, <2>1, <2>2, <2>3, QuietMove DEF Deciding, Decided
<1>9. ASSUME GetReports, NEW p \in Reported, Reported # Players,
             task' = [task EXCEPT !["sweep"].pc = "agree", !["sweep"].outcome = Default(p)]
      PROVE  Safe'
  <2>1. /\ Quiet /\ row' = row /\ liveMatches' = liveMatches /\ task["sweep"].pc = "get reports"
    BY <1>9 DEF GetReports, Quiet, Steady, counts, At
  <2>2. /\ Steady /\ jobs' = jobs /\ ratings' = ratings /\ reports' = reports
        /\ arbitrations' = arbitrations /\ failures' = failures
    BY <2>1 DEF Quiet
  <2>3. Default(p) \in Verdicts /\ Claimed = {Default(p)}
    <3>1. Reported = {p} /\ p \in Players
      BY <1>9 DEF Reported, Players
    <3> QED
      BY <1>i, <3>1, ClaimType DEF Claimed, Default
  <2>4. /\ Moves("sweep") /\ task'["sweep"].pc = "agree"
        /\ task'["sweep"].outcome = Default(p)
        /\ task'["sweep"].direct = task["sweep"].direct
    BY <1>0, <1>y, <1>9, <2>3, OutcomeStep, ZenonT(40) DEF Becomes, Typed, Pcs, Outcomes
  <2>5. LifeInv'
    BY <1>0, <1>i, <1>y, <2>1, <2>2, <2>3, <2>4, LifeMove DEF TypesKept, TaskOK, Typed
  <2>6. JobInv'
    BY <1>0, <1>s, <1>i, <2>1, <2>2, <2>4, JobMove
  <2>7. EscrowInv'
    BY <1>0, <1>i, <1>e, <2>1, <2>2, <2>4, EscrowMove DEF EscrowInv
  <2>8. BotInv'
    BY <1>0, <1>i, <2>1, <2>2, <2>4, BotMove
  <2>9. VerdictInv'
    <3>1. arbitrations = 0 => row.outcome \in {"none", Default(p)}
      BY <1>i, <2>3 DEF VerdictInv
    <3> QED
      BY <1>0, <1>i, <2>1, <2>2, <2>3, <2>4, <3>1, VerdictMove DEF VerdictInv, Decided
  <2>10. MirrorInv'
    BY <1>0, <1>i, <2>1, <2>2, <2>4, MirrorMove
  <2> QED
    BY <2>5, <2>6, <2>7, <2>8, <2>9, <2>10 DEF Safe
<1>10. CASE Finalizing("sweep")
  BY <1>0, <1>10, SafeFinalizing
<1> QED
  BY <1>1, <1>2, <1>3, <1>4, <1>5, <1>6, <1>7, <1>8, <1>9, <1>10 DEF Sweeping, GetReports

\* A step that moves no task.
LEMMA SafeStill ==
  ASSUME Safe, kind' = kind, task' = task, jobs' = jobs, ratings' = ratings,
         reports' = reports, liveMatches' = liveMatches, UNCHANGED counts,
         RowBecomes(row.state, row.outcome, row.attested),
         onChain' \in BOOLEAN, onChain => onChain'
  PROVE  Safe'
<1>1. LifeInv'
  BY DEF Safe, LifeInv, RowBecomes, counts
<1>2. JobInv'
  BY DEF Safe, JobInv, RowBecomes
<1>3. EscrowInv'
  BY DEF Safe, EscrowInv, RowBecomes, At
<1>4. BotInv'
  BY DEF Safe, BotInv, At, Reported
<1>5. VerdictInv'
  <2>1. Claimed' = Claimed /\ Reconcile' = Reconcile
    BY DEF Claimed, Claim, Reported, Reconcile, HashesDiffer
  <2>2. \A t \in Finalizers : TaskVerdict(t)' = TaskVerdict(t)
    BY <2>1 DEF TaskVerdict, At, RowBecomes
  <2> QED
    BY <2>1, <2>2 DEF Safe, VerdictInv, At, RowBecomes, counts
<1>6. MirrorInv'
  BY DEF Safe, MirrorInv, AllHalfway, Halfway, At, counts
<1> QED
  BY <1>1, <1>2, <1>3, <1>4, <1>5, <1>6 DEF Safe

\* Time passes, the stakes reach the registry, or nothing happens.
LEMMA SafeEnvironment ==
  ASSUME Safe, Expire \/ Lapse \/ EscrowFunded \/ UNCHANGED vars
  PROVE  Safe'
<1>y. Typed /\ onChain \in BOOLEAN
  BY LifeTyped DEF Safe, LifeInv
<1>1. RowBecomes(row.state, row.outcome, row.attested)
  <2>1. CASE Expire
    BY <1>y, <2>1 DEF Expire, Typed, Rows, RowBecomes
  <2>2. CASE Lapse
    BY <1>y, <2>2 DEF Lapse, Typed, Rows, RowBecomes
  <2>3. CASE EscrowFunded \/ UNCHANGED vars
    BY <1>y, <2>3, RowStays DEF EscrowFunded, vars, Typed
  <2> QED
    BY <2>1, <2>2, <2>3
<1>2. /\ kind' = kind /\ task' = task /\ jobs' = jobs /\ ratings' = ratings
      /\ reports' = reports /\ liveMatches' = liveMatches /\ UNCHANGED counts
      /\ onChain' \in BOOLEAN /\ (onChain => onChain')
  BY <1>y DEF Expire, Lapse, EscrowFunded, vars, counts
<1> QED
  BY <1>1, <1>2, SafeStill

\* matchmaker_tick and escrow_verify.
LEMMA SafeOpening ==
  ASSUME LifecycleAssumption, Inv,
         (\E k \in Kinds : CreateMatch(k)) \/ CountMatch \/ VerifyEscrow \/ Verifying
  PROVE  Safe'
<1>0. {"maker", "verify"} \subseteq Tasks
  BY DEF Tasks
<1>i. /\ Safe /\ FreshInv
      /\ LifeInv /\ JobInv /\ EscrowInv /\ BotInv /\ VerdictInv /\ MirrorInv
  BY DEF Inv, Safe
<1>y. Typed
  BY <1>i, LifeTyped
<1>e. EscrowFirst /\ kind = "staked" /\ ~onChain =>
        row.state \in {"escrow_pending", "cancelled"} /\ ~At("verify", "confirm")
  BY <1>i DEF EscrowInv
<1>s. (row.state = "settling" => jobs # <<>>)
  BY <1>i DEF JobInv
<1>1. ASSUME NEW k \in Kinds, CreateMatch(k)
      PROVE  Safe'
  <2>1. /\ kind = "none" /\ kind' = k /\ jobs' = jobs /\ ratings' = ratings
        /\ reports' = reports /\ liveMatches' = liveMatches /\ onChain' = onChain
        /\ arbitrations' = arbitrations /\ failures' = failures
        /\ Goto("maker", "count")
    BY <1>1 DEF CreateMatch, counts
  <2>2. k \in {"free", "staked", "bot"}
    BY DEF LifecycleAssumption
  <2>3. Becomes("maker", "count", task["maker"].report, task["maker"].outcome,
                task["maker"].direct)
    BY <1>0, <1>y, <2>1, GotoStep DEF Typed, Pcs
  <2>4. /\ Moves("maker") /\ task'["maker"].pc = "count"
        /\ task'["maker"].direct = task["maker"].direct
    BY <2>3 DEF Becomes
  <2>5. RowBecomes(IF k = "staked" THEN "escrow_pending" ELSE "live",
                   row.outcome, row.attested)
    BY <1>1, <1>y, SetStateStep DEF CreateMatch, Typed, RowStates
  <2>6. /\ row' \in Rows /\ row'.state = IF k = "staked" THEN "escrow_pending" ELSE "live"
        /\ row'.outcome = row.outcome /\ row'.attested = row.attested
    BY <2>5 DEF RowBecomes
  <2>7. jobs = <<>> /\ Reported = {} /\ \A t \in Tasks : task[t].pc = "idle"
    BY <1>i, <2>1 DEF FreshInv, At
  <2>8. \A t \in Tasks : ~task[t].direct
    BY <1>i, <2>1 DEF EscrowInv
  <2>9. \A t \in Tasks : task'[t].pc \in {"idle", "count"} /\ ~task'[t].direct
    BY <2>4, <2>7, <2>8, <1>0 DEF Moves
  <2>10. \A t \in Players \cup {"sweep", "operator", "verify"} : task'[t].pc = "idle"
    BY <2>4, <2>7 DEF Moves, Tasks, Players
  <2>11. LifeInv'
    <3>1. \A t \in Tasks : TaskOK(task'[t])
      BY <2>9 DEF TaskOK, Deciding, Decided
    <3>2. task' \in [Tasks -> TaskRecords]
      BY <2>4 DEF Moves
    <3> QED
      BY <1>i, <2>1, <2>6, <3>1, <3>2 DEF LifeInv
  <2>12. JobInv'
    BY <2>6, <2>9 DEF JobInv
  <2>13. EscrowInv'
    BY <2>1, <2>6, <2>7, <2>9, <2>10 DEF EscrowInv, At, Players
  <2>14. BotInv'
    BY <2>1, <2>7, <2>10 DEF BotInv, At, Reported, Players
  <2>15. VerdictInv'
    <3>1. arbitrations = 0 => /\ task'["operator"].pc = "idle"
                              /\ row'.attested \in {"none", row.outcome}
      BY <1>i, <2>6, <2>10 DEF VerdictInv
    <3>2. jobs' = <<>> /\ \A i \in DOMAIN jobs' : jobs'[i] = row.outcome
      BY <2>1, <2>7
    <3>3. task'["maker"].pc \notin Decided /\ task'["maker"].pc # "agree"
      BY <2>4 DEF Decided
    <3> QED
      BY <1>0, <1>i, <2>1, <2>4, <2>6, <3>1, <3>2, <3>3, VerdictMove
  <2>16. MirrorInv'
    BY <1>0, <1>i, <2>1, <2>4, <2>7, MirrorMove
  <2> QED
    BY <2>11, <2>12, <2>13, <2>14, <2>15, <2>16 DEF Safe
<1>2. CASE CountMatch
  <2>1. /\ Quiet /\ row' = row /\ task["maker"].pc = "count" /\ Done("maker")
        /\ liveMatches' = liveMatches + 1 /\ liveMatches \in Int
    BY <1>2, <1>y DEF CountMatch, Quiet, Steady, counts, At, Typed
  <2>2. liveMatches' \in Int
    BY <2>1
  <2>3. Moves("maker") /\ task'["maker"].pc = "idle" /\ task'["maker"].direct = FALSE
    BY <1>0, <1>y, <2>1, DoneStep DEF Becomes, Typed
  <2>4. RowBecomes(row.state, row.outcome, row.attested)
    BY <1>y, <2>1, RowStays DEF Typed
  <2> QED
    BY <1>0, <1>i, <1>e, <1>s, <2>1, <2>2, <2>3, <2>4, QuietMove DEF Deciding, Decided
<1>3. CASE VerifyEscrow \/ ReadChain
  <2>1. /\ Quiet /\ row' = row /\ task["verify"].pc \in {"idle", "read chain"}
        /\ liveMatches' = liveMatches
    BY <1>3 DEF VerifyEscrow, ReadChain, Quiet, Steady, counts, At
  <2>2. \/ Becomes("verify", "read chain", task["verify"].report, task["verify"].outcome,
                   task["verify"].direct)
        \/ /\ onChain
           /\ Becomes("verify", "confirm", task["verify"].report, task["verify"].outcome,
                      task["verify"].direct)
        \/ Becomes("verify", "idle", NoReport, "none", FALSE)
    BY <1>0, <1>3, <1>y, GotoStep, DoneStep DEF VerifyEscrow, ReadChain, Typed, Pcs
  <2>3. /\ Moves("verify") /\ task'["verify"].pc \in {"read chain", "confirm", "idle"}
        /\ (task'["verify"].pc = "confirm" => onChain)
        /\ (task'["verify"].direct => task["verify"].direct)
    BY <2>2 DEF Becomes
  <2>4. RowBecomes(row.state, row.outcome, row.attested) /\ liveMatches' \in Int
    BY <1>y, <2>1, RowStays DEF Typed
  <2> QED
    BY <1>0, <1>i, <1>e, <1>s, <2>1, <2>3, <2>4, QuietMove DEF Deciding, Decided
<1>4. CASE ConfirmEscrow
  <2> DEFINE state == IF row.state = "escrow_pending" THEN "live" ELSE row.state
  <2>1. /\ Quiet /\ task["verify"].pc = "confirm" /\ Done("verify")
        /\ (liveMatches' = liveMatches \/ liveMatches' = liveMatches + 1)
        /\ liveMatches \in Int
    BY <1>4, <1>y DEF ConfirmEscrow, Quiet, Steady, counts, At, Typed
  <2>2. liveMatches' \in Int
    BY <2>1
  <2>3. Moves("verify") /\ task'["verify"].pc = "idle" /\ task'["verify"].direct = FALSE
    BY <1>0, <1>y, <2>1, DoneStep DEF Becomes, Typed
  <2>4. RowBecomes(state, row.outcome, row.attested)
    BY <1>y, <1>4, ZenonT(40) DEF ConfirmEscrow, RowBecomes, Typed, Rows, RowStates
  <2>5. ~(EscrowFirst /\ kind = "staked" /\ ~onChain)
    BY <1>e, <2>1 DEF At
  <2>6. (state = "settling" => jobs # <<>>) /\ (state = "settling_rt" => row.state = "settling_rt")
    BY <1>s
  <2> HIDE DEF state
  <2> QED
    BY <1>0, <1>i, <2>1, <2>2, <2>3, <2>4, <2>5, <2>6, QuietMove DEF Deciding, Decided
<1> QED
  BY <1>1, <1>2, <1>3, <1>4 DEF Verifying

\* admin_arbitrate: from now on the operator's ruling may be another verdict.
LEMMA SafeArbitrating ==
  ASSUME LifecycleAssumption, Safe,
         CancelByOperator \/ \E v \in Rulings : Arbitrate(v)
  PROVE  Safe'
<1>0. "operator" \in Tasks /\ "operator" \in Finalizers /\ "operator" \notin Players
  BY DEF Tasks, Finalizers, Players
<1>i. LifeInv /\ JobInv /\ EscrowInv /\ BotInv /\ VerdictInv /\ MirrorInv
  BY DEF Safe
<1>y. Typed
  BY <1>i, LifeTyped
<1>e. EscrowFirst /\ kind = "staked" /\ ~onChain =>
        row.state \in {"escrow_pending", "cancelled"} /\ task["operator"].pc = "idle"
  BY <1>i DEF EscrowInv, At
<1>1. CASE CancelByOperator
  <2>1. /\ Steady /\ jobs' = jobs /\ ratings' = ratings /\ reports' = reports
        /\ arbitrations' = arbitrations /\ failures' = failures
        /\ task["operator"].pc = "cancel match" /\ Done("operator")
    BY <1>1 DEF CancelByOperator, Finish, Steady, counts, At
  <2>2. /\ Moves("operator") /\ task'["operator"].pc = "idle"
        /\ task'["operator"].direct = FALSE
    BY <1>0, <1>y, <2>1, DoneStep DEF Becomes, Typed
  <2>3. row' \in Rows /\ row'.state \in {row.state, "cancelled"}
    BY <1>1, <1>y DEF CancelByOperator, Typed, Rows, RowStates, Outcomes
  <2>4. arbitrations # 0
    BY <1>i, <2>1 DEF VerdictInv, At
  <2>5. LifeInv'
    <3>1. liveMatches' = liveMatches - 1 /\ liveMatches \in Int
      BY <1>y, <1>1 DEF Typed, CancelByOperator, Finish
    <3>2. liveMatches' \in Int
      BY <3>1
    <3> QED
      BY <1>0, <1>i, <1>y, <2>1, <2>2, <2>3, <3>2, LifeMove
      DEF TypesKept, TaskOK, Typed, Deciding, Decided
  <2>6. JobInv'
    BY <1>0, <1>i, <2>1, <2>2, <2>3, JobMove DEF JobInv
  <2>7. EscrowInv'
    BY <1>0, <1>i, <1>e, <2>1, <2>2, <2>3, EscrowMove DEF EscrowInv
  <2>8. BotInv'
    BY <1>0, <1>i, <2>1, <2>2, BotMove
  <2>9. VerdictInv'
    BY <2>1, <2>4 DEF VerdictInv
  <2>10. MirrorInv'
    BY <1>0, <1>i, <2>1, <2>2, MirrorMove
  <2> QED
    BY <2>5, <2>6, <2>7, <2>8, <2>9, <2>10 DEF Safe
<1>2. ASSUME NEW v \in Rulings, Arbitrate(v)
      PROVE  Safe'
  <2> DEFINE pc == IF v = "cancelled" THEN "cancel match" ELSE "agree"
  <2>1. /\ Steady /\ jobs' = jobs /\ ratings' = ratings /\ reports' = reports /\ row' = row
        /\ liveMatches' = liveMatches /\ failures' = failures
        /\ task["operator"].pc = "idle" /\ row.state \in ArbitratedIn
        /\ arbitrations' = arbitrations + 1 /\ arbitrations < MaxArbitrations
        /\ task' = [task EXCEPT !["operator"].pc = pc, !["operator"].outcome = v]
    BY <1>2 DEF Arbitrate, Steady, At
  <2>2. v \in Outcomes /\ (pc = "agree" => v \in Verdicts)
    BY DEF LifecycleAssumption, Outcomes
  <2>3. Becomes("operator", pc, task["operator"].report, v, task["operator"].direct)
    BY <1>0, <1>y, <2>1, <2>2, OutcomeStep DEF Typed, Pcs
  <2>4. /\ Moves("operator") /\ task'["operator"].pc = pc /\ task'["operator"].outcome = v
        /\ task'["operator"].direct = task["operator"].direct
    BY <2>3 DEF Becomes
  <2>5. pc \in {"cancel match", "agree"}
    OBVIOUS
  <2> HIDE DEF pc
  <2>6. ~(EscrowFirst /\ kind = "staked" /\ ~onChain)
    BY <1>e, <2>1 DEF EscrowFirst
  <2>7. arbitrations' # 0 /\ arbitrations' \in 0 .. MaxArbitrations
    <3>1. /\ arbitrations \in 0 .. MaxArbitrations /\ MaxArbitrations \in Nat
          /\ arbitrations < MaxArbitrations /\ arbitrations' = arbitrations + 1
      BY <1>y, <2>1 DEF Typed, LifecycleAssumption
    <3> QED
      BY <3>1
  <2>8. LifeInv'
    BY <1>0, <1>i, <1>y, <2>1, <2>2, <2>4, <2>5, <2>7, LifeMove
    DEF TypesKept, TaskOK, Typed, Deciding, Decided
  <2>9. JobInv'
    BY <1>0, <1>i, <2>1, <2>4, <2>5, JobMove DEF JobInv
  <2>10. EscrowInv'
    BY <1>0, <1>i, <2>1, <2>4, <2>5, <2>6, EscrowMove DEF EscrowInv
  <2>11. BotInv'
    BY <1>0, <1>i, <2>1, <2>4, <2>5, BotMove
  <2>12. VerdictInv'
    BY <2>7 DEF VerdictInv
  <2>13. MirrorInv'
    BY <1>0, <1>i, <2>1, <2>4, <2>5, MirrorMove
  <2> QED
    BY <2>8, <2>9, <2>10, <2>11, <2>12, <2>13 DEF Safe
<1> QED
  BY <1>1, <1>2

\* A task is dropped, or all of them by a restart.
LEMMA SafeFailing ==
  ASSUME LifecycleAssumption, Safe, Restart \/ \E t \in Tasks : Fail(t)
  PROVE  Safe'
<1>i. LifeInv /\ JobInv /\ EscrowInv /\ BotInv /\ VerdictInv /\ MirrorInv
  BY DEF Safe
<1>y. Typed
  BY <1>i, LifeTyped
<1>1. /\ kind' = kind /\ onChain' = onChain /\ row' = row /\ jobs' = jobs
      /\ ratings' = ratings /\ reports' = reports /\ arbitrations' = arbitrations
      /\ failures' = failures + 1 /\ failures < MaxFailures
      /\ (liveMatches' = liveMatches \/ liveMatches' \in {0, 1})
  BY DEF Restart, Fail
<1>2. failures' # 0 /\ failures' \in 0 .. MaxFailures
  <2>1. /\ failures \in 0 .. MaxFailures /\ MaxFailures \in Nat
        /\ failures < MaxFailures /\ failures' = failures + 1
    BY <1>y, <1>1 DEF Typed, LifecycleAssumption
  <2> QED
    BY <2>1
<1>3. liveMatches' \in Int
  BY <1>y, <1>1 DEF Typed
<1>4. task' \in [Tasks -> TaskRecords] /\ \A t \in Tasks : task'[t] \in {task[t], Idle}
  <2>1. CASE Restart
    BY <2>1, IdleType DEF Restart
  <2>2. ASSUME NEW t \in Tasks, Fail(t)
        PROVE  /\ task' \in [Tasks -> TaskRecords]
               /\ \A s \in Tasks : task'[s] \in {task[s], Idle}
    BY <1>y, <2>2, IdleType DEF Fail, Done, Typed
  <2> QED
    BY <2>1, <2>2
<1>5. \A t \in Tasks : task'[t] = task[t] \/ (task'[t].pc = "idle" /\ ~task'[t].direct)
  BY <1>4, IdleType
<1>6. LifeInv'
  <2>1. \A t \in Tasks : TaskOK(task'[t])
    BY <1>i, <1>4, IdleType DEF LifeInv
  <2> QED
    BY <1>i, <1>1, <1>2, <1>3, <1>4, <2>1 DEF LifeInv
<1>7. JobInv'
  BY <1>i, <1>1, <1>5 DEF JobInv
<1>8. EscrowInv'
  BY <1>i, <1>1, <1>5 DEF EscrowInv, At, Tasks, Players
<1>9. BotInv'
  BY <1>i, <1>1, <1>5 DEF BotInv, At, Tasks, Players, Reported
<1>10. VerdictInv'
  <2>1. Claimed' = Claimed /\ Reconcile' = Reconcile
    BY <1>1 DEF Claimed, Claim, Reported, Reconcile, HashesDiffer
  <2>2. ASSUME NEW t \in Finalizers, TaskVerdict(t)
        PROVE  TaskVerdict(t)'
    BY <1>1, <1>5, <2>1, <2>2 DEF TaskVerdict, At, Finalizers, Tasks, Players, Decided
  <2> QED
    BY <1>i, <1>1, <1>5, <2>1, <2>2 DEF VerdictInv, At, Tasks, Players
<1>11. MirrorInv'
  BY <1>2 DEF MirrorInv
<1> QED
  BY <1>6, <1>7, <1>8, <1>9, <1>10, <1>11 DEF Safe

\* Nobody has reported, nothing was decided.
LEMMA SafeInit == ASSUME LifecycleAssumption, Init PROVE Inv
<1>1. /\ kind = "none" /\ row = NoRow /\ jobs = <<>> /\ liveMatches = 0 /\ onChain = FALSE
      /\ arbitrations = 0 /\ failures = 0
      /\ reports = [p \in Players |-> NoReport]
      /\ task = [t \in Tasks |-> Idle]
  BY DEF Init
<1>2. task \in [Tasks -> TaskRecords] /\ \A t \in Tasks : task[t] = Idle
  BY <1>1, IdleType
<1>3. \A t \in Tasks : task[t].pc = "idle" /\ ~task[t].direct /\ TaskOK(task[t])
  BY <1>2, IdleType
<1>4. Reported = {}
  BY <1>1 DEF Reported
<1>5. /\ row.state = "none" /\ row.outcome = "none" /\ row.attested = "none" /\ row \in Rows
  BY <1>1 DEF NoRow, Rows, RowStates, Outcomes
<1>6. LifeInv
  <2>1. arbitrations \in 0 .. MaxArbitrations /\ failures \in 0 .. MaxFailures
    BY <1>1 DEF LifecycleAssumption
  <2>2. ratings \in [Players -> Scores]
    BY DEF Init, Scores
  <2>3. reports \in [Players -> ReportChoices \cup {NoReport}]
    BY <1>1
  <2>4. jobs \in Seq(Verdicts)
    BY <1>1
  <2>5. kind \in Kinds \cup {"none"} /\ onChain \in BOOLEAN
    BY <1>1, Zenon
  <2>6. liveMatches = 0
    BY <1>1
  <2>7. liveMatches \in Int
    BY <2>6
  <2> QED
    BY <1>2, <1>3, <1>5, <2>1, <2>2, <2>3, <2>4, <2>5, <2>7 DEF LifeInv
<1>7. JobInv
  BY <1>3, <1>5 DEF JobInv
<1>8. EscrowInv
  BY <1>1, <1>3, <1>5 DEF EscrowInv
<1>9. BotInv
  BY <1>1, <1>3 DEF BotInv, At, Tasks
<1>10. VerdictInv
  <2>1. \A t \in Finalizers : TaskVerdict(t)
    BY <1>3 DEF TaskVerdict, At, Finalizers, Tasks, Players, Decided
  <2>2. jobs = <<>> /\ \A i \in DOMAIN jobs : jobs[i] = row.outcome
    BY <1>1
  <2>3. \A t \in Players \cup {"operator"} : task[t].pc = "idle"
    BY <1>3 DEF Tasks, Players
  <2> QED
    BY <1>5, <2>1, <2>2, <2>3 DEF VerdictInv, At
<1>11. MirrorInv
  <2>1. \A t \in Finalizers : \A x : Halfway(t, x) = 0
    BY <1>3 DEF Halfway, At, Finalizers, Tasks, Players
  <2>2. AllHalfway("win_a") = 0 /\ AllHalfway("win_b") = 0 /\ AllHalfway("draw") = 0
    BY <2>1 DEF AllHalfway, Finalizers
  <2>3. \A p \in Players : ratings[p].won = 0 /\ ratings[p].lost = 0 /\ ratings[p].drew = 0
    BY DEF Init
  <2> QED
    BY <2>2, <2>3 DEF MirrorInv, Players
<1>12. FreshInv
  BY <1>1, <1>3, <1>4, <1>5 DEF FreshInv, At
<1> QED
  BY <1>6, <1>7, <1>8, <1>9, <1>10, <1>11, <1>12 DEF Inv, Safe

\* A match is created once, and stays what it is.
LEMMA Born ==
  ASSUME Next, kind # "none" PROVE kind' = kind
<1>1. ASSUME NEW t, Finalizing(t)
      PROVE  kind' = kind
  BY <1>1 DEF Finalizing, MarkAgreed, RateA, RateB, SetAttestation, InsertSettleJob,
              SetSettling, SetDisputed
<1>2. ASSUME NEW p, NEW r, Reporting(p) \/ ReportOutcome(p, r)
      PROVE  kind' = kind
  BY <1>1, <1>2 DEF Reporting, InsertReport, FinalizeBotMatch, ReadReports, ReportOutcome
<1>3. ASSUME Sweeping
      PROVE  kind' = kind
  BY <1>1, <1>3 DEF Sweeping, SweepEscrow, CancelEscrow, SweepOverdue, GiveUpRt, FallbackJob,
                    FallbackSettling, SweepExpired, GetReports, CancelExpired, Sweep
<1>4. ASSUME NEW v, Arbitrating \/ Arbitrate(v)
      PROVE  kind' = kind
  BY <1>1, <1>4 DEF Arbitrating, CancelByOperator, Arbitrate
<1>5. ASSUME CountMatch \/ VerifyEscrow \/ Verifying
      PROVE  kind' = kind
  BY <1>5 DEF CountMatch, VerifyEscrow, Verifying, ReadChain, ConfirmEscrow
<1>6. ASSUME NEW t, Expire \/ Lapse \/ EscrowFunded \/ Restart \/ Fail(t)
      PROVE  kind' = kind
  BY <1>6 DEF Expire, Lapse, EscrowFunded, Restart, Fail
<1> QED
  BY <1>1, <1>2, <1>3, <1>4, <1>5, <1>6 DEF Next, CreateMatch

\* Before a match is created only its creation, or a restart, can happen.
LEMMA FreshStep ==
  ASSUME LifecycleAssumption, FreshInv, [Next]_vars PROVE FreshInv'
<1>1. CASE kind # "none"
  BY <1>1, Born DEF FreshInv, vars
<1>2. ASSUME kind = "none", NEW t \in Tasks, NEW pc, pc # "idle"
      PROVE  ~At(t, pc)
  BY <1>2 DEF FreshInv, At
<1>3. ASSUME kind = "none", NEW t \in Tasks, Finalizing(t)
      PROVE  FALSE
  BY <1>2, <1>3 DEF Finalizing, MarkAgreed, RateA, RateB, SetAttestation, InsertSettleJob,
                    SetSettling, SetDisputed
<1>4. ASSUME kind = "none", NEW p \in Players, NEW r, Reporting(p) \/ ReportOutcome(p, r)
      PROVE  FALSE
  BY <1>2, <1>3, <1>4 DEF Reporting, InsertReport, FinalizeBotMatch, ReadReports,
                          ReportOutcome, FreshInv, Tasks
<1>5. ASSUME kind = "none", Sweeping
      PROVE  FALSE
  BY <1>2, <1>3, <1>5 DEF Sweeping, SweepEscrow, CancelEscrow, SweepOverdue, GiveUpRt,
       FallbackJob, FallbackSettling, SweepExpired, GetReports, CancelExpired, Sweep,
       ExpiredEscrow, RtOverdue, ExpiredLive, FreshInv, Tasks
<1>6. ASSUME kind = "none", NEW v, Arbitrating \/ Arbitrate(v)
      PROVE  FALSE
  BY <1>2, <1>3, <1>6 DEF Arbitrating, CancelByOperator, Arbitrate, FreshInv, Tasks,
                          LifecycleAssumption
<1>7. ASSUME kind = "none", NEW t \in Tasks,
             \/ CountMatch \/ VerifyEscrow \/ Verifying
             \/ Expire \/ Lapse \/ EscrowFunded \/ Fail(t)
      PROVE  FALSE
  BY <1>2, <1>7 DEF CountMatch, VerifyEscrow, Verifying, ReadChain, ConfirmEscrow,
                    Expire, Lapse, EscrowFunded, Fail, FreshInv, Tasks
<1>8. ASSUME kind = "none", NEW k \in Kinds, CreateMatch(k)
      PROVE  FreshInv'
  BY <1>8 DEF CreateMatch, FreshInv, LifecycleAssumption
<1>9. ASSUME kind = "none", Restart
      PROVE  FreshInv'
  BY <1>9, IdleType DEF Restart, FreshInv, At, Reported
<1>10. ASSUME UNCHANGED vars
       PROVE  FreshInv'
  BY <1>10 DEF vars, FreshInv, At, Reported
<1> QED
  BY <1>1, <1>3, <1>4, <1>5, <1>6, <1>7, <1>8, <1>9, <1>10 DEF Next, Tasks

\* Every step of the match preserves the invariant.
LEMMA SafeStep ==
  ASSUME LifecycleAssumption, Inv, [Next]_vars PROVE Inv'
<1>1. Safe /\ FreshInv /\ \A p \in Players : p \in Finalizers
  BY DEF Inv, Players, Finalizers
<1>2. ASSUME (\E k \in Kinds : CreateMatch(k)) \/ CountMatch \/ VerifyEscrow \/ Verifying
      PROVE  Safe'
  BY <1>2, SafeOpening
<1>3. ASSUME NEW p \in Players, Reporting(p) \/ \E r \in ReportChoices : ReportOutcome(p, r)
      PROVE  Safe'
  BY <1>1, <1>3, SafeReporting, SafeFinalizing DEF Reporting
<1>4. ASSUME Sweeping
      PROVE  Safe'
  BY <1>1, <1>4, SafeSweeping
<1>5. ASSUME Arbitrating \/ \E v \in Rulings : Arbitrate(v)
      PROVE  Safe'
  BY <1>1, <1>5, SafeArbitrating, SafeFinalizing DEF Arbitrating, Finalizers
<1>6. ASSUME Expire \/ Lapse \/ EscrowFunded \/ UNCHANGED vars
      PROVE  Safe'
  BY <1>1, <1>6, SafeEnvironment
<1>7. ASSUME Restart \/ \E t \in Tasks : Fail(t)
      PROVE  Safe'
  BY <1>1, <1>7, SafeFailing
<1>8. Safe'
  BY <1>1, <1>2, <1>3, <1>4, <1>5, <1>6, <1>7, SafeOpening DEF Next
<1> QED
  BY <1>1, <1>8, FreshStep DEF Inv

-----------------------------------------------------------------------------
(***************************************************************************)
(* What follows, for every run.                                            *)
(***************************************************************************)

\* The server's bookkeeping of one match is consistent in every run.
THEOREM Invariance == Spec => []Inv
<1>1. LifecycleAssumption /\ Init => Inv
  BY SafeInit
<1>2. LifecycleAssumption /\ Inv /\ [Next]_vars => Inv'
  BY SafeStep
<1> QED
  BY <1>1, <1>2, LifecycleAssumption, PTL DEF Spec

\* Row, reports, ratings, jobs and tasks keep their types through every
\* interleaving; in particular a job never carries "none" or "cancelled".
THEOREM TypeCorrect == Spec => []TypeOK
<1>1. ASSUME Inv PROVE TypeOK
  <2>0. LifeInv
    BY <1>1 DEF Inv, Safe
  <2>1. row \in [state : RowStates, outcome : Verdicts \cup {"none", "cancelled"},
                 attested : Verdicts \cup {"none"}, expired : BOOLEAN, lapsed : BOOLEAN]
    BY <2>0 DEF LifeInv, Rows, Outcomes
  <2>2. \A i \in DOMAIN jobs : jobs[i] \in Verdicts
    BY <2>0 DEF LifeInv
  <2>3. DOMAIN task = Tasks
    BY <2>0 DEF LifeInv
  <2>4. ratings \in [Players -> [won : Nat, lost : Nat, drew : Nat]]
    BY <2>0 DEF LifeInv, Scores
  <2> QED
    BY <2>0, <2>1, <2>2, <2>3, <2>4 DEF LifeInv, TypeOK
<1> QED
  BY <1>1, Invariance, PTL

\* sign_and_store and the sweep insert the job before they set "settling", so
\* no failure between two statements leaves a settling match without a job.
THEOREM JobBeforeSettling == Spec => []SettlingHasJob
<1>1. ASSUME Inv PROVE SettlingHasJob
  BY <1>1 DEF Inv, Safe, JobInv, SettlingHasJob
<1> QED
  BY <1>1, Invariance, PTL

\* A settlement job is for a staked match whose stakes escrow_verify saw on
\* chain, if the operator leaves unverified and cancelled matches alone (the
\* arbitration handler itself accepts a match in any state).
THEOREM OnlyEscrowedJobs == ASSUME EscrowFirst PROVE Spec => []JobsAreEscrowed
<1>1. ASSUME Inv PROVE JobsAreEscrowed
  BY <1>1, EscrowFirst DEF Inv, Safe, EscrowInv, JobsAreEscrowed, LifeInv
<1> QED
  BY <1>1, Invariance, PTL

\* Until an operator rules, every job of every retry asks for the verdict of
\* the row, and a player claimed it.
THEOREM JobsFollowClaims == Spec => []JobsCarryTheVerdict
<1>1. ASSUME Inv PROVE JobsCarryTheVerdict
  <2>1. VerdictInv /\ jobs \in Seq(Verdicts)
    BY <1>1 DEF Inv, Safe, LifeInv
  <2>2. SUFFICES ASSUME arbitrations = 0, NEW i \in DOMAIN jobs
                 PROVE  jobs[i] = row.outcome /\ row.outcome \in Claimed
    BY DEF JobsCarryTheVerdict, Claimed
  <2>3. jobs # <<>>
    BY <2>1, <2>2
  <2> QED
    BY <2>1, <2>2, <2>3 DEF VerdictInv
<1> QED
  BY <1>1, Invariance, PTL

\* Whatever tasks finalize, and however often, when all is done each win is
\* the opponent's loss, as long as no task was dropped between the two scores.
THEOREM RatingsBalance == Spec => []RatingsMirrored
<1>1. ASSUME Inv PROVE RatingsMirrored
  <2>1. LifeInv /\ MirrorInv
    BY <1>1 DEF Inv, Safe
  <2>2. SUFFICES ASSUME Quiescent, failures = 0
                 PROVE  /\ ratings["A"].won = ratings["B"].lost
                        /\ ratings["A"].lost = ratings["B"].won
                        /\ ratings["A"].drew = ratings["B"].drew
    BY DEF RatingsMirrored
  <2>3. \A t \in Finalizers : \A x : Halfway(t, x) = 0
    BY <2>2 DEF Quiescent, Halfway, At, Finalizers, Tasks, Players
  <2>4. AllHalfway("win_a") = 0 /\ AllHalfway("win_b") = 0 /\ AllHalfway("draw") = 0
    BY <2>3 DEF AllHalfway, Finalizers
  <2>5. /\ ratings["B"].lost \in Nat /\ ratings["B"].won \in Nat /\ ratings["B"].drew \in Nat
    BY <2>1 DEF LifeInv, Scores, Players
  <2> QED
    BY <2>1, <2>2, <2>4, <2>5 DEF MirrorInv
<1> QED
  BY <1>1, Invariance, PTL

\* Before the operator rules, apply_outcome only ever repeats the verdict: one
\* that stands is not replaced by a late report, the sweep or a retry.
LEMMA VerdictKept ==
  ASSUME LifecycleAssumption, Inv, [Next]_vars, arbitrations = 0, row.outcome # "none"
  PROVE  row'.outcome = row.outcome
<1>i. LifeInv /\ BotInv /\ VerdictInv
  BY DEF Inv, Safe
<1>y. row \in Rows
  BY <1>i DEF LifeInv
<1>s. ASSUME NEW state \in RowStates, SetState(state)
      PROVE  row'.outcome = row.outcome
  BY <1>y, <1>s, SetStateStep DEF RowBecomes
<1>1. ASSUME NEW t \in Finalizers, Finalizing(t)
      PROVE  row'.outcome = row.outcome
  <2>1. CASE MarkAgreed(t)
    <3>1. row.outcome = task[t].outcome
      BY <1>i, <2>1 DEF MarkAgreed, VerdictInv, TaskVerdict
    <3> QED
      BY <1>y, <2>1, <3>1 DEF MarkAgreed, Rows
  <2>2. CASE SetAttestation(t)
    BY <1>y, <2>2 DEF SetAttestation, Rows
  <2>3. CASE SetSettling(t) \/ SetDisputed(t)
    BY <1>s, <2>3 DEF SetSettling, SetDisputed, RowStates
  <2>4. CASE RateA(t) \/ RateB(t) \/ InsertSettleJob(t)
    BY <2>4 DEF RateA, RateB, InsertSettleJob
  <2> QED
    BY <1>1, <2>1, <2>2, <2>3, <2>4 DEF Finalizing
<1>2. ASSUME NEW p \in Players, Reporting(p) \/ \E r \in ReportChoices : ReportOutcome(p, r)
      PROVE  row'.outcome = row.outcome
  <2>1. CASE FinalizeBotMatch(p)
    <3>1. Reported = {p}
      BY <1>i, <2>1 DEF FinalizeBotMatch, BotInv
    <3>2. row.outcome = Claim(p)
      BY <1>i, <3>1 DEF VerdictInv, Claimed
    <3> QED
      BY <1>y, <2>1, <3>2 DEF FinalizeBotMatch, Rows
  <2>2. CASE InsertReport(p) \/ ReadReports(p) \/ \E r \in ReportChoices : ReportOutcome(p, r)
    BY <2>2 DEF InsertReport, ReadReports, ReportOutcome
  <2> QED
    BY <1>1, <1>2, <2>1, <2>2 DEF Reporting, Players, Finalizers
<1>3. ASSUME Sweeping
      PROVE  row'.outcome = row.outcome
  <2>1. CASE CancelEscrow \/ GiveUpRt \/ FallbackSettling \/ CancelExpired
    BY <1>s, <2>1 DEF CancelEscrow, GiveUpRt, FallbackSettling, CancelExpired, RowStates
  <2>2. CASE SweepEscrow \/ SweepOverdue \/ FallbackJob \/ SweepExpired \/ GetReports
    BY <2>2 DEF SweepEscrow, SweepOverdue, FallbackJob, SweepExpired, GetReports, Sweep
  <2> QED
    BY <1>1, <1>3, <2>1, <2>2 DEF Sweeping, Finalizers
<1>4. ASSUME NEW v \in Rulings, Arbitrating \/ Arbitrate(v)
      PROVE  row'.outcome = row.outcome
  BY <1>1, <1>4, <1>i DEF Arbitrating, CancelByOperator, Arbitrate, VerdictInv, At, Finalizers
<1>5. ASSUME Arbitrating
      PROVE  row'.outcome = row.outcome
  BY <1>1, <1>5, <1>i DEF Arbitrating, CancelByOperator, VerdictInv, At, Finalizers
<1>6. ASSUME NEW k \in Kinds, CreateMatch(k)
      PROVE  row'.outcome = row.outcome
  BY <1>s, <1>6 DEF CreateMatch, RowStates
<1>7. CASE CountMatch \/ VerifyEscrow \/ ReadChain \/ EscrowFunded \/ Restart
             \/ (\E t \in Tasks : Fail(t)) \/ UNCHANGED vars
  BY <1>7 DEF CountMatch, VerifyEscrow, ReadChain, EscrowFunded, Restart, Fail, vars
<1>8. CASE ConfirmEscrow \/ Expire \/ Lapse
  BY <1>y, <1>8 DEF ConfirmEscrow, Expire, Lapse, Rows
<1> QED
  BY <1>1, <1>2, <1>3, <1>4, <1>5, <1>6, <1>7, <1>8 DEF Next, Verifying

\* A verdict stands until an operator rules otherwise.
THEOREM VerdictIsFinal == Spec => VerdictStands
<1>1. LifecycleAssumption /\ Inv /\ [Next]_vars
        => [arbitrations = 0 /\ row.outcome # "none" => row'.outcome = row.outcome]_vars
  BY VerdictKept
<1> QED
  BY <1>1, Invariance, LifecycleAssumption, PTL DEF Spec, VerdictStands

-----------------------------------------------------------------------------
(***************************************************************************)
(*                    The verdict's way to the chain                       *)
(***************************************************************************)

Statuses == {"done", "failed"}

Chains == [state   : {"READY", "DISPUTED", "SETTLED", "EXPIRED"},
           by      : {"nobody", "verifier", "players", "arbiter"},
           outcome : Outcomes]

-----------------------------------------------------------------------------
(***************************************************************************)
(* The inductive invariant, in parts.                                      *)
(***************************************************************************)
ServerInv == Inv /\ kind = "staked" /\ onChain

\* The relayer works on a job that exists.
RelayerInv ==
  /\ relayer \in {"idle", "submit", "mined", "recorded"}
  /\ answers \in Seq(Statuses)
  /\ relayer # "idle" => job \in DOMAIN jobs

ChainInv ==
  /\ chain \in Chains
  /\ hashes \subseteq Reported

\* What the verifier's signature settled is the verdict of the row; what the
\* players settled is what both reported.
PaidInv ==
  /\ chain.by = "verifier" /\ arbitrations = 0
       => row.outcome # "none" /\ chain.outcome = row.outcome
  /\ chain.by = "players" => Reconcile # "none" /\ chain.outcome = Reconcile

\* In an asynchronous game nothing is disputed, and what the relayer has mined
\* has closed the match, by its own call or by one before it.
ClosedInv ==
  mode = "ASYNC_VERIFIER" =>
    /\ chain.state # "DISPUTED"
    /\ relayer \in {"mined", "recorded"} \/ row.state = "settled"
         => chain.state \in {"SETTLED", "EXPIRED"}

PathInv == ServerInv /\ RelayerInv /\ ChainInv /\ PaidInv /\ ClosedInv

-----------------------------------------------------------------------------
(***************************************************************************)
(* What the server never takes back.                                       *)
(***************************************************************************)

\* The first report of a player stands, jobs are only added, rulings counted,
\* and stakes once in the registry stay.
LEMMA ServerKeeps ==
  ASSUME LifecycleAssumption, LifeInv, [Next]_vars
  PROVE  /\ \A p \in Reported : reports'[p] = reports[p]
         /\ jobs' = jobs \/ \E o \in Verdicts : jobs' = Append(jobs, o)
         /\ arbitrations' \in {arbitrations, arbitrations + 1}
         /\ onChain => onChain'
<1> DEFINE Same == /\ reports' = reports /\ jobs' = jobs /\ arbitrations' = arbitrations
                   /\ onChain' = onChain
<1>1. ASSUME NEW t \in Finalizers, Finalizing(t), ~InsertSettleJob(t)
      PROVE  Same
  BY <1>1 DEF Finalizing, MarkAgreed, RateA, RateB, SetAttestation, SetSettling, SetDisputed,
              counts
<1>2. ASSUME NEW t \in Finalizers, InsertSettleJob(t) \/ (t = "sweep" /\ FallbackJob)
      PROVE  /\ reports' = reports /\ arbitrations' = arbitrations /\ onChain' = onChain
             /\ \E o \in Verdicts : jobs' = Append(jobs, o)
  <2>1. task[t].outcome \in Verdicts
    BY <1>2 DEF LifeInv, TaskOK, Deciding, Decided, InsertSettleJob, FallbackJob, At,
                Finalizers, Tasks, Players
  <2> QED
    BY <1>2, <2>1 DEF InsertSettleJob, FallbackJob, counts
<1>3. ASSUME NEW p \in Players, InsertReport(p)
      PROVE  /\ \A q \in Reported : reports'[q] = reports[q]
             /\ jobs' = jobs /\ arbitrations' = arbitrations /\ onChain' = onChain
  BY <1>3 DEF InsertReport, Reported, LifeInv, counts
<1>4. ASSUME NEW p \in Players, NEW r \in ReportChoices,
             FinalizeBotMatch(p) \/ ReadReports(p) \/ ReportOutcome(p, r)
      PROVE  Same
  BY <1>4 DEF FinalizeBotMatch, ReadReports, ReportOutcome, counts
<1>5. ASSUME NEW p \in Players, FinalizeBotMatch(p) \/ ReadReports(p)
      PROVE  Same
  BY <1>5 DEF FinalizeBotMatch, ReadReports, counts
<1>6. ASSUME \/ SweepEscrow \/ CancelEscrow \/ SweepOverdue \/ GiveUpRt \/ FallbackSettling
             \/ SweepExpired \/ GetReports \/ CancelExpired
      PROVE  Same
  BY <1>6 DEF SweepEscrow, CancelEscrow, SweepOverdue, GiveUpRt, FallbackSettling,
              SweepExpired, GetReports, CancelExpired, Sweep, counts
<1>7. ASSUME NEW k \in Kinds, CreateMatch(k)
      PROVE  Same
  BY <1>7 DEF CreateMatch, counts
<1>8. ASSUME \/ CountMatch \/ VerifyEscrow \/ Verifying \/ CancelByOperator
             \/ Expire \/ Lapse \/ UNCHANGED vars
      PROVE  Same
  BY <1>8 DEF CountMatch, VerifyEscrow, Verifying, ReadChain, ConfirmEscrow,
              CancelByOperator, Expire, Lapse, vars, counts
<1>9. ASSUME NEW v \in Rulings, Arbitrate(v)
      PROVE  /\ reports' = reports /\ jobs' = jobs /\ arbitrations' = arbitrations + 1
             /\ onChain' = onChain
  BY <1>9 DEF Arbitrate
<1>10. ASSUME EscrowFunded \/ Restart \/ \E t \in Tasks : Fail(t)
       PROVE  /\ reports' = reports /\ jobs' = jobs /\ arbitrations' = arbitrations
              /\ onChain => onChain'
  BY <1>10 DEF EscrowFunded, Restart, Fail, counts
<1>11. \A p \in Players : p \in Finalizers
  BY DEF Players, Finalizers
<1> HIDE DEF Same
<1>12. Same => /\ reports' = reports /\ jobs' = jobs /\ arbitrations' = arbitrations
               /\ onChain' = onChain
  BY DEF Same
<1> DEFINE Goal == /\ \A p \in Reported : reports'[p] = reports[p]
                   /\ jobs' = jobs \/ \E o \in Verdicts : jobs' = Append(jobs, o)
                   /\ arbitrations' \in {arbitrations, arbitrations + 1}
                   /\ onChain => onChain'
<1>13. Same => Goal
  BY <1>12
<1>14. ASSUME NEW t \in Finalizers, Finalizing(t)
       PROVE  Goal
  BY <1>1, <1>2, <1>13, <1>14
<1>15. ASSUME NEW p \in Players, Reporting(p)
       PROVE  Goal
  BY <1>3, <1>5, <1>11, <1>13, <1>14, <1>15 DEF Reporting
<1>16. ASSUME NEW p \in Players, NEW r \in ReportChoices, ReportOutcome(p, r)
       PROVE  Goal
  BY <1>4, <1>13, <1>16
<1>17. ASSUME Sweeping
       PROVE  Goal
  BY <1>2, <1>6, <1>13, <1>14, <1>17 DEF Sweeping, Finalizers
<1>18. ASSUME Arbitrating \/ \E v \in Rulings : Arbitrate(v)
       PROVE  Goal
  BY <1>8, <1>9, <1>13, <1>14, <1>18 DEF Arbitrating, Finalizers
<1>19. ASSUME EscrowFunded \/ Restart \/ \E t \in Tasks : Fail(t)
       PROVE  Goal
  BY <1>10, <1>19
<1> HIDE DEF Goal
<1>20. Goal
  BY <1>7, <1>8, <1>13, <1>15, <1>16, <1>17, <1>18, <1>19 DEF Next
<1> QED
  BY <1>20 DEF Goal

\* Only the relayer writes "settled".
LEMMA ServerNeverSettles ==
  ASSUME LifecycleAssumption, LifeInv, [Next]_vars, row'.state = "settled"
  PROVE  row.state = "settled"
<1>y. row \in Rows
  BY DEF LifeInv
<1>s. ASSUME NEW state \in RowStates, SetState(state), state # "settled"
      PROVE  FALSE
  BY <1>y, <1>s, SetStateStep DEF RowBecomes
<1>1. ASSUME NEW t, Finalizing(t)
      PROVE  row.state = "settled"
  <2>1. CASE MarkAgreed(t) \/ SetAttestation(t)
    BY <1>y, <2>1 DEF MarkAgreed, SetAttestation, Rows
  <2>2. CASE SetSettling(t) \/ SetDisputed(t)
    BY <1>s, <2>2 DEF SetSettling, SetDisputed, RowStates
  <2>3. CASE RateA(t) \/ RateB(t) \/ InsertSettleJob(t)
    BY <2>3 DEF RateA, RateB, InsertSettleJob
  <2> QED
    BY <1>1, <2>1, <2>2, <2>3 DEF Finalizing
<1>2. ASSUME NEW p \in Players, Reporting(p) \/ \E r \in ReportChoices : ReportOutcome(p, r)
      PROVE  row.state = "settled"
  <2>1. CASE FinalizeBotMatch(p)
    BY <1>y, <2>1 DEF FinalizeBotMatch, Rows
  <2>2. CASE InsertReport(p) \/ ReadReports(p) \/ \E r \in ReportChoices : ReportOutcome(p, r)
    BY <2>2 DEF InsertReport, ReadReports, ReportOutcome
  <2> QED
    BY <1>1, <1>2, <2>1, <2>2 DEF Reporting
<1>3. ASSUME Sweeping
      PROVE  row.state = "settled"
  <2>1. CASE CancelEscrow \/ GiveUpRt \/ FallbackSettling \/ CancelExpired
    BY <1>s, <2>1 DEF CancelEscrow, GiveUpRt, FallbackSettling, CancelExpired, RowStates
  <2>2. CASE SweepEscrow \/ SweepOverdue \/ FallbackJob \/ SweepExpired \/ GetReports
    BY <2>2 DEF SweepEscrow, SweepOverdue, FallbackJob, SweepExpired, GetReports, Sweep
  <2> QED
    BY <1>1, <1>3, <2>1, <2>2 DEF Sweeping
<1>4. ASSUME Arbitrating \/ \E v \in Rulings : Arbitrate(v)
      PROVE  row.state = "settled"
  <2>1. CASE CancelByOperator
    BY <1>y, <2>1 DEF CancelByOperator, Rows
  <2> QED
    BY <1>1, <1>4, <2>1 DEF Arbitrating, Arbitrate
<1>5. ASSUME NEW k \in Kinds, CreateMatch(k)
      PROVE  row.state = "settled"
  <2>1. SetState("escrow_pending") \/ SetState("live")
    BY <1>5 DEF CreateMatch
  <2> QED
    BY <1>s, <2>1 DEF RowStates
<1>6. CASE CountMatch \/ VerifyEscrow \/ ReadChain \/ EscrowFunded \/ Restart
             \/ (\E t \in Tasks : Fail(t)) \/ UNCHANGED vars
  BY <1>6 DEF CountMatch, VerifyEscrow, ReadChain, EscrowFunded, Restart, Fail, vars
<1>7. CASE ConfirmEscrow \/ Expire \/ Lapse
  BY <1>y, <1>7 DEF ConfirmEscrow, Expire, Lapse, Rows
<1> QED
  BY <1>1, <1>2, <1>3, <1>4, <1>5, <1>6, <1>7 DEF Next, Verifying

-----------------------------------------------------------------------------
(***************************************************************************)
(* Every step preserves the invariant.                                     *)
(***************************************************************************)

\* Reports that stand leave what they agree on as it is.
LEMMA AgreementStands ==
  ASSUME LifecycleAssumption, LifeInv, [Next]_vars, Reconcile # "none"
  PROVE  Reconcile' = Reconcile
<1>1. Reported = Players /\ \A p \in Players : reports'[p] = reports[p]
  BY ReconcileType, ServerKeeps
<1>2. Reported' = Players
  BY <1>1 DEF Reported
<1>3. \A p \in Players : Claim(p)' = Claim(p)
  BY <1>1 DEF Claim
<1>4. HashesDiffer' = HashesDiffer
  BY <1>1 DEF HashesDiffer, Players
<1> QED
  BY <1>1, <1>2, <1>3, <1>4 DEF Reconcile, Players

\* A step of the server alone.
LEMMA PathServer ==
  ASSUME LifecycleAssumption, PathInv, [Next]_vars, UNCHANGED pathVars
  PROVE  PathInv'
<1>i. /\ ServerInv /\ RelayerInv /\ ChainInv /\ PaidInv /\ ClosedInv
      /\ Inv /\ LifeInv /\ kind = "staked" /\ onChain
  BY DEF PathInv, ServerInv, Inv, Safe
<1>u. /\ mode' = mode /\ chain' = chain /\ hashes' = hashes /\ relayer' = relayer
      /\ answers' = answers
  BY DEF pathVars
<1>k. /\ \A p \in Reported : reports'[p] = reports[p]
      /\ jobs' = jobs \/ \E o \in Verdicts : jobs' = Append(jobs, o)
      /\ arbitrations' \in {arbitrations, arbitrations + 1}
      /\ onChain => onChain'
  BY <1>i, ServerKeeps
<1>t. jobs \in Seq(Verdicts) /\ arbitrations \in Nat
  BY <1>i DEF LifeInv, LifecycleAssumption
<1>1. ServerInv'
  <2>1. kind' = "staked"
    BY <1>i, Born DEF vars
  <2> QED
    BY <1>i, <1>k, <2>1, SafeStep DEF ServerInv
<1>2. RelayerInv'
  <2>1. \A i \in DOMAIN jobs : i \in DOMAIN jobs'
    BY <1>t, <1>k
  <2> QED
    BY <1>i, <1>u, <2>1 DEF RelayerInv, job
<1>3. ChainInv'
  BY <1>i, <1>u, <1>k DEF ChainInv, Reported
<1>4. PaidInv'
  <2>1. arbitrations' = 0 => arbitrations = 0
    BY <1>t, <1>k
  <2>2. chain.by = "verifier" /\ arbitrations' = 0
          => row'.outcome # "none" /\ chain.outcome = row'.outcome
    BY <1>i, <2>1, VerdictKept DEF PaidInv
  <2>3. chain.by = "players" => Reconcile' # "none" /\ chain.outcome = Reconcile'
    BY <1>i, AgreementStands DEF PaidInv
  <2> QED
    BY <1>u, <2>2, <2>3 DEF PaidInv
<1>5. ClosedInv'
  BY <1>i, <1>u, ServerNeverSettles DEF ClosedInv
<1> QED
  BY <1>1, <1>2, <1>3, <1>4, <1>5 DEF PathInv

\* What a step of the chain or the relayer leaves to be shown.
LEMMA ServerRests ==
  ASSUME PathInv, UNCHANGED vars
  PROVE  /\ ServerInv' /\ Reported' = Reported /\ Reconcile' = Reconcile
         /\ row' = row /\ jobs' = jobs /\ arbitrations' = arbitrations
<1>1. Reported' = Reported /\ Reconcile' = Reconcile
  BY DEF vars, Reported, Reconcile, HashesDiffer, Claim
<1>2. Safe'
  BY SafeEnvironment DEF PathInv, ServerInv, Inv
<1>3. FreshInv'
  BY DEF vars, FreshInv, PathInv, ServerInv
<1> QED
  BY <1>1, <1>2, <1>3 DEF PathInv, ServerInv, Inv, vars

\* submitAsyncResult by anybody with the attestation.
LEMMA PathAttestation == ASSUME PathInv, SubmitAttestation PROVE PathInv'
<1>i. /\ RelayerInv /\ ChainInv /\ PaidInv /\ ClosedInv /\ VerdictInv /\ LifeInv
  BY DEF PathInv, ServerInv, Inv, Safe
<1>1. /\ UNCHANGED vars /\ relayer' = relayer /\ answers' = answers /\ hashes' = hashes
      /\ mode' = mode /\ row.attested # "none" /\ mode = "ASYNC_VERIFIER"
      /\ chain' = [state |-> "SETTLED", by |-> "verifier", outcome |-> row.attested]
  BY DEF SubmitAttestation, SettleBy, MaySubmit
<1>2. /\ ServerInv' /\ Reported' = Reported /\ Reconcile' = Reconcile
      /\ row' = row /\ jobs' = jobs /\ arbitrations' = arbitrations
  BY <1>1, ServerRests
<1>3. row.attested \in Verdicts
  BY <1>i, <1>1 DEF LifeInv, Rows
<1>4. RelayerInv'
  BY <1>i, <1>1, <1>2 DEF RelayerInv, job
<1>5. ChainInv'
  BY <1>i, <1>1, <1>2, <1>3 DEF ChainInv, Chains, Outcomes
<1>6. PaidInv'
  <2>1. arbitrations = 0 => row.outcome = row.attested
    BY <1>i, <1>1 DEF VerdictInv
  <2> QED
    BY <1>1, <1>2, <2>1 DEF PaidInv
<1>7. ClosedInv'
  BY <1>i, <1>1, <1>2 DEF ClosedInv
<1> QED
  BY <1>2, <1>4, <1>5, <1>6, <1>7 DEF PathInv

\* submitResult by a player; the arbiter; the registry's timeout.
LEMMA PathPlayers ==
  ASSUME LifecycleAssumption, PathInv,
         \/ \E p \in Players : SubmitHash(p)
         \/ \E v \in Verdicts : ResolveDispute(v)
         \/ ExpireOnChain
  PROVE  PathInv'
<1>i. /\ RelayerInv /\ ChainInv /\ PaidInv /\ ClosedInv /\ LifeInv
  BY DEF PathInv, ServerInv, Inv, Safe
<1>1. /\ UNCHANGED vars /\ relayer' = relayer /\ answers' = answers /\ mode' = mode
  BY DEF SubmitHash, ResolveDispute, ExpireOnChain
<1>2. /\ ServerInv' /\ Reported' = Reported /\ Reconcile' = Reconcile
      /\ row' = row /\ jobs' = jobs /\ arbitrations' = arbitrations
  BY <1>1, ServerRests
<1>3. RelayerInv'
  BY <1>i, <1>1, <1>2 DEF RelayerInv, job
<1>4. ASSUME NEW p \in Players, SubmitHash(p)
      PROVE  ChainInv' /\ PaidInv' /\ ClosedInv'
  <2>1. /\ mode = "RT_HASH_AGREE" /\ hashes' = hashes \cup {p} /\ p \in Reported
    BY <1>4 DEF SubmitHash
  <2>2. hashes' \subseteq Reported'
    BY <1>i, <1>2, <2>1 DEF ChainInv
  <2>3. CASE chain' = chain
    BY <1>i, <1>1, <1>2, <2>1, <2>2, <2>3 DEF ChainInv, PaidInv, ClosedInv
  <2>4. CASE chain' = [chain EXCEPT !.state = "DISPUTED"]
    <3>1. /\ chain' \in Chains /\ chain'.by = chain.by /\ chain'.outcome = chain.outcome
      BY <1>i, <2>4 DEF ChainInv, Chains
    <3> QED
      BY <1>i, <1>1, <1>2, <2>1, <2>2, <3>1 DEF ChainInv, PaidInv, ClosedInv
  <2>5. CASE /\ hashes' = Players /\ HashesAgree /\ Claim("A") = Claim("B")
             /\ SettleBy("players", Claim(p))
    <3>1. Reported = Players
      BY <1>2, <2>2, <2>5 DEF Reported
    <3>2. ~HashesDiffer
      BY <2>5 DEF HashesAgree, HashesDiffer
    <3>3. Claim(p) = Claim("A") /\ Claim("A") \in Verdicts
      BY <1>i, <2>5, <3>1, ClaimType DEF Players
    <3>4. Reconcile = Claim(p) /\ Claim(p) \in Verdicts
      BY <2>5, <3>1, <3>2, <3>3 DEF Reconcile
    <3>5. chain' = [state |-> "SETTLED", by |-> "players", outcome |-> Claim(p)]
      BY <2>5 DEF SettleBy
    <3>6. chain' \in Chains /\ chain'.by = "players" /\ chain'.outcome = Claim(p)
      BY <3>4, <3>5 DEF Chains, Outcomes
    <3>7. Reconcile # "none"
      BY <3>4 DEF Verdicts
    <3> QED
      BY <1>1, <1>2, <2>1, <2>2, <3>4, <3>6, <3>7 DEF ChainInv, PaidInv, ClosedInv
  <2> QED
    BY <1>4, <2>3, <2>4, <2>5 DEF SubmitHash
<1>5. ASSUME NEW v \in Verdicts, ResolveDispute(v)
      PROVE  ChainInv' /\ PaidInv' /\ ClosedInv'
  <2>1. /\ chain.state = "DISPUTED" /\ hashes' = hashes
        /\ chain' = [state |-> "SETTLED", by |-> "arbiter", outcome |-> v]
    BY <1>5 DEF ResolveDispute, SettleBy
  <2> QED
    BY <1>i, <1>1, <1>2, <2>1 DEF ChainInv, Chains, Outcomes, PaidInv, ClosedInv
<1>6. ASSUME ExpireOnChain
      PROVE  ChainInv' /\ PaidInv' /\ ClosedInv'
  <2>1. chain' = [chain EXCEPT !.state = "EXPIRED"] /\ hashes' = hashes
    BY <1>6 DEF ExpireOnChain
  <2>2. /\ chain' \in Chains /\ chain'.state = "EXPIRED"
        /\ chain'.by = chain.by /\ chain'.outcome = chain.outcome
    BY <1>i, <2>1 DEF ChainInv, Chains
  <2> QED
    BY <1>i, <1>1, <1>2, <2>1, <2>2 DEF ChainInv, PaidInv, ClosedInv
<1> QED
  BY <1>2, <1>3, <1>4, <1>5, <1>6 DEF PathInv

\* The relayer writes "settled" over whatever state the row is in.
LEMMA ServerSettled ==
  ASSUME PathInv, SetState("settled"),
         UNCHANGED <<kind, reports, ratings, jobs, task, liveMatches, onChain, counts>>
  PROVE  /\ ServerInv' /\ Reported' = Reported /\ Reconcile' = Reconcile
         /\ row'.state = "settled" /\ row'.outcome = row.outcome
<1>i. /\ LifeInv /\ JobInv /\ EscrowInv /\ BotInv /\ VerdictInv /\ MirrorInv /\ FreshInv
      /\ kind = "staked" /\ onChain
  BY DEF PathInv, ServerInv, Inv, Safe
<1>1. RowBecomes("settled", row.outcome, row.attested)
  BY <1>i, SetStateStep DEF LifeInv, RowStates
<1>2. /\ row' \in Rows /\ row'.state = "settled" /\ row'.outcome = row.outcome
      /\ row'.attested = row.attested
  BY <1>1 DEF RowBecomes
<1>3. /\ Reported' = Reported /\ Reconcile' = Reconcile /\ Claimed' = Claimed
  BY DEF Reported, Reconcile, HashesDiffer, Claim, Claimed
<1>4. LifeInv'
  BY <1>i, <1>2 DEF LifeInv, counts
<1>5. JobInv'
  BY <1>i, <1>2 DEF JobInv
<1>6. EscrowInv'
  BY <1>i, <1>2 DEF EscrowInv, At
<1>7. BotInv'
  BY <1>i, <1>3 DEF BotInv, At
<1>8. VerdictInv'
  <2>1. \A t \in Finalizers : TaskVerdict(t)' = TaskVerdict(t)
    BY <1>2, <1>3 DEF TaskVerdict, At
  <2> QED
    BY <1>i, <1>2, <1>3, <2>1 DEF VerdictInv, At, counts
<1>9. MirrorInv'
  BY <1>i DEF MirrorInv, AllHalfway, Halfway, At, counts
<1>10. FreshInv'
  BY <1>i DEF FreshInv
<1> QED
  BY <1>i, <1>2, <1>3, <1>4, <1>5, <1>6, <1>7, <1>8, <1>9, <1>10 DEF ServerInv, Inv, Safe

\* A failure of the relayer is no step of the server's tasks.
LEMMA ServerSurvives ==
  ASSUME LifecycleAssumption, PathInv, RelayerStops
  PROVE  ServerInv' /\ Reported' = Reported /\ Reconcile' = Reconcile
<1>i. /\ LifeInv /\ JobInv /\ EscrowInv /\ BotInv /\ VerdictInv /\ FreshInv
      /\ kind = "staked" /\ onChain
  BY DEF PathInv, ServerInv, Inv, Safe
<1>1. /\ UNCHANGED <<kind, row, reports, ratings, jobs, task, liveMatches, onChain, arbitrations>>
      /\ failures' = failures + 1 /\ failures < MaxFailures
  BY DEF RelayerStops
<1>2. failures' # 0 /\ failures' \in 0 .. MaxFailures
  BY <1>i, <1>1 DEF LifeInv, LifecycleAssumption
<1>3. /\ Reported' = Reported /\ Reconcile' = Reconcile /\ Claimed' = Claimed
  BY <1>1 DEF Reported, Reconcile, HashesDiffer, Claim, Claimed
<1>4. LifeInv'
  BY <1>i, <1>1, <1>2 DEF LifeInv
<1>5. JobInv' /\ EscrowInv' /\ BotInv' /\ FreshInv'
  BY <1>i, <1>1, <1>3 DEF JobInv, EscrowInv, BotInv, FreshInv, At
<1>6. VerdictInv'
  <2>1. \A t \in Finalizers : TaskVerdict(t)' = TaskVerdict(t)
    BY <1>1, <1>3 DEF TaskVerdict, At
  <2> QED
    BY <1>i, <1>1, <1>3, <2>1 DEF VerdictInv, At
<1>7. MirrorInv'
  BY <1>2 DEF MirrorInv
<1> QED
  BY <1>i, <1>1, <1>3, <1>4, <1>5, <1>6, <1>7 DEF ServerInv, Inv, Safe

\* poll_once and settle_match_job.
LEMMA PathRelaying ==
  ASSUME PathInv, Relaying
  PROVE  PathInv'
<1>i. /\ RelayerInv /\ ChainInv /\ PaidInv /\ ClosedInv /\ VerdictInv /\ LifeInv
      /\ jobs \in Seq(Verdicts)
  BY DEF PathInv, ServerInv, Inv, Safe, LifeInv
<1>1. CASE TakeJob \/ AnswerJob
  <2>1. /\ UNCHANGED vars /\ mode' = mode /\ chain' = chain /\ hashes' = hashes
    BY <1>1 DEF TakeJob, AnswerJob
  <2>2. /\ ServerInv' /\ Reported' = Reported /\ Reconcile' = Reconcile
        /\ row' = row /\ jobs' = jobs /\ arbitrations' = arbitrations
    BY <2>1, ServerRests
  <2>3. \/ /\ relayer' = "submit" /\ answers' = answers /\ job \in DOMAIN jobs
        \/ /\ relayer' = "idle" /\ \E s \in Statuses : answers' = Append(answers, s)
    BY <1>1, <1>i DEF TakeJob, AnswerJob, Statuses, RelayerInv
  <2>4. RelayerInv'
    <3>1. answers \in Seq(Statuses)
      BY <1>i DEF RelayerInv
    <3>2. CASE relayer' = "submit" /\ answers' = answers /\ job \in DOMAIN jobs
      BY <2>2, <3>1, <3>2 DEF RelayerInv, job
    <3>3. ASSUME relayer' = "idle", NEW s \in Statuses, answers' = Append(answers, s)
          PROVE  RelayerInv'
      <4>1. answers' \in Seq(Statuses)
        BY <3>1, <3>3
      <4> QED
        BY <3>3, <4>1 DEF RelayerInv
    <3> QED
      BY <2>3, <3>2, <3>3
  <2>5. ChainInv' /\ PaidInv'
    BY <1>i, <2>1, <2>2 DEF ChainInv, PaidInv
  <2>6. ClosedInv'
    BY <1>i, <2>1, <2>2, <2>3 DEF ClosedInv
  <2> QED
    BY <2>2, <2>4, <2>5, <2>6 DEF PathInv
<1>2. CASE SubmitAsyncResult
  <2>1. /\ UNCHANGED vars /\ mode' = mode /\ hashes' = hashes /\ answers' = answers
        /\ relayer = "submit" /\ relayer' = "mined"
    BY <1>2 DEF SubmitAsyncResult
  <2>2. /\ ServerInv' /\ Reported' = Reported /\ Reconcile' = Reconcile
        /\ row' = row /\ jobs' = jobs /\ arbitrations' = arbitrations
    BY <2>1, ServerRests
  <2>3. job \in DOMAIN jobs /\ jobs[job] \in Verdicts
    BY <1>i, <2>1 DEF RelayerInv
  <2>4. RelayerInv'
    BY <1>i, <2>1, <2>2 DEF RelayerInv, job
  <2>5. CASE MaySubmit
    <3>1. /\ mode = "ASYNC_VERIFIER"
          /\ chain' = [state |-> "SETTLED", by |-> "verifier", outcome |-> jobs[job]]
      BY <1>2, <2>5 DEF SubmitAsyncResult, SettleBy, MaySubmit
    <3>2. ChainInv'
      BY <1>i, <2>1, <2>2, <2>3, <3>1 DEF ChainInv, Chains, Outcomes
    <3>3. PaidInv'
      <4>1. arbitrations = 0 => jobs[job] = row.outcome /\ row.outcome # "none"
        BY <1>i, <2>3 DEF VerdictInv, Verdicts
      <4> QED
        BY <2>2, <3>1, <4>1 DEF PaidInv
    <3>4. ClosedInv'
      BY <1>i, <3>1 DEF ClosedInv
    <3> QED
      BY <2>2, <2>4, <3>2, <3>3, <3>4 DEF PathInv
  <2>6. CASE ~MaySubmit
    <3>1. chain' = chain
      BY <1>2, <2>6 DEF SubmitAsyncResult
    <3>2. mode = "ASYNC_VERIFIER" => chain.state \in {"SETTLED", "EXPIRED"}
      BY <1>i, <2>6 DEF MaySubmit, ClosedInv, ChainInv, Chains
    <3>3. ChainInv' /\ PaidInv'
      BY <1>i, <2>1, <2>2, <3>1 DEF ChainInv, PaidInv
    <3>4. ClosedInv'
      BY <2>1, <3>1, <3>2 DEF ClosedInv
    <3> QED
      BY <2>2, <2>4, <3>3, <3>4 DEF PathInv
  <2> QED
    BY <2>5, <2>6
<1>3. CASE RecordSettled
  <2>1. /\ mode' = mode /\ chain' = chain /\ hashes' = hashes /\ answers' = answers
        /\ relayer = "mined" /\ relayer' = "recorded" /\ SetState("settled")
        /\ UNCHANGED <<kind, reports, ratings, jobs, task, liveMatches, onChain, counts>>
    BY <1>3 DEF RecordSettled
  <2>2. /\ ServerInv' /\ Reported' = Reported /\ Reconcile' = Reconcile
        /\ row'.state = "settled" /\ row'.outcome = row.outcome
    BY <2>1, ServerSettled
  <2>3. RelayerInv'
    BY <1>i, <2>1 DEF RelayerInv, job
  <2>4. ChainInv' /\ PaidInv'
    BY <1>i, <2>1, <2>2 DEF ChainInv, PaidInv, counts
  <2>5. ClosedInv'
    BY <1>i, <2>1 DEF ClosedInv
  <2> QED
    BY <2>2, <2>3, <2>4, <2>5 DEF PathInv
<1> QED
  BY <1>1, <1>2, <1>3 DEF Relaying

\* A job fails half-way, or stays pending when the relayer dies.
LEMMA PathStops ==
  ASSUME LifecycleAssumption, PathInv, RelayerStops
  PROVE  PathInv'
<1>i. /\ RelayerInv /\ ChainInv /\ PaidInv /\ ClosedInv
  BY DEF PathInv
<1>1. /\ mode' = mode /\ chain' = chain /\ hashes' = hashes /\ row' = row /\ jobs' = jobs
      /\ arbitrations' = arbitrations /\ relayer' = "idle"
      /\ answers' = answers \/ answers' = Append(answers, "failed")
  BY DEF RelayerStops
<1>2. ServerInv' /\ Reported' = Reported /\ Reconcile' = Reconcile
  BY ServerSurvives
<1>3. RelayerInv'
  BY <1>i, <1>1 DEF RelayerInv, Statuses
<1>4. ChainInv' /\ PaidInv' /\ ClosedInv'
  BY <1>i, <1>1, <1>2 DEF ChainInv, PaidInv, ClosedInv
<1> QED
  BY <1>2, <1>3, <1>4 DEF PathInv

\* The match is live, its stakes are in escrow and nobody has reported.
LEMMA PathStart ==
  ASSUME LifecycleAssumption, ModesAssumption, PathInit
  PROVE  PathInv
<1>1. /\ kind = "staked" /\ row = [NoRow EXCEPT !.state = "live"] /\ jobs = <<>>
      /\ liveMatches = 1 /\ onChain = TRUE
      /\ arbitrations = 0 /\ failures = 0
      /\ reports = [p \in Players |-> NoReport]
      /\ task = [t \in Tasks |-> Idle]
      /\ chain = Ready /\ hashes = {} /\ relayer = "idle" /\ answers = <<>>
  BY DEF PathInit
<1>2. task \in [Tasks -> TaskRecords] /\ \A t \in Tasks : task[t] = Idle
  BY <1>1, IdleType
<1>3. \A t \in Tasks : task[t].pc = "idle" /\ ~task[t].direct /\ TaskOK(task[t])
  BY <1>2, IdleType
<1>4. Reported = {}
  BY <1>1 DEF Reported
<1>5. /\ row.state = "live" /\ row.outcome = "none" /\ row.attested = "none" /\ row \in Rows
  BY <1>1 DEF NoRow, Rows, RowStates, Outcomes
<1>6. LifeInv
  <2>1. arbitrations \in 0 .. MaxArbitrations /\ failures \in 0 .. MaxFailures
    BY <1>1 DEF LifecycleAssumption
  <2>2. ratings \in [Players -> Scores]
    BY DEF PathInit, Scores
  <2>3. reports \in [Players -> ReportChoices \cup {NoReport}]
    BY <1>1
  <2>4. jobs \in Seq(Verdicts)
    BY <1>1
  <2>5. kind \in Kinds \cup {"none"} /\ onChain \in BOOLEAN
    BY <1>1, Zenon DEF ModesAssumption
  <2>6. liveMatches = 1
    BY <1>1
  <2>7. liveMatches \in Int
    BY <2>6
  <2> QED
    BY <1>2, <1>3, <1>5, <2>1, <2>2, <2>3, <2>4, <2>5, <2>7 DEF LifeInv
<1>7. JobInv
  BY <1>3, <1>5 DEF JobInv
<1>8. EscrowInv
  BY <1>1, <1>3, <1>5 DEF EscrowInv
<1>9. BotInv
  BY <1>1, <1>3 DEF BotInv, At, Tasks
<1>10. VerdictInv
  <2>1. \A t \in Finalizers : TaskVerdict(t)
    BY <1>3 DEF TaskVerdict, At, Finalizers, Tasks, Players, Decided
  <2>2. jobs = <<>> /\ \A i \in DOMAIN jobs : jobs[i] = row.outcome
    BY <1>1
  <2>3. \A t \in Players \cup {"operator"} : task[t].pc = "idle"
    BY <1>3 DEF Tasks, Players
  <2> QED
    BY <1>5, <2>1, <2>2, <2>3 DEF VerdictInv, At
<1>11. MirrorInv
  <2>1. \A t \in Finalizers : \A x : Halfway(t, x) = 0
    BY <1>3 DEF Halfway, At, Finalizers, Tasks, Players
  <2>2. AllHalfway("win_a") = 0 /\ AllHalfway("win_b") = 0 /\ AllHalfway("draw") = 0
    BY <2>1 DEF AllHalfway, Finalizers
  <2>3. \A p \in Players : ratings[p].won = 0 /\ ratings[p].lost = 0 /\ ratings[p].drew = 0
    BY DEF PathInit
  <2> QED
    BY <2>2, <2>3 DEF MirrorInv, Players
<1>12. ServerInv
  BY <1>1, <1>6, <1>7, <1>8, <1>9, <1>10, <1>11 DEF ServerInv, Inv, Safe, FreshInv
<1>13. chain \in Chains /\ chain.state = "READY" /\ chain.by = "nobody"
  BY <1>1 DEF Ready, Chains, Outcomes
<1>14. RelayerInv
  BY <1>1 DEF RelayerInv
<1> QED
  BY <1>1, <1>5, <1>12, <1>13, <1>14 DEF PathInv, ChainInv, PaidInv, ClosedInv

\* Every step of server, chain and relayer preserves the invariant.
LEMMA PathStep ==
  ASSUME LifecycleAssumption, PathInv, [PathNext]_allVars
  PROVE  PathInv'
<1>1. CASE UNCHANGED allVars
  BY <1>1, PathServer DEF allVars
<1>2. CASE Next /\ UNCHANGED pathVars
  BY <1>2, PathServer
<1> QED
  BY <1>1, <1>2, PathAttestation, PathPlayers, PathRelaying, PathStops DEF PathNext

-----------------------------------------------------------------------------
(***************************************************************************)
(* What follows, for every run.                                            *)
(***************************************************************************)

\* The server's invariant survives the relayer, and the chain is in step.
THEOREM PathInvariance == PathSpec => []PathInv
<1>1. LifecycleAssumption /\ ModesAssumption /\ PathInit => PathInv
  BY PathStart
<1>2. LifecycleAssumption /\ PathInv /\ [PathNext]_allVars => PathInv'
  BY PathStep
<1> QED
  BY <1>1, <1>2, LifecycleAssumption, ModesAssumption, PTL DEF PathSpec

\* submitAsyncResult, submitResult: whoever settles first, the registry pays
\* the verdict in the row, as long as neither operator nor arbiter ruled.
THEOREM PaysTheRecord == PathSpec => []PaidAsRecorded
<1>1. ASSUME LifecycleAssumption, PathInv PROVE PaidAsRecorded
  <2>i. PaidInv /\ VerdictInv /\ LifeInv
    BY <1>1 DEF PathInv, ServerInv, Inv, Safe
  <2>1. SUFFICES ASSUME chain.by \in {"players", "verifier"}, row.outcome # "none",
                        arbitrations = 0
                 PROVE  chain.outcome = row.outcome
    BY DEF PaidAsRecorded
  <2>2. CASE chain.by = "verifier"
    BY <2>i, <2>1, <2>2 DEF PaidInv
  <2>3. CASE chain.by = "players"
    <3>1. Reconcile # "none" /\ chain.outcome = Reconcile
      BY <2>i, <2>3 DEF PaidInv
    <3>2. row.outcome \in Claimed
      BY <2>i, <2>1 DEF VerdictInv
    <3>3. \A p \in Reported : Claim(p) = Reconcile
      BY <1>1, <2>i, <3>1, ReconcileType DEF Reported
    <3> QED
      BY <3>1, <3>2, <3>3 DEF Claimed
  <2> QED
    BY <2>1, <2>2, <2>3
<1> QED
  BY <1>1, PathInvariance, LifecycleAssumption, PTL

\* settle_match_job: although it takes every receipt for a success, a row of
\* an asynchronous game that says "settled" has been paid or refunded.
THEOREM SettledMeansClosed == PathSpec => []AsyncSettledIsFinal
<1>1. ASSUME PathInv PROVE AsyncSettledIsFinal
  BY <1>1 DEF PathInv, ClosedInv, AsyncSettledIsFinal, SettledIsFinal
<1> QED
  BY <1>1, PathInvariance, PTL
=============================================================================
