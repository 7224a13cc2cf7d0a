---------------------------- MODULE PrizeFunding ----------------------------
(***************************************************************************)
(* From the setup page to a funded cup and its prizes.  A sponsor without  *)
(* a wallet pays a PayPal order; the capture route, or the webhook, turns  *)
(* the order into one fund job, and the relayer creates the cup.  A        *)
(* sponsor with a wallet creates the cup from the page.  Both learn the    *)
(* cup's id afterwards, as nextTournamentId - 1.                           *)
(*                                                                         *)
(* A launch is one passage through the setup page; it has at most one      *)
(* order, so launches also name the orders.                                *)
(***************************************************************************)
EXTENDS TournamentCup

CONSTANTS
    Relayer,       \* the account of the relayer, sponsor of custodial cups
    Term,          \* finalizeDays, in ticks
    MaxLaunches,   \* bound: launches
    MaxCaptures,   \* bound: capture requests per order
    Scenarios      \* bound: what is entered in the setup pages, and how often
                   \* the rest of the world acts while it is done

Launches == 1 .. MaxLaunches
Nobody   == 0

\* What a setup page can be filled with, and what goes past the page.
Forms == [currency : {"USD", "AVAX"}, mode : {"instant", "bracket"},
          wallet : Accounts \ {Relayer}, amount : Nat, bps : Seq(Nat),
          winners : Seq(Addr), players : Nat]

Deposits == [sponsor : Accounts, token : Tokens, amount : Nat, bps : Seq(Nat)]

\* captures: requests per order; deliveries: of webhooks; failures: deaths of the
\* relayer in a job, RPC errors, requests that die halfway; moves: what the
\* contract's owner does, and ticks; outside: token deposits past the page.
ASSUME FundingAssumption ==
    /\ Relayer \in Accounts
    /\ {Term, MaxLaunches, MaxCaptures} \subseteq Nat
    /\ \A s \in Scenarios :
          /\ s.forms \in Seq(Forms) /\ Len(s.forms) <= MaxLaunches
          /\ s.captures \in 1 .. MaxCaptures
          /\ {s.deliveries, s.failures, s.moves} \subseteq Nat
          /\ s.outside \in SUBSET Deposits

VARIABLES
    page,        \* per launch: its form, how far it is, the job it waits for, its cup
    order,       \* the PayPal orders' status
    capture,     \* per order, the capture requests in the server
    hook,        \* per order, a webhook request in the server
    intents,     \* funding_intents: per order claimed?, job_id
    jobs,        \* relayer_jobs of kind fund
    relayer,     \* the job in work and how far it is
    rows,        \* tournaments: per id, the launch whose data it holds
    brackets,    \* brackets: per id, the launch whose players it holds
    left,        \* what is left of the bounds
    funder,      \* history: per cup, the launch that created it
    deaths,      \* history: how often the relayer died in a job
    mixed,       \* history: <<a, b>>: b created a cup before a had read its id
    reverted     \* history: a createTournament of the relayer was mined reverted

pageVars    == <<page, order>>
serverVars  == <<capture, hook, intents>>
dbVars      == <<rows, brackets>>
historyVars == <<funder, deaths, mixed, reverted>>
fundingVars == <<cupVars, pageVars, serverVars, jobs, relayer, dbVars, left, historyVars>>

-----------------------------------------------------------------------------
\* Every launch creates one cup, every death of the relayer another one.
MaxCups == LET Bound(s) == Len(s.forms) + s.failures + Cardinality(s.outside)
           IN  CHOOSE n \in {Bound(s) : s \in Scenarios} : \A s \in Scenarios : Bound(s) <= n
CupIds  == 0 .. MaxCups
NoForm  == [currency |-> "none"]
Resting == [at |-> "idle", job |-> 0, id |-> 0]

Init ==
    /\ CupInit
    /\ \E s \in Scenarios :
          /\ page = [l \in Launches |-> [at |-> "form", job |-> 0, id |-> 0,
                        form |-> IF l \in DOMAIN s.forms THEN s.forms[l] ELSE NoForm]]
          /\ left = [captures |-> s.captures, deliveries |-> s.deliveries,
                     failures |-> s.failures, moves |-> s.moves, outside |-> s.outside]
    /\ order = [l \in Launches |-> "none"]
    /\ capture = [l \in Launches |-> [r \in 1 .. MaxCaptures |-> [at |-> "idle", job |-> 0]]]
    /\ hook = [l \in Launches |-> "idle"]
    /\ intents = [l \in Launches |-> [claimed |-> FALSE, job |-> 0]]
    /\ jobs = <<>>
    /\ relayer = Resting
    /\ rows = [id \in CupIds |-> Nobody]
    /\ brackets = [id \in CupIds |-> Nobody]
    /\ funder = <<>> /\ deaths = 0 /\ mixed = {} /\ reverted = FALSE

-----------------------------------------------------------------------------
(* Creating a cup. *)

\* Launches that have a mined creation and have not yet read nextTournamentId.
Unread ==
    {l \in Launches : page[l].at = "mined"}
    \cup {jobs[j].order : j \in {k \in DOMAIN jobs : relayer.at = "mined" /\ relayer.job = k}}

Creates(l, sponsor, token, amount, bps) ==
    /\ CreateTournament(sponsor, token, amount, bps, sponsor, now + Term)
    /\ funder' = Append(funder, l)
    /\ mixed' = mixed \cup {<<a, l>> : a \in Unread}

\* nextTournamentId() - 1, read in a call of its own.
LastId == Len(cups)

\* Anyone may use the contract past the page.
OutsideSponsor(d) ==
    /\ Creates(Nobody, d.sponsor, d.token, d.amount, d.bps)
    /\ left' = [left EXCEPT !.outside = @ \ {d}]
    /\ UNCHANGED <<pageVars, serverVars, jobs, relayer, dbVars, deaths, reverted>>

-----------------------------------------------------------------------------
(* The setup page. *)

CanProceed(f) == IF f.mode = "bracket" THEN f.players >= 2
                 ELSE Len(f.winners) = Len(f.bps)

Goes(l, at) == page' = [page EXCEPT ![l].at = at]

\* The form is filled; the button connects the wallet or creates an order.
Launch(l) ==
    LET f == page[l].form IN
    /\ page[l].at = "form" /\ f # NoForm /\ CanProceed(f)
    /\ Goes(l, IF f.currency = "USD" THEN "paying" ELSE "create")
    /\ order' = [order EXCEPT ![l] = IF f.currency = "USD" THEN "created" ELSE @]
    /\ UNCHANGED <<cupVars, serverVars, jobs, relayer, dbVars, left, historyVars>>

\* The payer approves the order and onApprove posts it to the capture route;
\* the request may reach the server again.
Approve(l) ==
    /\ page[l].at = "paying"
    /\ order' = [order EXCEPT ![l] = "approved"]
    /\ Goes(l, "capturing")
    /\ capture' = [capture EXCEPT ![l] = [r \in 1 .. MaxCaptures |->
           IF r <= left.captures THEN [at |-> "verify", job |-> 0] ELSE @[r]]]
    /\ UNCHANGED <<cupVars, hook, intents, jobs, relayer, dbVars, left, historyVars>>

\* pollJobForTournament: done, failed, or no answer in two minutes.
PollJob(l) ==
    /\ page[l].at = "polling"
    /\ LET job == jobs[page[l].job] IN
       \/ /\ job.status = "done"
          /\ page' = [page EXCEPT ![l].id = job.id,
                 ![l].at = IF page[l].form.mode = "bracket" THEN "console" ELSE "live"]
       \/ /\ job.status # "done" /\ Goes(l, "failed")
    /\ UNCHANGED <<cupVars, order, serverVars, jobs, relayer, dbVars, left, historyVars>>

-----------------------------------------------------------------------------
(* POST /api/paypal/capture and /api/webhooks/paypal. *)

\* The page waits for its own request; job 0 is an answer without a job id.
Answered(l, r, job) ==
    page' = IF r = 1 /\ page[l].at = "capturing"
            THEN [page EXCEPT ![l].at = IF job = 0 THEN "failed" ELSE "polling",
                              ![l].job = job]
            ELSE page

FundJob(l, generic) == [order |-> l, generic |-> generic, status |-> "pending", id |-> 0]

\* Variant: the intent is looked up, not claimed.
CaptureClaimVariant(l, r) ==
    /\ capture[l][r].at = "verify"
    /\ order[l] = "approved"
    /\ IF intents[l].job # 0
       THEN /\ capture' = [capture EXCEPT ![l][r].at = "answered"]
            /\ Answered(l, r, intents[l].job)
            /\ UNCHANGED intents
       ELSE /\ intents' = [intents EXCEPT ![l].claimed = TRUE]
            /\ capture' = [capture EXCEPT ![l][r].at = "enqueue"]
            /\ UNCHANGED page
    /\ UNCHANGED <<cupVars, order, hook, jobs, relayer, dbVars, left, historyVars>>

\* verifyOrder and claimFundingIntent.  The order of a capture request has been
\* approved; the amount is PayPal's.
CaptureClaim(l, r) ==
    /\ capture[l][r].at = "verify"
    /\ order[l] = "approved"
    /\ IF intents[l].claimed
       THEN /\ capture' = [capture EXCEPT ![l][r].at = "answered"]
            /\ Answered(l, r, intents[l].job)
            /\ UNCHANGED intents
       ELSE /\ intents' = [intents EXCEPT ![l].claimed = TRUE]
            /\ capture' = [capture EXCEPT ![l][r].at = "enqueue"]
            /\ UNCHANGED page
    /\ UNCHANGED <<cupVars, order, hook, jobs, relayer, dbVars, left, historyVars>>

CaptureEnqueue(l, r) ==
    /\ capture[l][r].at = "enqueue"
    /\ jobs' = Append(jobs, FundJob(l, FALSE))
    /\ capture' = [capture EXCEPT ![l][r] = [at |-> "record", job |-> Len(jobs')]]
    /\ UNCHANGED <<cupVars, pageVars, hook, intents, relayer, dbVars, left, historyVars>>

\* updateFundingIntent, and the answer.
CaptureRecord(l, r) ==
    /\ capture[l][r].at = "record"
    /\ intents' = [intents EXCEPT ![l].job = capture[l][r].job]
    /\ capture' = [capture EXCEPT ![l][r].at = "answered"]
    /\ Answered(l, r, capture[l][r].job)
    /\ UNCHANGED <<cupVars, order, hook, jobs, relayer, dbVars, left, historyVars>>

\* PayPal has completed the payment of an approved order and delivers
\* PAYMENT.CAPTURE.COMPLETED, perhaps more than once.
HookClaim(l) ==
    /\ hook[l] = "idle" /\ order[l] = "approved" /\ left.deliveries > 0
    /\ left' = [left EXCEPT !.deliveries = @ - 1]
    /\ IF intents[l].claimed
       THEN UNCHANGED <<hook, intents>>
       ELSE /\ intents' = [intents EXCEPT ![l].claimed = TRUE]
            /\ hook' = [hook EXCEPT ![l] = "enqueue"]
    /\ UNCHANGED <<cupVars, pageVars, capture, jobs, relayer, dbVars, historyVars>>

\* The webhook does not know the form, nor does it record the job.
HookEnqueue(l) ==
    /\ hook[l] = "enqueue"
    /\ jobs' = Append(jobs, FundJob(l, TRUE))
    /\ hook' = [hook EXCEPT ![l] = "idle"]
    /\ UNCHANGED <<cupVars, pageVars, capture, intents, relayer, dbVars, left, historyVars>>

-----------------------------------------------------------------------------
(* The relayer, fund_job. *)

FormOf(j) == page[jobs[j].order].form
BpsOf(j)  == IF jobs[j].generic THEN <<BPS>> ELSE FormOf(j).bps
ModeOf(j) == IF jobs[j].generic THEN "instant" ELSE FormOf(j).mode
EnteredBy(j) == IF jobs[j].generic THEN <<>> ELSE FormOf(j).winners

RelayerTake(j) ==
    /\ relayer.at = "idle"
    /\ jobs[j].status = "pending" /\ \A k \in 1 .. j - 1 : jobs[k].status # "pending"
    /\ relayer' = [at |-> "create", job |-> j, id |-> 0]
    /\ UNCHANGED <<cupVars, pageVars, serverVars, jobs, dbVars, left, historyVars>>

\* The gas is fixed, so nothing simulates the call: when it reverts it is mined
\* all the same, and the receipt is taken for a success.
RelayerCreate ==
    LET j == relayer.job IN
    /\ relayer.at = "create"
    /\ \/ Creates(jobs[j].order, Relayer, Native, FormOf(j).amount, BpsOf(j)) /\ UNCHANGED reverted
       \/ /\ ~MayCreate(FormOf(j).amount, BpsOf(j), Relayer, now + Term)
          /\ reverted' = TRUE
          /\ UNCHANGED <<cupVars, funder, mixed>>
    /\ relayer' = [relayer EXCEPT !.at = "mined"]
    /\ UNCHANGED <<pageVars, serverVars, jobs, dbVars, left, deaths>>

RelayerReadId ==
    LET j == relayer.job IN
    /\ relayer.at = "mined"
    /\ relayer' = [relayer EXCEPT !.id = LastId,
           !.at = CASE ModeOf(j) = "bracket"                     -> "tournament"
                    [] ModeOf(j) = "instant" /\ EnteredBy(j) # <<>> -> "finalize"
                    [] OTHER                                      -> "answer"]
    /\ UNCHANGED <<cupVars, pageVars, serverVars, jobs, dbVars, left, historyVars>>

RelayerFinalize ==
    LET w == EnteredBy(relayer.job) IN
    /\ relayer.at = "finalize"
    /\ \/ FinalizeTournament(relayer.id, w, Relayer)
       \/ ~MayFinalize(relayer.id, w, Relayer) /\ UNCHANGED cupVars
    /\ relayer' = [relayer EXCEPT !.at = "answer"]
    /\ UNCHANGED <<pageVars, serverVars, jobs, dbVars, left, historyVars>>

\* The tournaments row: an existing one keeps everything but its tx_hash.
RelayerTournament ==
    /\ relayer.at = "tournament"
    /\ rows' = [rows EXCEPT ![relayer.id] = IF @ = Nobody THEN jobs[relayer.job].order ELSE @]
    /\ relayer' = [relayer EXCEPT !.at = "bracket"]
    /\ UNCHANGED <<cupVars, pageVars, serverVars, jobs, brackets, left, historyVars>>

\* The brackets row: an existing one is replaced.
RelayerBracket ==
    /\ relayer.at = "bracket"
    /\ brackets' = [brackets EXCEPT ![relayer.id] = jobs[relayer.job].order]
    /\ relayer' = [relayer EXCEPT !.at = "answer"]
    /\ UNCHANGED <<cupVars, pageVars, serverVars, jobs, rows, left, historyVars>>

\* Variant: the id is read again when the job is answered.
RelayerAnswerVariant ==
    /\ relayer.at = "answer"
    /\ jobs' = [jobs EXCEPT ![relayer.job].status = "done", ![relayer.job].id = LastId]
    /\ relayer' = Resting
    /\ UNCHANGED <<cupVars, pageVars, serverVars, dbVars, left, historyVars>>

RelayerAnswer ==
    /\ relayer.at = "answer"
    /\ jobs' = [jobs EXCEPT ![relayer.job].status = "done", ![relayer.job].id = relayer.id]
    /\ relayer' = Resting
    /\ UNCHANGED <<cupVars, pageVars, serverVars, dbVars, left, historyVars>>

-----------------------------------------------------------------------------
(* launchAvax and POST /api/tournament/[id]/init.  The page waits for its   *)
(* receipts, and a reverted transaction is an error there.                  *)

WalletCreate(l) ==
    LET f == page[l].form IN
    /\ page[l].at = "create"
    /\ Creates(l, f.wallet, Native, f.amount, f.bps)
    /\ Goes(l, "mined")
    /\ UNCHANGED <<order, serverVars, jobs, relayer, dbVars, left, deaths, reverted>>

WalletReadId(l) ==
    /\ page[l].at = "mined"
    /\ page' = [page EXCEPT ![l].id = LastId,
                            ![l].at = IF page[l].form.mode = "bracket"
                                      THEN "init" ELSE "sign"]
    /\ UNCHANGED <<cupVars, order, serverVars, jobs, relayer, dbVars, left, historyVars>>

\* A known tournament asks for a token, which the page does not send: it goes
\* to the console without one.
InitCheck(l) ==
    /\ page[l].at = "init"
    /\ Goes(l, IF rows[page[l].id] = Nobody THEN "init tournament" ELSE "console")
    /\ UNCHANGED <<cupVars, order, serverVars, jobs, relayer, dbVars, left, historyVars>>

InitTournament(l) ==
    /\ page[l].at = "init tournament"
    /\ rows' = [rows EXCEPT ![page[l].id] = l]
    /\ Goes(l, "init bracket")
    /\ UNCHANGED <<cupVars, order, serverVars, jobs, relayer, brackets, left, historyVars>>

InitBracket(l) ==
    /\ page[l].at = "init bracket"
    /\ brackets' = [brackets EXCEPT ![page[l].id] = l]
    /\ Goes(l, "console")
    /\ UNCHANGED <<cupVars, order, serverVars, jobs, relayer, rows, left, historyVars>>

WalletFinalize(l) ==
    LET f == page[l].form IN
    /\ page[l].at = "sign"
    /\ FinalizeTournament(page[l].id, f.winners, f.wallet)
    /\ Goes(l, "live")
    /\ UNCHANGED <<order, serverVars, jobs, relayer, dbVars, left, historyVars>>

-----------------------------------------------------------------------------
(* The other users of the contract; time. *)

\* The claim page.
Claim(id, i) ==
    /\ ClaimPrize(cups[id].winners[i], id, i)
    /\ UNCHANGED <<pageVars, serverVars, jobs, relayer, dbVars, left, historyVars>>

\* A sponsor with a wallet cancels; after the deadline anyone does.
Cancel(id) ==
    /\ \/ cups[id].sponsor # Relayer /\ CancelTournament(cups[id].sponsor, id)
       \/ now > cups[id].finalizeDeadline /\ \E a \in Accounts : CancelTournament(a, id)
    /\ UNCHANGED <<pageVars, serverVars, jobs, relayer, dbVars, left, historyVars>>

\* The owner pauses, unpauses and sets the fee; time passes.
Move ==
    /\ left.moves > 0
    /\ left' = [left EXCEPT !.moves = @ - 1]
    /\ \/ PauseCup
       \/ \E fee \in ProtocolFees : UpdateProtocolFeeBps(fee)
       \/ Tick
    /\ UNCHANGED <<pageVars, serverVars, jobs, relayer, dbVars, historyVars>>

-----------------------------------------------------------------------------
(* Failures. *)

\* The relayer dies in a job, which stays pending.
RelayerDies ==
    /\ relayer.at # "idle"
    /\ relayer' = Resting
    /\ deaths' = deaths + 1
    /\ UNCHANGED <<cupVars, pageVars, serverVars, jobs, dbVars, funder, mixed, reverted>>

\* A call of the relayer fails: the job has failed, whatever it did so far.
RelayerFails ==
    /\ relayer.at # "idle"
    /\ jobs' = [jobs EXCEPT ![relayer.job].status = "failed"]
    /\ relayer' = Resting
    /\ UNCHANGED <<cupVars, pageVars, serverVars, dbVars, historyVars>>

\* A request dies in the server; a page is closed or its call fails.
RequestFails ==
    \/ /\ \E l \in Launches, r \in 1 .. MaxCaptures :
             /\ capture[l][r].at \in {"verify", "enqueue", "record"}
             /\ capture' = [capture EXCEPT ![l][r].at = "answered"]
             /\ Answered(l, r, 0)
       /\ UNCHANGED <<order, hook>>
    \/ /\ \E l \in Launches : hook[l] # "idle" /\ hook' = [hook EXCEPT ![l] = "idle"]
       /\ UNCHANGED <<pageVars, capture>>
    \/ /\ \E l \in Launches : /\ page[l].at \notin {"form", "console", "live", "failed"}
                              /\ Goes(l, "failed")
       /\ UNCHANGED <<order, capture, hook>>

Failure ==
    /\ left.failures > 0
    /\ left' = [left EXCEPT !.failures = @ - 1]
    /\ \/ RelayerDies
       \/ RelayerFails
       \/ RequestFails /\ UNCHANGED <<cupVars, intents, jobs, relayer, dbVars, historyVars>>

-----------------------------------------------------------------------------
Next ==
    \/ \E l \in Launches :
          \/ Launch(l) \/ Approve(l) \/ PollJob(l)
          \/ \E r \in 1 .. MaxCaptures : \/ CaptureClaim(l, r)
                                         \/ CaptureEnqueue(l, r) \/ CaptureRecord(l, r)
          \/ HookClaim(l) \/ HookEnqueue(l)
          \/ WalletCreate(l) \/ WalletReadId(l) \/ WalletFinalize(l)
          \/ InitCheck(l) \/ InitTournament(l) \/ InitBracket(l)
    \/ \E j \in DOMAIN jobs : RelayerTake(j)
    \/ RelayerCreate \/ RelayerReadId \/ RelayerFinalize
    \/ RelayerTournament \/ RelayerBracket \/ RelayerAnswer
    \/ \E d \in left.outside : OutsideSponsor(d)
    \/ \E id \in DOMAIN cups : \/ Cancel(id)
                               \/ \E i \in DOMAIN cups[id].winners : Claim(id, i)
    \/ Move
    \/ Failure

Spec == Init /\ [][Next]_fundingVars

-----------------------------------------------------------------------------
CupsOf(l) == {id \in DOMAIN cups : funder[id] = l}
Wallet(l) == IF page[l].form.currency = "USD" THEN Relayer ELSE page[l].form.wallet

\* "One PayPal order = one fund job" (capture/route.ts:50): however the capture
\* requests, their repetitions and the webhook interleave and die, an order has
\* one job at most, and one cup; the relayer funds again only what it was at
\* when it died.  Nothing is funded that was not approved.
FundedOnce ==
    \A l \in Launches :
        /\ Cardinality({j \in DOMAIN jobs : jobs[j].order = l}) <= 1
        /\ Cardinality(CupsOf(l)) <= 1 + (IF order[l] = "none" THEN 0 ELSE deaths)
        /\ CupsOf(l) # {} /\ Wallet(l) = Relayer => order[l] = "approved"

\* The ids that pages, jobs and rows hold are those of the launch's own cup, and
\* a cup's bracket holds the players its sponsor entered, although nobody learns
\* an id from the transaction that created it.  The exceptions, which the code
\* does reach: another creation between the receipt and the call that reads
\* nextTournamentId, and a reverted creation of the relayer.
RightCup ==
    mixed = {} /\ ~reverted =>
        /\ \A l \in Launches : page[l].id # 0 => page[l].id \in CupsOf(l)
        /\ \A j \in DOMAIN jobs : jobs[j].status = "done" => jobs[j].id \in CupsOf(jobs[j].order)
        /\ \A id \in CupIds : /\ rows[id] # Nobody => id \in CupsOf(rows[id])
                              /\ brackets[id] # Nobody => brackets[id] = rows[id]

\* The winners of a cup are those entered in the page of its own launch.  When
\* ids were mixed up they may be another page's, but one of the same account:
\* the contract asks for the signature of the cup's verifier.
WinnersAsEntered ==
    \A id \in DOMAIN cups :
        cups[id].winners # <<>> =>
            \E l \in Launches :
                /\ cups[id].winners = page[l].form.winners
                /\ cups[id].verifier = Wallet(l)
                /\ \/ funder[id] = l \/ <<l, funder[id]>> \in mixed
                   \/ reverted /\ Wallet(l) = Relayer
=============================================================================
