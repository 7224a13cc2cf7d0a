--------------------------- MODULE BracketConsole ---------------------------
(***************************************************************************)
(* One cup with a bracket, from the first result to the payout: the        *)
(* players' pages (play/[id]) and the report route, the organizer's page   *)
(* (manage/[id]) with the bracket and finalize routes, the relayer's       *)
(* finalize job and the cup contract.                                      *)
(*                                                                         *)
(* The bracket is one JSON document (brackets.state).  Every writer reads  *)
(* or holds a whole document, changes its copy and stores the whole copy   *)
(* again, with no version check: between a handler's read and its save,    *)
(* and between the organizer's click and the arrival of the PUT, other     *)
(* writers save theirs.                                                    *)
(***************************************************************************)
EXTENDS BracketEngine

CONSTANTS
    Seeds,         \* the entrants' seeds; entrant ids are the positions
    Placements,    \* number of paid places (payout_bps)
    PlayOutcomes,  \* what the buttons of the players' page report
    MaxReports,    \* bound: report requests sent
    MaxRulings,    \* bound: results recorded by the organizer's page
    MaxFinalizes,  \* bound: finalize requests sent
    MaxCrashes     \* bound: handlers and relayer runs that die halfway

ASSUME ConsoleAssumption ==
    /\ Seeds \in Seq(Nat) /\ Placements \in 1 .. Len(Seeds)
    /\ PlayOutcomes \subseteq {"A", "B", "Draw"}
    /\ {MaxReports, MaxRulings, MaxFinalizes, MaxCrashes} \subseteq Nat

Players == DOMAIN Seeds

VARIABLES
    custodial,  \* funded over PayPal (the relayer finalizes) or by a wallet
    doc,        \* the stored document
    req,        \* per player, the report request in the server
    page,       \* the organizer's page: its copy of the document, its progress
    puts,       \* the page's PUT requests not yet executed, in no order
    route,      \* per finalize request, how far its handler has come
    jobs,       \* relayer_jobs of this cup: their status
    relayer,    \* the job in work and the winners it will pay
    cup,        \* the contract: state and winners
    expired,    \* the finalize deadline has passed
    left,       \* what is left of the bounds
    offered,    \* history: the matches some stored document offered a player
    ruled,      \* history: the results the organizer recorded
    won,        \* history: winner lists of the complete documents that existed
    announced,  \* history: winner lists the finalize route computed
    overwritten \* history: other results were stored after a finalize route
                \* had computed its winners

chainVars   == <<cup, expired>>
historyVars == <<offered, ruled, won, announced, overwritten>>
consoleVars == <<custodial, doc, req, page, puts, route, jobs, relayer, cup, expired,
                 left, offered, ruled, won, announced, overwritten>>

-----------------------------------------------------------------------------
EmptyDoc == [results |-> <<>>, reports |-> {}, disputes |-> {},
             finalized |-> FALSE, computed |-> <<>>]

MatchIds == 1 .. 2^nextPow2(Len(Seeds)) - 1
Results == [id : MatchIds, outcome : {"A", "B", "Draw"}]

\* What every reader of a stored list of results gets.
replay[rs \in Seq(Results)] == reconstruct("single_elimination", Seeds, 0, rs)

\* A second result of a match makes the relayer's replay fail.
Repeats(rs) == \E i, j \in DOMAIN rs : i < j /\ rs[i].id = rs[j].id

\* The engine, tabulated over all lists of up to one result per entrant: a
\* single elimination has one match less.
ResultLists ==
    LET lists[k \in 0 .. Len(Seeds)] ==
            IF k = 0 THEN {<<>>}
            ELSE lists[k - 1] \cup {Append(rs, r) : rs \in lists[k - 1], r \in Results}
    IN  lists[Len(Seeds)]
Replays == [rs \in ResultLists |-> replay[rs]]

Rebuild(d)  == IF d.results \in ResultLists THEN Replays[d.results] ELSE replay[d.results]
Complete(d) == LET r == Rebuild(d) IN r.ok /\ r.t.complete

PaidPlaces(list) == SubSeq(list, 1, Placements)
WinnersOf(d) == PaidPlaces(winners(Rebuild(d).t))
CompleteLists(d) == IF Complete(d) THEN {WinnersOf(d)} ELSE {}
RelayerLists(d) ==
    IF Repeats(d.results) THEN {}
    ELSE {PaidPlaces(list) : list \in RelayerWinners(Seeds, ToSet(d.results))}

\* play page: the first pending match the player is in.
MyMatches(d) ==
    LET Mine(t, p)  == {m \in pending(t) : p \in {t.matches[m].a, t.matches[m].b}}
        First(t, p) == {m \in Mine(t, p) : \A k \in Mine(t, p) : m <= k}
        Offers(r)   == IF r.ok THEN UNION {{p} \X First(r.t, p) : p \in Players} ELSE {}
    IN  Offers(Rebuild(d))

\* PostgresStore.saveBracket: the last writer wins.
saveBracket(d) ==
    /\ doc' = d
    /\ offered' = offered \cup MyMatches(d)
    /\ won' = won \cup CompleteLists(d)
    /\ overwritten' = (overwritten \/ (announced # {} /\ d.results # doc.results))

NotSaved == UNCHANGED <<doc, offered, won, overwritten>>

Idle == [at |-> "idle", match |-> 0, outcome |-> None, doc |-> EmptyDoc]
NoFinalize == [at |-> "idle", doc |-> EmptyDoc]
AtRest == [at |-> "idle", job |-> 0, winners |-> <<>>]

Init ==
    /\ custodial \in BOOLEAN
    /\ doc = EmptyDoc
    /\ req = [p \in Players |-> Idle]
    /\ page = [at |-> "idle", open |-> FALSE, doc |-> EmptyDoc, wait |-> 0]
    /\ puts = {}
    /\ route = [r \in 1 .. MaxFinalizes |-> NoFinalize]
    /\ jobs = <<>>
    /\ relayer = AtRest
    /\ cup = [state |-> "OPEN", winners |-> <<>>]
    /\ expired = FALSE
    /\ left = [reports |-> MaxReports, rulings |-> MaxRulings,
               finalizes |-> MaxFinalizes, crashes |-> MaxCrashes]
    /\ offered = MyMatches(EmptyDoc)
    /\ won = CompleteLists(EmptyDoc)
    /\ ruled = {} /\ announced = {} /\ overwritten = FALSE

-----------------------------------------------------------------------------
(* The players' pages and POST /api/tournament/[id]/report.                 *)

\* The buttons of a page that was loaded from any document stored so far.
MayReport(p, m) == req[p].at = "idle" /\ <<p, m>> \in offered

Report(p, m, o) ==
    /\ MayReport(p, m) /\ left.reports > 0
    /\ req' = [req EXCEPT ![p] = [Idle EXCEPT !.at = "sent", !.match = m, !.outcome = o]]
    /\ left' = [left EXCEPT !.reports = @ - 1]
    /\ UNCHANGED <<custodial, doc, page, puts, route, jobs, relayer, chainVars, historyVars>>

SideIn(t, m, p) == CASE t.matches[m].a = p -> "A"
                     [] t.matches[m].b = p -> "B"
                     [] OTHER -> None

\* Variant (no specification uses it): a decided match takes reports as well.
ReportRefusedVariant(d, p, m) ==
    \/ d.finalized
    \/ ~Rebuild(d).ok
    \/ SideIn(Rebuild(d).t, m, p) = None

ReportRefused(d, p, m) ==
    \/ d.finalized
    \/ ~Rebuild(d).ok
    \/ Rebuild(d).t.matches[m].outcome # None
    \/ SideIn(Rebuild(d).t, m, p) = None

\* Variants: a second report confirms whatever it says; disagreement is not
\* flagged.
WithReportVariant(d, m, side, o) ==
    LET reports == {r \in d.reports : r.match # m \/ r.side # side}
                   \cup {[match |-> m, side |-> side, outcome |-> o]}
        other   == {r \in reports : r.match = m /\ r.side # side}
    IN  [d EXCEPT !.reports = reports,
                  !.results = IF other # {} THEN Append(@, [id |-> m, outcome |-> o]) ELSE @]

WithReportVariant2(d, m, side, o) ==
    LET reports == {r \in d.reports : r.match # m \/ r.side # side}
                   \cup {[match |-> m, side |-> side, outcome |-> o]}
        agreed  == \E r \in reports : r.match = m /\ r.side # side /\ r.outcome = o
    IN  [d EXCEPT !.reports = reports,
                  !.results = IF agreed THEN Append(@, [id |-> m, outcome |-> o]) ELSE @]

\* The document with the report filed: confirmed by the other side's equal
\* report, disputed by a different one.
WithReport(d, m, side, o) ==
    LET reports == {r \in d.reports : r.match # m \/ r.side # side}
                   \cup {[match |-> m, side |-> side, outcome |-> o]}
        other   == {r \in reports : r.match = m /\ r.side # side}
    IN  [d EXCEPT !.reports  = reports,
                  !.results  = IF \E r \in other : r.outcome = o
                               THEN Append(@, [id |-> m, outcome |-> o]) ELSE @,
                  !.disputes = IF \E r \in other : r.outcome # o THEN @ \cup {m} ELSE @]

ReportRead(p) ==
    LET m == req[p].match IN
    /\ req[p].at = "sent"
    /\ req' = [req EXCEPT ![p] =
           IF ReportRefused(doc, p, m) THEN Idle
           ELSE [@ EXCEPT !.at = "save",
                          !.doc = WithReport(doc, m, SideIn(Rebuild(doc).t, m, p), req[p].outcome)]]
    /\ UNCHANGED <<custodial, doc, page, puts, route, jobs, relayer, chainVars, left, historyVars>>

ReportSave(p) ==
    /\ req[p].at = "save"
    /\ saveBracket(req[p].doc)
    /\ req' = [req EXCEPT ![p] = Idle]
    /\ UNCHANGED <<custodial, page, puts, route, jobs, relayer, chainVars, left, ruled, announced>>

-----------------------------------------------------------------------------
(* The organizer's page and PUT /api/tournament/[id]/bracket.               *)

\* (Re)loading the page; what it was waiting for is forgotten.  A document
\* the engine cannot replay takes the page down.
Load ==
    /\ page' = [at |-> "idle", open |-> Rebuild(doc).ok, doc |-> doc, wait |-> 0]
    /\ page' # page
    /\ UNCHANGED <<custodial, doc, req, puts, route, jobs, relayer, chainVars, left, historyVars>>

\* The page shows d at once and PUTs it; nobody waits for the answer.
Persist(d, at) ==
    /\ page' = [page EXCEPT !.doc = d, !.at = at, !.wait = 0]
    /\ puts' = puts \cup {d}

\* The "win" buttons of a pending match.
CanRecord(m) == page.open /\ m \in pending(Rebuild(page.doc).t)

RecordResult(m, o) ==
    LET d == [page.doc EXCEPT !.results = Append(@, [id |-> m, outcome |-> o])] IN
    /\ CanRecord(m) /\ left.rulings > 0
    /\ puts' = puts \cup {d}
    /\ page' = [page EXCEPT !.doc = d]
    /\ ruled' = ruled \cup {[id |-> m, outcome |-> o]}
    /\ won' = won \cup CompleteLists(d)
    /\ left' = [left EXCEPT !.rulings = @ - 1]
    /\ UNCHANGED <<custodial, doc, req, route, jobs, relayer, chainVars, offered, announced, overwritten>>

PutSave(d) ==
    /\ saveBracket(d)
    /\ puts' = puts \ {d}
    /\ UNCHANGED <<custodial, req, page, route, jobs, relayer, chainVars, left, ruled, announced>>

CanFinalize ==
    page.open /\ page.at = "idle" /\ Complete(page.doc) /\ ~page.doc.finalized

-----------------------------------------------------------------------------
(* POST /api/tournament/[id]/finalize, for a cup the relayer finalizes.     *)

FinalizeRequest(r) ==
    /\ custodial /\ CanFinalize
    /\ route[r].at = "idle" /\ left.finalizes > 0
    /\ route' = [route EXCEPT ![r].at = "sent"]
    /\ page' = [page EXCEPT !.at = "waiting", !.wait = r]
    /\ left' = [left EXCEPT !.finalizes = @ - 1]
    /\ UNCHANGED <<custodial, doc, req, puts, jobs, relayer, chainVars, historyVars>>

\* The page shows the error, if it still waits for this request.
PageFails(r) == page' = IF page.at = "waiting" /\ page.wait = r
                        THEN [page EXCEPT !.at = "idle", !.wait = 0] ELSE page

FinalizeRefused(d) == d.finalized \/ ~Complete(d)

FinalizeRead(r) ==
    /\ route[r].at = "sent"
    /\ IF FinalizeRefused(doc)
       THEN /\ route' = [route EXCEPT ![r] = NoFinalize]
            /\ PageFails(r)
            /\ UNCHANGED announced
       ELSE /\ route' = [route EXCEPT ![r] =
                   [at  |-> "save",
                    doc |-> [doc EXCEPT !.finalized = TRUE, !.computed = WinnersOf(doc)]]]
            /\ announced' = announced \cup {WinnersOf(doc)}
            /\ UNCHANGED page
    /\ UNCHANGED <<custodial, req, puts, jobs, relayer, chainVars, left, ruled>>
    /\ NotSaved

FinalizeSave(r) ==
    /\ route[r].at = "save"
    /\ saveBracket(route[r].doc)
    /\ route' = [route EXCEPT ![r] = [at |-> "enqueue", doc |-> EmptyDoc]]
    /\ UNCHANGED <<custodial, req, page, puts, jobs, relayer, chainVars, left, ruled, announced>>

FinalizeEnqueue(r) ==
    /\ route[r].at = "enqueue"
    /\ jobs' = Append(jobs, "pending")
    /\ route' = [route EXCEPT ![r] = NoFinalize]
    /\ page' = IF page.at = "waiting" /\ page.wait = r
               THEN [page EXCEPT !.at = "polling", !.wait = Len(jobs')] ELSE page
    /\ UNCHANGED <<custodial, req, puts, relayer, chainVars, left, ruled, announced>>
    /\ NotSaved

\* The page asks for its job 30 times.  The answer "failed" is an error; "done",
\* or thirty times "pending", stores the page's own copy as finalized.
Poll ==
    /\ page.at = "polling"
    /\ \/ /\ jobs[page.wait] = "failed"
          /\ page' = [page EXCEPT !.at = "idle", !.wait = 0]
          /\ UNCHANGED puts
       \/ /\ jobs[page.wait] \in {"done", "pending"}
          /\ Persist([page.doc EXCEPT !.finalized = TRUE], "idle")
    /\ UNCHANGED <<custodial, doc, req, route, jobs, relayer, chainVars, left, historyVars>>

-----------------------------------------------------------------------------
(* The relayer, finalize_job.                                               *)

\* Variant: the cross-check alone decides; a document without one is paid as it
\* stands.
RelayerAcceptsVariant(d) ==
    IF d.computed # <<>> THEN {d.computed}
    ELSE {WinnersOf(x) : x \in {y \in {d} : Rebuild(y).ok}}

\* The guard on the row's state never fails: no code updates tournaments.state.
RelayerAccepts(d) == {w \in RelayerLists(d) : d.computed \in {<<>>, w}}

TakeJob(j) ==
    /\ relayer.at = "idle"
    /\ jobs[j] = "pending" /\ \A k \in 1 .. j - 1 : jobs[k] # "pending"
    /\ IF RelayerAccepts(doc) = {}
       THEN jobs' = [jobs EXCEPT ![j] = "failed"] /\ UNCHANGED relayer
       ELSE \E w \in RelayerAccepts(doc) :
               relayer' = [at |-> "send", job |-> j, winners |-> w] /\ UNCHANGED jobs
    /\ UNCHANGED <<custodial, doc, req, page, puts, route, chainVars, left, historyVars>>

\* AMPTournamentCup.finalizeTournament; a call out of order reverts.
finalizeTournament(w) ==
    cup' = IF cup.state = "OPEN" /\ ~expired
           THEN [state |-> "FINALIZED", winners |-> w] ELSE cup

\* Gas is fixed, so the node does not simulate: a transaction that reverts is
\* mined too, and its receipt is as good as any.
RelayerSend ==
    /\ relayer.at = "send"
    /\ finalizeTournament(relayer.winners)
    /\ relayer' = [relayer EXCEPT !.at = "mined"]
    /\ UNCHANGED <<custodial, doc, req, page, puts, route, jobs, expired, left, historyVars>>

RelayerAnswer ==
    /\ relayer.at = "mined"
    /\ jobs' = [jobs EXCEPT ![relayer.job] = "done"]
    /\ relayer' = AtRest
    /\ UNCHANGED <<custodial, doc, req, page, puts, route, chainVars, left, historyVars>>

-----------------------------------------------------------------------------
(* A cup the organizer's wallet funded: the wallet signs and submits.  The  *)
(* page may be gone when the transaction is mined.                          *)

WalletFinalize ==
    /\ ~custodial /\ CanFinalize
    /\ cup.state = "OPEN" /\ ~expired
    /\ finalizeTournament(WinnersOf(page.doc))
    /\ \/ Persist([page.doc EXCEPT !.finalized = TRUE], "idle")
       \/ page' = [page EXCEPT !.open = FALSE] /\ UNCHANGED puts
    /\ UNCHANGED <<custodial, doc, req, route, jobs, relayer, expired, left, historyVars>>

-----------------------------------------------------------------------------
(* Time, the sponsor, and failures.                                         *)

PassDeadline ==
    /\ ~expired /\ expired' = TRUE
    /\ UNCHANGED <<custodial, doc, req, page, puts, route, jobs, relayer, cup, left, historyVars>>

\* cancelTournament: the sponsor, or anyone after the deadline.  The relayer,
\* the sponsor of a custodial cup, never cancels.
Cancel ==
    /\ cup.state = "OPEN" /\ (expired \/ ~custodial)
    /\ cup' = [cup EXCEPT !.state = "CANCELLED"]
    /\ UNCHANGED <<custodial, doc, req, page, puts, route, jobs, relayer, expired, left, historyVars>>

\* A request dies in the server or on its way; the relayer dies in a job.
Crash ==
    /\ left.crashes > 0
    /\ left' = [left EXCEPT !.crashes = @ - 1]
    /\ \/ /\ \E p \in Players : req[p].at # "idle" /\ req' = [req EXCEPT ![p] = Idle]
          /\ UNCHANGED <<page, puts, route, relayer>>
       \/ /\ \E d \in puts : puts' = puts \ {d}
          /\ UNCHANGED <<req, page, route, relayer>>
       \/ /\ \E r \in DOMAIN route : /\ route[r].at # "idle"
                                     /\ route' = [route EXCEPT ![r] = NoFinalize]
                                     /\ PageFails(r)
          /\ UNCHANGED <<req, puts, relayer>>
       \/ /\ relayer.at # "idle" /\ relayer' = AtRest
          /\ UNCHANGED <<req, page, puts, route>>
    /\ UNCHANGED <<custodial, doc, jobs, chainVars, historyVars>>

-----------------------------------------------------------------------------
Next ==
    \/ \E p \in Players, m \in MatchIds, o \in PlayOutcomes : Report(p, m, o)
    \/ \E p \in Players : ReportRead(p) \/ ReportSave(p)
    \/ Load
    \/ \E m \in MatchIds, o \in {"A", "B"} : RecordResult(m, o)
    \/ \E d \in puts : PutSave(d)
    \/ \E r \in DOMAIN route : \/ FinalizeRequest(r) \/ FinalizeRead(r)
                               \/ FinalizeSave(r) \/ FinalizeEnqueue(r)
    \/ Poll
    \/ \E j \in DOMAIN jobs : TakeJob(j)
    \/ RelayerSend
    \/ RelayerAnswer
    \/ WalletFinalize
    \/ PassDeadline
    \/ Cancel
    \/ Crash

Spec == Init /\ [][Next]_consoleVars

-----------------------------------------------------------------------------
Drawn(d) == \E r \in ToSet(d.results) : r.outcome = "Draw"

\* However the writers overwrite one another, the stored document can be
\* replayed by the engine, as the brackets table promises ("format + players +
\* recorded results reconstruct the bracket"): no result is missing under a
\* later one, none is there twice.  The exception, which the code does reach: the
\* players' page offers "Draw" in every format, the report route stores it, and
\* a single elimination refuses it on every replay.
DocumentReplays == Rebuild(doc).ok \/ Drawn(doc)

\* Every stored result was recorded by the organizer, or both players of the
\* match reported it, and both reports are in the document.
ResultBacked ==
    \A r \in ToSet(doc.results) :
        \/ r \in ruled
        \/ \A side \in {"A", "B"} :
              [match |-> r.id, side |-> side, outcome |-> r.outcome] \in doc.reports

\* Two reports of a match are never left alone: equal ones became a result,
\* different ones are decided or flagged for the organizer.
ReportsAccounted ==
    \A x, y \in doc.reports :
        x.match = y.match /\ x.side # y.side =>
            \/ \E r \in ToSet(doc.results) : r.id = x.match
            \/ x.outcome # y.outcome /\ x.match \in doc.disputes

\* The contract pays only winners of a bracket that was played to the end.
\* And what the relayer pays is what the finalize route computed, unless a
\* document with other results was stored after the route had read its own.
PaidWasWon ==
    cup.state = "FINALIZED" =>
        /\ cup.winners \in won
        /\ custodial /\ ~overwritten => cup.winners \in announced
=============================================================================
