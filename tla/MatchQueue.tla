----------------------------- MODULE MatchQueue -----------------------------
(***************************************************************************)
(* The queue of amp-server: tickets in the database, entries in the queue  *)
(* in memory, the loop that turns entries into matches, the requests that  *)
(* join and leave, and the hub that pushes events to the players' pages.   *)
(* A request or the loop runs from await to await: one step is one         *)
(* database statement and the code up to the next one.  One bucket (game,  *)
(* ruleset and stake); whether two entries suit each other is left open.   *)
(***************************************************************************)
EXTENDS Integers, Sequences, FiniteSets, SequencesExt

CONSTANTS
  Pages,      \* browser pages
  Wallets,    \* players
  WalletOf    \* the wallet each page is used with

ASSUME QueueAssumption == IsFiniteSet(Wallets) /\ WalletOf \in [Pages -> Wallets]

VARIABLES
  tickets,  \* amp_queue_tickets: the rows' wallet and status
  queue,    \* QueueService: the ticket of each wallet's entry, 0 for none
  matches,  \* amp_matches: who plays, against a bot?, state, who reported
  tick,     \* entries tick_once took out of the queue and has to serve
  request,  \* the queue or report request of each page, and where it is
  socket,   \* is the page's websocket registered, and the events in it
  behind,   \* pages whose picture of the server something unsent outdated
  unseen,   \* pages that have not been told of their player's last match
  tangled,  \* wallets whose ticket, entry and match stopped going together
  budget    \* bound: requests, failures and detours that are left

server == <<tickets, queue, matches, tick>>
history == <<behind, unseen, tangled>>

NoRequest == [kind |-> "none", at |-> "none", match |-> 0]
NoTick == [at |-> "idle", todo |-> <<>>, match |-> 0]

TicketsOf(w, status) ==
  {t \in DOMAIN tickets : tickets[t].wallet = w /\ tickets[t].status = status}
MatchesOf(w, state) ==
  {m \in DOMAIN matches : w \in matches[m].players /\ matches[m].state = state}
PagesOf(W) == {p \in Pages : WalletOf[p] \in W}
Siblings(p) == PagesOf({WalletOf[p]}) \ {p}
Newest(S) == IF S = {} THEN 0 ELSE CHOOSE x \in S : \A y \in S : y <= x
Held(w) == \E i \in DOMAIN tick.todo : w \in tick.todo[i].wallets

\* Nothing has happened yet, or the players of W have joined the queue, or
\* they have been paired.
QueueInit(W, start) ==
  LET order == SetToSeq(IF start = "idle" THEN {} ELSE W)
      status == IF start = "queued" THEN "queued" ELSE "matched"
  IN
  /\ tickets = [i \in DOMAIN order |-> [wallet |-> order[i], status |-> status]]
  /\ queue = [w \in Wallets |->
       IF start = "queued" THEN Newest({i \in DOMAIN order : order[i] = w}) ELSE 0]
  /\ matches = IF start # "paired" THEN <<>>
               ELSE <<[players |-> W, bot |-> FALSE, state |-> "live",
                       reports |-> {}]>>
  /\ tick = NoTick
  /\ request = [p \in Pages |-> NoRequest]
  /\ behind = {} /\ unseen = {} /\ tangled = {}

Spend(what) == budget[what] > 0 /\ budget' = [budget EXCEPT ![what] = @ - 1]
Fault == Spend("failures")
NoFault == UNCHANGED budget

-----------------------------------------------------------------------------
(* Sending is best effort: a page without a registered socket misses the   *)
(* event, and nothing is replayed when it connects.                        *)
Send(W, event) ==
  /\ socket' = [p \in Pages |->
       IF p \in PagesOf(W) /\ socket[p].on
       THEN [socket[p] EXCEPT !.inbox = Append(@, event)]
       ELSE socket[p]]
  /\ behind' = behind \cup {p \in PagesOf(W) : ~socket[p].on}

Answer(p, at) == request' = [request EXCEPT ![p].at = at]
Waits(p, kind, at) == request[p].kind = kind /\ request[p].at = at

-----------------------------------------------------------------------------
(* queue_join                                                              *)
\* A bug: the player's live match is not looked for.
JoinCheckLiveVariant(p) ==
  /\ Waits(p, "join", "start")
  /\ Answer(p, "checked")
  /\ UNCHANGED <<server, socket, history, budget>>

JoinCheckLive(p) ==
  /\ Waits(p, "join", "start")
  /\ Answer(p, IF MatchesOf(WalletOf[p], "live") # {} THEN "error"
                                                       ELSE "checked")
  /\ UNCHANGED <<server, socket, history, budget>>

JoinCheckTicket(p) ==
  /\ Waits(p, "join", "checked")
  /\ Answer(p, IF TicketsOf(WalletOf[p], "queued") # {} THEN "ok" ELSE "insert")
  /\ UNCHANGED <<server, socket, history, budget>>

\* Events still on their way to the page are older than this answer.
InsertTicket(p) ==
  LET w == WalletOf[p] IN
  /\ Waits(p, "join", "insert")
  /\ tickets' = Append(tickets, [wallet |-> w, status |-> "queued"])
  /\ request' = [request EXCEPT ![p].at = "enter", ![p].match = Len(tickets')]
  /\ behind' = behind \cup {o \in PagesOf({w}) : o # p \/ socket[o].inbox # <<>>}
  /\ tangled' = IF TicketsOf(w, "queued") # {} THEN tangled \cup {w} ELSE tangled
  /\ UNCHANGED <<queue, matches, tick, socket, unseen, budget>>

\* An entry replaces the player's earlier entry.
EnterQueue(p) ==
  /\ Waits(p, "join", "enter")
  /\ queue' = [queue EXCEPT ![WalletOf[p]] = request[p].match]
  /\ request' = [request EXCEPT ![p].at = "ok", ![p].match = 0]
  /\ UNCHANGED <<tickets, matches, tick, socket, history, budget>>

-----------------------------------------------------------------------------
(* queue_leave cancels one queued ticket, then forgets the entry.          *)
CancelTicket(p) ==
  LET w == WalletOf[p] IN
  /\ Waits(p, "leave", "start")
  /\ \/ TicketsOf(w, "queued") = {} /\ UNCHANGED <<tickets, behind>>
     \/ \E t \in TicketsOf(w, "queued") :
          /\ tickets' = [tickets EXCEPT ![t].status = "cancelled"]
          /\ behind' = behind \cup Siblings(p)
  /\ Answer(p, "forget")
  /\ UNCHANGED <<queue, matches, tick, socket, unseen, tangled, budget>>

LeaveQueue(p) ==
  /\ Waits(p, "leave", "forget")
  /\ queue' = [queue EXCEPT ![WalletOf[p]] = 0]
  /\ Answer(p, "ok")
  /\ UNCHANGED <<tickets, matches, tick, socket, history, budget>>

-----------------------------------------------------------------------------
(* report_outcome, from the row's state on; MatchLifecycle takes it apart. *)
ReportOutcome(p) ==
  LET w == WalletOf[p]
      m == request[p].match
      all == matches[m].reports \cup {w}
      Ends(state, event) ==
        /\ matches' = [matches EXCEPT ![m].reports = all, ![m].state = state]
        /\ Send(matches[m].players, [type |-> event, match |-> m])
  IN
  /\ Waits(p, "report", "start")
  /\ IF m \notin MatchesOf(w, "live")
     THEN Answer(p, "error") /\ UNCHANGED <<matches, socket, behind>>
     ELSE /\ Answer(p, "ok")
          /\ \/ /\ w \in matches[m].reports
                /\ UNCHANGED <<matches, socket, behind>>
             \/ /\ w \notin matches[m].reports
                /\ ~matches[m].bot /\ all # matches[m].players
                /\ matches' = [matches EXCEPT ![m].reports = all]
                /\ behind' = behind \cup Siblings(p)
                /\ UNCHANGED socket
             \/ /\ w \notin matches[m].reports
                /\ matches[m].bot \/ all = matches[m].players
                /\ \/ Ends("agreed", "match_result")
                   \/ ~matches[m].bot /\ Ends("disputed", "disputed")
  /\ UNCHANGED <<tickets, queue, tick, unseen, tangled, budget>>

\* The sweep ends a match whose time is up, the operator a disputed one;
\* either comes minutes after the loop is done with storing the match and
\* the events sent so far have reached the pages.
EndMatch(m) ==
  LET Ends(state, event) ==
        /\ matches' = [matches EXCEPT ![m].state = state]
        /\ Send(matches[m].players, [type |-> event, match |-> m])
  IN
  /\ tick.match # m
  /\ \A p \in PagesOf(matches[m].players) : socket[p].inbox = <<>>
  /\ \/ /\ matches[m].state = "live" /\ matches[m].reports # {}
        /\ Ends("agreed", "match_result")
     \/ /\ matches[m].state = "live" /\ matches[m].reports = {}
        /\ Ends("cancelled", "cancelled")
     \/ /\ matches[m].state = "disputed"
        /\ Ends("agreed", "match_result") \/ Ends("cancelled", "cancelled")
  /\ UNCHANGED <<tickets, queue, tick, request, unseen, tangled, budget>>

-----------------------------------------------------------------------------
(* tick_once: entries leave the queue first; each match is stored after.   *)
Taken(W, bot) ==
  [wallets |-> W, bot |-> bot, ticket |-> [w \in Wallets |-> queue[w]]]

TakePair(a, b) ==
  /\ tick.at = "idle" /\ a # b
  /\ queue[a] # 0 /\ queue[b] # 0
  /\ tick' = [NoTick EXCEPT !.at = "insert", !.todo = <<Taken({a, b}, FALSE)>>]
  /\ queue' = [queue EXCEPT ![a] = 0, ![b] = 0]
  /\ UNCHANGED <<tickets, matches, request, socket, history, budget>>

\* Every entry that waited too long is due a match with the practice bot.
TakeStale(W) ==
  /\ tick.at = "idle" /\ W # {}
  /\ \A w \in W : queue[w] # 0
  /\ \E order \in SetToSeqs({Taken({w}, TRUE) : w \in W}) :
       tick' = [NoTick EXCEPT !.at = "insert", !.todo = order]
  /\ queue' = [w \in Wallets |-> IF w \in W THEN 0 ELSE queue[w]]
  /\ UNCHANGED <<tickets, matches, request, socket, history, budget>>

NextGroup == IF Len(tick.todo) = 1 THEN NoTick
             ELSE [at |-> "insert", todo |-> Tail(tick.todo), match |-> 0]

\* The group goes back into the queue: an entry
\* replaces whatever its player has put there since.
Rejoin(g) ==
  queue' = [w \in Wallets |-> IF w \in g.wallets THEN g.ticket[w] ELSE queue[w]]

Overlaps(w, ticket) ==
  \/ queue[w] # 0
  \/ TicketsOf(w, "queued") \ {ticket} # {}
  \/ \E p \in PagesOf({w}) :
       request[p].kind = "join" /\ request[p].at \in {"checked", "insert", "enter"}

InsertMatch ==
  LET g == Head(tick.todo) IN
  /\ tick.at = "insert"
  /\ \/ /\ matches' = Append(matches, [players |-> g.wallets, bot |-> g.bot,
                                       state |-> "live", reports |-> {}])
        /\ tick' = [tick EXCEPT !.at = "mark", !.match = Len(matches')]
        /\ tangled' = tangled \cup {w \in g.wallets : Overlaps(w, g.ticket[w])}
        /\ unseen' = unseen \cup PagesOf(g.wallets)
        /\ NoFault /\ UNCHANGED queue
     \/ /\ Fault /\ Rejoin(g) /\ tick' = NextGroup
        /\ UNCHANGED <<matches, unseen, tangled>>
  /\ UNCHANGED <<tickets, request, socket, behind>>

\* The update names the tickets by id, whatever their status.  When it
\* fails the match is there, but its players go back into the queue.
MarkTickets ==
  LET g == Head(tick.todo) IN
  /\ tick.at = "mark"
  /\ \/ /\ tickets' = [t \in DOMAIN tickets |->
             IF \E w \in g.wallets : g.ticket[w] = t
             THEN [tickets[t] EXCEPT !.status = "matched"] ELSE tickets[t]]
        /\ Send(g.wallets, [type |-> "match_found", match |-> tick.match])
        /\ tick' = IF g.bot THEN [tick EXCEPT !.at = "close"] ELSE NextGroup
        /\ NoFault /\ UNCHANGED <<queue, tangled>>
     \/ /\ Fault /\ Rejoin(g) /\ tick' = NextGroup
        /\ tangled' = tangled \cup g.wallets
        /\ behind' = behind \cup PagesOf(g.wallets)
        /\ UNCHANGED <<tickets, socket>>
  /\ UNCHANGED <<matches, request, unseen>>

\* After a bot match: a ticket of the player that is queued again by now is
\* cancelled, though its entry stays.  An error ends tick_once, and the
\* entries not served yet are gone.
CloseTicket ==
  LET w == CHOOSE x \in Head(tick.todo).wallets : TRUE
      queued == TicketsOf(w, "queued")
  IN
  /\ tick.at = "close"
  /\ \/ /\ \/ queued = {} /\ UNCHANGED <<tickets, tangled>>
           \/ \E t \in queued :
                /\ tickets' = [tickets EXCEPT ![t].status = "cancelled"]
                /\ tangled' = tangled \cup {w}
        /\ tick' = NextGroup /\ NoFault
     \/ /\ Fault /\ tick' = NoTick /\ UNCHANGED tickets
        /\ tangled' = tangled \cup
             UNION {tick.todo[i].wallets : i \in 2..Len(tick.todo)}
  /\ UNCHANGED <<queue, matches, request, socket, behind, unseen>>

-----------------------------------------------------------------------------
(* A restart drops every request and socket and the loop where it is;      *)
(* the tickets still queued, oldest first, are the queue again.            *)
\* A bug: the queue starts empty.
RehydratedVariant == [w \in Wallets |-> 0]

Rehydrated == [w \in Wallets |-> Newest(TicketsOf(w, "queued"))]

Restart ==
  /\ Fault
  /\ queue' = Rehydrated
  /\ tangled' = tangled \cup
       IF tick.at = "mark" THEN Head(tick.todo).wallets ELSE {}
  /\ behind' = behind \cup 
         {p \in Pages : socket[p].inbox # <<>> \/ request[p].kind # "none"}
       \cup IF tick.at = "mark" THEN PagesOf(Head(tick.todo).wallets) ELSE {}
  /\ tick' = NoTick
  /\ request' = [p \in Pages |->
       IF request[p].kind = "none" THEN NoRequest
       ELSE [request[p] EXCEPT !.at = "error", !.match = 0]]
  /\ socket' = [p \in Pages |-> [on |-> FALSE, inbox |-> <<>>]]
  /\ UNCHANGED <<tickets, matches, unseen>>

TickStep == InsertMatch \/ MarkTickets \/ CloseTicket
RequestStep(p) ==
  \/ JoinCheckLive(p) \/ JoinCheckTicket(p) \/ InsertTicket(p) \/ EnterQueue(p)
  \/ CancelTicket(p) \/ LeaveQueue(p) \/ ReportOutcome(p)
=============================================================================
