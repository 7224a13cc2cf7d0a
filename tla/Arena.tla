------------------------------- MODULE Arena --------------------------------
(***************************************************************************)
(* The arena page of the web client on top of the queue of amp-server.     *)
(* What a page shows is set by three things that do not wait for each      *)
(* other: answers to the player's requests, answers to /v1/me, and events  *)
(* from the websocket, which is not replayed after a gap.  The pages of    *)
(* one wallet are on different devices, each with its own stored session.  *)
(***************************************************************************)
EXTENDS MatchQueue

CONSTANTS
  Scenarios,  \* bound: the pages in use, how far their players are at
              \* the start, and how many moves (joining, leaving,
              \* reporting), failures of the server, losses on the way to the
              \* page, and detours (logging out, choosing a game, playing
              \* again) are left to them
  MaxFetches  \* bound: /v1/me requests of a page at a time

ASSUME ArenaAssumption ==
  /\ \A s \in Scenarios :
       /\ s.open \subseteq Pages /\ s.start \in {"idle", "queued", "paired"}
       /\ s.budget \in [{"moves", "failures", "losses", "detours"} -> Nat]
  /\ MaxFetches \in Nat \ {0, 1}

VARIABLE page  \* what each page shows and remembers

vars == <<server, request, socket, history, budget, page>>

Asked == [at |-> "asked", live |-> 0, ticket |-> FALSE]
Closed == [phase |-> "closed", view |-> 0, session |-> FALSE,
           wallet |-> "none", wire |-> FALSE, me |-> <<>>]

Idle == [phase |-> "idle", view |-> 0, session |-> TRUE,
         wallet |-> "lower", wire |-> TRUE, me |-> <<>>]

\* The pages in use have logged in and are connected.  Their players have
\* done nothing yet, or are queued, or have just been paired.
Init ==
  \E s \in Scenarios :
    /\ QueueInit({WalletOf[p] : p \in s.open}, s.start)
    /\ page = [p \in Pages |->
         IF p \notin s.open THEN Closed
         ELSE CASE s.start = "idle"   -> Idle
                [] s.start = "queued" -> [Idle EXCEPT !.phase = "queued"]
                [] s.start = "paired" -> [Idle EXCEPT !.phase = "matchFound",
                                                      !.view = 1]]
    /\ socket = [p \in Pages |-> [on |-> p \in s.open, inbox |-> <<>>]]
    /\ budget = s.budget

Busy(p) == request[p].kind # "none"

\* Closing a socket loses the events in it.
CloseSocket(p) ==
  /\ socket' = [socket EXCEPT ![p] = [on |-> FALSE, inbox |-> <<>>]]
  /\ behind' = IF socket[p].inbox # <<>> THEN behind \cup {p} ELSE behind

\* Answers computed before now that the page has not applied yet.
Computed(p) == {i \in DOMAIN page[p].me : page[p].me[i].at \in {"read", "ok"}}
Answered(p) == request[p].at = "ok" \/ request[p].kind = "leave"

-----------------------------------------------------------------------------
(* What the page renders, as far as there is something to press.  The      *)
(* panels "reported" and "disputed" have no button at all.                 *)
LogoutButton(p) == page[p].wallet # "none"
ConnectPanel(p) == page[p].phase = "loggedOut" /\ ~Busy(p)
ResultPanel(p) == page[p].phase = "result"
FindMatchPanel(p) == page[p].phase \in {"idle", "result"}
QueuedPanel(p) == page[p].phase = "queued"
MatchPanel(p) == page[p].phase = "matchFound" /\ page[p].view # 0

-----------------------------------------------------------------------------
(* Session and websocket                                                   *)
\* The wallet signs a challenge; the page keeps the wallet in the browser's
\* spelling, the session in lower case.
loginWithWallet(pg) == [pg EXCEPT !.session = TRUE, !.wallet = "raw"]

Connect(p) ==
  /\ ConnectPanel(p) /\ page[p].me = <<>>
  /\ page' = [page EXCEPT ![p] =
       [loginWithWallet(@) EXCEPT !.wire = TRUE, !.me = <<Asked>>]]
  /\ UNCHANGED <<server, request, socket, history, budget>>

Logout(p) ==
  /\ LogoutButton(p) /\ page[p].phase # "loggedOut"
  /\ page' = [page EXCEPT ![p].session = FALSE, ![p].wallet = "none",
                          ![p].wire = FALSE, ![p].phase = "loggedOut"]
  /\ CloseSocket(p) /\ Spend("detours")
  /\ UNCHANGED <<server, request, unseen, tangled>>

OpenSocket(p) ==
  /\ page[p].wire /\ page[p].session /\ ~socket[p].on
  /\ socket' = [socket EXCEPT ![p].on = TRUE]
  /\ UNCHANGED <<server, request, history, budget, page>>

LoseSocket(p) ==
  /\ Spend("losses") /\ socket[p].on
  /\ CloseSocket(p)
  /\ UNCHANGED <<server, request, unseen, tangled, page>>

\* The page is loaded again: only the session is remembered.  boot runs once,
\* and again when the list of games has arrived and selects a game.  The
\* server drops the handler of the request the page was waiting for.
Reload(p) ==
  /\ Spend("losses") /\ page[p].phase \notin {"closed", "loading"}
  /\ \E boots \in 1..2 :
       page' = [page EXCEPT ![p] =
         [Closed EXCEPT !.session = page[p].session, !.wire = page[p].session,
                        !.phase = IF page[p].session THEN "loading" ELSE "loggedOut",
                        !.me = IF page[p].session THEN [i \in 1..boots |-> Asked]
                                                  ELSE <<>>]]
  /\ CloseSocket(p)
  /\ request' = [request EXCEPT ![p] = NoRequest]
  /\ unseen' = unseen \cup {p}
  /\ tangled' = IF request[p].at \in {"enter", "forget"}
                THEN tangled \cup {WalletOf[p]} ELSE tangled
  /\ UNCHANGED server

-----------------------------------------------------------------------------
(* refreshMe: /v1/me reads the live match, then the ticket.                *)
Refresh(p) == Append(page[p].me, Asked)
MayRefresh(p) == Len(page[p].me) < MaxFetches

ReadLive(p, i) ==
  /\ page[p].me[i].at = "asked"
  /\ \/ /\ page[p].session
        /\ page' = [page EXCEPT ![p].me[i].at = "read",
                    ![p].me[i].live = Newest(MatchesOf(WalletOf[p], "live"))]
        /\ behind' = IF Busy(p) \/ socket[p].inbox # <<>>
                      THEN behind ELSE behind \ {p}
        /\ NoFault
     \/ /\ (~page[p].session /\ NoFault) \/ Spend("losses")
        /\ page' = [page EXCEPT ![p].me[i].at = "error"]
        /\ UNCHANGED behind
  /\ UNCHANGED <<server, request, socket, unseen, tangled>>

ReadTicket(p, i) ==
  /\ page[p].me[i].at = "read"
  /\ page' = [page EXCEPT ![p].me[i].at = "ok",
       ![p].me[i].ticket = TicketsOf(WalletOf[p], "queued") # {}]
  /\ UNCHANGED <<server, request, socket, history, budget>>

\* Any error ends the session.  A wallet that changes, if only from the form
\* the browser gives it to the server's, opens the socket anew.
ApplyMe(p, i) ==
  LET me == page[p].me[i]
      failed == me.at = "error"
      wallet == IF failed THEN "none" ELSE "lower"
      session == page[p].session /\ ~failed
      anew == wallet # page[p].wallet
      crossed == Computed(p) \ {i} # {} \/ Answered(p)
  IN
  /\ me.at \in {"ok", "error"}
  /\ page' = [page EXCEPT ![p] =
       [page[p] EXCEPT
          !.phase = IF failed THEN "loggedOut"
                    ELSE IF me.ticket THEN "queued"
                    ELSE IF me.live # 0 THEN "matchFound" ELSE "idle",
          !.session = session, !.wallet = wallet,
          !.wire = IF anew THEN session ELSE @,
          !.me = RemoveAt(@, i)]]
  /\ socket' = IF anew THEN [socket EXCEPT ![p] = [on |-> FALSE, inbox |-> <<>>]]
               ELSE socket
  /\ behind' = IF crossed \/ (anew /\ socket[p].inbox # <<>>)
               THEN behind \cup {p} ELSE behind
  /\ UNCHANGED <<server, request, unseen, tangled, budget>>

-----------------------------------------------------------------------------
(* The player's buttons                                                    *)
\* A button is pressed: the request carries the session, if there is one.
Ask(p, kind, match) ==
  /\ ~Busy(p)
  /\ request' = [request EXCEPT ![p] =
       [kind |-> kind, match |-> match,
        at |-> IF page[p].session THEN "start" ELSE "error"]]
  /\ Spend("moves")
  /\ UNCHANGED <<server, socket, history, page>>

Queue(p) == FindMatchPanel(p) /\ Ask(p, "join", 0)

Leave(p) == QueuedPanel(p) /\ Ask(p, "leave", 0)

Report(p) == MatchPanel(p) /\ Ask(p, "report", page[p].view)

\* Choosing another game runs boot again.
SelectGame(p) ==
  /\ FindMatchPanel(p) /\ MayRefresh(p)
  /\ page' = IF page[p].session THEN [page EXCEPT ![p].me = Refresh(p)]
             ELSE [page EXCEPT ![p].phase = "loggedOut"]
  /\ Spend("detours")
  /\ UNCHANGED <<server, request, socket, history>>

PlayedAgain(p) ==
  /\ ResultPanel(p) /\ MayRefresh(p)
  /\ page' = [page EXCEPT ![p].view = 0, ![p].me = Refresh(p)]
  /\ unseen' = unseen \cup {p}
  /\ Spend("detours")
  /\ UNCHANGED <<server, request, socket, behind, tangled>>

Shown == [join |-> "queued", leave |-> "idle", report |-> "reported"]

\* An answer sets the phase whatever has happened since it was computed.
ApplyAnswer(p) ==
  /\ request[p].at \in {"ok", "error"}
  /\ page' = IF request[p].at = "ok"
             THEN [page EXCEPT ![p].phase = Shown[request[p].kind]] ELSE page
  /\ request' = [request EXCEPT ![p] = NoRequest]
  /\ behind' = IF Computed(p) # {} THEN behind \cup {p} ELSE behind
  /\ UNCHANGED <<server, socket, unseen, tangled, budget>>

-----------------------------------------------------------------------------
(* Events                                                                  *)
\* A bug: a cancelled match stays on the page.
OnEventVariant(p, event) ==
  CASE event.type = "match_found" ->
         [page EXCEPT ![p].phase = "matchFound", ![p].view = event.match]
    [] event.type = "match_result" ->
         [page EXCEPT ![p].phase = "result", ![p].me = Refresh(p)]
    [] event.type = "disputed" -> [page EXCEPT ![p].phase = "disputed"]
    [] event.type = "cancelled" -> page

\* No event is compared with the match the page is about.
OnEvent(p, event) ==
  CASE event.type = "match_found" ->
         [page EXCEPT ![p].phase = "matchFound", ![p].view = event.match]
    [] event.type = "match_result" ->
         [page EXCEPT ![p].phase = "result", ![p].me = Refresh(p)]
    [] event.type = "disputed" -> [page EXCEPT ![p].phase = "disputed"]
    [] event.type = "cancelled" -> [page EXCEPT ![p].phase = "idle"]

\* Is the page about the match whose state changes?  A page that has not been
\* told of its player's last match shows that match under an older number.
Concerns(p, event) ==
  \/ event.type \in {"match_found", "match_result"}
  \/ /\ page[p].view = event.match /\ p \notin unseen
     /\ page[p].phase \in {"matchFound", "reported", "disputed"}

LastMatch(p) == Newest({m \in DOMAIN matches : WalletOf[p] \in matches[m].players})

HandleEvent(p) ==
  LET event == Head(socket[p].inbox) IN
  /\ socket[p].inbox # <<>>
  /\ event.type = "match_result" => MayRefresh(p)
  /\ page' = OnEvent(p, event)
  /\ socket' = [socket EXCEPT ![p].inbox = Tail(@)]
  /\ unseen' = IF event.type = "match_found" /\ event.match = LastMatch(p)
                THEN unseen \ {p} ELSE unseen
  /\ behind' = IF Computed(p) # {} \/ Answered(p) \/ ~Concerns(p, event)
               THEN behind \cup {p} ELSE behind
  /\ UNCHANGED <<server, request, tangled, budget>>

-----------------------------------------------------------------------------
PageStep(p) ==
  \/ Connect(p) \/ Logout(p) \/ OpenSocket(p) \/ LoseSocket(p) \/ Reload(p)
  \/ \E i \in DOMAIN page[p].me : ReadLive(p, i) \/ ReadTicket(p, i) \/ ApplyMe(p, i)
  \/ Queue(p) \/ Leave(p) \/ Report(p) \/ SelectGame(p) \/ PlayedAgain(p)
  \/ ApplyAnswer(p) \/ HandleEvent(p)

Next ==
  \/ \E p \in Pages : PageStep(p) \/ (RequestStep(p) /\ UNCHANGED page)
  \/ /\ \/ \E a, b \in Wallets : TakePair(a, b)
        \/ \E W \in SUBSET Wallets : TakeStale(W)
        \/ TickStep
        \/ \E m \in DOMAIN matches : EndMatch(m)
        \/ Restart
     /\ UNCHANGED page

Spec == Init /\ [][Next]_vars

\* The loop, the handlers and the pages' own code keep running; no player and
\* no operator has to do anything.  The budgets leave every kind of step only
\* finitely many turns, so fairness to all of them together is enough.
Running ==
  \/ /\ TickStep \/ \E w \in Wallets : TakeStale({w})
     /\ UNCHANGED page
  \/ \E p \in Pages :
       \/ RequestStep(p) /\ UNCHANGED page
       \/ OpenSocket(p) \/ HandleEvent(p) \/ ApplyAnswer(p)
       \/ \E i \in DOMAIN page[p].me :
            ReadLive(p, i) \/ ReadTicket(p, i) \/ ApplyMe(p, i)

FairSpec == Spec /\ WF_vars(Running)

(* Properties                                                              *)
\* Nothing is under way that could still change what the page shows.
Quiet(p) ==
  /\ page[p].session /\ page[p].phase \notin {"closed", "loading", "loggedOut"}
  /\ socket[p] = [on |-> TRUE, inbox |-> <<>>]
  /\ page[p].me = <<>> /\ ~Busy(p) /\ ~Held(WalletOf[p])

InStep(p) == p \notin behind /\ WalletOf[p] \notin tangled

\* A page at rest shows what the server knows of its player, unless an
\* event was lost, crossed an answer, or was about another match.
ScreenAgrees ==
  \A p \in Pages : Quiet(p) /\ InStep(p) =>
    LET w == WalletOf[p]
        live == MatchesOf(w, "live")
    IN CASE page[p].phase = "queued" -> TicketsOf(w, "queued") # {}
         [] page[p].phase = "idle" -> TicketsOf(w, "queued") = {} /\ live = {}
         [] page[p].phase = "matchFound" ->
              live # {} /\ (p \notin unseen => page[p].view \in live)
         [] page[p].phase = "reported" -> \E m \in live : w \in matches[m].reports
         [] page[p].phase = "disputed" -> MatchesOf(w, "disputed") # {}
         [] OTHER -> FALSE

\* A player has one live match at a time (the check of queue_join), unless a
\* join ran beside the loop or the loop failed half way.
OneLiveMatch ==
  \A w \in Wallets \ tangled : Cardinality(MatchesOf(w, "live")) <= 1

\* Nobody is left waiting in the queue (what the page promises): a page that
\* shows the queue shows something else in the end, unless it is out of step.
WaitEnds ==
  \A p \in Pages :
    page[p].phase = "queued" ~> (page[p].phase # "queued" \/ ~InStep(p))
=============================================================================
