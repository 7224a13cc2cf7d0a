---------------------------- MODULE Arena_proofs ----------------------------
(***************************************************************************)
(* What players meet and what their pages show: for any players, pages,    *)
(* moves, failures, restarts, lost events and interleavings.               *)
(***************************************************************************)
EXTENDS Arena, FiniteSetTheorems, SequenceTheorems, WellFoundedInduction,
        TLAPS

TicketRows == [wallet : Wallets, status : {"queued", "matched", "cancelled"}]
MatchRows  == [players : SUBSET Wallets, bot : BOOLEAN,
               state : {"live", "agreed", "disputed", "cancelled"},
               reports : SUBSET Wallets]
Groups     == [wallets : SUBSET Wallets, bot : BOOLEAN, ticket : [Wallets -> Nat]]
Ticks      == [at : {"idle", "insert", "mark", "close"}, todo : Seq(Groups), match : Nat]
Asks       == [kind : {"none", "join", "leave", "report"},
               at : {"none", "start", "checked", "insert", "enter", "forget",
                     "ok", "error"},
               match : Nat]
Notices    == [type : {"match_found", "match_result", "disputed", "cancelled"},
               match : Nat]
Sockets    == [on : BOOLEAN, inbox : Seq(Notices)]
Fetches    == [at : {"asked", "read", "ok", "error"}, live : Nat, ticket : BOOLEAN]
Screens    == [phase : {"closed", "loading", "loggedOut", "idle", "queued",
                        "matchFound", "reported", "disputed", "result"},
               view : Nat, session : BOOLEAN, wallet : {"none", "raw", "lower"},
               wire : BOOLEAN, me : Seq(Fetches)]

-----------------------------------------------------------------------------
(***************************************************************************)
(* The inductive invariant, in parts.                                      *)
(***************************************************************************)
ServerTypes ==
  /\ tickets \in Seq(TicketRows)
  /\ queue \in [Wallets -> Nat]
  /\ matches \in Seq(MatchRows)
  /\ tick \in Ticks

RequestTypes ==
  /\ request \in [Pages -> Asks]
  /\ \A p \in Pages : request[p].kind = "none" => request[p] = NoRequest

PageTypes ==
  /\ RequestTypes
  /\ socket \in [Pages -> Sockets]
  /\ page \in [Pages -> Screens]

IsTicketOf(w, t) == t \in DOMAIN tickets /\ tickets[t].wallet = w
PlayedBy(w) == {m \in DOMAIN matches : w \in matches[m].players}
LastOf(w) == Newest(PlayedBy(w))

\* The loop has stored a match whose players have not been told of it.
Marking(w) == tick.at = "mark" /\ w \in Head(tick.todo).wallets
\* The last match anybody can have been told of.
Known == IF tick.at = "mark" THEN Len(matches) - 1 ELSE Len(matches)
\* The loop still has to store a match for the player.
Waiting(w) ==
  \E i \in DOMAIN tick.todo :
    w \in tick.todo[i].wallets /\ (i > 1 \/ tick.at = "insert")
\* A join of the player has passed the check of the live match.
Joining(w) ==
  \E p \in PagesOf({w}) :
    request[p].kind = "join" /\ request[p].at \in {"checked", "insert", "enter"}

\* Entries name tickets of their own players.
TicketInv ==
  /\ \A w \in Wallets : queue[w] # 0 => IsTicketOf(w, queue[w])
  /\ \A i \in DOMAIN tick.todo : \A w \in tick.todo[i].wallets :
       IsTicketOf(w, tick.todo[i].ticket[w])
  /\ \A p \in Pages :
       Waits(p, "join", "enter") => IsTicketOf(WalletOf[p], request[p].match)

\* The loop serves disjoint groups; the match it is about to announce is new.
TickInv ==
  /\ tick.at = "idle" <=> tick.todo = <<>>
  /\ \A i \in DOMAIN tick.todo : tick.todo[i].wallets # {}
  /\ \A i, j \in DOMAIN tick.todo :
       i # j => tick.todo[i].wallets \cap tick.todo[j].wallets = {}
  /\ tick.at = "mark" =>
       /\ tick.match = Len(matches) /\ tick.match \in DOMAIN matches
       /\ matches[tick.match].players = Head(tick.todo).wallets
       /\ matches[tick.match].state = "live" /\ matches[tick.match].reports = {}
       /\ PagesOf(Head(tick.todo).wallets) \subseteq unseen

\* Nobody has been told of a match the loop has not announced.
KnownInv ==
  \A p \in Pages :
    /\ page[p].view \in 0 .. Known
    /\ request[p].kind = "report" => request[p].match \in 0 .. Known
    /\ \A k \in DOMAIN socket[p].inbox : socket[p].inbox[k].match \in 1 .. Known

\* A player with a live match has no other one and is on no way to one: not
\* in the queue, not with the loop, not in the middle of a join.
OneLive(w) ==
  /\ \A m \in MatchesOf(w, "live") : m = LastOf(w)
  /\ \A s, t \in TicketsOf(w, "queued") : s = t
  /\ MatchesOf(w, "live") # {} =>
       /\ queue[w] = 0 /\ ~Waiting(w) /\ ~Joining(w)
       /\ \A t \in TicketsOf(w, "queued") :
            Marking(w) /\ t = Head(tick.todo).ticket[w]

OneLiveInv == \A w \in Wallets \ tangled : OneLive(w)

-----------------------------------------------------------------------------
(***************************************************************************)
(* Elementary facts.                                                       *)
(***************************************************************************)

\* A set of natural numbers that is not empty has a least element.
LEMMA LeastNumber ==
  ASSUME NEW T \in SUBSET Nat, T # {}
  PROVE  \E x \in T : \A y \in T : x <= y
<1>1. \E x \in T : \A y \in T : <<y, x>> \notin OpToRel(<, Nat)
  BY NatLessThanWellFounded, WFMin, Zenon
<1>2. PICK x \in T : \A y \in T : <<y, x>> \notin OpToRel(<, Nat)
  BY <1>1
<1>3. \A y \in T : ~(y < x)
  BY <1>2 DEF OpToRel
<1> QED
  BY <1>3

\* A set of positions in a sequence has a last one.
LEMMA LastPosition ==
  ASSUME NEW n \in Nat, NEW S \in SUBSET (1 .. n), S # {}
  PROVE  \E x \in S : \A y \in S : y <= x
<1> DEFINE T == {d \in Nat : n - d \in S}
<1>1. T # {}
  <2>1. PICK x \in S : TRUE
    OBVIOUS
  <2>2. n - x \in Nat /\ n - (n - x) = x
    BY <2>1
  <2> QED
    BY <2>1, <2>2
<1>2. PICK d \in T : \A e \in T : d <= e
  <2>1. T \in SUBSET Nat
    OBVIOUS
  <2> HIDE DEF T
  <2> QED
    BY <1>1, <2>1, LeastNumber
<1>3. d \in Nat /\ n - d \in S /\ \A e \in Nat : n - e \in S => d <= e
  BY <1>2
<1> HIDE DEF T
<1>4. ASSUME NEW y \in S PROVE y <= n - d
  <2>1. n - y \in Nat /\ n - (n - y) = y /\ y \in Int
    OBVIOUS
  <2>2. d <= n - y
    BY <1>3, <2>1
  <2> QED
    BY <1>3, <2>1, <2>2
<1> QED
  BY <1>3, <1>4

\* Newest is the last one.
LEMMA NewestIs ==
  ASSUME NEW S \in SUBSET Nat, NEW x \in S, \A y \in S : y <= x
  PROVE  Newest(S) = x
<1>1. \E z \in S : \A y \in S : y <= z
  OBVIOUS
<1>2. Newest(S) = CHOOSE z \in S : \A y \in S : y <= z
  BY DEF Newest
<1>3. Newest(S) \in S /\ \A y \in S : y <= Newest(S)
  BY <1>1, <1>2
<1>4. Newest(S) <= x /\ x <= Newest(S) /\ x \in Nat /\ Newest(S) \in Nat
  BY <1>3
<1> QED
  BY <1>4

\* Newest of a set of row numbers: 0 when there is none, otherwise its
\* largest member.
LEMMA NewestLast ==
  ASSUME NEW n \in Nat, NEW S \in SUBSET (1 .. n)
  PROVE  /\ Newest(S) \in 0 .. n
         /\ S # {} => Newest(S) \in S /\ Newest(S) # 0
         /\ \A y \in S : y <= Newest(S)
<1>1. CASE S = {}
  BY <1>1 DEF Newest
<1>2. CASE S # {}
  <2>1. PICK x \in S : \A y \in S : y <= x
    BY <1>2, LastPosition
  <2>2. Newest(S) = x
    BY <2>1, NewestIs
  <2> QED
    BY <2>1, <2>2
<1> QED
  BY <1>1, <1>2

\* The answers left when one is applied.
LEMMA Removed ==
  ASSUME NEW S, NEW s \in Seq(S), NEW i \in DOMAIN s
  PROVE  /\ RemoveAt(s, i) \in Seq(S)
         /\ Len(RemoveAt(s, i)) = Len(s) - 1
         /\ \A k \in 1 .. Len(s) - 1 :
              RemoveAt(s, i)[k] = IF k < i THEN s[k] ELSE s[k + 1]
<1>1. i \in 1 .. Len(s) /\ Len(s) \in Nat
  OBVIOUS
<1> DEFINE front == SubSeq(s, 1, i - 1)
           back  == SubSeq(s, i + 1, Len(s))
<1>2. /\ front \in Seq(S) /\ Len(front) = i - 1
      /\ \A k \in 1 .. i - 1 : front[k] = s[k]
  BY <1>1
<1>3. /\ back \in Seq(S) /\ Len(back) = Len(s) - i
      /\ \A k \in 1 .. Len(s) - i : back[k] = s[i + k]
  BY <1>1
<1> HIDE DEF front, back
<1>4. /\ front \o back \in Seq(S) /\ Len(front \o back) = Len(s) - 1
      /\ \A k \in 1 .. Len(s) - 1 : (front \o back)[k] =
             IF k <= i - 1 THEN front[k] ELSE back[k - (i - 1)]
  <2>1. /\ front \o back \in Seq(S)
        /\ Len(front \o back) = Len(front) + Len(back)
        /\ \A k \in 1 .. Len(front) + Len(back) : (front \o back)[k] =
               IF k <= Len(front) THEN front[k] ELSE back[k - Len(front)]
    BY <1>2, <1>3, ConcatProperties
  <2>2. Len(front) + Len(back) = Len(s) - 1
    BY <1>1, <1>2, <1>3
  <2> QED
    BY <1>2, <2>1, <2>2
<1>5. RemoveAt(s, i) = front \o back
  BY DEF RemoveAt, front, back
<1>6. ASSUME NEW k \in 1 .. Len(s) - 1
      PROVE  (front \o back)[k] = IF k < i THEN s[k] ELSE s[k + 1]
  <2>1. CASE k < i
    BY <1>1, <1>2, <1>4, <2>1
  <2>2. CASE ~(k < i)
    <3>1. k - (i - 1) \in 1 .. Len(s) - i /\ i + (k - (i - 1)) = k + 1
      BY <1>1, <2>2
    <3>2. back[k - (i - 1)] = s[k + 1]
      BY <1>3, <3>1
    <3> QED
      BY <1>1, <1>4, <2>2, <3>2
  <2> QED
    BY <2>1, <2>2
<1> QED
  BY <1>4, <1>5, <1>6

\* The rest of a sequence.
LEMMA TailOf ==
  ASSUME NEW S, NEW s \in Seq(S), s # <<>>
  PROVE  /\ Head(s) \in S /\ Head(s) = s[1] /\ 1 \in DOMAIN s
         /\ Tail(s) \in Seq(S) /\ Len(Tail(s)) = Len(s) - 1
         /\ \A i \in DOMAIN Tail(s) : i + 1 \in DOMAIN s /\ Tail(s)[i] = s[i + 1]
         /\ Len(s) # 1 => Tail(s) # <<>>
<1>1. Len(s) \in Nat /\ Len(s) >= 1 /\ DOMAIN s = 1 .. Len(s)
  OBVIOUS
<1>2. Head(s) \in S /\ Head(s) = s[1] /\ 1 \in DOMAIN s
  BY <1>1
<1>3. /\ Tail(s) \in Seq(S) /\ Len(Tail(s)) = Len(s) - 1
      /\ \A i \in 1 .. Len(s) - 1 : Tail(s)[i] = s[i + 1]
  BY <1>1
<1>4. DOMAIN Tail(s) = 1 .. Len(s) - 1
  BY <1>1, <1>3
<1>5. \A i \in DOMAIN Tail(s) : i + 1 \in DOMAIN s /\ Tail(s)[i] = s[i + 1]
  BY <1>1, <1>3, <1>4
<1>6. Len(s) # 1 => Tail(s) # <<>>
  <2> SUFFICES ASSUME Len(s) # 1, Tail(s) = <<>>
               PROVE  FALSE
    OBVIOUS
  <2>1. Len(<<>>) = 0
    OBVIOUS
  <2>2. Len(Tail(s)) = 0
    BY <2>1
  <2> QED
    BY <1>1, <1>3, <2>2
<1> QED
  BY <1>2, <1>3, <1>5, <1>6

\* Replacing one element of a sequence.
LEMMA Replaced ==
  ASSUME NEW S, NEW s \in Seq(S), NEW i \in DOMAIN s, NEW r \in S
  PROVE  /\ [s EXCEPT ![i] = r] \in Seq(S)
         /\ DOMAIN [s EXCEPT ![i] = r] = DOMAIN s
         /\ [s EXCEPT ![i] = r][i] = r
         /\ \A k \in DOMAIN s \ {i} : [s EXCEPT ![i] = r][k] = s[k]
<1>1. i \in 1 .. Len(s)
  OBVIOUS
<1> QED
  BY <1>1, ExceptSeq

-----------------------------------------------------------------------------
(***************************************************************************)
(* What the steps of the pages do to a page, field by field.               *)
(***************************************************************************)
OnlyPage(p) == \A o \in Pages \ {p} : page'[o] = page[o]

\* Connect logs in and asks for /v1/me once.
LEMMA ConnectEffect ==
  ASSUME PageTypes, NEW p \in Pages, Connect(p)
  PROVE  /\ OnlyPage(p) /\ page' \in [Pages -> Screens]
         /\ page'[p].phase = page[p].phase /\ page'[p].view = page[p].view
         /\ page'[p].session /\ page'[p].me = <<Asked>>
<1> DEFINE logged == [page[p] EXCEPT !.session = TRUE, !.wallet = "raw"]
           asked == <<Asked>>
           new == [logged EXCEPT !.wire = TRUE, !.me = asked]
<1>1. page' = [page EXCEPT ![p] = new]
  BY DEF Connect, loginWithWallet
<1>2. page \in [Pages -> Screens] /\ page[p] \in Screens
  BY DEF PageTypes
<1>3. /\ logged \in Screens /\ logged.session
      /\ logged.phase = page[p].phase /\ logged.view = page[p].view
  BY <1>2 DEF Screens
<1>4. asked \in Seq(Fetches)
  BY DEF Asked, Fetches
<1> HIDE DEF logged, asked
<1>5. /\ new \in Screens /\ new.session /\ new.me = asked
      /\ new.phase = logged.phase /\ new.view = logged.view
  BY <1>3, <1>4 DEF Screens
<1> HIDE DEF new
<1>6. page'[p] = new /\ OnlyPage(p) /\ page' \in [Pages -> Screens]
  BY <1>1, <1>2, <1>5 DEF OnlyPage
<1>7. asked = <<Asked>>
  BY DEF asked
<1> QED
  BY <1>3, <1>5, <1>6, <1>7

\* Logout ends the session and leaves the answers under way.
LEMMA LogoutEffect ==
  ASSUME PageTypes, NEW p \in Pages, Logout(p)
  PROVE  /\ OnlyPage(p) /\ page' \in [Pages -> Screens]
         /\ page'[p].phase = "loggedOut" /\ page'[p].view = page[p].view
         /\ ~page'[p].session /\ page'[p].me = page[p].me
  BY DEF PageTypes, Logout, OnlyPage, Screens

\* A page that is loaded again forgets its match and asks /v1/me anew.
LEMMA ReloadEffect ==
  ASSUME PageTypes, NEW p \in Pages, Reload(p)
  PROVE  /\ OnlyPage(p) /\ page' \in [Pages -> Screens]
         /\ page'[p].view = 0 /\ page'[p].session = page[p].session
         /\ page'[p].phase = IF page[p].session THEN "loading" ELSE "loggedOut"
         /\ \A i \in DOMAIN page'[p].me : page'[p].me[i] = Asked
<1>1. PICK boots \in 1 .. 2 :
        page' = [page EXCEPT ![p] =
         [Closed EXCEPT !.session = page[p].session, !.wire = page[p].session,
                        !.phase = IF page[p].session THEN "loading" ELSE "loggedOut",
                        !.me = IF page[p].session THEN [i \in 1..boots |-> Asked]
                                                  ELSE <<>>]]
  BY DEF Reload
<1> DEFINE me == IF page[p].session THEN [i \in 1..boots |-> Asked] ELSE <<>>
           new == [Closed EXCEPT !.session = page[p].session, !.wire = page[p].session,
                        !.phase = IF page[p].session THEN "loading" ELSE "loggedOut",
                        !.me = me]
<1>2. me \in Seq(Fetches) /\ \A i \in DOMAIN me : me[i] = Asked
  <2> DEFINE asks == [i \in 1 .. boots |-> Asked]
  <2>1. asks \in Seq(Fetches) /\ \A i \in DOMAIN asks : asks[i] = Asked
    <3>1. Asked \in Fetches
      BY DEF Asked, Fetches
    <3>2. boots \in Nat
      OBVIOUS
    <3> QED
      BY <3>1, <3>2
  <2>2. <<>> \in Seq(Fetches) /\ \A i \in DOMAIN <<>> : <<>>[i] = Asked
    OBVIOUS
  <2> QED
    BY <2>1, <2>2
<1>3. page \in [Pages -> Screens] /\ page[p] \in Screens
  BY DEF PageTypes
<1>4. page' = [page EXCEPT ![p] = new]
  BY <1>1
<1>5. page[p].session \in BOOLEAN
  BY <1>3 DEF Screens
<1> HIDE DEF me
<1>6. /\ new \in Screens /\ new.view = 0 /\ new.session = page[p].session
      /\ new.phase = IF page[p].session THEN "loading" ELSE "loggedOut"
      /\ new.me = me
  BY <1>2, <1>5 DEF Screens, Closed
<1> HIDE DEF new
<1>7. page'[p] = new /\ OnlyPage(p) /\ page' \in [Pages -> Screens]
  BY <1>3, <1>4, <1>6 DEF OnlyPage
<1> QED
  BY <1>2, <1>6, <1>7

\* refreshMe adds one request for /v1/me.
LEMMA Refreshed ==
  ASSUME PageTypes, NEW p \in Pages
  PROVE  Refresh(p) \in Seq(Fetches)
  BY DEF PageTypes, Refresh, Screens, Asked, Fetches

\* Choosing a game asks for /v1/me, without a session it logs out.
LEMMA SelectGameEffect ==
  ASSUME PageTypes, NEW p \in Pages, SelectGame(p)
  PROVE  /\ OnlyPage(p) /\ page' \in [Pages -> Screens]
         /\ page'[p].view = page[p].view /\ page'[p].session = page[p].session
         /\ page'[p].phase = IF page[p].session THEN page[p].phase ELSE "loggedOut"
         /\ page'[p].me = IF page[p].session THEN Refresh(p) ELSE page[p].me
  BY Refreshed, ZenonT(40) DEF PageTypes, SelectGame, OnlyPage, Screens

\* "Play again" drops the match and asks for /v1/me.
LEMMA PlayedAgainEffect ==
  ASSUME PageTypes, NEW p \in Pages, PlayedAgain(p)
  PROVE  /\ OnlyPage(p) /\ page' \in [Pages -> Screens]
         /\ page'[p].view = 0 /\ page'[p].session = page[p].session
         /\ page'[p].phase = page[p].phase /\ page'[p].me = Refresh(p)
  BY Refreshed DEF PageTypes, PlayedAgain, OnlyPage, Screens

\* The answer to a button sets the phase and nothing else.
LEMMA AnswerEffect ==
  ASSUME PageTypes, NEW p \in Pages, ApplyAnswer(p)
  PROVE  /\ OnlyPage(p) /\ page' \in [Pages -> Screens]
         /\ page'[p].view = page[p].view /\ page'[p].session = page[p].session
         /\ page'[p].me = page[p].me
         /\ page'[p].phase = IF request[p].at = "ok" THEN Shown[request[p].kind]
                                                     ELSE page[p].phase
<1>1. CASE request[p].at = "ok"
  <2>1. request[p].kind \in {"join", "leave", "report"}
    BY <1>1 DEF PageTypes, RequestTypes, Asks, NoRequest
  <2>2. Shown[request[p].kind] \in {"queued", "idle", "reported"}
    BY <2>1 DEF Shown
  <2> DEFINE phase == Shown[request[p].kind]
  <2>3. page' = [page EXCEPT ![p].phase = phase]
    BY <1>1 DEF ApplyAnswer
  <2> HIDE DEF phase
  <2>4. /\ OnlyPage(p) /\ page' \in [Pages -> Screens]
        /\ page'[p].view = page[p].view /\ page'[p].session = page[p].session
        /\ page'[p].me = page[p].me /\ page'[p].phase = phase
    <3>1. phase \in {"queued", "idle", "reported"}
      BY <2>2 DEF phase
    <3> QED
      BY <2>3, <3>1 DEF PageTypes, OnlyPage, Screens
  <2> QED
    BY <1>1, <2>4 DEF phase
<1>2. CASE request[p].at # "ok"
  BY <1>2 DEF PageTypes, ApplyAnswer, OnlyPage
<1> QED
  BY <1>1, <1>2

\* A fetch with some of its fields changed.
LEMMA FetchFields ==
  ASSUME NEW f \in Fetches, NEW at \in {"asked", "read", "ok", "error"},
         NEW live \in Nat, NEW ticket \in BOOLEAN
  PROVE  /\ [f EXCEPT !.at = at, !.live = live] =
              [at |-> at, live |-> live, ticket |-> f.ticket]
         /\ [f EXCEPT !.at = at, !.ticket = ticket] =
              [at |-> at, live |-> f.live, ticket |-> ticket]
         /\ [f EXCEPT !.at = at] =
              [at |-> at, live |-> f.live, ticket |-> f.ticket]
         /\ [at |-> at, live |-> live, ticket |-> f.ticket] \in Fetches
         /\ [at |-> at, live |-> f.live, ticket |-> ticket] \in Fetches
         /\ [at |-> at, live |-> f.live, ticket |-> f.ticket] \in Fetches
<1>1. ASSUME NEW g \in Fetches
      PROVE  g = [at |-> g.at, live |-> g.live, ticket |-> g.ticket]
  BY <1>1 DEF Fetches
<1>2. ASSUME NEW g, g = [f EXCEPT !.at = at, !.live = live]
      PROVE  g \in Fetches /\ g.at = at /\ g.live = live /\ g.ticket = f.ticket
  BY <1>2 DEF Fetches
<1>3. ASSUME NEW g, g = [f EXCEPT !.at = at, !.ticket = ticket]
      PROVE  g \in Fetches /\ g.at = at /\ g.live = f.live /\ g.ticket = ticket
  BY <1>3 DEF Fetches
<1>4. ASSUME NEW g, g = [f EXCEPT !.at = at]
      PROVE  g \in Fetches /\ g.at = at /\ g.live = f.live /\ g.ticket = f.ticket
  BY <1>4 DEF Fetches
<1>5. [f EXCEPT !.at = at, !.live = live] =
              [at |-> at, live |-> live, ticket |-> f.ticket]
  BY <1>1, <1>2, Zenon
<1>6. [f EXCEPT !.at = at, !.ticket = ticket] =
              [at |-> at, live |-> f.live, ticket |-> ticket]
  BY <1>1, <1>3, Zenon
<1>7. [f EXCEPT !.at = at] = [at |-> at, live |-> f.live, ticket |-> f.ticket]
  BY <1>1, <1>4, Zenon
<1>8. /\ [at |-> at, live |-> live, ticket |-> f.ticket] \in Fetches
      /\ [at |-> at, live |-> f.live, ticket |-> ticket] \in Fetches
      /\ [at |-> at, live |-> f.live, ticket |-> f.ticket] \in Fetches
  BY DEF Fetches
<1> QED
  BY <1>5, <1>6, <1>7, <1>8

\* A fetch gets on: only its own record changes.
FetchBecomes(p, i, r) ==
  /\ page'[p].phase = page[p].phase /\ page'[p].view = page[p].view
  /\ page'[p].session = page[p].session
  /\ DOMAIN page'[p].me = DOMAIN page[p].me
  /\ page'[p].me[i] = r
  /\ \A k \in DOMAIN page[p].me \ {i} : page'[p].me[k] = page[p].me[k]

\* A step of one /v1/me request leaves the others and the screen alone.
LEMMA FetchEffect ==
  ASSUME PageTypes, NEW p \in Pages, NEW i \in DOMAIN page[p].me, NEW r \in Fetches,
         page' = [page EXCEPT ![p] = [page[p] EXCEPT !.me = [page[p].me EXCEPT ![i] = r]]]
  PROVE  /\ OnlyPage(p) /\ page' \in [Pages -> Screens]
         /\ FetchBecomes(p, i, r)
<1> DEFINE me == [page[p].me EXCEPT ![i] = r]
           new == [page[p] EXCEPT !.me = me]
<1>1. page \in [Pages -> Screens] /\ page[p] \in Screens /\ page[p].me \in Seq(Fetches)
  BY DEF PageTypes, Screens
<1>2. /\ me \in Seq(Fetches) /\ DOMAIN me = DOMAIN page[p].me /\ me[i] = r
      /\ \A k \in DOMAIN page[p].me \ {i} : me[k] = page[p].me[k]
  BY <1>1, Replaced
<1>3. page' = [page EXCEPT ![p] = new]
  OBVIOUS
<1> HIDE DEF me
<1>4. /\ new \in Screens /\ new.phase = page[p].phase /\ new.view = page[p].view
      /\ new.session = page[p].session /\ new.me = me
  BY <1>1, <1>2 DEF Screens
<1> HIDE DEF new
<1>5. page'[p] = new /\ OnlyPage(p) /\ page' \in [Pages -> Screens]
  BY <1>1, <1>3, <1>4 DEF OnlyPage
<1> QED
  BY <1>2, <1>4, <1>5 DEF FetchBecomes

\* The live match /v1/me reports is a row number or 0.
LEMMA NewestPosition ==
  ASSUME ServerTypes, NEW w, NEW state
  PROVE  Newest(MatchesOf(w, state)) \in Nat
  BY NewestLast DEF ServerTypes, MatchesOf

\* The first read of /v1/me takes the newest live match, or fails.
LEMMA ReadLiveEffect ==
  ASSUME ServerTypes, PageTypes, NEW p \in Pages, NEW i \in DOMAIN page[p].me,
         ReadLive(p, i)
  PROVE  /\ OnlyPage(p) /\ page' \in [Pages -> Screens]
         /\ \/ /\ page[p].session
               /\ FetchBecomes(p, i, [at |-> "read",
                               live |-> Newest(MatchesOf(WalletOf[p], "live")),
                               ticket |-> page[p].me[i].ticket])
               /\ behind' = IF Busy(p) \/ socket[p].inbox # <<>>
                            THEN behind ELSE behind \ {p}
            \/ /\ FetchBecomes(p, i, [at |-> "error", live |-> page[p].me[i].live,
                                      ticket |-> page[p].me[i].ticket])
               /\ behind' = behind
<1>1. /\ page \in [Pages -> Screens] /\ page[p] \in Screens
      /\ page[p].me \in Seq(Fetches) /\ page[p].me[i] \in Fetches
  BY DEF PageTypes, Screens
<1>2. CASE /\ page[p].session
           /\ page' = [page EXCEPT ![p].me[i].at = "read",
                    ![p].me[i].live = Newest(MatchesOf(WalletOf[p], "live"))]
           /\ behind' = IF Busy(p) \/ socket[p].inbox # <<>>
                        THEN behind ELSE behind \ {p}
  <2> DEFINE live == Newest(MatchesOf(WalletOf[p], "live"))
             r == [page[p].me[i] EXCEPT !.at = "read", !.live = live]
             new == [at |-> "read", live |-> live, ticket |-> page[p].me[i].ticket]
  <2>1. live \in Nat
    BY NewestPosition
  <2>2. page' = [page EXCEPT ![p] =
                  [page[p] EXCEPT !.me = [page[p].me EXCEPT ![i] = r]]]
    BY <1>2
  <2> HIDE DEF live
  <2>3. r = new /\ new \in Fetches
    <3>1. page[p].me[i] \in Fetches /\ live \in Nat /\ TRUE \in BOOLEAN
      BY <1>1, <2>1
    <3> QED
      BY <3>1, FetchFields
  <2> HIDE DEF r
  <2>4. page' = [page EXCEPT ![p] =
                  [page[p] EXCEPT !.me = [page[p].me EXCEPT ![i] = new]]]
    BY <2>2, <2>3
  <2> HIDE DEF new
  <2>5. OnlyPage(p) /\ page' \in [Pages -> Screens] /\ FetchBecomes(p, i, new)
    BY <2>3, <2>4, FetchEffect
  <2> QED
    BY <1>2, <2>5 DEF new, live
<1>3. CASE page' = [page EXCEPT ![p].me[i].at = "error"] /\ UNCHANGED behind
  <2> DEFINE r == [page[p].me[i] EXCEPT !.at = "error"]
             new == [at |-> "error", live |-> page[p].me[i].live,
                     ticket |-> page[p].me[i].ticket]
  <2>2. page' = [page EXCEPT ![p] =
                  [page[p] EXCEPT !.me = [page[p].me EXCEPT ![i] = r]]]
    BY <1>3
  <2>3. r = new /\ new \in Fetches
    <3>1. page[p].me[i] \in Fetches /\ 0 \in Nat /\ TRUE \in BOOLEAN
      BY <1>1
    <3> QED
      BY <3>1, FetchFields
  <2> HIDE DEF r
  <2>4. page' = [page EXCEPT ![p] =
                  [page[p] EXCEPT !.me = [page[p].me EXCEPT ![i] = new]]]
    BY <2>2, <2>3
  <2> HIDE DEF new
  <2>5. OnlyPage(p) /\ page' \in [Pages -> Screens] /\ FetchBecomes(p, i, new)
    BY <2>3, <2>4, FetchEffect
  <2> QED
    BY <1>3, <2>5 DEF new
<1> QED
  BY <1>2, <1>3 DEF ReadLive

\* The second read of /v1/me looks for a queued ticket.
LEMMA ReadTicketEffect ==
  ASSUME PageTypes, NEW p \in Pages, NEW i \in DOMAIN page[p].me, ReadTicket(p, i)
  PROVE  /\ OnlyPage(p) /\ page' \in [Pages -> Screens]
         /\ FetchBecomes(p, i, [at |-> "ok", live |-> page[p].me[i].live,
                         ticket |-> TicketsOf(WalletOf[p], "queued") # {}])
<1> DEFINE ticket == TicketsOf(WalletOf[p], "queued") # {}
           r == [page[p].me[i] EXCEPT !.at = "ok", !.ticket = ticket]
           new == [at |-> "ok", live |-> page[p].me[i].live, ticket |-> ticket]
<1>1. /\ page \in [Pages -> Screens] /\ page[p] \in Screens
      /\ page[p].me \in Seq(Fetches) /\ page[p].me[i] \in Fetches
  BY DEF PageTypes, Screens
<1>2. page' = [page EXCEPT ![p] =
                [page[p] EXCEPT !.me = [page[p].me EXCEPT ![i] = r]]]
  BY DEF ReadTicket
<1>3. ticket \in BOOLEAN
  OBVIOUS
<1> HIDE DEF ticket
<1>4. r = new /\ new \in Fetches
  <2>1. page[p].me[i] \in Fetches /\ ticket \in BOOLEAN /\ 0 \in Nat
    BY <1>1, <1>3
  <2> QED
    BY <2>1, FetchFields
<1> HIDE DEF r
<1>5. page' = [page EXCEPT ![p] =
                [page[p] EXCEPT !.me = [page[p].me EXCEPT ![i] = new]]]
  BY <1>2, <1>4
<1> HIDE DEF new
<1>6. OnlyPage(p) /\ page' \in [Pages -> Screens] /\ FetchBecomes(p, i, new)
  BY <1>4, <1>5, FetchEffect
<1> QED
  BY <1>6 DEF new, ticket

\* An answer of /v1/me sets the phase from ticket and match; an error ends
\* the session.
LEMMA ApplyMeEffect ==
  ASSUME PageTypes, NEW p \in Pages, NEW i \in DOMAIN page[p].me, ApplyMe(p, i)
  PROVE  /\ OnlyPage(p) /\ page' \in [Pages -> Screens]
         /\ page'[p].view = page[p].view
         /\ page'[p].me = RemoveAt(page[p].me, i)
         /\ \/ /\ page[p].me[i].at = "error" /\ ~page'[p].session
               /\ page'[p].phase = "loggedOut"
            \/ /\ page[p].me[i].at = "ok" /\ page'[p].session = page[p].session
               /\ page'[p].phase = IF page[p].me[i].ticket THEN "queued"
                                   ELSE IF page[p].me[i].live # 0 THEN "matchFound"
                                   ELSE "idle"
<1> DEFINE failed == page[p].me[i].at = "error"
           wallet == IF failed THEN "none" ELSE "lower"
           session == page[p].session /\ ~failed
           anew == wallet # page[p].wallet
           phase == IF failed THEN "loggedOut"
                    ELSE IF page[p].me[i].ticket THEN "queued"
                    ELSE IF page[p].me[i].live # 0 THEN "matchFound" ELSE "idle"
           me == RemoveAt(page[p].me, i)
           new == [page[p] EXCEPT !.phase = phase, !.session = session,
                   !.wallet = wallet, !.wire = IF anew THEN session ELSE @,
                   !.me = RemoveAt(@, i)]
<1>1. page \in [Pages -> Screens] /\ page[p] \in Screens /\ page[p].me \in Seq(Fetches)
  BY DEF PageTypes, Screens
<1>2. page' = [page EXCEPT ![p] = new] /\ page[p].me[i].at \in {"ok", "error"}
  BY DEF ApplyMe
<1>3. me \in Seq(Fetches)
  BY <1>1, Removed
<1>4. /\ session \in BOOLEAN /\ anew \in BOOLEAN /\ wallet \in {"none", "lower"}
      /\ phase \in {"loggedOut", "queued", "matchFound", "idle"}
  OBVIOUS
<1>5. /\ failed => phase = "loggedOut" /\ ~session
      /\ ~failed => /\ session = page[p].session
                    /\ phase = IF page[p].me[i].ticket THEN "queued"
                               ELSE IF page[p].me[i].live # 0 THEN "matchFound"
                               ELSE "idle"
  BY <1>1 DEF Screens
<1>6. new.me = me /\ new.view = page[p].view
  BY <1>1 DEF Screens
<1> HIDE DEF session, anew, wallet, phase, me
<1>7. /\ new \in Screens /\ new.phase = phase /\ new.session = session
  BY <1>1, <1>3, <1>4, <1>6 DEF Screens
<1> HIDE DEF new
<1>8. page'[p] = new /\ OnlyPage(p) /\ page' \in [Pages -> Screens]
  BY <1>1, <1>2, <1>7 DEF OnlyPage
<1>9. me = RemoveAt(page[p].me, i)
  BY DEF me
<1> QED
  BY <1>2, <1>5, <1>6, <1>7, <1>8, <1>9

\* Two fields of a screen are set.
LEMMA PhaseAndView ==
  ASSUME page \in [Pages -> Screens], NEW p \in Pages, NEW m \in Nat,
         page' = [page EXCEPT ![p].phase = "matchFound", ![p].view = m]
  PROVE  /\ OnlyPage(p) /\ page' \in [Pages -> Screens]
         /\ page'[p].session = page[p].session /\ page'[p].phase = "matchFound"
         /\ page'[p].view = m /\ page'[p].me = page[p].me
  BY DEF Screens, OnlyPage

\* A match_result changes the phase and the requests for /v1/me.
LEMMA PhaseAndMe ==
  ASSUME page \in [Pages -> Screens], NEW p \in Pages, NEW me \in Seq(Fetches),
         page' = [page EXCEPT ![p].phase = "result", ![p].me = me]
  PROVE  /\ OnlyPage(p) /\ page' \in [Pages -> Screens]
         /\ page'[p].session = page[p].session /\ page'[p].phase = "result"
         /\ page'[p].view = page[p].view /\ page'[p].me = me
  BY ZenonT(40) DEF Screens, OnlyPage

\* The other events change the phase alone.
LEMMA PhaseOnly ==
  ASSUME page \in [Pages -> Screens], NEW p \in Pages, NEW phase \in {"idle", "disputed"},
         page' = [page EXCEPT ![p].phase = phase]
  PROVE  /\ OnlyPage(p) /\ page' \in [Pages -> Screens]
         /\ page'[p].session = page[p].session /\ page'[p].phase = phase
         /\ page'[p].view = page[p].view /\ page'[p].me = page[p].me
  BY DEF Screens, OnlyPage

\* onEvent, one event type at a time.
LEMMA EventEffect ==
  ASSUME PageTypes, NEW p \in Pages, NEW event \in Notices, page' = OnEvent(p, event)
  PROVE  /\ OnlyPage(p) /\ page' \in [Pages -> Screens]
         /\ page'[p].session = page[p].session
         /\ event.type = "match_found" =>
              /\ page'[p].phase = "matchFound" /\ page'[p].view = event.match
              /\ page'[p].me = page[p].me
         /\ event.type = "match_result" =>
              /\ page'[p].phase = "result" /\ page'[p].view = page[p].view
              /\ page'[p].me = Refresh(p)
         /\ event.type = "disputed" =>
              /\ page'[p].phase = "disputed" /\ page'[p].view = page[p].view
              /\ page'[p].me = page[p].me
         /\ event.type = "cancelled" =>
              /\ page'[p].phase = "idle" /\ page'[p].view = page[p].view
              /\ page'[p].me = page[p].me
<1>1. event.type \in {"match_found", "match_result", "disputed", "cancelled"}
      /\ event.match \in Nat
  BY DEF Notices
<1>0. page \in [Pages -> Screens]
  BY DEF PageTypes
<1>2. CASE event.type = "match_found"
  <2>1. page' = [page EXCEPT ![p].phase = "matchFound", ![p].view = event.match]
    BY <1>2 DEF OnEvent
  <2>2. /\ OnlyPage(p) /\ page' \in [Pages -> Screens]
        /\ page'[p].session = page[p].session
        /\ page'[p].phase = "matchFound" /\ page'[p].view = event.match
        /\ page'[p].me = page[p].me
    BY <1>0, <1>1, <2>1, PhaseAndView
  <2> QED
    BY <1>2, <2>2
<1>3. CASE event.type = "match_result"
  <2>1. page' = [page EXCEPT ![p].phase = "result", ![p].me = Refresh(p)]
    BY <1>3 DEF OnEvent
  <2>2. /\ OnlyPage(p) /\ page' \in [Pages -> Screens]
        /\ page'[p].session = page[p].session
        /\ page'[p].phase = "result" /\ page'[p].view = page[p].view
        /\ page'[p].me = Refresh(p)
    BY <1>0, <1>1, <2>1, Refreshed, PhaseAndMe
  <2> QED
    BY <1>3, <2>2
<1>4. CASE event.type = "disputed"
  <2>1. page' = [page EXCEPT ![p].phase = "disputed"]
    BY <1>4 DEF OnEvent
  <2>2. /\ OnlyPage(p) /\ page' \in [Pages -> Screens]
        /\ page'[p].session = page[p].session
        /\ page'[p].phase = "disputed" /\ page'[p].view = page[p].view
        /\ page'[p].me = page[p].me
    BY <1>0, <2>1, PhaseOnly
  <2> QED
    BY <1>4, <2>2
<1>5. CASE event.type = "cancelled"
  <2>1. page' = [page EXCEPT ![p].phase = "idle"]
    BY <1>5 DEF OnEvent
  <2>2. /\ OnlyPage(p) /\ page' \in [Pages -> Screens]
        /\ page'[p].session = page[p].session
        /\ page'[p].phase = "idle" /\ page'[p].view = page[p].view
        /\ page'[p].me = page[p].me
    BY <1>0, <2>1, PhaseOnly
  <2> QED
    BY <1>5, <2>2
<1> QED
  BY <1>1, <1>2, <1>3, <1>4, <1>5

-----------------------------------------------------------------------------
(***************************************************************************)
(* What the steps do to the sockets, the requests, the tickets and the     *)
(* matches.                                                                *)
(***************************************************************************)
LEMMA SendEffect ==
  ASSUME PageTypes, NEW W, NEW event \in Notices, Send(W, event)
  PROVE  /\ socket' \in [Pages -> Sockets]
         /\ \A p \in Pages :
              /\ socket'[p].on = socket[p].on
              /\ socket'[p].inbox = IF p \in PagesOf(W) /\ socket[p].on
                                    THEN Append(socket[p].inbox, event)
                                    ELSE socket[p].inbox
         /\ behind' = behind \cup {p \in PagesOf(W) : ~socket[p].on}
<1>1. ASSUME NEW p \in Pages
      PROVE  /\ socket'[p] \in Sockets
             /\ socket'[p].on = socket[p].on
             /\ socket'[p].inbox = IF p \in PagesOf(W) /\ socket[p].on
                                   THEN Append(socket[p].inbox, event)
                                   ELSE socket[p].inbox
  <2> DEFINE box == Append(socket[p].inbox, event)
             new == [socket[p] EXCEPT !.inbox = box]
  <2>1. socket[p] \in Sockets /\ box \in Seq(Notices)
    BY DEF PageTypes, Sockets
  <2>2. socket'[p] = IF p \in PagesOf(W) /\ socket[p].on THEN new ELSE socket[p]
    BY DEF Send
  <2> HIDE DEF box
  <2>3. new \in Sockets /\ new.on = socket[p].on /\ new.inbox = box
    BY <2>1 DEF Sockets
  <2> HIDE DEF new
  <2>4. box = Append(socket[p].inbox, event)
    BY DEF box
  <2> QED
    BY <2>1, <2>2, <2>3, <2>4
<1>2. DOMAIN socket' = Pages /\ socket' = [p \in Pages |-> socket'[p]]
  BY DEF Send
<1> QED
  BY <1>1, <1>2 DEF Send

\* A socket that closes loses the events in it and no other page's.
LEMMA CloseEffect ==
  ASSUME PageTypes, NEW p \in Pages, CloseSocket(p)
  PROVE  /\ socket' \in [Pages -> Sockets]
         /\ ~socket'[p].on /\ socket'[p].inbox = <<>>
         /\ \A o \in Pages \ {p} : socket'[o] = socket[o]
         /\ behind' = IF socket[p].inbox # <<>> THEN behind \cup {p} ELSE behind
<1>1. [on |-> FALSE, inbox |-> <<>>] \in Sockets
  BY DEF Sockets
<1> QED
  BY <1>1 DEF CloseSocket, PageTypes

\* A handled event is the oldest one in the socket.
LEMMA HandledEffect ==
  ASSUME PageTypes, NEW p \in Pages, HandleEvent(p)
  PROVE  /\ socket' \in [Pages -> Sockets]
         /\ socket'[p].on = socket[p].on
         /\ socket'[p].inbox = Tail(socket[p].inbox)
         /\ \A o \in Pages \ {p} : socket'[o] = socket[o]
         /\ Head(socket[p].inbox) \in Notices
<1> DEFINE box == Tail(socket[p].inbox)
           new == [socket[p] EXCEPT !.inbox = box]
<1>1. socket \in [Pages -> Sockets] /\ socket[p] \in Sockets
  BY DEF PageTypes
<1>2. socket[p].inbox \in Seq(Notices) /\ socket[p].inbox # <<>>
  BY <1>1 DEF Sockets, HandleEvent
<1>3. box \in Seq(Notices) /\ Head(socket[p].inbox) \in Notices
  BY <1>2
<1>4. socket' = [socket EXCEPT ![p] = new]
  BY DEF HandleEvent
<1>5. box = Tail(socket[p].inbox)
  OBVIOUS
<1> HIDE DEF box
<1>6. new \in Sockets /\ new.on = socket[p].on /\ new.inbox = box
  BY <1>1, <1>3 DEF Sockets
<1> HIDE DEF new
<1> QED
  BY <1>1, <1>3, <1>4, <1>5, <1>6

\* A row of the tickets changes its status.
LEMMA TicketClosed ==
  ASSUME ServerTypes, NEW v, NEW t \in TicketsOf(v, "queued"),
         tickets' = [tickets EXCEPT ![t].status = "cancelled"]
  PROVE  /\ tickets' \in Seq(TicketRows) /\ DOMAIN tickets' = DOMAIN tickets
         /\ \A k \in DOMAIN tickets : tickets'[k].wallet = tickets[k].wallet
         /\ tickets'[t].status = "cancelled"
         /\ \A k \in DOMAIN tickets \ {t} : tickets'[k] = tickets[k]
<1> DEFINE new == [tickets[t] EXCEPT !.status = "cancelled"]
<1>1. tickets \in Seq(TicketRows) /\ t \in DOMAIN tickets /\ tickets[t] \in TicketRows
  BY DEF ServerTypes, TicketsOf
<1>2. tickets' = [tickets EXCEPT ![t] = new]
  OBVIOUS
<1>3. new \in TicketRows /\ new.wallet = tickets[t].wallet /\ new.status = "cancelled"
  BY <1>1 DEF TicketRows
<1> HIDE DEF new
<1> QED
  BY <1>1, <1>2, <1>3, Replaced

\* A match changes its state or its reports.
LEMMA MatchChanged ==
  ASSUME ServerTypes, NEW m \in DOMAIN matches,
         NEW state \in {"live", "agreed", "disputed", "cancelled"},
         NEW reports \in SUBSET Wallets,
         \/ matches' = [matches EXCEPT ![m].reports = reports, ![m].state = state]
         \/ /\ matches' = [matches EXCEPT ![m].reports = reports]
            /\ state = matches[m].state
         \/ /\ matches' = [matches EXCEPT ![m].state = state]
            /\ reports = matches[m].reports
  PROVE  /\ matches' \in Seq(MatchRows) /\ DOMAIN matches' = DOMAIN matches
         /\ \A k \in DOMAIN matches : matches'[k].players = matches[k].players
         /\ matches'[m].state = state /\ matches'[m].reports = reports
         /\ \A k \in DOMAIN matches \ {m} : matches'[k] = matches[k]
<1>1. matches \in Seq(MatchRows) /\ matches[m] \in MatchRows
  BY DEF ServerTypes
<1>2. \E new \in MatchRows :
        /\ matches' = [matches EXCEPT ![m] = new]
        /\ new.players = matches[m].players /\ new.state = state /\ new.reports = reports
  <2>1. CASE matches' = [matches EXCEPT ![m].reports = reports, ![m].state = state]
    <3> DEFINE new == [matches[m] EXCEPT !.reports = reports, !.state = state]
    <3>1. matches' = [matches EXCEPT ![m] = new]
      BY <2>1
    <3>2. /\ new \in MatchRows /\ new.players = matches[m].players
          /\ new.state = state /\ new.reports = reports
      BY <1>1 DEF MatchRows
    <3> HIDE DEF new
    <3> QED
      BY <3>1, <3>2
  <2>2. CASE /\ matches' = [matches EXCEPT ![m].reports = reports]
             /\ state = matches[m].state
    <3> DEFINE new == [matches[m] EXCEPT !.reports = reports]
    <3>1. matches' = [matches EXCEPT ![m] = new]
      BY <2>2
    <3>2. /\ new \in MatchRows /\ new.players = matches[m].players
          /\ new.state = state /\ new.reports = reports
      BY <1>1, <2>2 DEF MatchRows
    <3> HIDE DEF new
    <3> QED
      BY <3>1, <3>2
  <2>3. CASE /\ matches' = [matches EXCEPT ![m].state = state]
             /\ reports = matches[m].reports
    <3> DEFINE new == [matches[m] EXCEPT !.state = state]
    <3>1. matches' = [matches EXCEPT ![m] = new]
      BY <2>3
    <3>2. /\ new \in MatchRows /\ new.players = matches[m].players
          /\ new.state = state /\ new.reports = reports
      BY <1>1, <2>3 DEF MatchRows
    <3> HIDE DEF new
    <3> QED
      BY <3>1, <3>2
  <2> QED
    BY <2>1, <2>2, <2>3
<1>3. PICK new \in MatchRows :
        /\ matches' = [matches EXCEPT ![m] = new]
        /\ new.players = matches[m].players /\ new.state = state /\ new.reports = reports
  BY <1>2
<1> QED
  BY <1>1, <1>3, Replaced

-----------------------------------------------------------------------------
(***************************************************************************)
(* What that means for the tickets and the matches of a player.            *)
(***************************************************************************)
\* No ticket changes hands, and none disappears.
TicketsKept == \A w \in Wallets : \A t : IsTicketOf(w, t) => IsTicketOf(w, t)'

\* A ticket is inserted.
LEMMA TicketInserted ==
  ASSUME ServerTypes, NEW w \in Wallets,
         tickets' = Append(tickets, [wallet |-> w, status |-> "queued"])
  PROVE  /\ tickets' \in Seq(TicketRows) /\ Len(tickets') = Len(tickets) + 1
         /\ TicketsKept
         /\ IsTicketOf(w, Len(tickets))'
         /\ TicketsOf(w, "queued")' = TicketsOf(w, "queued") \cup {Len(tickets) + 1}
         /\ \A v \in Wallets \ {w} : TicketsOf(v, "queued")' = TicketsOf(v, "queued")
<1> DEFINE row == [wallet |-> w, status |-> "queued"]
<1>1. tickets \in Seq(TicketRows) /\ row \in TicketRows
  BY DEF ServerTypes, TicketRows
<1>2. row.wallet = w /\ row.status = "queued"
  OBVIOUS
<1>3. tickets' = Append(tickets, row)
  OBVIOUS
<1> HIDE DEF row
<1>4. /\ tickets' \in Seq(TicketRows) /\ Len(tickets') = Len(tickets) + 1
      /\ DOMAIN tickets' = DOMAIN tickets \cup {Len(tickets) + 1}
      /\ \A t \in DOMAIN tickets : tickets'[t] = tickets[t]
      /\ tickets'[Len(tickets) + 1] = row
      /\ Len(tickets) + 1 \notin DOMAIN tickets
  BY <1>1, <1>3
<1>5. TicketsKept /\ IsTicketOf(w, Len(tickets))'
  BY <1>2, <1>4 DEF TicketsKept, IsTicketOf
<1>6. TicketsOf(w, "queued")' = TicketsOf(w, "queued") \cup {Len(tickets) + 1}
  BY <1>2, <1>4 DEF TicketsOf
<1>7. ASSUME NEW v \in Wallets \ {w}
      PROVE  TicketsOf(v, "queued")' = TicketsOf(v, "queued")
  BY <1>2, <1>4 DEF TicketsOf
<1> QED
  BY <1>4, <1>5, <1>6, <1>7

\* A queued ticket is cancelled.
LEMMA TicketCancelled ==
  ASSUME ServerTypes, NEW w \in Wallets, NEW t \in TicketsOf(w, "queued"),
         tickets' = [tickets EXCEPT ![t].status = "cancelled"]
  PROVE  /\ tickets' \in Seq(TicketRows) /\ TicketsKept
         /\ TicketsOf(w, "queued")' = TicketsOf(w, "queued") \ {t}
         /\ \A v \in Wallets \ {w} : TicketsOf(v, "queued")' = TicketsOf(v, "queued")
<1>1. /\ tickets' \in Seq(TicketRows) /\ DOMAIN tickets' = DOMAIN tickets
      /\ \A k \in DOMAIN tickets : tickets'[k].wallet = tickets[k].wallet
      /\ tickets'[t].status = "cancelled"
      /\ \A k \in DOMAIN tickets \ {t} : tickets'[k] = tickets[k]
  BY TicketClosed
<1>2. t \in DOMAIN tickets /\ tickets[t].wallet = w
  BY DEF TicketsOf
<1>3. TicketsKept
  BY <1>1 DEF TicketsKept, IsTicketOf
<1>4. TicketsOf(w, "queued")' = TicketsOf(w, "queued") \ {t}
  BY <1>1, <1>2 DEF TicketsOf
<1>5. ASSUME NEW v \in Wallets \ {w}
      PROVE  TicketsOf(v, "queued")' = TicketsOf(v, "queued")
  BY <1>1, <1>2 DEF TicketsOf
<1> QED
  BY <1>1, <1>3, <1>4, <1>5

\* The tickets of a group are set to matched.
LEMMA TicketsMarked ==
  ASSUME ServerTypes, NEW g \in Groups,
         \A w \in g.wallets : IsTicketOf(w, g.ticket[w]),
         tickets' = [t \in DOMAIN tickets |->
             IF \E w \in g.wallets : g.ticket[w] = t
             THEN [tickets[t] EXCEPT !.status = "matched"] ELSE tickets[t]]
  PROVE  /\ tickets' \in Seq(TicketRows) /\ TicketsKept
         /\ \A w \in g.wallets :
              TicketsOf(w, "queued")' = TicketsOf(w, "queued") \ {g.ticket[w]}
         /\ \A w \in Wallets \ g.wallets :
              TicketsOf(w, "queued")' = TicketsOf(w, "queued")
<1> DEFINE Named(t) == \E w \in g.wallets : g.ticket[w] = t
<1>1. tickets \in Seq(TicketRows)
  BY DEF ServerTypes
<1>2. ASSUME NEW t \in DOMAIN tickets
      PROVE  /\ tickets'[t] \in TicketRows
             /\ tickets'[t].wallet = tickets[t].wallet
             /\ tickets'[t].status = IF Named(t) THEN "matched" ELSE tickets[t].status
  <2>1. tickets'[t] = IF Named(t) THEN [tickets[t] EXCEPT !.status = "matched"]
                                  ELSE tickets[t]
    OBVIOUS
  <2>2. tickets[t] \in TicketRows
    BY <1>1
  <2> HIDE DEF Named
  <2> QED
    BY <2>1, <2>2 DEF TicketRows
<1>3. DOMAIN tickets' = DOMAIN tickets /\ tickets' \in Seq(TicketRows)
  <2>1. Len(tickets) \in Nat /\ DOMAIN tickets = 1 .. Len(tickets)
    BY <1>1
  <2>2. tickets' = [t \in 1 .. Len(tickets) |-> tickets'[t]]
    BY <2>1
  <2> QED
    BY <1>2, <2>1, <2>2
<1>4. \A w \in g.wallets : \A t : Named(t) /\ IsTicketOf(w, t) => t = g.ticket[w]
  BY DEF IsTicketOf
<1>5. \A w \in Wallets \ g.wallets : \A t : Named(t) => ~IsTicketOf(w, t)
  BY DEF IsTicketOf
<1>6. \A w \in g.wallets : Named(g.ticket[w])
  OBVIOUS
<1> HIDE DEF Named
<1>7. TicketsKept
  BY <1>2, <1>3 DEF TicketsKept, IsTicketOf
<1>8. ASSUME NEW w \in g.wallets
      PROVE  TicketsOf(w, "queued")' = TicketsOf(w, "queued") \ {g.ticket[w]}
  BY <1>2, <1>3, <1>4, <1>6 DEF TicketsOf, IsTicketOf
<1>9. ASSUME NEW w \in Wallets \ g.wallets
      PROVE  TicketsOf(w, "queued")' = TicketsOf(w, "queued")
  BY <1>2, <1>3, <1>5 DEF TicketsOf, IsTicketOf
<1> QED
  BY <1>3, <1>7, <1>8, <1>9

\* The newest of a set with a greater element added is that element.
LEMMA NewestAdded ==
  ASSUME NEW n \in Nat, NEW S \in SUBSET (1 .. n)
  PROVE  Newest(S \cup {n + 1}) = n + 1
<1>1. S \cup {n + 1} \in SUBSET Nat /\ \A y \in S \cup {n + 1} : y <= n + 1
  OBVIOUS
<1> QED
  BY <1>1, NewestIs

\* A match is inserted.
LEMMA MatchInserted ==
  ASSUME ServerTypes, NEW g \in Groups,
         matches' = Append(matches, [players |-> g.wallets, bot |-> g.bot,
                                     state |-> "live", reports |-> {}])
  PROVE  /\ matches' \in Seq(MatchRows) /\ Len(matches') = Len(matches) + 1
         /\ \A m \in DOMAIN matches : matches'[m] = matches[m]
         /\ matches'[Len(matches')].players = g.wallets
         /\ matches'[Len(matches')].state = "live"
         /\ matches'[Len(matches')].reports = {}
         /\ \A w \in g.wallets :
              /\ MatchesOf(w, "live")' = MatchesOf(w, "live") \cup {Len(matches')}
              /\ LastOf(w)' = Len(matches')
         /\ \A w \in Wallets \ g.wallets :
              /\ MatchesOf(w, "live")' = MatchesOf(w, "live")
              /\ LastOf(w)' = LastOf(w)
         /\ \A w : MatchesOf(w, "disputed")' = MatchesOf(w, "disputed")
<1> DEFINE row == [players |-> g.wallets, bot |-> g.bot, state |-> "live", reports |-> {}]
<1>1. matches \in Seq(MatchRows) /\ row \in MatchRows
  BY DEF ServerTypes, MatchRows, Groups
<1>2. row.players = g.wallets /\ row.state = "live" /\ row.reports = {}
  OBVIOUS
<1>3. matches' = Append(matches, row)
  OBVIOUS
<1> HIDE DEF row
<1>4. /\ matches' \in Seq(MatchRows) /\ Len(matches') = Len(matches) + 1
      /\ Len(matches) \in Nat /\ DOMAIN matches = 1 .. Len(matches)
      /\ DOMAIN matches' = DOMAIN matches \cup {Len(matches')}
      /\ \A m \in DOMAIN matches : matches'[m] = matches[m]
      /\ matches'[Len(matches')] = row
      /\ Len(matches') \notin DOMAIN matches
  BY <1>1, <1>3
<1>5. ASSUME NEW w \in g.wallets
      PROVE  /\ MatchesOf(w, "live")' = MatchesOf(w, "live") \cup {Len(matches')}
             /\ LastOf(w)' = Len(matches')
  <2>1. MatchesOf(w, "live")' = MatchesOf(w, "live") \cup {Len(matches')}
    BY <1>2, <1>4 DEF MatchesOf
  <2>2. PlayedBy(w)' = PlayedBy(w) \cup {Len(matches) + 1}
    BY <1>2, <1>4 DEF PlayedBy
  <2>3. PlayedBy(w) \in SUBSET (1 .. Len(matches))
    BY <1>4 DEF PlayedBy
  <2>4. Newest(PlayedBy(w) \cup {Len(matches) + 1}) = Len(matches) + 1
    BY <1>4, <2>3, NewestAdded
  <2> QED
    BY <1>4, <2>1, <2>2, <2>4 DEF LastOf
<1>6. ASSUME NEW w \in Wallets \ g.wallets
      PROVE  /\ MatchesOf(w, "live")' = MatchesOf(w, "live")
             /\ LastOf(w)' = LastOf(w)
  <2>1. MatchesOf(w, "live")' = MatchesOf(w, "live")
    BY <1>2, <1>4 DEF MatchesOf
  <2>2. PlayedBy(w)' = PlayedBy(w)
    BY <1>2, <1>4 DEF PlayedBy
  <2> QED
    BY <2>1, <2>2 DEF LastOf
<1>7. ASSUME NEW w
      PROVE  MatchesOf(w, "disputed")' = MatchesOf(w, "disputed")
  BY <1>2, <1>4 DEF MatchesOf
<1> QED
  BY <1>2, <1>4, <1>5, <1>6, <1>7

\* A match changes its state: only its players' sets of matches change.
LEMMA MatchMoved ==
  ASSUME ServerTypes, NEW m \in DOMAIN matches,
         NEW state, DOMAIN matches' = DOMAIN matches,
         \A k \in DOMAIN matches : matches'[k].players = matches[k].players,
         matches'[m].state = state,
         \A k \in DOMAIN matches \ {m} : matches'[k] = matches[k]
  PROVE  /\ \A w : LastOf(w)' = LastOf(w)
         /\ \A w, s : MatchesOf(w, s)' =
              (MatchesOf(w, s) \ {m})
                \cup IF w \in matches[m].players /\ s = state THEN {m} ELSE {}
<1>1. ASSUME NEW w PROVE LastOf(w)' = LastOf(w)
  <2>1. PlayedBy(w)' = PlayedBy(w)
    BY DEF PlayedBy
  <2> QED
    BY <2>1 DEF LastOf
<1>2. ASSUME NEW w, NEW s
      PROVE  MatchesOf(w, s)' =
              (MatchesOf(w, s) \ {m})
                \cup IF w \in matches[m].players /\ s = state THEN {m} ELSE {}
  BY DEF MatchesOf
<1> QED
  BY <1>1, <1>2

-----------------------------------------------------------------------------
(***************************************************************************)
(* The requests.                                                           *)
(***************************************************************************)
OnlyRequest(p) == \A o \in Pages \ {p} : request'[o] = request[o]

\* One request becomes another one.
LEMMA RequestSet ==
  ASSUME RequestTypes, NEW p \in Pages, NEW r \in Asks, r.kind = "none" => r = NoRequest,
         request' = [request EXCEPT ![p] = r]
  PROVE  RequestTypes' /\ request'[p] = r /\ OnlyRequest(p)
  BY DEF RequestTypes, OnlyRequest

\* A request of some kind gets to another point.
LEMMA RequestMoved ==
  ASSUME RequestTypes, NEW p \in Pages, request[p].kind # "none",
         NEW at \in {"none", "start", "checked", "insert", "enter", "forget", "ok", "error"},
         NEW match \in Nat,
         \/ request' = [request EXCEPT ![p].at = at] /\ match = request[p].match
         \/ request' = [request EXCEPT ![p].at = at, ![p].match = match]
  PROVE  /\ RequestTypes' /\ OnlyRequest(p)
         /\ request'[p].kind = request[p].kind /\ request'[p].at = at
         /\ request'[p].match = match
<1>1. request \in [Pages -> Asks] /\ request[p] \in Asks
  BY DEF RequestTypes
<1>2. \E r \in Asks : /\ request' = [request EXCEPT ![p] = r]
                      /\ r.kind = request[p].kind /\ r.at = at /\ r.match = match
  <2>1. CASE request' = [request EXCEPT ![p].at = at] /\ match = request[p].match
    <3> DEFINE r == [request[p] EXCEPT !.at = at]
    <3>1. request' = [request EXCEPT ![p] = r]
      BY <2>1
    <3>2. r \in Asks /\ r.kind = request[p].kind /\ r.at = at /\ r.match = match
      BY <1>1, <2>1 DEF Asks
    <3> HIDE DEF r
    <3> QED
      BY <3>1, <3>2
  <2>2. CASE request' = [request EXCEPT ![p].at = at, ![p].match = match]
    <3> DEFINE r == [request[p] EXCEPT !.at = at, !.match = match]
    <3>1. request' = [request EXCEPT ![p] = r]
      BY <2>2
    <3>2. r \in Asks /\ r.kind = request[p].kind /\ r.at = at /\ r.match = match
      BY <1>1 DEF Asks
    <3> HIDE DEF r
    <3> QED
      BY <3>1, <3>2
  <2> QED
    BY <2>1, <2>2
<1>3. PICK r \in Asks : /\ request' = [request EXCEPT ![p] = r]
                        /\ r.kind = request[p].kind /\ r.at = at /\ r.match = match
  BY <1>2
<1>4. r.kind # "none"
  BY <1>3
<1>5. RequestTypes' /\ request'[p] = r /\ OnlyRequest(p)
  BY <1>3, <1>4, RequestSet
<1> QED
  BY <1>3, <1>5

\* A button puts a request there.
LEMMA AskEffect ==
  ASSUME RequestTypes, NEW p \in Pages, NEW kind \in {"join", "leave", "report"},
         NEW match \in Nat, Ask(p, kind, match)
  PROVE  /\ RequestTypes' /\ OnlyRequest(p)
         /\ request[p] = NoRequest
         /\ request'[p].kind = kind /\ request'[p].match = match
         /\ request'[p].at = IF page[p].session THEN "start" ELSE "error"
<1> DEFINE at == IF page[p].session THEN "start" ELSE "error"
           r == [kind |-> kind, match |-> match, at |-> at]
<1>1. request' = [request EXCEPT ![p] = r]
  BY DEF Ask
<1>2. r \in Asks /\ r.kind # "none"
  BY DEF Asks
<1>3. r.kind = kind /\ r.match = match /\ r.at = at
  OBVIOUS
<1>4. request[p] = NoRequest
  BY DEF Ask, Busy, RequestTypes
<1> HIDE DEF r
<1>5. RequestTypes' /\ request'[p] = r /\ OnlyRequest(p)
  BY <1>1, <1>2, RequestSet
<1> QED
  BY <1>3, <1>4, <1>5

\* The page has dealt with its request, or forgotten it.
LEMMA NoRequestEffect ==
  ASSUME RequestTypes, NEW p \in Pages, request' = [request EXCEPT ![p] = NoRequest]
  PROVE  RequestTypes' /\ request'[p] = NoRequest /\ OnlyRequest(p)
<1>1. NoRequest \in Asks
  BY DEF NoRequest, Asks
<1> QED
  BY <1>1, RequestSet

\* What the requests' handlers do to them.
LEMMA RequestStepEffect ==
  ASSUME ServerTypes, RequestTypes, NEW p \in Pages
  PROVE  /\ JoinCheckLive(p) =>
              /\ RequestTypes' /\ OnlyRequest(p) /\ request'[p].kind = "join"
              /\ request'[p].at = IF MatchesOf(WalletOf[p], "live") # {}
                                  THEN "error" ELSE "checked"
         /\ JoinCheckTicket(p) =>
              /\ RequestTypes' /\ OnlyRequest(p) /\ request'[p].kind = "join"
              /\ request'[p].at = IF TicketsOf(WalletOf[p], "queued") # {}
                                  THEN "ok" ELSE "insert"
         /\ InsertTicket(p) =>
              /\ RequestTypes' /\ OnlyRequest(p) /\ request'[p].kind = "join"
              /\ request'[p].at = "enter" /\ request'[p].match = Len(tickets')
         /\ EnterQueue(p) =>
              /\ RequestTypes' /\ OnlyRequest(p) /\ request'[p].kind = "join"
              /\ request'[p].at = "ok"
         /\ CancelTicket(p) =>
              /\ RequestTypes' /\ OnlyRequest(p) /\ request'[p].kind = "leave"
              /\ request'[p].at = "forget"
         /\ LeaveQueue(p) =>
              /\ RequestTypes' /\ OnlyRequest(p) /\ request'[p].kind = "leave"
              /\ request'[p].at = "ok"
         /\ ReportOutcome(p) =>
              /\ RequestTypes' /\ OnlyRequest(p) /\ request'[p].kind = "report"
              /\ request'[p].match = request[p].match
              /\ request'[p].at = IF request[p].match \in MatchesOf(WalletOf[p], "live")
                                  THEN "ok" ELSE "error"
<1>1. request[p].match \in Nat /\ 0 \in Nat
  BY DEF RequestTypes, Asks
<1>2. ASSUME JoinCheckLive(p)
      PROVE  /\ RequestTypes' /\ OnlyRequest(p) /\ request'[p].kind = "join"
             /\ request'[p].at = IF MatchesOf(WalletOf[p], "live") # {}
                                 THEN "error" ELSE "checked"
  <2> DEFINE at == IF MatchesOf(WalletOf[p], "live") # {} THEN "error" ELSE "checked"
  <2>1. /\ request[p].kind = "join" /\ request' = [request EXCEPT ![p].at = at]
    BY <1>2 DEF JoinCheckLive, Waits, Answer
  <2>2. at \in {"none", "start", "checked", "insert", "enter", "forget", "ok", "error"}
    OBVIOUS
  <2> HIDE DEF at
  <2>3. /\ RequestTypes' /\ OnlyRequest(p) /\ request'[p].kind = "join"
        /\ request'[p].at = at
    BY <1>1, <2>1, <2>2, RequestMoved, ZenonT(40)
  <2> QED
    BY <2>3 DEF at
<1>3. ASSUME JoinCheckTicket(p)
      PROVE  /\ RequestTypes' /\ OnlyRequest(p) /\ request'[p].kind = "join"
             /\ request'[p].at = IF TicketsOf(WalletOf[p], "queued") # {}
                                 THEN "ok" ELSE "insert"
  <2> DEFINE at == IF TicketsOf(WalletOf[p], "queued") # {} THEN "ok" ELSE "insert"
  <2>1. /\ request[p].kind = "join" /\ request' = [request EXCEPT ![p].at = at]
    BY <1>3 DEF JoinCheckTicket, Waits, Answer
  <2>2. at \in {"none", "start", "checked", "insert", "enter", "forget", "ok", "error"}
    OBVIOUS
  <2> HIDE DEF at
  <2>3. /\ RequestTypes' /\ OnlyRequest(p) /\ request'[p].kind = "join"
        /\ request'[p].at = at
    BY <1>1, <2>1, <2>2, RequestMoved, ZenonT(40)
  <2> QED
    BY <2>3 DEF at
<1>4. ASSUME InsertTicket(p)
      PROVE  /\ RequestTypes' /\ OnlyRequest(p) /\ request'[p].kind = "join"
             /\ request'[p].at = "enter" /\ request'[p].match = Len(tickets')
  <2> DEFINE n == Len(tickets')
  <2>1. /\ request[p].kind = "join"
        /\ request' = [request EXCEPT ![p].at = "enter", ![p].match = n]
    BY <1>4 DEF InsertTicket, Waits
  <2>2. n \in Nat
    BY <1>4 DEF InsertTicket, ServerTypes
  <2> HIDE DEF n
  <2>3. /\ RequestTypes' /\ OnlyRequest(p) /\ request'[p].kind = "join"
        /\ request'[p].at = "enter" /\ request'[p].match = n
    BY <2>1, <2>2, RequestMoved
  <2> QED
    BY <2>3 DEF n
<1>5. ASSUME EnterQueue(p)
      PROVE  /\ RequestTypes' /\ OnlyRequest(p) /\ request'[p].kind = "join"
             /\ request'[p].at = "ok"
  <2>1. /\ request[p].kind = "join"
        /\ request' = [request EXCEPT ![p].at = "ok", ![p].match = 0]
    BY <1>5 DEF EnterQueue, Waits
  <2> QED
    BY <1>1, <2>1, RequestMoved
<1>6. ASSUME CancelTicket(p)
      PROVE  /\ RequestTypes' /\ OnlyRequest(p) /\ request'[p].kind = "leave"
             /\ request'[p].at = "forget"
  <2>1. /\ request[p].kind = "leave" /\ request' = [request EXCEPT ![p].at = "forget"]
    BY <1>6 DEF CancelTicket, Waits, Answer
  <2> QED
    BY <1>1, <2>1, RequestMoved
<1>7. ASSUME LeaveQueue(p)
      PROVE  /\ RequestTypes' /\ OnlyRequest(p) /\ request'[p].kind = "leave"
             /\ request'[p].at = "ok"
  <2>1. /\ request[p].kind = "leave" /\ request' = [request EXCEPT ![p].at = "ok"]
    BY <1>7 DEF LeaveQueue, Waits, Answer
  <2> QED
    BY <1>1, <2>1, RequestMoved
<1>8. ASSUME ReportOutcome(p)
      PROVE  /\ RequestTypes' /\ OnlyRequest(p) /\ request'[p].kind = "report"
             /\ request'[p].match = request[p].match
             /\ request'[p].at = IF request[p].match \in MatchesOf(WalletOf[p], "live")
                                 THEN "ok" ELSE "error"
  <2> DEFINE at == IF request[p].match \in MatchesOf(WalletOf[p], "live")
                   THEN "ok" ELSE "error"
  <2>1. /\ request[p].kind = "report" /\ request' = [request EXCEPT ![p].at = at]
    BY <1>8 DEF ReportOutcome, Waits, Answer
  <2>2. at \in {"none", "start", "checked", "insert", "enter", "forget", "ok", "error"}
    OBVIOUS
  <2> HIDE DEF at
  <2>3. /\ RequestTypes' /\ OnlyRequest(p) /\ request'[p].kind = "report"
        /\ request'[p].match = request[p].match /\ request'[p].at = at
    BY <1>1, <2>1, <2>2, RequestMoved, ZenonT(40)
  <2> QED
    BY <2>3 DEF at
<1> QED
  BY <1>2, <1>3, <1>4, <1>5, <1>6, <1>7, <1>8

-----------------------------------------------------------------------------
(***************************************************************************)
(* The loop.                                                               *)
(***************************************************************************)
LEMMA TakenGroup ==
  ASSUME ServerTypes, NEW W \in SUBSET Wallets, NEW bot \in BOOLEAN
  PROVE  /\ Taken(W, bot) \in Groups
         /\ Taken(W, bot).wallets = W
         /\ \A w \in Wallets : Taken(W, bot).ticket[w] = queue[w]
  BY DEF ServerTypes, Taken, Groups

\* The loop takes entries: each group holds entries of the queue.
LEMMA TakePairEffect ==
  ASSUME ServerTypes, NEW a \in Wallets, NEW b \in Wallets, TakePair(a, b)
  PROVE  /\ tick' \in Ticks /\ tick'.at = "insert"
         /\ tick'.todo = <<Taken({a, b}, FALSE)>>
         /\ queue' \in [Wallets -> Nat]
         /\ \A w \in Wallets : queue'[w] = IF w \in {a, b} THEN 0 ELSE queue[w]
<1> DEFINE todo == <<Taken({a, b}, FALSE)>>
<1>1. todo \in Seq(Groups)
  <2>1. Taken({a, b}, FALSE) \in Groups
    BY TakenGroup
  <2> DEFINE g == Taken({a, b}, FALSE)
  <2>2. todo = <<g>> /\ g \in Groups
    BY <2>1
  <2> HIDE DEF g, todo
  <2> QED
    BY <2>2
<1>2. tick' = [NoTick EXCEPT !.at = "insert", !.todo = todo]
  BY DEF TakePair
<1>3. todo = <<Taken({a, b}, FALSE)>>
  OBVIOUS
<1> HIDE DEF todo
<1>4. tick' \in Ticks /\ tick'.at = "insert" /\ tick'.todo = todo
  BY <1>1, <1>2 DEF Ticks, NoTick
<1>5. /\ queue' \in [Wallets -> Nat]
      /\ \A w \in Wallets : queue'[w] = IF w \in {a, b} THEN 0 ELSE queue[w]
  BY DEF TakePair, ServerTypes
<1> QED
  BY <1>3, <1>4, <1>5

\* The entries that waited too long become bot groups, one player each.
LEMMA TakeStaleEffect ==
  ASSUME ServerTypes, NEW W \in SUBSET Wallets, TakeStale(W)
  PROVE  /\ tick' \in Ticks /\ tick'.at = "insert" /\ tick'.todo # <<>>
         /\ \A i \in DOMAIN tick'.todo : \E w \in W : tick'.todo[i] = Taken({w}, TRUE)
         /\ \A i, j \in DOMAIN tick'.todo :
              i # j => tick'.todo[i].wallets \cap tick'.todo[j].wallets = {}
         /\ queue' \in [Wallets -> Nat]
         /\ \A w \in Wallets : queue'[w] = IF w \in W THEN 0 ELSE queue[w]
<1> DEFINE S == {Taken({w}, TRUE) : w \in W}
<1>1. PICK order \in SetToSeqs(S) :
        tick' = [NoTick EXCEPT !.at = "insert", !.todo = order]
  BY DEF TakeStale
<1>2. \A w \in W : /\ Taken({w}, TRUE) \in Groups
                   /\ Taken({w}, TRUE).wallets = {w}
  BY TakenGroup
<1>3. S \subseteq Groups
  BY <1>2
<1>4. Cardinality(S) \in Nat /\ Cardinality(S) # 0
  <2>1. IsFiniteSet(W)
    BY QueueAssumption, FS_Subset
  <2>2. IsFiniteSet(S)
    <3> DEFINE f == [w \in W |-> Taken({w}, TRUE)]
    <3>1. f \in Surjection(W, S)
      BY DEF Surjection
    <3> HIDE DEF f, S
    <3> QED
      BY <2>1, <3>1, FS_Surjection
  <2>3. S # {}
    <3>1. PICK w \in W : TRUE
      BY DEF TakeStale
    <3>2. Taken({w}, TRUE) \in S
      BY <3>1
    <3> QED
      BY <3>2
  <2> HIDE DEF S
  <2> QED
    BY <2>2, <2>3, FS_CardinalityType, FS_EmptySet
<1>5. /\ order \in [1 .. Cardinality(S) -> S]
      /\ \A i, j \in 1 .. Cardinality(S) : i # j => order[i] # order[j]
  BY DEF SetToSeqs
<1>6. \A g \in S : \E w \in W : g = Taken({w}, TRUE) /\ g.wallets = {w}
  BY <1>2
<1> HIDE DEF S
<1>7. order \in Seq(Groups) /\ DOMAIN order = 1 .. Cardinality(S) /\ order # <<>>
  BY <1>3, <1>4, <1>5
<1>8. tick' \in Ticks /\ tick'.at = "insert" /\ tick'.todo = order
  BY <1>1, <1>7 DEF Ticks, NoTick
<1>9. \A i, j \in DOMAIN order : i # j => order[i].wallets \cap order[j].wallets = {}
  <2> SUFFICES ASSUME NEW i \in DOMAIN order, NEW j \in DOMAIN order, i # j
               PROVE  order[i].wallets \cap order[j].wallets = {}
    OBVIOUS
  <2>1. order[i] \in S /\ order[j] \in S /\ order[i] # order[j]
    BY <1>5, <1>7
  <2>2. PICK v \in W : order[i] = Taken({v}, TRUE) /\ order[i].wallets = {v}
    BY <1>6, <2>1
  <2>3. PICK w \in W : order[j] = Taken({w}, TRUE) /\ order[j].wallets = {w}
    BY <1>6, <2>1
  <2>4. v # w
    BY <2>1, <2>2, <2>3
  <2> QED
    BY <2>2, <2>3, <2>4
<1>10. /\ queue' \in [Wallets -> Nat]
       /\ \A w \in Wallets : queue'[w] = IF w \in W THEN 0 ELSE queue[w]
  BY DEF TakeStale, ServerTypes
<1>11. \A i \in DOMAIN order : \E w \in W : order[i] = Taken({w}, TRUE)
  BY <1>5, <1>6, <1>7
<1> QED
  BY <1>7, <1>8, <1>9, <1>10, <1>11

\* The next group, if there is one.
LEMMA NextGroupIs ==
  ASSUME ServerTypes, tick.todo # <<>>
  PROVE  /\ NextGroup \in Ticks
         /\ Head(tick.todo) \in Groups /\ Head(tick.todo) = tick.todo[1]
         /\ NextGroup.at \in {"idle", "insert"}
         /\ NextGroup.at = "idle" <=> NextGroup.todo = <<>>
         /\ \A i \in DOMAIN NextGroup.todo :
              i + 1 \in DOMAIN tick.todo /\ NextGroup.todo[i] = tick.todo[i + 1]
<1>1. tick.todo \in Seq(Groups) /\ Len(tick.todo) \in Nat \ {0}
  BY DEF ServerTypes, Ticks
<1>2. Head(tick.todo) \in Groups /\ Head(tick.todo) = tick.todo[1]
  BY <1>1
<1>3. CASE Len(tick.todo) = 1
  BY <1>2, <1>3 DEF NextGroup, NoTick, Ticks
<1>4. CASE Len(tick.todo) # 1
  <2>1. /\ Tail(tick.todo) \in Seq(Groups) /\ Tail(tick.todo) # <<>>
        /\ \A i \in DOMAIN Tail(tick.todo) :
             i + 1 \in DOMAIN tick.todo /\ Tail(tick.todo)[i] = tick.todo[i + 1]
    BY <1>1, <1>4, TailOf
  <2>2. NextGroup = [at |-> "insert", todo |-> Tail(tick.todo), match |-> 0]
    BY <1>4 DEF NextGroup
  <2> QED
    BY <1>2, <2>1, <2>2 DEF Ticks
<1> QED
  BY <1>3, <1>4

-----------------------------------------------------------------------------
(***************************************************************************)
(* The steps of a page, as far as the others are concerned.                *)
(***************************************************************************)
PageFrame(p) ==
  /\ UNCHANGED server
  /\ PageTypes' /\ OnlyPage(p) /\ OnlyRequest(p)
  /\ request'[p] = request[p] \/ request'[p].at \in {"none", "start", "error"}
  /\ \A o \in Pages \ {p} : /\ socket'[o] = socket[o]
                            /\ o \in behind' <=> o \in behind
                            /\ o \in unseen' <=> o \in unseen
  /\ tangled \subseteq tangled'

\* A page's own step touches no table of the server and no other page.
LEMMA PageStepFrame ==
  ASSUME ServerTypes, PageTypes, NEW p \in Pages, PageStep(p)
  PROVE  PageFrame(p)
<1> USE DEF server, history
<1>0. /\ RequestTypes /\ socket \in [Pages -> Sockets] /\ page \in [Pages -> Screens]
      /\ page[p] \in Screens /\ page[p].view \in Nat
  BY DEF PageTypes, Screens
<1>s. UNCHANGED request => RequestTypes' /\ OnlyRequest(p)
  BY <1>0 DEF RequestTypes, OnlyRequest
<1>p. UNCHANGED page => page' \in [Pages -> Screens] /\ OnlyPage(p)
  BY <1>0 DEF OnlyPage
<1>o. UNCHANGED socket => socket' \in [Pages -> Sockets]
  BY <1>0
<1>1. CASE Connect(p)
  BY <1>0, <1>1, <1>s, <1>o, ConnectEffect DEF Connect, PageFrame, PageTypes
<1>2. CASE Logout(p)
  <2>1. CloseSocket(p) /\ UNCHANGED <<server, request, unseen, tangled>>
    BY <1>2 DEF Logout
  <2> QED
    BY <1>0, <1>2, <1>s, <2>1, LogoutEffect, CloseEffect DEF PageFrame, PageTypes
<1>3. CASE OpenSocket(p)
  <2>1. /\ UNCHANGED <<server, request, history, page>>
        /\ socket' = [socket EXCEPT ![p].on = TRUE]
    BY <1>3 DEF OpenSocket
  <2>2. /\ socket' \in [Pages -> Sockets]
        /\ \A o \in Pages \ {p} : socket'[o] = socket[o]
    BY <1>0, <2>1 DEF Sockets
  <2> QED
    BY <1>0, <1>s, <1>p, <2>1, <2>2 DEF PageFrame, PageTypes
<1>4. CASE LoseSocket(p)
  <2>1. CloseSocket(p) /\ UNCHANGED <<server, request, unseen, tangled, page>>
    BY <1>4 DEF LoseSocket
  <2> QED
    BY <1>0, <1>s, <1>p, <2>1, CloseEffect DEF PageFrame, PageTypes
<1>5. CASE Reload(p)
  <2>1. /\ CloseSocket(p) /\ UNCHANGED server
        /\ request' = [request EXCEPT ![p] = NoRequest]
        /\ unseen' = unseen \cup {p} /\ tangled \subseteq tangled'
    BY <1>5 DEF Reload
  <2>2. RequestTypes' /\ request'[p] = NoRequest /\ OnlyRequest(p)
    BY <1>0, <2>1, NoRequestEffect
  <2> QED
    BY <1>0, <1>5, <2>1, <2>2, ReloadEffect, CloseEffect
    DEF PageFrame, PageTypes, NoRequest
<1>6. ASSUME NEW i \in DOMAIN page[p].me, ReadLive(p, i)
      PROVE  PageFrame(p)
  <2>1. UNCHANGED <<server, request, socket, unseen, tangled>>
    BY <1>6 DEF ReadLive
  <2> QED
    BY <1>0, <1>6, <1>s, <1>o, <2>1, ReadLiveEffect DEF PageFrame, PageTypes
<1>7. ASSUME NEW i \in DOMAIN page[p].me, ReadTicket(p, i)
      PROVE  PageFrame(p)
  <2>1. UNCHANGED <<server, request, socket, history>>
    BY <1>7 DEF ReadTicket
  <2> QED
    BY <1>0, <1>7, <1>s, <1>o, <2>1, ReadTicketEffect DEF PageFrame, PageTypes
<1>8. ASSUME NEW i \in DOMAIN page[p].me, ApplyMe(p, i)
      PROVE  PageFrame(p)
  <2>1. /\ UNCHANGED <<server, request, unseen, tangled>>
        /\ behind' = behind \cup {p} \/ behind' = behind
        /\ \/ socket' = [socket EXCEPT ![p] = [on |-> FALSE, inbox |-> <<>>]]
           \/ socket' = socket
    <3>1. UNCHANGED <<server, request, unseen, tangled>>
      BY <1>8, Zenon DEF ApplyMe
    <3>2. behind' = behind \cup {p} \/ behind' = behind
      BY <1>8, Zenon DEF ApplyMe
    <3>3. \/ socket' = [socket EXCEPT ![p] = [on |-> FALSE, inbox |-> <<>>]]
          \/ socket' = socket
      BY <1>8, Zenon DEF ApplyMe
    <3> QED
      BY <3>1, <3>2, <3>3
  <2>2. /\ socket' \in [Pages -> Sockets]
        /\ \A o \in Pages \ {p} : socket'[o] = socket[o]
    <3>1. [on |-> FALSE, inbox |-> <<>>] \in Sockets
      BY DEF Sockets
    <3> QED
      BY <1>0, <2>1, <3>1
  <2>3. OnlyPage(p) /\ page' \in [Pages -> Screens]
    BY <1>8, ApplyMeEffect, Zenon
  <2> QED
    BY <1>0, <1>s, <2>1, <2>2, <2>3 DEF PageFrame, PageTypes
<1>9. CASE Queue(p) \/ Leave(p) \/ Report(p)
  <2>1. \E kind \in {"join", "leave", "report"}, match \in Nat : Ask(p, kind, match)
    BY <1>0, <1>9 DEF Queue, Leave, Report
  <2>2. PICK kind \in {"join", "leave", "report"}, match \in Nat : Ask(p, kind, match)
    BY <2>1
  <2>3. UNCHANGED <<server, socket, history, page>>
    BY <2>2 DEF Ask
  <2>4. /\ RequestTypes' /\ OnlyRequest(p)
        /\ request'[p].at \in {"start", "error"}
    BY <1>0, <2>2, AskEffect
  <2> QED
    BY <1>0, <1>p, <1>o, <2>3, <2>4 DEF PageFrame, PageTypes
<1>10. CASE SelectGame(p)
  <2>1. UNCHANGED <<server, request, socket, history>>
    BY <1>10 DEF SelectGame
  <2> QED
    BY <1>0, <1>10, <1>s, <1>o, <2>1, SelectGameEffect DEF PageFrame, PageTypes
<1>11. CASE PlayedAgain(p)
  <2>1. /\ UNCHANGED <<server, request, socket, behind, tangled>>
        /\ unseen' = unseen \cup {p}
    BY <1>11 DEF PlayedAgain
  <2> QED
    BY <1>0, <1>11, <1>s, <1>o, <2>1, PlayedAgainEffect DEF PageFrame, PageTypes
<1>12. CASE ApplyAnswer(p)
  <2>1. /\ UNCHANGED <<server, socket, unseen, tangled>>
        /\ behind' = behind \cup {p} \/ behind' = behind
        /\ request' = [request EXCEPT ![p] = NoRequest]
    BY <1>12 DEF ApplyAnswer
  <2>2. RequestTypes' /\ request'[p] = NoRequest /\ OnlyRequest(p)
    BY <1>0, <2>1, NoRequestEffect
  <2> QED
    BY <1>0, <1>12, <1>o, <2>1, <2>2, AnswerEffect DEF PageFrame, PageTypes, NoRequest
<1>13. CASE HandleEvent(p)
  <2>1. /\ UNCHANGED <<server, request, tangled>>
        /\ behind' = behind \cup {p} \/ behind' = behind
        /\ unseen' = unseen \ {p} \/ unseen' = unseen
        /\ page' = OnEvent(p, Head(socket[p].inbox))
    BY <1>13 DEF HandleEvent
  <2>2. OnlyPage(p) /\ page' \in [Pages -> Screens]
    BY <1>13, <2>1, HandledEffect, EventEffect
  <2> QED
    BY <1>0, <1>13, <1>s, <2>1, <2>2, HandledEffect DEF PageFrame, PageTypes
<1> QED
  BY <1>1, <1>2, <1>3, <1>4, <1>5, <1>6, <1>7, <1>8, <1>9, <1>10, <1>11, <1>12, <1>13
  DEF PageStep

-----------------------------------------------------------------------------
(***************************************************************************)
(* The ends of a match.                                                    *)
(***************************************************************************)
\* Match m is in this state with these reports now; nothing else changed.
MatchIs(m, state, reports) ==
  /\ matches' \in Seq(MatchRows) /\ DOMAIN matches' = DOMAIN matches
  /\ \A k \in DOMAIN matches : matches'[k].players = matches[k].players
  /\ matches'[m].state = state /\ matches'[m].reports = reports
  /\ \A k \in DOMAIN matches \ {m} : matches'[k] = matches[k]

EndEvents == {<<"agreed", "match_result">>, <<"disputed", "disputed">>,
              <<"cancelled", "cancelled">>}

\* A report is refused or repeated, adds a name, or ends the match and tells
\* its players.
LEMMA ReportEffect ==
  ASSUME ServerTypes, RequestTypes, NEW p \in Pages, ReportOutcome(p)
  PROVE  LET w == WalletOf[p]
             m == request[p].match
             all == matches[m].reports \cup {w}
         IN
         /\ UNCHANGED <<tickets, queue, tick, unseen, tangled>>
         /\ \/ /\ UNCHANGED <<matches, socket, behind>>
               /\ m \in MatchesOf(w, "live") => w \in matches[m].reports
            \/ /\ m \in MatchesOf(w, "live")
               /\ MatchIs(m, "live", all)
               /\ behind' = behind \cup Siblings(p) /\ UNCHANGED socket
            \/ /\ m \in MatchesOf(w, "live")
               /\ \E e \in EndEvents :
                    /\ e[1] # "cancelled"
                    /\ MatchIs(m, e[1], all)
                    /\ Send(matches[m].players, [type |-> e[2], match |-> m])
<1> DEFINE w == WalletOf[p]
           m == request[p].match
           all == matches[m].reports \cup {w}
<1>1. UNCHANGED <<tickets, queue, tick, unseen, tangled>>
  BY DEF ReportOutcome
<1>2. CASE m \notin MatchesOf(w, "live")
  BY <1>1, <1>2 DEF ReportOutcome
<1>3. CASE m \in MatchesOf(w, "live")
  <2>1. m \in DOMAIN matches /\ matches[m].state = "live" /\ matches[m] \in MatchRows
    BY <1>3 DEF MatchesOf, ServerTypes
  <2>2. w \in Wallets
    BY QueueAssumption
  <2>3. all \in SUBSET Wallets
    BY <2>1, <2>2 DEF MatchRows
  <2>4. CASE w \in matches[m].reports /\ UNCHANGED <<matches, socket, behind>>
    BY <1>1, <2>4
  <2>5. CASE /\ matches' = [matches EXCEPT ![m].reports = all]
             /\ behind' = behind \cup Siblings(p) /\ UNCHANGED socket
    <3>1. MatchIs(m, "live", all)
      <4> HIDE DEF all, m
      <4> QED
        BY <2>1, <2>3, <2>5, MatchChanged DEF MatchIs
    <3> QED
      BY <1>1, <1>3, <2>5, <3>1
  <2>6. ASSUME NEW e \in EndEvents, e[1] # "cancelled",
               matches' = [matches EXCEPT ![m].reports = all, ![m].state = e[1]],
               Send(matches[m].players, [type |-> e[2], match |-> m])
        PROVE  MatchIs(m, e[1], all)
    <3>1. e[1] \in {"live", "agreed", "disputed", "cancelled"}
      BY DEF EndEvents
    <3> DEFINE state == e[1]
    <3>2. /\ state \in {"live", "agreed", "disputed", "cancelled"}
          /\ matches' = [matches EXCEPT ![m].reports = all, ![m].state = state]
      BY <2>6, <3>1
    <3> HIDE DEF all, m, state
    <3>3. MatchIs(m, state, all)
      BY <2>1, <2>3, <3>2, MatchChanged DEF MatchIs
    <3> QED
      BY <3>3 DEF state
  <2>7. \/ w \in matches[m].reports /\ UNCHANGED <<matches, socket, behind>>
        \/ /\ matches' = [matches EXCEPT ![m].reports = all]
           /\ behind' = behind \cup Siblings(p) /\ UNCHANGED socket
        \/ \E e \in EndEvents :
             /\ e[1] # "cancelled"
             /\ matches' = [matches EXCEPT ![m].reports = all, ![m].state = e[1]]
             /\ Send(matches[m].players, [type |-> e[2], match |-> m])
    <3>1. <<"agreed", "match_result">> \in EndEvents /\ <<"disputed", "disputed">> \in EndEvents
      BY DEF EndEvents
    <3>2. <<"agreed", "match_result">>[1] = "agreed" /\ <<"agreed", "match_result">>[2] = "match_result"
          /\ <<"disputed", "disputed">>[1] = "disputed" /\ <<"disputed", "disputed">>[2] = "disputed"
      OBVIOUS
    <3> QED
      BY <1>3, <3>1, <3>2, Zenon DEF ReportOutcome
  <2> HIDE DEF all
  <2> QED
    BY <1>1, <1>3, <2>4, <2>5, <2>6, <2>7 DEF all
<1> QED
  BY <1>2, <1>3

\* The sweep and the operator end a match and tell its players.
LEMMA EndEffect ==
  ASSUME ServerTypes, NEW m \in DOMAIN matches, EndMatch(m)
  PROVE  /\ UNCHANGED <<tickets, queue, tick, request, unseen, tangled>>
         /\ tick.match # m
         /\ \A p \in PagesOf(matches[m].players) : socket[p].inbox = <<>>
         /\ matches[m].state \in {"live", "disputed"}
         /\ \E e \in EndEvents :
              /\ e[1] # "disputed"
              /\ MatchIs(m, e[1], matches[m].reports)
              /\ Send(matches[m].players, [type |-> e[2], match |-> m])
<1>1. /\ UNCHANGED <<tickets, queue, tick, request, unseen, tangled>>
      /\ tick.match # m
      /\ \A p \in PagesOf(matches[m].players) : socket[p].inbox = <<>>
      /\ matches[m].state \in {"live", "disputed"}
  BY DEF EndMatch
<1>2. \E e \in EndEvents :
        /\ e[1] # "disputed"
        /\ matches' = [matches EXCEPT ![m].state = e[1]]
        /\ Send(matches[m].players, [type |-> e[2], match |-> m])
  <2>1. <<"agreed", "match_result">> \in EndEvents /\ <<"cancelled", "cancelled">> \in EndEvents
    BY DEF EndEvents
  <2>2. <<"agreed", "match_result">>[1] = "agreed" /\ <<"agreed", "match_result">>[2] = "match_result"
        /\ <<"cancelled", "cancelled">>[1] = "cancelled" /\ <<"cancelled", "cancelled">>[2] = "cancelled"
    OBVIOUS
  <2> QED
    BY <2>1, <2>2, Zenon DEF EndMatch
<1>3. PICK e \in EndEvents :
        /\ e[1] # "disputed"
        /\ matches' = [matches EXCEPT ![m].state = e[1]]
        /\ Send(matches[m].players, [type |-> e[2], match |-> m])
  BY <1>2
<1>4. MatchIs(m, e[1], matches[m].reports)
  <2> DEFINE state == e[1]
             reports == matches[m].reports
  <2>1. state \in {"live", "agreed", "disputed", "cancelled"}
    BY DEF EndEvents
  <2>2. matches[m] \in MatchRows
    BY DEF ServerTypes
  <2>3. reports \in SUBSET Wallets
    BY <2>2 DEF MatchRows
  <2>4. matches' = [matches EXCEPT ![m].state = state] /\ reports = matches[m].reports
    BY <1>3
  <2> HIDE DEF state, reports
  <2>5. MatchIs(m, state, reports)
    <3>1. /\ matches' \in Seq(MatchRows) /\ DOMAIN matches' = DOMAIN matches
          /\ \A k \in DOMAIN matches : matches'[k].players = matches[k].players
          /\ matches'[m].state = state /\ matches'[m].reports = reports
          /\ \A k \in DOMAIN matches \ {m} : matches'[k] = matches[k]
      <4>1. \/ matches' = [matches EXCEPT ![m].reports = reports, ![m].state = state]
            \/ /\ matches' = [matches EXCEPT ![m].reports = reports]
               /\ state = matches[m].state
            \/ /\ matches' = [matches EXCEPT ![m].state = state]
               /\ reports = matches[m].reports
        BY <2>4
      <4>2. m \in DOMAIN matches /\ ServerTypes
        OBVIOUS
      <4> QED
        BY <2>1, <2>3, <4>1, <4>2, MatchChanged
    <3> QED
      BY <3>1, Zenon DEF MatchIs
  <2> QED
    BY <2>5 DEF state, reports
<1> QED
  BY <1>1, <1>3, <1>4

-----------------------------------------------------------------------------
(***************************************************************************)
(* Types.                                                                  *)
(***************************************************************************)
LEMMA RequestTypesKept ==
  ASSUME RequestTypes, UNCHANGED request
  PROVE  RequestTypes'
  BY DEF RequestTypes

\* The events sent when a match ends are well formed.
LEMMA EventTyped ==
  ASSUME NEW e \in EndEvents, NEW m \in Nat
  PROVE  [type |-> e[2], match |-> m] \in Notices
<1>1. e[2] \in {"match_found", "match_result", "disputed", "cancelled"}
  BY DEF EndEvents
<1> QED
  BY <1>1 DEF Notices

\* A group that goes back replaces its own players' entries.
LEMMA RejoinEffect ==
  ASSUME ServerTypes, NEW g \in Groups, Rejoin(g)
  PROVE  /\ queue' \in [Wallets -> Nat]
         /\ \A w \in Wallets :
              queue'[w] = IF w \in g.wallets THEN g.ticket[w] ELSE queue[w]
  BY DEF ServerTypes, Groups, Rejoin

\* A match is stored for the first group, or the group goes back.
LEMMA InsertMatchEffect ==
  ASSUME ServerTypes, TickInv, InsertMatch
  PROVE  LET g == Head(tick.todo) IN
         /\ tick.at = "insert" /\ tick.todo # <<>>
         /\ g \in Groups /\ g = tick.todo[1] /\ 1 \in DOMAIN tick.todo
         /\ UNCHANGED <<tickets, request, socket, behind>>
         /\ \/ /\ matches' = Append(matches, [players |-> g.wallets, bot |-> g.bot,
                                              state |-> "live", reports |-> {}])
               /\ tick' \in Ticks /\ tick'.at = "mark" /\ tick'.todo = tick.todo
               /\ tick'.match = Len(matches')
               /\ tangled' = tangled \cup {w \in g.wallets : Overlaps(w, g.ticket[w])}
               /\ unseen' = unseen \cup PagesOf(g.wallets)
               /\ UNCHANGED queue
            \/ /\ Rejoin(g) /\ tick' = NextGroup
               /\ UNCHANGED <<matches, unseen, tangled>>
<1> DEFINE g == Head(tick.todo)
<1>1. tick.at = "insert" /\ tick.todo # <<>>
  BY DEF InsertMatch, TickInv
<1>2. g \in Groups /\ g = tick.todo[1] /\ 1 \in DOMAIN tick.todo
  BY <1>1, TailOf DEF ServerTypes, Ticks
<1>3. UNCHANGED <<tickets, request, socket, behind>>
  BY DEF InsertMatch
<1>4. \/ /\ matches' = Append(matches, [players |-> g.wallets, bot |-> g.bot,
                                        state |-> "live", reports |-> {}])
         /\ tick' = [tick EXCEPT !.at = "mark", !.match = Len(matches')]
         /\ tangled' = tangled \cup {w \in g.wallets : Overlaps(w, g.ticket[w])}
         /\ unseen' = unseen \cup PagesOf(g.wallets)
         /\ UNCHANGED queue
      \/ /\ Rejoin(g) /\ tick' = NextGroup
         /\ UNCHANGED <<matches, unseen, tangled>>
  BY Zenon DEF InsertMatch
<1>5. ASSUME matches' = Append(matches, [players |-> g.wallets, bot |-> g.bot,
                                         state |-> "live", reports |-> {}]),
             tick' = [tick EXCEPT !.at = "mark", !.match = Len(matches')]
      PROVE  /\ tick' \in Ticks /\ tick'.at = "mark" /\ tick'.todo = tick.todo
             /\ tick'.match = Len(matches')
  <2> DEFINE n == Len(matches')
  <2>1. n \in Nat
    BY <1>2, <1>5, MatchInserted
  <2>2. tick' = [tick EXCEPT !.at = "mark", !.match = n] /\ tick \in Ticks
    BY <1>5 DEF ServerTypes
  <2> HIDE DEF n
  <2>3. /\ tick' \in Ticks /\ tick'.at = "mark" /\ tick'.todo = tick.todo
        /\ tick'.match = n
    BY <2>1, <2>2 DEF Ticks
  <2> QED
    BY <2>3 DEF n
<1> HIDE DEF g
<1> QED
  BY <1>1, <1>2, <1>3, <1>4, <1>5 DEF g

\* The group's tickets are marked and the match announced, or the group goes
\* back.
LEMMA MarkTicketsEffect ==
  ASSUME ServerTypes, TickInv, MarkTickets
  PROVE  LET g == Head(tick.todo) IN
         /\ tick.at = "mark" /\ tick.todo # <<>>
         /\ g \in Groups /\ g = tick.todo[1] /\ 1 \in DOMAIN tick.todo
         /\ UNCHANGED <<matches, request, unseen>>
         /\ [type |-> "match_found", match |-> tick.match] \in Notices
         /\ \/ /\ tickets' = [t \in DOMAIN tickets |->
                    IF \E w \in g.wallets : g.ticket[w] = t
                    THEN [tickets[t] EXCEPT !.status = "matched"] ELSE tickets[t]]
               /\ Send(g.wallets, [type |-> "match_found", match |-> tick.match])
               /\ tick' \in Ticks
               /\ \/ tick' = NextGroup
                  \/ tick'.at = "close" /\ tick'.todo = tick.todo
               /\ UNCHANGED <<queue, tangled>>
            \/ /\ Rejoin(g) /\ tick' = NextGroup
               /\ tangled' = tangled \cup g.wallets
               /\ behind' = behind \cup PagesOf(g.wallets)
               /\ UNCHANGED <<tickets, socket>>
<1> DEFINE g == Head(tick.todo)
<1>1. tick.at = "mark" /\ tick.todo # <<>>
  BY DEF MarkTickets, TickInv
<1>2. g \in Groups /\ g = tick.todo[1] /\ 1 \in DOMAIN tick.todo
  BY <1>1, TailOf DEF ServerTypes, Ticks
<1>3. UNCHANGED <<matches, request, unseen>>
  BY DEF MarkTickets
<1>4. [type |-> "match_found", match |-> tick.match] \in Notices
  BY DEF ServerTypes, Ticks, Notices
<1>5. \/ /\ tickets' = [t \in DOMAIN tickets |->
              IF \E w \in g.wallets : g.ticket[w] = t
              THEN [tickets[t] EXCEPT !.status = "matched"] ELSE tickets[t]]
         /\ Send(g.wallets, [type |-> "match_found", match |-> tick.match])
         /\ tick' = IF g.bot THEN [tick EXCEPT !.at = "close"] ELSE NextGroup
         /\ UNCHANGED <<queue, tangled>>
      \/ /\ Rejoin(g) /\ tick' = NextGroup
         /\ tangled' = tangled \cup g.wallets
         /\ behind' = behind \cup PagesOf(g.wallets)
         /\ UNCHANGED <<tickets, socket>>
  BY Zenon DEF MarkTickets
<1>6. ASSUME tick' = IF g.bot THEN [tick EXCEPT !.at = "close"] ELSE NextGroup
      PROVE  /\ tick' \in Ticks
             /\ \/ tick' = NextGroup
                \/ tick'.at = "close" /\ tick'.todo = tick.todo
  <2>1. NextGroup \in Ticks
    BY <1>1, NextGroupIs
  <2>2. CASE g.bot
    BY <1>6, <2>2 DEF ServerTypes, Ticks
  <2>3. CASE ~g.bot
    BY <1>6, <2>1, <2>3
  <2> QED
    BY <2>2, <2>3
<1> HIDE DEF g
<1> QED
  BY <1>1, <1>2, <1>3, <1>4, <1>5, <1>6 DEF g

\* After a bot match a queued ticket of the player may be cancelled.
LEMMA CloseTicketEffect ==
  ASSUME ServerTypes, TickInv, CloseTicket
  PROVE  /\ tick.at = "close" /\ tick.todo # <<>>
         /\ UNCHANGED <<queue, matches, request, socket, behind, unseen>>
         /\ \/ tick' = NextGroup /\ UNCHANGED <<tickets, tangled>>
            \/ /\ tick' = NextGroup
               /\ \E w \in Wallets : \E t \in TicketsOf(w, "queued") :
                    /\ tickets' = [tickets EXCEPT ![t].status = "cancelled"]
                    /\ tangled' = tangled \cup {w}
            \/ tick' = NoTick /\ UNCHANGED tickets /\ tangled \subseteq tangled'
<1> DEFINE ws == Head(tick.todo).wallets
           w == CHOOSE x \in ws : TRUE
<1>1. tick.at = "close" /\ tick.todo # <<>>
  BY DEF CloseTicket, TickInv
<1>2. w \in Wallets
  <2>1. Head(tick.todo) \in Groups /\ Head(tick.todo) = tick.todo[1] /\ 1 \in DOMAIN tick.todo
    BY <1>1, TailOf DEF ServerTypes, Ticks
  <2>2. ws # {} /\ ws \subseteq Wallets
    BY <2>1 DEF TickInv, Groups
  <2> QED
    BY <2>2
<1>3. UNCHANGED <<queue, matches, request, socket, behind, unseen>>
  BY DEF CloseTicket
<1>4. \/ tick' = NextGroup /\ UNCHANGED <<tickets, tangled>>
      \/ /\ tick' = NextGroup
         /\ \E t \in TicketsOf(w, "queued") :
              /\ tickets' = [tickets EXCEPT ![t].status = "cancelled"]
              /\ tangled' = tangled \cup {w}
      \/ tick' = NoTick /\ UNCHANGED tickets /\ tangled \subseteq tangled'
  BY DEF CloseTicket
<1> HIDE DEF w
<1> QED
  BY <1>1, <1>2, <1>3, <1>4

\* A restart empties sockets, requests and the loop and builds the queue from
\* the tickets.
LEMMA RestartEffect ==
  ASSUME ServerTypes, RequestTypes, Restart
  PROVE  /\ UNCHANGED <<tickets, matches, unseen>>
         /\ queue' \in [Wallets -> Nat]
         /\ \A w \in Wallets : queue'[w] = Newest(TicketsOf(w, "queued"))
         /\ tick' = NoTick /\ NoTick \in Ticks
         /\ tangled' = tangled \cup
              IF tick.at = "mark" THEN Head(tick.todo).wallets ELSE {}
         /\ behind' = behind
              \cup {p \in Pages : socket[p].inbox # <<>> \/ request[p].kind # "none"}
              \cup IF tick.at = "mark" THEN PagesOf(Head(tick.todo).wallets) ELSE {}
         /\ RequestTypes'
         /\ \A p \in Pages : IF request[p].kind = "none" THEN request'[p] = NoRequest
                             ELSE request'[p].at = "error" /\ request'[p].match = 0
         /\ socket' \in [Pages -> Sockets]
         /\ \A p \in Pages : socket'[p].inbox = <<>> /\ ~socket'[p].on
<1>1. /\ UNCHANGED <<tickets, matches, unseen>> /\ tick' = NoTick
      /\ tangled' = tangled \cup
           IF tick.at = "mark" THEN Head(tick.todo).wallets ELSE {}
      /\ behind' = behind
           \cup {p \in Pages : socket[p].inbox # <<>> \/ request[p].kind # "none"}
           \cup IF tick.at = "mark" THEN PagesOf(Head(tick.todo).wallets) ELSE {}
  BY DEF Restart
<1>2. NoTick \in Ticks
  BY DEF NoTick, Ticks
<1>3. /\ queue' \in [Wallets -> Nat]
      /\ \A w \in Wallets : queue'[w] = Newest(TicketsOf(w, "queued"))
  <2>1. \A w \in Wallets : Newest(TicketsOf(w, "queued")) \in Nat
    BY NewestLast DEF ServerTypes, TicketsOf
  <2> QED
    BY <2>1 DEF Restart, Rehydrated
<1>4. /\ socket' \in [Pages -> Sockets]
      /\ \A p \in Pages : socket'[p].inbox = <<>> /\ ~socket'[p].on
  <2>1. [on |-> FALSE, inbox |-> <<>>] \in Sockets
    BY DEF Sockets
  <2> QED
    BY <2>1 DEF Restart
<1>5. ASSUME NEW p \in Pages
      PROVE  /\ request'[p] \in Asks
             /\ request'[p].kind = "none" => request'[p] = NoRequest
             /\ IF request[p].kind = "none" THEN request'[p] = NoRequest
                ELSE request'[p].at = "error" /\ request'[p].match = 0
  <2>1. request[p] \in Asks
    BY DEF RequestTypes
  <2>2. CASE request[p].kind = "none"
    <3>1. request'[p] = NoRequest
      BY <2>2 DEF Restart
    <3> QED
      BY <2>2, <3>1 DEF NoRequest, Asks
  <2>3. CASE request[p].kind # "none"
    <3> DEFINE r == [request[p] EXCEPT !.at = "error", !.match = 0]
    <3>1. request'[p] = r
      BY <2>3 DEF Restart
    <3>2. r \in Asks /\ r.kind = request[p].kind /\ r.at = "error" /\ r.match = 0
      BY <2>1 DEF Asks
    <3> HIDE DEF r
    <3> QED
      BY <2>3, <3>1, <3>2
  <2> QED
    BY <2>2, <2>3
<1>6. RequestTypes'
  <2>1. request' = [p \in Pages |-> request'[p]]
    BY DEF Restart
  <2> QED
    BY <1>5, <2>1 DEF RequestTypes
<1> QED
  BY <1>1, <1>2, <1>3, <1>4, <1>5, <1>6

\* Steps that leave the server's tables alone keep their shape.
LEMMA ServerTypesKept ==
  ASSUME ServerTypes, UNCHANGED server
  PROVE  ServerTypes'
  BY DEF ServerTypes, server

\* Leaving cancels at most one queued ticket, of the page's own player.
LEMMA CancelEffect ==
  ASSUME ServerTypes, NEW p \in Pages, CancelTicket(p)
  PROVE  LET w == WalletOf[p] IN
         /\ w \in Wallets
         /\ UNCHANGED <<queue, matches, tick, socket, unseen, tangled>>
         /\ tickets' \in Seq(TicketRows) /\ TicketsKept
         /\ TicketsOf(w, "queued")' \subseteq TicketsOf(w, "queued")
         /\ \A v \in Wallets \ {w} : TicketsOf(v, "queued")' = TicketsOf(v, "queued")
         /\ \/ /\ TicketsOf(w, "queued") = {} /\ UNCHANGED <<tickets, behind>>
            \/ /\ \E t \in TicketsOf(w, "queued") :
                    TicketsOf(w, "queued")' = TicketsOf(w, "queued") \ {t}
               /\ behind' = behind \cup Siblings(p)
<1> DEFINE w == WalletOf[p]
<1>1. w \in Wallets
  BY QueueAssumption
<1>2. UNCHANGED <<queue, matches, tick, socket, unseen, tangled>>
  BY DEF CancelTicket
<1>3. \/ TicketsOf(w, "queued") = {} /\ UNCHANGED <<tickets, behind>>
      \/ \E t \in TicketsOf(w, "queued") :
           /\ tickets' = [tickets EXCEPT ![t].status = "cancelled"]
           /\ behind' = behind \cup Siblings(p)
  BY DEF CancelTicket
<1>4. CASE TicketsOf(w, "queued") = {} /\ UNCHANGED <<tickets, behind>>
  <2>1. TicketsKept /\ tickets' \in Seq(TicketRows)
    BY <1>4 DEF TicketsKept, IsTicketOf, ServerTypes
  <2>2. \A v : TicketsOf(v, "queued")' = TicketsOf(v, "queued")
    BY <1>4 DEF TicketsOf
  <2> QED
    BY <1>1, <1>2, <1>4, <2>1, <2>2
<1>5. ASSUME NEW t \in TicketsOf(w, "queued"),
             tickets' = [tickets EXCEPT ![t].status = "cancelled"],
             behind' = behind \cup Siblings(p)
      PROVE  /\ tickets' \in Seq(TicketRows) /\ TicketsKept
             /\ TicketsOf(w, "queued")' = TicketsOf(w, "queued") \ {t}
             /\ \A v \in Wallets \ {w} : TicketsOf(v, "queued")' = TicketsOf(v, "queued")
  BY <1>1, <1>5, TicketCancelled
<1> QED
  BY <1>1, <1>2, <1>3, <1>4, <1>5

\* Joining adds one queued ticket, of the page's own player.
LEMMA InsertEffect ==
  ASSUME ServerTypes, NEW p \in Pages, InsertTicket(p)
  PROVE  LET w == WalletOf[p] IN
         /\ w \in Wallets
         /\ UNCHANGED <<queue, matches, tick, socket, unseen, budget>>
         /\ tickets' \in Seq(TicketRows) /\ TicketsKept
         /\ IsTicketOf(w, Len(tickets))'
         /\ TicketsOf(w, "queued")' = TicketsOf(w, "queued") \cup {Len(tickets) + 1}
         /\ \A v \in Wallets \ {w} : TicketsOf(v, "queued")' = TicketsOf(v, "queued")
         /\ behind' = behind \cup {o \in PagesOf({w}) : o # p \/ socket[o].inbox # <<>>}
         /\ tangled' = IF TicketsOf(w, "queued") # {} THEN tangled \cup {w} ELSE tangled
<1>1. WalletOf[p] \in Wallets
  BY QueueAssumption
<1>2. tickets' = Append(tickets, [wallet |-> WalletOf[p], status |-> "queued"])
  BY DEF InsertTicket
<1>3. /\ UNCHANGED <<queue, matches, tick, socket, unseen, budget>>
      /\ behind' = behind \cup {o \in PagesOf({WalletOf[p]}) : o # p \/ socket[o].inbox # <<>>}
      /\ tangled' = IF TicketsOf(WalletOf[p], "queued") # {}
                    THEN tangled \cup {WalletOf[p]} ELSE tangled
  BY DEF InsertTicket
<1> DEFINE w == WalletOf[p]
<1>4. /\ tickets' \in Seq(TicketRows) /\ TicketsKept
      /\ IsTicketOf(w, Len(tickets))'
      /\ TicketsOf(w, "queued")' = TicketsOf(w, "queued") \cup {Len(tickets) + 1}
      /\ \A v \in Wallets \ {w} : TicketsOf(v, "queued")' = TicketsOf(v, "queued")
  <2>1. w \in Wallets /\ tickets' = Append(tickets, [wallet |-> w, status |-> "queued"])
    BY <1>1, <1>2
  <2> HIDE DEF w
  <2> QED
    BY <2>1, TicketInserted
<1> QED
  BY <1>1, <1>3, <1>4

\* Every step keeps the types.
LEMMA TypesStep ==
  ASSUME ServerTypes, PageTypes, TicketInv, TickInv, Next
  PROVE  ServerTypes' /\ PageTypes'
<1> USE DEF server, history
<1>0. RequestTypes /\ socket \in [Pages -> Sockets] /\ page \in [Pages -> Screens]
  BY DEF PageTypes
<1>s. /\ tickets \in Seq(TicketRows) /\ queue \in [Wallets -> Nat]
      /\ matches \in Seq(MatchRows) /\ tick \in Ticks
  BY DEF ServerTypes
<1>1. ASSUME NEW p \in Pages, PageStep(p)
      PROVE  ServerTypes' /\ PageTypes'
  BY <1>1, PageStepFrame, ServerTypesKept DEF PageFrame
<1>2. ASSUME NEW p \in Pages, RequestStep(p), UNCHANGED page
      PROVE  ServerTypes' /\ PageTypes'
  <2>1. CASE JoinCheckLive(p)
    <3>1. UNCHANGED <<server, socket>>
      BY <2>1 DEF JoinCheckLive
    <3> QED
      BY <1>0, <1>2, <2>1, <3>1, RequestStepEffect, ServerTypesKept DEF PageTypes
  <2>2. CASE JoinCheckTicket(p)
    <3>1. UNCHANGED <<server, socket>>
      BY <2>2 DEF JoinCheckTicket
    <3> QED
      BY <1>0, <1>2, <2>2, <3>1, RequestStepEffect, ServerTypesKept DEF PageTypes
  <2>3. CASE InsertTicket(p)
    <3>1. UNCHANGED <<queue, matches, tick, socket>> /\ tickets' \in Seq(TicketRows)
      BY <2>3, InsertEffect
    <3> QED
      BY <1>0, <1>s, <1>2, <2>3, <3>1, RequestStepEffect DEF PageTypes, ServerTypes
  <2>4. CASE EnterQueue(p)
    <3>1. UNCHANGED <<tickets, matches, tick, socket>>
      BY <2>4 DEF EnterQueue
    <3>2. queue' \in [Wallets -> Nat]
      BY <1>0, <1>s, <2>4 DEF EnterQueue, RequestTypes, Asks
    <3> QED
      BY <1>0, <1>s, <1>2, <2>4, <3>1, <3>2, RequestStepEffect DEF PageTypes, ServerTypes
  <2>5. CASE CancelTicket(p)
    <3>1. UNCHANGED <<queue, matches, tick, socket>> /\ tickets' \in Seq(TicketRows)
      BY <2>5, CancelEffect
    <3> QED
      BY <1>0, <1>s, <1>2, <2>5, <3>1, RequestStepEffect DEF PageTypes, ServerTypes
  <2>6. CASE LeaveQueue(p)
    <3>1. UNCHANGED <<tickets, matches, tick, socket>>
      BY <2>6 DEF LeaveQueue
    <3>2. queue' \in [Wallets -> Nat]
      BY <1>s, <2>6 DEF LeaveQueue
    <3> QED
      BY <1>0, <1>s, <1>2, <2>6, <3>1, <3>2, RequestStepEffect DEF PageTypes, ServerTypes
  <2>7. CASE ReportOutcome(p)
    <3> DEFINE m == request[p].match
    <3>1. UNCHANGED <<tickets, queue, tick>>
      BY <1>0, <2>7, ReportEffect
    <3>2. matches' \in Seq(MatchRows) /\ socket' \in [Pages -> Sockets]
      <4>1. CASE UNCHANGED <<matches, socket, behind>>
        BY <1>0, <1>s, <4>1
      <4>2. ASSUME MatchIs(m, "live", matches[m].reports \cup {WalletOf[p]}), UNCHANGED socket
            PROVE  matches' \in Seq(MatchRows) /\ socket' \in [Pages -> Sockets]
        BY <1>0, <4>2 DEF MatchIs
      <4>3. ASSUME NEW e \in EndEvents,
                   MatchIs(m, e[1], matches[m].reports \cup {WalletOf[p]}),
                   Send(matches[m].players, [type |-> e[2], match |-> m])
            PROVE  matches' \in Seq(MatchRows) /\ socket' \in [Pages -> Sockets]
        <5>1. m \in Nat
          BY <1>0 DEF RequestTypes, Asks
        <5> HIDE DEF m
        <5>2. [type |-> e[2], match |-> m] \in Notices
          BY <5>1, EventTyped
        <5>3. socket' \in [Pages -> Sockets]
          BY <4>3, <5>2, SendEffect
        <5> QED
          BY <4>3, <5>3 DEF MatchIs
      <4> QED
        BY <1>0, <2>7, <4>1, <4>2, <4>3, ReportEffect
    <3>3. RequestTypes'
      BY <1>0, <2>7, RequestStepEffect
    <3> QED
      BY <1>0, <1>s, <1>2, <3>1, <3>2, <3>3 DEF PageTypes, ServerTypes
  <2> QED
    BY <1>2, <2>1, <2>2, <2>3, <2>4, <2>5, <2>6, <2>7 DEF RequestStep
<1>3. ASSUME NEW a \in Wallets, NEW b \in Wallets, TakePair(a, b), UNCHANGED page
      PROVE  ServerTypes' /\ PageTypes'
  <2>1. UNCHANGED <<tickets, matches, request, socket>>
    BY <1>3 DEF TakePair
  <2> QED
    BY <1>0, <1>s, <1>3, <2>1, TakePairEffect, RequestTypesKept DEF ServerTypes, PageTypes
<1>4. ASSUME NEW W \in SUBSET Wallets, TakeStale(W), UNCHANGED page
      PROVE  ServerTypes' /\ PageTypes'
  <2>1. UNCHANGED <<tickets, matches, request, socket>>
    BY <1>4 DEF TakeStale
  <2> QED
    BY <1>0, <1>s, <1>4, <2>1, TakeStaleEffect, RequestTypesKept DEF ServerTypes, PageTypes
<1>5. CASE InsertMatch /\ UNCHANGED page
  <2> DEFINE g == Head(tick.todo)
  <2>1. /\ UNCHANGED <<tickets, request, socket>> /\ g \in Groups /\ tick.todo # <<>>
    BY <1>5, InsertMatchEffect
  <2>2. matches' \in Seq(MatchRows) /\ tick' \in Ticks /\ queue' \in [Wallets -> Nat]
    <3>1. ASSUME matches' = Append(matches, [players |-> g.wallets, bot |-> g.bot,
                                             state |-> "live", reports |-> {}])
          PROVE  matches' \in Seq(MatchRows)
      <4> HIDE DEF g
      <4> QED
        BY <2>1, <3>1, MatchInserted
    <3> QED
      BY <1>s, <1>5, <2>1, <3>1, InsertMatchEffect, RejoinEffect, NextGroupIs
  <2> QED
    BY <1>0, <1>s, <1>5, <2>1, <2>2, RequestTypesKept DEF ServerTypes, PageTypes
<1>6. CASE MarkTickets /\ UNCHANGED page
  <2> DEFINE g == Head(tick.todo)
             event == [type |-> "match_found", match |-> tick.match]
  <2>1. /\ UNCHANGED <<matches, request>> /\ g \in Groups /\ tick.todo # <<>>
        /\ event \in Notices /\ g = tick.todo[1] /\ 1 \in DOMAIN tick.todo
    BY <1>6, MarkTicketsEffect
  <2>2. \A w \in g.wallets : IsTicketOf(w, g.ticket[w])
    BY <2>1 DEF TicketInv
  <2>3. ASSUME tickets' = [t \in DOMAIN tickets |->
                    IF \E w \in g.wallets : g.ticket[w] = t
                    THEN [tickets[t] EXCEPT !.status = "matched"] ELSE tickets[t]],
               Send(g.wallets, event)
        PROVE  tickets' \in Seq(TicketRows) /\ socket' \in [Pages -> Sockets]
    <3>1. tickets' \in Seq(TicketRows)
      <4> HIDE DEF g
      <4> QED
        BY <2>1, <2>2, <2>3, TicketsMarked
    <3>2. socket' \in [Pages -> Sockets]
      <4> HIDE DEF g, event
      <4> QED
        BY <2>1, <2>3, SendEffect
    <3> QED
      BY <3>1, <3>2
  <2>4. NextGroup \in Ticks
    BY <2>1, NextGroupIs
  <2>5. /\ tickets' \in Seq(TicketRows) /\ tick' \in Ticks /\ queue' \in [Wallets -> Nat]
        /\ socket' \in [Pages -> Sockets]
    BY <1>0, <1>s, <1>6, <2>1, <2>3, <2>4, MarkTicketsEffect, RejoinEffect
  <2> QED
    BY <1>0, <1>s, <1>6, <2>1, <2>5, RequestTypesKept DEF ServerTypes, PageTypes
<1>7. CASE CloseTicket /\ UNCHANGED page
  <2>1. UNCHANGED <<queue, matches, request, socket>> /\ tick.todo # <<>>
    BY <1>7, CloseTicketEffect
  <2>2. NextGroup \in Ticks /\ NoTick \in Ticks
    BY <2>1, NextGroupIs DEF NoTick, Ticks
  <2>3. tickets' \in Seq(TicketRows) /\ tick' \in Ticks
    BY <1>s, <1>7, <2>2, CloseTicketEffect, TicketCancelled
  <2> QED
    BY <1>0, <1>s, <1>7, <2>1, <2>3, RequestTypesKept DEF ServerTypes, PageTypes
<1>8. ASSUME NEW m \in DOMAIN matches, EndMatch(m), UNCHANGED page
      PROVE  ServerTypes' /\ PageTypes'
  <2>1. UNCHANGED <<tickets, queue, tick, request>>
    BY <1>8, EndEffect
  <2>2. PICK e \in EndEvents :
          /\ MatchIs(m, e[1], matches[m].reports)
          /\ Send(matches[m].players, [type |-> e[2], match |-> m])
    BY <1>8, EndEffect
  <2>3. m \in Nat
    BY <1>s
  <2>4. [type |-> e[2], match |-> m] \in Notices
    BY <2>3, EventTyped
  <2>5. socket' \in [Pages -> Sockets]
    BY <2>2, <2>4, SendEffect
  <2> QED
    BY <1>0, <1>s, <1>8, <2>1, <2>2, <2>5, RequestTypesKept
    DEF ServerTypes, PageTypes, MatchIs
<1>9. CASE Restart /\ UNCHANGED page
  BY <1>0, <1>s, <1>9, RestartEffect DEF ServerTypes, PageTypes
<1> QED
  BY <1>1, <1>2, <1>3, <1>4, <1>5, <1>6, <1>7, <1>8, <1>9 DEF Next, TickStep

-----------------------------------------------------------------------------
(***************************************************************************)
(* Entries name tickets of their own players.                              *)
(***************************************************************************)
LEMMA SameTickets ==
  ASSUME UNCHANGED tickets
  PROVE  TicketsKept
  BY DEF TicketsKept, IsTicketOf

\* The groups in the loop hold known players.
LEMMA GroupWallets ==
  ASSUME ServerTypes, NEW i \in DOMAIN tick.todo
  PROVE  tick.todo[i] \in Groups /\ tick.todo[i].wallets \subseteq Wallets
<1>1. tick.todo \in Seq(Groups)
  BY DEF ServerTypes, Ticks
<1>2. tick.todo[i] \in Groups
  BY <1>1
<1> QED
  BY <1>2 DEF Groups

\* It is enough that the new entries name tickets.
LEMMA TicketInvKept ==
  ASSUME ServerTypes', TicketsKept,
         \A w \in Wallets : queue'[w] # 0 => IsTicketOf(w, queue'[w]),
         \A i \in DOMAIN tick'.todo : \A w \in tick'.todo[i].wallets :
           IsTicketOf(w, tick'.todo[i].ticket[w]),
         \A p \in Pages : request'[p].kind = "join" /\ request'[p].at = "enter" =>
           \/ IsTicketOf(WalletOf[p], request'[p].match)
           \/ IsTicketOf(WalletOf[p], request[p].match)'
  PROVE  TicketInv'
<1>1. \A i \in DOMAIN tick'.todo : tick'.todo[i].wallets \subseteq Wallets
  <2>1. tick'.todo \in Seq(Groups)
    BY DEF ServerTypes, Ticks
  <2>2. \A i \in DOMAIN tick'.todo : tick'.todo[i] \in Groups
    BY <2>1
  <2> QED
    BY <2>2 DEF Groups
<1>2. \A w \in Wallets : queue'[w] # 0 => IsTicketOf(w, queue[w])'
  BY DEF TicketsKept
<1>3. \A i \in DOMAIN tick'.todo : \A w \in tick'.todo[i].wallets :
        IsTicketOf(w, tick.todo[i].ticket[w])'
  BY <1>1 DEF TicketsKept
<1>4. \A p \in Pages : request'[p].kind = "join" /\ request'[p].at = "enter" =>
        IsTicketOf(WalletOf[p], request[p].match)'
  BY QueueAssumption DEF TicketsKept
<1> QED
  BY <1>2, <1>3, <1>4 DEF TicketInv, Waits

\* Entries, groups and joins go on naming tickets of their own players.
LEMMA TicketInvStep ==
  ASSUME ServerTypes, PageTypes, TicketInv, TickInv, Next, ServerTypes'
  PROVE  TicketInv'
<1> USE DEF server
<1>0. RequestTypes
  BY DEF PageTypes
<1>q. \A w \in Wallets : queue[w] # 0 => IsTicketOf(w, queue[w])
  BY DEF TicketInv
<1>t. \A i \in DOMAIN tick.todo : \A w \in tick.todo[i].wallets :
        IsTicketOf(w, tick.todo[i].ticket[w])
  BY DEF TicketInv
<1>r. \A p \in Pages : request[p].kind = "join" /\ request[p].at = "enter" =>
        IsTicketOf(WalletOf[p], request[p].match)
  BY DEF TicketInv, Waits
<1>n. ASSUME tick' = NextGroup, tick.todo # <<>>
      PROVE  \A i \in DOMAIN tick'.todo : \A w \in tick'.todo[i].wallets :
               IsTicketOf(w, tick'.todo[i].ticket[w])
  BY <1>n, <1>t, NextGroupIs
<1>1. ASSUME NEW p \in Pages, PageStep(p)
      PROVE  TicketInv'
  <2>1. /\ UNCHANGED server /\ OnlyRequest(p)
        /\ request'[p] = request[p] \/ request'[p].at \in {"none", "start", "error"}
    BY <1>1, PageStepFrame DEF PageFrame
  <2>2. \A o \in Pages : request'[o].kind = "join" /\ request'[o].at = "enter" =>
          IsTicketOf(WalletOf[o], request'[o].match)
    BY <1>r, <2>1 DEF OnlyRequest
  <2> QED
    BY <1>q, <1>t, <2>1, <2>2, SameTickets, TicketInvKept
<1>2. ASSUME NEW p \in Pages, RequestStep(p)
      PROVE  TicketInv'
  <2>1. ASSUME UNCHANGED <<tickets, tick>>, OnlyRequest(p), request'[p].at # "enter",
               \A w \in Wallets : queue'[w] # 0 => IsTicketOf(w, queue'[w])
        PROVE  TicketInv'
    BY <1>t, <1>r, <2>1, SameTickets, TicketInvKept DEF OnlyRequest
  <2>2. CASE JoinCheckLive(p)
    <3>1. UNCHANGED server
      BY <2>2 DEF JoinCheckLive
    <3> QED
      BY <1>0, <1>q, <2>1, <2>2, <3>1, RequestStepEffect
  <2>3. CASE JoinCheckTicket(p)
    <3>1. UNCHANGED server
      BY <2>3 DEF JoinCheckTicket
    <3> QED
      BY <1>0, <1>q, <2>1, <2>3, <3>1, RequestStepEffect
  <2>4. CASE InsertTicket(p)
    <3>1. /\ UNCHANGED <<queue, tick>> /\ TicketsKept
          /\ IsTicketOf(WalletOf[p], Len(tickets))'
      BY <2>4, InsertEffect
    <3>2. OnlyRequest(p) /\ request'[p].match = Len(tickets')
      BY <1>0, <2>4, RequestStepEffect
    <3>3. \A o \in Pages : request'[o].kind = "join" /\ request'[o].at = "enter" =>
            \/ IsTicketOf(WalletOf[o], request'[o].match)
            \/ IsTicketOf(WalletOf[o], request[o].match)'
      BY <1>r, <3>1, <3>2 DEF OnlyRequest
    <3> QED
      BY <1>q, <1>t, <3>1, <3>3, TicketInvKept
  <2>5. CASE EnterQueue(p)
    <3>1. UNCHANGED <<tickets, tick>> /\ Waits(p, "join", "enter")
      BY <2>5 DEF EnterQueue
    <3>2. \A w \in Wallets : queue'[w] = IF w = WalletOf[p] THEN request[p].match
                                                           ELSE queue[w]
      BY <2>5 DEF EnterQueue, ServerTypes
    <3>3. \A w \in Wallets : queue'[w] # 0 => IsTicketOf(w, queue'[w])
      BY <1>q, <1>r, <3>1, <3>2 DEF Waits
    <3> QED
      BY <1>0, <2>1, <2>5, <3>1, <3>3, RequestStepEffect
  <2>6. CASE CancelTicket(p)
    <3>1. UNCHANGED <<queue, tick>> /\ TicketsKept
      BY <2>6, CancelEffect
    <3>2. OnlyRequest(p) /\ request'[p].at = "forget"
      BY <1>0, <2>6, RequestStepEffect
    <3>3. \A o \in Pages : request'[o].kind = "join" /\ request'[o].at = "enter" =>
            IsTicketOf(WalletOf[o], request'[o].match)
      BY <1>r, <3>2 DEF OnlyRequest
    <3> QED
      BY <1>q, <1>t, <3>1, <3>3, TicketInvKept
  <2>7. CASE LeaveQueue(p)
    <3>1. UNCHANGED <<tickets, tick>>
      BY <2>7 DEF LeaveQueue
    <3>2. \A w \in Wallets : queue'[w] = IF w = WalletOf[p] THEN 0 ELSE queue[w]
      BY <2>7 DEF LeaveQueue, ServerTypes
    <3>3. \A w \in Wallets : queue'[w] # 0 => IsTicketOf(w, queue'[w])
      BY <1>q, <3>2
    <3> QED
      BY <1>0, <2>1, <2>7, <3>1, <3>3, RequestStepEffect
  <2>8. CASE ReportOutcome(p)
    <3>1. UNCHANGED <<tickets, queue, tick>>
      BY <1>0, <2>8, ReportEffect
    <3> QED
      BY <1>0, <1>q, <2>1, <2>8, <3>1, RequestStepEffect
  <2> QED
    BY <1>2, <2>2, <2>3, <2>4, <2>5, <2>6, <2>7, <2>8 DEF RequestStep
<1>3. ASSUME NEW a \in Wallets, NEW b \in Wallets, TakePair(a, b)
      PROVE  TicketInv'
  <2>1. UNCHANGED <<tickets, request>> /\ queue[a] # 0 /\ queue[b] # 0
    BY <1>3 DEF TakePair
  <2>2. \A w \in Wallets : queue'[w] # 0 => IsTicketOf(w, queue'[w])
    BY <1>3, <1>q, TakePairEffect
  <2> DEFINE g == Taken({a, b}, FALSE)
  <2>3. g.wallets = {a, b} /\ \A w \in Wallets : g.ticket[w] = queue[w]
    BY TakenGroup
  <2>4. tick'.todo = <<g>>
    BY <1>3, TakePairEffect
  <2> HIDE DEF g
  <2>5. \A i \in DOMAIN tick'.todo : \A w \in tick'.todo[i].wallets :
          IsTicketOf(w, tick'.todo[i].ticket[w])
    BY <1>q, <2>1, <2>3, <2>4
  <2> QED
    BY <1>r, <2>1, <2>2, <2>5, SameTickets, TicketInvKept
<1>4. ASSUME NEW W \in SUBSET Wallets, TakeStale(W)
      PROVE  TicketInv'
  <2>1. UNCHANGED <<tickets, request>> /\ \A w \in W : queue[w] # 0
    BY <1>4 DEF TakeStale
  <2>2. \A w \in Wallets : queue'[w] # 0 => IsTicketOf(w, queue'[w])
    BY <1>4, <1>q, TakeStaleEffect
  <2>3. \A v \in W : /\ Taken({v}, TRUE).wallets = {v}
                     /\ \A w \in Wallets : Taken({v}, TRUE).ticket[w] = queue[w]
    BY TakenGroup
  <2>4. \A i \in DOMAIN tick'.todo : \E v \in W : tick'.todo[i] = Taken({v}, TRUE)
    BY <1>4, TakeStaleEffect
  <2>5. \A i \in DOMAIN tick'.todo : \A w \in tick'.todo[i].wallets :
          IsTicketOf(w, tick'.todo[i].ticket[w])
    <3> SUFFICES ASSUME NEW i \in DOMAIN tick'.todo, NEW w \in tick'.todo[i].wallets
                 PROVE  IsTicketOf(w, tick'.todo[i].ticket[w])
      OBVIOUS
    <3>1. PICK v \in W : tick'.todo[i] = Taken({v}, TRUE)
      BY <2>4
    <3>2. w = v /\ w \in Wallets /\ tick'.todo[i].ticket[w] = queue[w]
      <4> DEFINE g == Taken({v}, TRUE)
      <4>1. g.wallets = {v} /\ \A x \in Wallets : g.ticket[x] = queue[x]
        BY <2>3
      <4>2. tick'.todo[i] = g /\ w \in g.wallets
        BY <3>1, Zenon
      <4> HIDE DEF g
      <4> QED
        BY <4>1, <4>2
    <3> QED
      BY <1>q, <2>1, <3>2
  <2> QED
    BY <1>r, <2>1, <2>2, <2>5, SameTickets, TicketInvKept
<1>5. CASE InsertMatch
  <2> DEFINE g == Head(tick.todo)
  <2>1. /\ UNCHANGED <<tickets, request>> /\ tick.todo # <<>>
        /\ g \in Groups /\ g = tick.todo[1] /\ 1 \in DOMAIN tick.todo
    BY <1>5, InsertMatchEffect
  <2>2. \A w \in g.wallets : IsTicketOf(w, g.ticket[w])
    BY <1>t, <2>1
  <2>3. \A w \in Wallets : queue'[w] # 0 => IsTicketOf(w, queue'[w])
    BY <1>5, <1>q, <2>1, <2>2, InsertMatchEffect, RejoinEffect
  <2>4. \A i \in DOMAIN tick'.todo : \A w \in tick'.todo[i].wallets :
          IsTicketOf(w, tick'.todo[i].ticket[w])
    BY <1>5, <1>t, <1>n, <2>1, InsertMatchEffect
  <2> QED
    BY <1>r, <2>1, <2>3, <2>4, SameTickets, TicketInvKept
<1>6. CASE MarkTickets
  <2> DEFINE g == Head(tick.todo)
  <2>1. /\ UNCHANGED request /\ tick.todo # <<>>
        /\ g \in Groups /\ g = tick.todo[1] /\ 1 \in DOMAIN tick.todo
    BY <1>6, MarkTicketsEffect
  <2>2. \A w \in g.wallets : IsTicketOf(w, g.ticket[w])
    BY <1>t, <2>1
  <2>3. \A w \in Wallets : queue'[w] # 0 => IsTicketOf(w, queue'[w])
    BY <1>6, <1>q, <2>1, <2>2, MarkTicketsEffect, RejoinEffect
  <2>4. \A i \in DOMAIN tick'.todo : \A w \in tick'.todo[i].wallets :
          IsTicketOf(w, tick'.todo[i].ticket[w])
    BY <1>6, <1>t, <1>n, <2>1, MarkTicketsEffect
  <2>5. TicketsKept
    <3>1. ASSUME tickets' = [t \in DOMAIN tickets |->
                    IF \E w \in g.wallets : g.ticket[w] = t
                    THEN [tickets[t] EXCEPT !.status = "matched"] ELSE tickets[t]]
          PROVE  TicketsKept
      <4> HIDE DEF g
      <4> QED
        BY <2>1, <2>2, <3>1, TicketsMarked
    <3> QED
      BY <1>6, <3>1, SameTickets, MarkTicketsEffect
  <2> QED
    BY <1>r, <2>1, <2>3, <2>4, <2>5, TicketInvKept
<1>7. CASE CloseTicket
  <2>1. UNCHANGED <<queue, request>> /\ tick.todo # <<>>
    BY <1>7, CloseTicketEffect
  <2>2. TicketsKept
    BY <1>7, CloseTicketEffect, SameTickets, TicketCancelled
  <2>3. tick' = NextGroup \/ tick' = NoTick
    BY <1>7, CloseTicketEffect
  <2>4. \A i \in DOMAIN tick'.todo : \A w \in tick'.todo[i].wallets :
          IsTicketOf(w, tick'.todo[i].ticket[w])
    BY <1>n, <2>1, <2>3 DEF NoTick
  <2> QED
    BY <1>q, <1>r, <2>1, <2>2, <2>4, TicketInvKept
<1>8. ASSUME NEW m \in DOMAIN matches, EndMatch(m)
      PROVE  TicketInv'
  <2>1. UNCHANGED <<tickets, queue, tick, request>>
    BY <1>8, EndEffect
  <2> QED
    BY <1>q, <1>t, <1>r, <2>1, SameTickets, TicketInvKept
<1>9. CASE Restart
  <2>1. /\ UNCHANGED tickets /\ tick' = NoTick
        /\ \A w \in Wallets : queue'[w] = Newest(TicketsOf(w, "queued"))
        /\ \A p \in Pages : request'[p] = NoRequest \/ request'[p].at = "error"
    BY <1>0, <1>9, RestartEffect
  <2>2. ASSUME NEW w \in Wallets, queue'[w] # 0
        PROVE  IsTicketOf(w, queue'[w])
    <3>1. TicketsOf(w, "queued") \in SUBSET (1 .. Len(tickets)) /\ Len(tickets) \in Nat
      BY DEF TicketsOf, ServerTypes
    <3>2. TicketsOf(w, "queued") # {}
      BY <2>1, <2>2 DEF Newest
    <3>3. queue'[w] \in TicketsOf(w, "queued")
      BY <2>1, <3>1, <3>2, NewestLast
    <3> QED
      BY <3>3 DEF TicketsOf, IsTicketOf
  <2> QED
    BY <2>1, <2>2, SameTickets, TicketInvKept DEF NoTick, NoRequest
<1> QED
  BY <1>1, <1>2, <1>3, <1>4, <1>5, <1>6, <1>7, <1>8, <1>9 DEF Next, TickStep

-----------------------------------------------------------------------------
(***************************************************************************)
(* What a page learns, and from where.                                     *)
(***************************************************************************)
Told(p) ==
  /\ socket[p].inbox # <<>> /\ HandleEvent(p)
  /\ Head(socket[p].inbox).type = "match_found"
  /\ Head(socket[p].inbox).match = LastMatch(p)

News(p) ==
  /\ \/ page'[p].view = page[p].view \/ page'[p].view = 0
     \/ socket[p].inbox # <<>> /\ page'[p].view = Head(socket[p].inbox).match
  /\ request'[p].kind = "report" =>
       \/ request'[p].match = request[p].match /\ request[p].kind = "report"
       \/ request'[p].match = page[p].view
  /\ \/ socket'[p].inbox = socket[p].inbox \/ socket'[p].inbox = <<>>
     \/ socket[p].inbox # <<>> /\ socket'[p].inbox = Tail(socket[p].inbox)
  /\ p \in unseen => p \in unseen' \/ Told(p)

\* What a page learns in a step comes from its socket or its own request.
LEMMA PageStepNews ==
  ASSUME ServerTypes, PageTypes, NEW p \in Pages, PageStep(p)
  PROVE  News(p)
<1> USE DEF server, history
<1>0. /\ RequestTypes /\ page[p] \in Screens /\ page[p].view \in Nat
      /\ socket \in [Pages -> Sockets]
  BY DEF PageTypes, Screens
<1>s. UNCHANGED request => request'[p] = request[p]
  OBVIOUS
<1>1. CASE Connect(p)
  BY <1>1, ConnectEffect DEF Connect, News
<1>2. CASE Logout(p)
  <2>1. CloseSocket(p) /\ UNCHANGED <<request, unseen>>
    BY <1>2 DEF Logout
  <2> QED
    BY <1>2, <2>1, LogoutEffect, CloseEffect DEF News
<1>3. CASE OpenSocket(p)
  <2>1. UNCHANGED <<request, unseen, page>> /\ socket' = [socket EXCEPT ![p].on = TRUE]
    BY <1>3 DEF OpenSocket
  <2>2. socket'[p].inbox = socket[p].inbox
    BY <1>0, <2>1 DEF Sockets
  <2> QED
    BY <2>1, <2>2 DEF News
<1>4. CASE LoseSocket(p)
  <2>1. CloseSocket(p) /\ UNCHANGED <<request, unseen, page>>
    BY <1>4 DEF LoseSocket
  <2> QED
    BY <2>1, CloseEffect DEF News
<1>5. CASE Reload(p)
  <2>1. /\ CloseSocket(p) /\ unseen' = unseen \cup {p}
        /\ request' = [request EXCEPT ![p] = NoRequest]
    BY <1>5 DEF Reload
  <2>2. request'[p] = NoRequest
    BY <1>0, <2>1, NoRequestEffect
  <2> QED
    BY <1>5, <2>1, <2>2, ReloadEffect, CloseEffect DEF News, NoRequest
<1>6. ASSUME NEW i \in DOMAIN page[p].me, ReadLive(p, i)
      PROVE  News(p)
  <2>1. UNCHANGED <<request, socket, unseen>>
    BY <1>6 DEF ReadLive
  <2>2. page'[p].view = page[p].view
    BY <1>6, ReadLiveEffect DEF FetchBecomes
  <2> QED
    BY <2>1, <2>2 DEF News
<1>7. ASSUME NEW i \in DOMAIN page[p].me, ReadTicket(p, i)
      PROVE  News(p)
  <2>1. UNCHANGED <<request, socket, unseen>>
    BY <1>7 DEF ReadTicket
  <2>2. page'[p].view = page[p].view
    BY <1>7, ReadTicketEffect DEF FetchBecomes
  <2> QED
    BY <2>1, <2>2 DEF News
<1>8. ASSUME NEW i \in DOMAIN page[p].me, ApplyMe(p, i)
      PROVE  News(p)
  <2>1. UNCHANGED <<request, unseen>>
    BY <1>8, Zenon DEF ApplyMe
  <2>2. \/ socket' = [socket EXCEPT ![p] = [on |-> FALSE, inbox |-> <<>>]]
        \/ socket' = socket
    BY <1>8, Zenon DEF ApplyMe
  <2>3. page'[p].view = page[p].view
    BY <1>8, ApplyMeEffect, Zenon
  <2>4. socket'[p].inbox = socket[p].inbox \/ socket'[p].inbox = <<>>
    BY <1>0, <2>2
  <2> QED
    BY <2>1, <2>3, <2>4 DEF News
<1>9. CASE Queue(p) \/ Leave(p) \/ Report(p)
  <2>1. \E kind \in {"join", "leave", "report"}, match \in Nat :
          Ask(p, kind, match) /\ (kind = "report" => match = page[p].view)
    BY <1>0, <1>9 DEF Queue, Leave, Report
  <2>2. PICK kind \in {"join", "leave", "report"}, match \in Nat :
          Ask(p, kind, match) /\ (kind = "report" => match = page[p].view)
    BY <2>1
  <2>3. UNCHANGED <<socket, history, page>>
    BY <2>2 DEF Ask
  <2>4. request'[p].kind = kind /\ request'[p].match = match
    BY <1>0, <2>2, AskEffect
  <2> QED
    BY <2>2, <2>3, <2>4 DEF News
<1>10. CASE SelectGame(p)
  <2>1. UNCHANGED <<request, socket, history>>
    BY <1>10 DEF SelectGame
  <2> QED
    BY <1>10, <2>1, SelectGameEffect DEF News
<1>11. CASE PlayedAgain(p)
  <2>1. UNCHANGED <<request, socket>> /\ unseen' = unseen \cup {p}
    BY <1>11 DEF PlayedAgain
  <2> QED
    BY <1>11, <2>1, PlayedAgainEffect DEF News
<1>12. CASE ApplyAnswer(p)
  <2>1. UNCHANGED <<socket, unseen>> /\ request' = [request EXCEPT ![p] = NoRequest]
    BY <1>12 DEF ApplyAnswer
  <2>2. request'[p] = NoRequest
    BY <1>0, <2>1, NoRequestEffect
  <2> QED
    BY <1>12, <2>1, <2>2, AnswerEffect DEF News, NoRequest
<1>13. CASE HandleEvent(p)
  <2> DEFINE event == Head(socket[p].inbox)
  <2>1. /\ UNCHANGED request /\ socket[p].inbox # <<>>
        /\ unseen' = IF event.type = "match_found" /\ event.match = LastMatch(p)
                     THEN unseen \ {p} ELSE unseen
        /\ page' = OnEvent(p, event)
    BY <1>13 DEF HandleEvent
  <2>2. event \in Notices /\ socket'[p].inbox = Tail(socket[p].inbox)
    BY <1>13, HandledEffect
  <2>3. page'[p].view = event.match \/ page'[p].view = page[p].view
    <3>1. event.type \in {"match_found", "match_result", "disputed", "cancelled"}
      BY <2>2 DEF Notices
    <3> HIDE DEF event
    <3> QED
      BY <2>1, <2>2, <3>1, EventEffect
  <2>4. p \in unseen => p \in unseen' \/ Told(p)
    BY <1>13, <2>1 DEF Told
  <2> QED
    BY <2>1, <2>2, <2>3, <2>4 DEF News
<1> QED
  BY <1>1, <1>2, <1>3, <1>4, <1>5, <1>6, <1>7, <1>8, <1>9, <1>10, <1>11, <1>12, <1>13
  DEF PageStep

-----------------------------------------------------------------------------
(***************************************************************************)
(* The loop's groups and the match it is storing.                          *)
(***************************************************************************)
GroupsInv ==
  /\ tick.at = "idle" <=> tick.todo = <<>>
  /\ \A i \in DOMAIN tick.todo : tick.todo[i].wallets # {}
  /\ \A i, j \in DOMAIN tick.todo :
       i # j => tick.todo[i].wallets \cap tick.todo[j].wallets = {}

MarkInv ==
  tick.at = "mark" =>
    /\ tick.match = Len(matches) /\ tick.match \in DOMAIN matches
    /\ matches[tick.match].players = Head(tick.todo).wallets
    /\ matches[tick.match].state = "live" /\ matches[tick.match].reports = {}
    /\ PagesOf(Head(tick.todo).wallets) \subseteq unseen

\* The invariant of the loop in two parts: its groups, and the match being
\* announced.
LEMMA TickParts == TickInv <=> GroupsInv /\ MarkInv
  BY DEF TickInv, GroupsInv, MarkInv

\* The groups stay as they are while the loop waits.
LEMMA GroupsKept ==
  ASSUME GroupsInv, UNCHANGED tick
  PROVE  GroupsInv'
  BY DEF GroupsInv

\* Serving a group leaves the others.
LEMMA GroupsNext ==
  ASSUME ServerTypes, GroupsInv, tick.todo # <<>>, tick' = NextGroup
  PROVE  GroupsInv' /\ tick'.at # "mark"
<1>1. /\ NextGroup.at \in {"idle", "insert"}
      /\ NextGroup.at = "idle" <=> NextGroup.todo = <<>>
      /\ \A i \in DOMAIN NextGroup.todo :
           i + 1 \in DOMAIN tick.todo /\ NextGroup.todo[i] = tick.todo[i + 1]
      /\ NextGroup \in Ticks
  BY NextGroupIs
<1>2. \A i \in DOMAIN tick'.todo : tick'.todo[i].wallets # {}
  BY <1>1 DEF GroupsInv
<1>3. ASSUME NEW i \in DOMAIN tick'.todo, NEW j \in DOMAIN tick'.todo, i # j
      PROVE  tick'.todo[i].wallets \cap tick'.todo[j].wallets = {}
  <2>1. tick'.todo \in Seq(Groups)
    BY <1>1 DEF Ticks
  <2>2. i + 1 # j + 1
    BY <1>3, <2>1
  <2> QED
    BY <1>1, <1>3, <2>2 DEF GroupsInv
<1> QED
  BY <1>1, <1>2, <1>3 DEF GroupsInv

\* The match that is being stored stays as it is.
LEMMA MarkKept ==
  ASSUME MarkInv, UNCHANGED tick, DOMAIN matches' = DOMAIN matches,
         Len(matches') = Len(matches),
         tick.at = "mark" => matches'[tick.match] = matches[tick.match],
         tick.at = "mark" => PagesOf(Head(tick.todo).wallets) \subseteq unseen'
  PROVE  MarkInv'
  BY DEF MarkInv, PagesOf

\* A player of the match that is being stored has no later one.
LEMMA MarkedLast ==
  ASSUME ServerTypes, MarkInv, tick.at = "mark", NEW w \in Head(tick.todo).wallets
  PROVE  LastOf(w) = Len(matches)
<1>1. Len(matches) \in PlayedBy(w) /\ Len(matches) \in Nat
  BY DEF MarkInv, PlayedBy, ServerTypes
<1>2. PlayedBy(w) \in SUBSET (1 .. Len(matches))
  BY DEF PlayedBy, ServerTypes
<1>3. \A m \in PlayedBy(w) : m <= Len(matches)
  BY <1>1, <1>2
<1> QED
  BY <1>1, <1>2, <1>3, NewestIs DEF LastOf

\* The last match of a page is that of its player.
LEMMA LastMatchIs ==
  ASSUME NEW p
  PROVE  LastMatch(p) = LastOf(WalletOf[p])
  BY DEF LastMatch, LastOf, PlayedBy

\* The loop's groups stay disjoint and the match it announces stays live.
LEMMA TickInvStep ==
  ASSUME ServerTypes, PageTypes, TicketInv, TickInv, KnownInv, Next
  PROVE  TickInv'
<1> USE DEF server
<1>0. RequestTypes /\ GroupsInv /\ MarkInv
  BY TickParts DEF PageTypes
<1>m. matches \in Seq(MatchRows) /\ Len(matches) \in Nat
      /\ DOMAIN matches = 1 .. Len(matches)
  BY DEF ServerTypes
<1> SUFFICES GroupsInv' /\ MarkInv'
  BY DEF TickInv, GroupsInv, MarkInv
<1>1. ASSUME NEW p \in Pages, PageStep(p)
      PROVE  GroupsInv' /\ MarkInv'
  <2>1. /\ UNCHANGED server
        /\ \A o \in Pages \ {p} : o \in unseen' <=> o \in unseen
    BY <1>1, PageStepFrame DEF PageFrame
  <2>2. ASSUME tick.at = "mark"
        PROVE  PagesOf(Head(tick.todo).wallets) \subseteq unseen'
    <3>1. PagesOf(Head(tick.todo).wallets) \subseteq unseen
      BY <1>0, <2>2 DEF MarkInv
    <3>2. ASSUME p \in PagesOf(Head(tick.todo).wallets), Told(p)
          PROVE  FALSE
      <4>1. LastMatch(p) = Len(matches)
        BY <1>0, <2>2, <3>2, MarkedLast, LastMatchIs DEF PagesOf
      <4>2. Head(socket[p].inbox) = socket[p].inbox[1] /\ 1 \in DOMAIN socket[p].inbox
        BY <3>2, TailOf DEF Told, PageTypes, Sockets
      <4>3. Head(socket[p].inbox).match \in 1 .. Len(matches) - 1
        BY <2>2, <4>2 DEF KnownInv, Known
      <4> QED
        BY <1>m, <3>2, <4>1, <4>3 DEF Told
    <3>3. p \in unseen => p \in unseen' \/ Told(p)
      BY <1>1, PageStepNews DEF News
    <3> QED
      BY <2>1, <3>1, <3>2, <3>3 DEF PagesOf
  <2> QED
    BY <1>0, <2>1, <2>2, GroupsKept, MarkKept
<1>2. ASSUME NEW p \in Pages, RequestStep(p)
      PROVE  GroupsInv' /\ MarkInv'
  <2>1. ASSUME UNCHANGED <<tick, matches, unseen>>
        PROVE  GroupsInv' /\ MarkInv'
    BY <1>0, <2>1, GroupsKept, MarkKept DEF MarkInv
  <2>2. CASE ReportOutcome(p)
    <3> DEFINE m == request[p].match
    <3>1. UNCHANGED <<tick, unseen>>
      BY <1>0, <2>2, ReportEffect
    <3>2. \/ UNCHANGED matches
          \/ m \in DOMAIN matches /\ \E state, reports : MatchIs(m, state, reports)
      BY <1>0, <2>2, ReportEffect DEF MatchesOf
    <3>3. tick.at = "mark" => m # Len(matches)
      <4>1. request[p].kind = "report"
        BY <2>2 DEF ReportOutcome, Waits
      <4> QED
        BY <1>m, <4>1 DEF KnownInv, Known
    <3>4. CASE m \in DOMAIN matches /\ \E state, reports : MatchIs(m, state, reports)
      <4>1. /\ DOMAIN matches' = DOMAIN matches /\ matches' \in Seq(MatchRows)
            /\ \A k \in DOMAIN matches \ {m} : matches'[k] = matches[k]
        BY <3>4 DEF MatchIs
      <4>2. Len(matches') = Len(matches)
        BY <1>m, <4>1
      <4>3. tick.at = "mark" => matches'[tick.match] = matches[tick.match]
        BY <1>0, <3>3, <4>1 DEF MarkInv
      <4>4. tick.at = "mark" => PagesOf(Head(tick.todo).wallets) \subseteq unseen'
        BY <1>0, <3>1 DEF MarkInv
      <4> QED
        BY <1>0, <3>1, <4>1, <4>2, <4>3, <4>4, GroupsKept, MarkKept
    <3> QED
      BY <2>1, <3>1, <3>2, <3>4
  <2>3. ~ReportOutcome(p) => UNCHANGED <<tick, matches, unseen>>
    BY <1>2, CancelEffect
    DEF RequestStep, JoinCheckLive, JoinCheckTicket, InsertTicket, EnterQueue,
        LeaveQueue, history
  <2> QED
    BY <2>1, <2>2, <2>3
<1>3. ASSUME NEW a \in Wallets, NEW b \in Wallets, TakePair(a, b)
      PROVE  GroupsInv' /\ MarkInv'
  <2>1. tick'.at = "insert" /\ tick'.todo = <<Taken({a, b}, FALSE)>>
    BY <1>3, TakePairEffect
  <2>2. Taken({a, b}, FALSE).wallets = {a, b}
    BY TakenGroup
  <2> DEFINE g == Taken({a, b}, FALSE)
  <2>3. tick'.at = "insert" /\ tick'.todo = <<g>> /\ g.wallets # {}
    BY <2>1, <2>2
  <2> HIDE DEF g
  <2> QED
    BY <2>3 DEF GroupsInv, MarkInv
<1>4. ASSUME NEW W \in SUBSET Wallets, TakeStale(W)
      PROVE  GroupsInv' /\ MarkInv'
  <2>1. /\ tick'.at = "insert" /\ tick'.todo # <<>>
        /\ \A i \in DOMAIN tick'.todo : \E w \in W : tick'.todo[i] = Taken({w}, TRUE)
        /\ \A i, j \in DOMAIN tick'.todo :
             i # j => tick'.todo[i].wallets \cap tick'.todo[j].wallets = {}
    BY <1>4, TakeStaleEffect
  <2>2. \A w \in W : Taken({w}, TRUE).wallets # {}
    BY TakenGroup
  <2>3. \A i \in DOMAIN tick'.todo : tick'.todo[i].wallets # {}
    BY <2>1, <2>2
  <2> QED
    BY <2>1, <2>3 DEF GroupsInv, MarkInv
<1>5. CASE InsertMatch
  <2> DEFINE g == Head(tick.todo)
  <2>1. tick.todo # <<>> /\ g \in Groups /\ tick.at = "insert"
    BY <1>5, InsertMatchEffect
  <2>2. CASE tick' = NextGroup
    BY <1>0, <2>1, <2>2, GroupsNext DEF MarkInv
  <2>3. CASE /\ matches' = Append(matches, [players |-> g.wallets, bot |-> g.bot,
                                            state |-> "live", reports |-> {}])
             /\ tick' \in Ticks /\ tick'.at = "mark" /\ tick'.todo = tick.todo
             /\ tick'.match = Len(matches')
             /\ unseen' = unseen \cup PagesOf(g.wallets)
    <3>1. GroupsInv'
      BY <1>0, <2>1, <2>3 DEF GroupsInv
    <3>2. /\ matches' \in Seq(MatchRows) /\ Len(matches') = Len(matches) + 1
          /\ matches'[Len(matches')].players = g.wallets
          /\ matches'[Len(matches')].state = "live"
          /\ matches'[Len(matches')].reports = {}
      <4>1. matches' = Append(matches, [players |-> g.wallets, bot |-> g.bot,
                                        state |-> "live", reports |-> {}])
        BY <2>3
      <4> HIDE DEF g
      <4> QED
        BY <2>1, <4>1, MatchInserted
    <3>3. Len(matches') \in DOMAIN matches'
      BY <1>m, <3>2
    <3>4. PagesOf(g.wallets) \subseteq unseen'
      BY <2>3
    <3> QED
      BY <2>3, <3>1, <3>2, <3>3, <3>4 DEF MarkInv, PagesOf
  <2> QED
    BY <1>5, <2>2, <2>3, InsertMatchEffect
<1>6. CASE MarkTickets
  <2>1. /\ tick.todo # <<>>
        /\ tick' = NextGroup \/ (tick'.at = "close" /\ tick'.todo = tick.todo)
    BY <1>6, MarkTicketsEffect
  <2>2. CASE tick' = NextGroup
    BY <1>0, <2>1, <2>2, GroupsNext DEF MarkInv
  <2>3. CASE tick'.at = "close" /\ tick'.todo = tick.todo
    BY <1>0, <2>1, <2>3 DEF GroupsInv, MarkInv
  <2> QED
    BY <2>1, <2>2, <2>3
<1>7. CASE CloseTicket
  <2>1. tick.todo # <<>> /\ (tick' = NextGroup \/ tick' = NoTick)
    BY <1>7, CloseTicketEffect
  <2>2. CASE tick' = NextGroup
    BY <1>0, <2>1, <2>2, GroupsNext DEF MarkInv
  <2>3. CASE tick' = NoTick
    BY <2>3 DEF GroupsInv, MarkInv, NoTick
  <2> QED
    BY <2>1, <2>2, <2>3
<1>8. ASSUME NEW m \in DOMAIN matches, EndMatch(m)
      PROVE  GroupsInv' /\ MarkInv'
  <2>1. UNCHANGED <<tick, unseen>> /\ tick.match # m
    BY <1>8, EndEffect
  <2>2. \E state, reports : MatchIs(m, state, reports)
    BY <1>8, EndEffect
  <2>3. /\ DOMAIN matches' = DOMAIN matches /\ matches' \in Seq(MatchRows)
        /\ \A k \in DOMAIN matches \ {m} : matches'[k] = matches[k]
    BY <2>2 DEF MatchIs
  <2>4. Len(matches') = Len(matches)
    BY <1>m, <2>3
  <2>5. tick.at = "mark" => matches'[tick.match] = matches[tick.match]
    BY <1>0, <2>1, <2>3 DEF MarkInv
  <2>6. tick.at = "mark" => PagesOf(Head(tick.todo).wallets) \subseteq unseen'
    BY <1>0, <2>1 DEF MarkInv
  <2> QED
    BY <1>0, <2>1, <2>3, <2>4, <2>5, <2>6, GroupsKept, MarkKept
<1>9. CASE Restart
  <2>1. tick' = NoTick
    BY <1>9 DEF Restart
  <2> QED
    BY <2>1 DEF GroupsInv, MarkInv, NoTick
<1> QED
  BY <1>1, <1>2, <1>3, <1>4, <1>5, <1>6, <1>7, <1>8, <1>9 DEF Next, TickStep

-----------------------------------------------------------------------------
(***************************************************************************)
(* Nobody has been told of a match the loop has not announced.             *)
(***************************************************************************)
KnownOf(p) ==
  /\ page[p].view \in 0 .. Known
  /\ request[p].kind = "report" => request[p].match \in 0 .. Known
  /\ \A k \in DOMAIN socket[p].inbox : socket[p].inbox[k].match \in 1 .. Known

\* What the pages know, page by page.
LEMMA KnownParts == KnownInv <=> \A p \in Pages : KnownOf(p)
  BY DEF KnownInv, KnownOf

\* The last match that can be known: all of them but the one being announced.
LEMMA KnownType ==
  ASSUME ServerTypes, MarkInv
  PROVE  /\ Known \in Nat /\ Len(matches) \in Nat /\ DOMAIN matches = 1 .. Len(matches)
         /\ tick.at = "mark" => Known + 1 = Len(matches) /\ tick.match = Len(matches)
         /\ tick.at # "mark" => Known = Len(matches)
  BY DEF ServerTypes, MarkInv, Known

\* A page that learns nothing.
LEMMA KnownStill ==
  ASSUME NEW p \in Pages, KnownOf(p), Known \in Nat, Known' \in Nat, Known <= Known',
         page'[p] = page[p], socket'[p].inbox = socket[p].inbox \/ socket'[p].inbox = <<>>,
         request'[p].kind = "report" =>
           \/ request'[p].match = 0
           \/ request[p].kind = "report" /\ request'[p].match = request[p].match
  PROVE  KnownOf(p)'
<1>1. page'[p].view \in 0 .. Known'
  BY DEF KnownOf
<1>2. request'[p].kind = "report" => request'[p].match \in 0 .. Known'
  BY DEF KnownOf
<1>3. \A k \in DOMAIN socket'[p].inbox : socket'[p].inbox[k].match \in 1 .. Known'
  BY DEF KnownOf
<1> QED
  BY <1>1, <1>2, <1>3 DEF KnownOf

\* An event goes to the end of the socket.
LEMMA AppendedEvents ==
  ASSUME NEW box \in Seq(Notices), NEW event \in Notices
  PROVE  /\ Append(box, event) \in Seq(Notices)
         /\ Len(Append(box, event)) = Len(box) + 1
         /\ DOMAIN Append(box, event) = DOMAIN box \cup {Len(box) + 1}
         /\ \A k \in DOMAIN box : Append(box, event)[k] = box[k]
         /\ Append(box, event)[Len(box) + 1] = event
  OBVIOUS

\* Sending an event of a known match teaches nobody of an unknown one.
LEMMA KnownSent ==
  ASSUME PageTypes, KnownInv, Known \in Nat, Known' \in Nat, Known <= Known',
         NEW W, NEW event \in Notices, event.match \in 1 .. Known', Send(W, event),
         UNCHANGED page,
         \A p \in Pages : request'[p].kind = "report" =>
           request[p].kind = "report" /\ request'[p].match = request[p].match
  PROVE  KnownInv'
<1> SUFFICES ASSUME NEW p \in Pages PROVE KnownOf(p)'
  BY KnownParts DEF KnownInv, KnownOf
<1>1. KnownOf(p)
  BY KnownParts
<1>2. page'[p].view \in 0 .. Known'
  BY <1>1 DEF KnownOf
<1>3. request'[p].kind = "report" => request'[p].match \in 0 .. Known'
  BY <1>1 DEF KnownOf
<1>4. socket'[p].inbox = socket[p].inbox \/ socket'[p].inbox = Append(socket[p].inbox, event)
  BY SendEffect
<1>5. socket[p].inbox \in Seq(Notices)
  BY DEF PageTypes, Sockets
<1>6. \A k \in DOMAIN socket'[p].inbox : socket'[p].inbox[k].match \in 1 .. Known'
  <2> DEFINE box == socket[p].inbox
             box2 == Append(box, event)
  <2>1. \A k \in DOMAIN box : box[k].match \in 1 .. Known'
    BY <1>1 DEF KnownOf
  <2>2. /\ DOMAIN box2 = DOMAIN box \cup {Len(box) + 1}
        /\ \A k \in DOMAIN box : box2[k] = box[k]
        /\ box2[Len(box) + 1] = event
    BY <1>5, AppendedEvents
  <2>3. \A k \in DOMAIN box2 : box2[k] = event \/ (k \in DOMAIN box /\ box2[k] = box[k])
    BY <2>2, Zenon
  <2>4. socket'[p].inbox = box \/ socket'[p].inbox = box2
    BY <1>4
  <2> HIDE DEF box, box2
  <2> QED
    BY <2>1, <2>3, <2>4
<1> QED
  BY <1>2, <1>3, <1>6 DEF KnownOf

\* A match that changes its state is still known or unknown as before.
LEMMA KnownMoved ==
  ASSUME ServerTypes, NEW m, NEW state, NEW reports, MatchIs(m, state, reports),
         UNCHANGED tick
  PROVE  Known' = Known
<1>1. Len(matches') = Len(matches)
  <2>1. /\ matches \in Seq(MatchRows) /\ matches' \in Seq(MatchRows)
        /\ DOMAIN matches' = DOMAIN matches
    BY DEF MatchIs, ServerTypes
  <2>2. /\ Len(matches) \in Nat /\ DOMAIN matches = 1 .. Len(matches)
        /\ Len(matches') \in Nat /\ DOMAIN matches' = 1 .. Len(matches')
    BY <2>1
  <2> QED
    BY <2>1, <2>2
<1> QED
  BY <1>1 DEF Known

\* No page, request or event ever names a match before it is announced.
LEMMA KnownInvStep ==
  ASSUME ServerTypes, PageTypes, TicketInv, TickInv, KnownInv, Next,
         ServerTypes', TickInv'
  PROVE  KnownInv'
<1> USE DEF server
<1>0. RequestTypes /\ GroupsInv /\ MarkInv /\ MarkInv'
  BY TickParts DEF PageTypes, TickInv, MarkInv
<1>k. /\ Known \in Nat /\ Len(matches) \in Nat /\ DOMAIN matches = 1 .. Len(matches)
      /\ tick.at = "mark" => Known + 1 = Len(matches) /\ tick.match = Len(matches)
      /\ tick.at # "mark" => Known = Len(matches)
  BY <1>0, KnownType
<1>l. /\ Known' \in Nat /\ Len(matches') \in Nat
      /\ tick'.at = "mark" => Known' + 1 = Len(matches')
      /\ tick'.at # "mark" => Known' = Len(matches')
  BY <1>0 DEF Known, ServerTypes, MarkInv
<1>n. Known \in Nat /\ Known' \in Nat
  BY <1>k, <1>l
<1>s. UNCHANGED <<tick, matches>> => Known' = Known
  BY DEF Known
<1>p. \A p \in Pages : KnownOf(p)
  BY KnownParts
<1>g. ASSUME \A p \in Pages : KnownOf(p)' PROVE KnownInv'
  BY <1>g DEF KnownInv, KnownOf
<1>h. ASSUME UNCHANGED page, Known <= Known',
             \A p \in Pages :
               socket'[p].inbox = socket[p].inbox \/ socket'[p].inbox = <<>>,
             \A p \in Pages :
               request'[p].kind = "report" =>
                 \/ request'[p].match = 0
                 \/ request[p].kind = "report" /\ request'[p].match = request[p].match
      PROVE  KnownInv'
  BY <1>g, <1>h, <1>k, <1>l, <1>p, KnownStill
<1>1. ASSUME NEW p \in Pages, PageStep(p)
      PROVE  KnownInv'
  <2>1. UNCHANGED server /\ OnlyPage(p) /\ OnlyRequest(p)
        /\ \A o \in Pages \ {p} : socket'[o] = socket[o]
    BY <1>1, PageStepFrame DEF PageFrame
  <2>2. Known' = Known
    BY <1>s, <2>1
  <2>3. News(p) /\ KnownOf(p)
    BY <1>1, <1>p, PageStepNews
  <2>4. socket[p].inbox \in Seq(Notices)
    BY DEF PageTypes, Sockets
  <2>5. KnownOf(p)'
    <3>1. page'[p].view \in 0 .. Known'
      <4>1. socket[p].inbox # <<>> => Head(socket[p].inbox).match \in 1 .. Known
        <5>1. socket[p].inbox # <<>> =>
                Head(socket[p].inbox) = socket[p].inbox[1] /\ 1 \in DOMAIN socket[p].inbox
          BY <2>4, TailOf
        <5> QED
          BY <2>3, <5>1, Zenon DEF KnownOf
      <4>2. page[p].view \in 0 .. Known
        BY <2>3 DEF KnownOf
      <4>3. \/ page'[p].view = page[p].view \/ page'[p].view = 0
            \/ socket[p].inbox # <<>> /\ page'[p].view = Head(socket[p].inbox).match
        BY <2>3 DEF News
      <4> QED
        BY <1>n, <2>2, <4>1, <4>2, <4>3
    <3>2. request'[p].kind = "report" => request'[p].match \in 0 .. Known'
      BY <2>2, <2>3 DEF News, KnownOf
    <3>3. \A k \in DOMAIN socket'[p].inbox : socket'[p].inbox[k].match \in 1 .. Known'
      <4> DEFINE box == socket[p].inbox
                 tail == Tail(box)
      <4>1. box # <<>> => \A k \in DOMAIN tail : k + 1 \in DOMAIN box /\ tail[k] = box[k + 1]
        BY <2>4, TailOf
      <4>2. \A k \in DOMAIN box : box[k].match \in 1 .. Known'
        BY <2>2, <2>3 DEF KnownOf
      <4>3. \/ socket'[p].inbox = box \/ socket'[p].inbox = <<>>
            \/ box # <<>> /\ socket'[p].inbox = tail
        BY <2>3 DEF News
      <4> HIDE DEF box, tail
      <4> QED
        BY <4>1, <4>2, <4>3
    <3> QED
      BY <3>1, <3>2, <3>3 DEF KnownOf
  <2>6. ASSUME NEW o \in Pages \ {p} PROVE KnownOf(o)'
    <3>1. page'[o] = page[o] /\ request'[o] = request[o] /\ socket'[o].inbox = socket[o].inbox
      BY <2>1 DEF OnlyPage, OnlyRequest
    <3> QED
      <4>1. /\ KnownOf(o) /\ Known <= Known'
            /\ page'[o] = page[o]
            /\ socket'[o].inbox = socket[o].inbox \/ socket'[o].inbox = <<>>
            /\ request'[o].kind = "report" =>
                 \/ request'[o].match = 0
                 \/ request[o].kind = "report" /\ request'[o].match = request[o].match
        BY <1>n, <1>p, <2>2, <3>1
      <4> QED
        BY <1>n, <4>1, KnownStill
  <2> QED
    BY <1>g, <2>5, <2>6
<1>2. ASSUME NEW p \in Pages, RequestStep(p), UNCHANGED page
      PROVE  KnownInv'
  <2>1. CASE ReportOutcome(p)
    <3> DEFINE m == request[p].match
    <3>1. UNCHANGED tick
      BY <1>0, <2>1, ReportEffect
    <3>2. \A o \in Pages : request'[o].kind = "report" =>
            request[o].kind = "report" /\ request'[o].match = request[o].match
      BY <1>0, <2>1, RequestStepEffect DEF OnlyRequest, ReportOutcome, Waits
    <3>3. CASE UNCHANGED <<matches, socket, behind>>
      <4>1. Known <= Known'
        BY <1>n, <1>s, <3>1, <3>3
      <4> QED
        BY <1>h, <1>2, <3>2, <3>3, <4>1
    <3>4. CASE MatchIs(m, "live", matches[m].reports \cup {WalletOf[p]}) /\ UNCHANGED socket
      <4>1. Known' = Known
        BY <3>1, <3>4, KnownMoved
      <4>2. Known <= Known'
        BY <1>n, <4>1
      <4> QED
        BY <1>h, <1>2, <3>2, <3>4, <4>2
    <3>5. ASSUME m \in MatchesOf(WalletOf[p], "live"), NEW e \in EndEvents,
                 MatchIs(m, e[1], matches[m].reports \cup {WalletOf[p]}),
                 Send(matches[m].players, [type |-> e[2], match |-> m])
          PROVE  KnownInv'
      <4>1. Known' = Known
        BY <3>1, <3>5, KnownMoved
      <4>2. m \in 1 .. Known
        <5>1. m \in DOMAIN matches /\ m \in 0 .. Known
          BY <2>1, <3>5 DEF MatchesOf, KnownInv, ReportOutcome, Waits
        <5>2. m \in 1 .. Len(matches) /\ Len(matches) \in Nat
          BY <1>k, <5>1
        <5> QED
          BY <1>n, <5>1, <5>2
      <4> DEFINE event == [type |-> e[2], match |-> m]
      <4>3. event \in Notices /\ event.match = m
        <5>1. m \in Nat
          BY <1>n, <4>2
        <5> QED
          BY <5>1, EventTyped
      <4>4. Send(matches[m].players, event)
        BY <3>5
      <4> HIDE DEF event, m
      <4>5. event.match \in 1 .. Known' /\ Known <= Known'
        BY <1>n, <4>1, <4>2, <4>3
      <4> QED
        BY <1>n, <1>2, <3>2, <4>3, <4>4, <4>5, KnownSent
    <3> QED
      BY <1>0, <2>1, <3>3, <3>4, <3>5, ReportEffect
  <2>2. CASE ~ReportOutcome(p)
    <3>1. UNCHANGED <<tick, matches, socket>>
      BY <1>2, <2>2, CancelEffect
      DEF RequestStep, JoinCheckLive, JoinCheckTicket, InsertTicket, EnterQueue,
          LeaveQueue
    <3>2. \A o \in Pages : request'[o].kind = "report" =>
            request[o].kind = "report" /\ request'[o].match = request[o].match
      BY <1>0, <1>2, <2>2, RequestStepEffect DEF OnlyRequest, RequestStep
    <3> QED
      <4>1. Known <= Known'
        BY <1>n, <1>s, <3>1
      <4> QED
        BY <1>h, <1>2, <3>1, <3>2, <4>1
  <2> QED
    BY <2>1, <2>2
<1>j. ASSUME UNCHANGED matches, tick'.at # "mark"
      PROVE  Known <= Known'
  <2>1. Len(matches) \in Nat /\ Known' = Len(matches)
    BY <1>j, <1>k, <1>l
  <2>2. Known = Len(matches) \/ Known + 1 = Len(matches)
    BY <1>k
  <2> QED
    BY <1>n, <2>1, <2>2
<1>3. ASSUME UNCHANGED <<matches, request, socket, page>>, tick'.at # "mark"
      PROVE  KnownInv'
  BY <1>h, <1>3, <1>j
<1>4. ASSUME NEW a \in Wallets, NEW b \in Wallets, TakePair(a, b), UNCHANGED page
      PROVE  KnownInv'
  BY <1>3, <1>4, TakePairEffect DEF TakePair
<1>5. ASSUME NEW W \in SUBSET Wallets, TakeStale(W), UNCHANGED page
      PROVE  KnownInv'
  BY <1>3, <1>5, TakeStaleEffect DEF TakeStale
<1>6. CASE InsertMatch /\ UNCHANGED page
  <2> DEFINE g == Head(tick.todo)
  <2>1. tick.todo # <<>> /\ g \in Groups /\ tick.at = "insert" /\ UNCHANGED <<request, socket>>
    BY <1>6, InsertMatchEffect
  <2>2. CASE tick' = NextGroup /\ UNCHANGED matches
    BY <1>0, <1>3, <1>6, <2>1, <2>2, GroupsNext
  <2>3. CASE /\ matches' = Append(matches, [players |-> g.wallets, bot |-> g.bot,
                                            state |-> "live", reports |-> {}])
             /\ tick'.at = "mark"
    <3>1. Len(matches') = Len(matches) + 1
      <4>1. matches' = Append(matches, [players |-> g.wallets, bot |-> g.bot,
                                        state |-> "live", reports |-> {}])
        BY <2>3
      <4> HIDE DEF g
      <4> QED
        BY <2>1, <4>1, MatchInserted
    <3>2. Known' = Known
      BY <1>k, <1>l, <2>1, <2>3, <3>1
    <3> QED
      BY <1>h, <1>n, <1>6, <2>1, <3>2
  <2> QED
    BY <1>6, <2>2, <2>3, InsertMatchEffect
<1>7. CASE MarkTickets /\ UNCHANGED page
  <2> DEFINE g == Head(tick.todo)
             event == [type |-> "match_found", match |-> tick.match]
  <2>1. /\ tick.at = "mark" /\ tick.todo # <<>> /\ event \in Notices
        /\ UNCHANGED <<matches, request>>
        /\ \/ /\ Send(g.wallets, event)
              /\ tick' = NextGroup \/ tick'.at = "close"
           \/ tick' = NextGroup /\ UNCHANGED socket
    BY <1>7, MarkTicketsEffect
  <2>2. tick'.at # "mark"
    BY <1>0, <2>1, GroupsNext
  <2>3. CASE Send(g.wallets, event)
    <3>1. event.match \in 1 .. Known' /\ Known <= Known'
      BY <1>k, <1>l, <2>1, <2>2
    <3> HIDE DEF event
    <3> QED
      BY <1>n, <1>7, <2>1, <2>3, <3>1, KnownSent
  <2>4. CASE UNCHANGED socket
    BY <1>3, <1>7, <2>1, <2>2, <2>4
  <2> QED
    BY <2>1, <2>3, <2>4
<1>8. CASE CloseTicket /\ UNCHANGED page
  <2>1. /\ UNCHANGED <<matches, request, socket>> /\ tick.todo # <<>>
        /\ tick' = NextGroup \/ tick' = NoTick
    BY <1>8, CloseTicketEffect
  <2>2. tick'.at # "mark"
    BY <1>0, <2>1, GroupsNext DEF NoTick
  <2> QED
    BY <1>3, <1>8, <2>1, <2>2
<1>9. ASSUME NEW m \in DOMAIN matches, EndMatch(m), UNCHANGED page
      PROVE  KnownInv'
  <2>1. UNCHANGED <<tick, request>> /\ tick.match # m
    BY <1>9, EndEffect
  <2>2. PICK e \in EndEvents :
          /\ MatchIs(m, e[1], matches[m].reports)
          /\ Send(matches[m].players, [type |-> e[2], match |-> m])
    BY <1>9, EndEffect
  <2>3. Known' = Known
    BY <2>1, <2>2, KnownMoved
  <2>4. m \in 1 .. Known
    <3>1. m \in 1 .. Len(matches) /\ Len(matches) \in Nat
      BY <1>k
    <3>2. Known = Len(matches) \/ (Known + 1 = Len(matches) /\ m # Len(matches))
      BY <1>k, <2>1
    <3> QED
      BY <1>n, <3>1, <3>2
  <2> DEFINE event == [type |-> e[2], match |-> m]
  <2>5. event \in Notices /\ event.match = m /\ Send(matches[m].players, event)
    <3>1. m \in Nat
      BY <1>n, <2>4
    <3> QED
      BY <2>2, <3>1, EventTyped
  <2> HIDE DEF event
  <2>6. event.match \in 1 .. Known' /\ Known <= Known'
    BY <1>n, <2>3, <2>4, <2>5
  <2> QED
    BY <1>n, <1>9, <2>1, <2>5, <2>6, KnownSent
<1>10. CASE Restart /\ UNCHANGED page
  <2>1. /\ UNCHANGED matches /\ tick' = NoTick
        /\ \A p \in Pages : IF request[p].kind = "none" THEN request'[p] = NoRequest
                            ELSE request'[p].at = "error" /\ request'[p].match = 0
        /\ \A p \in Pages : socket'[p].inbox = <<>>
    BY <1>0, <1>10, RestartEffect
  <2>2. Known <= Known'
    BY <1>j, <2>1 DEF NoTick
  <2>3. \A p \in Pages : request'[p].kind = "report" => request'[p].match = 0
    BY <2>1 DEF NoRequest
  <2> QED
    BY <1>h, <1>10, <2>1, <2>2, <2>3
<1> QED
  BY <1>1, <1>2, <1>4, <1>5, <1>6, <1>7, <1>8, <1>9, <1>10 DEF Next, TickStep

-----------------------------------------------------------------------------
(***************************************************************************)
(* A player with a live match is on no way to another one.                 *)
(***************************************************************************)
\* Nothing brings the player closer to another match.
NoWay(w) ==
  /\ queue'[w] = 0 \/ queue'[w] = queue[w]
  /\ Waiting(w)' => Waiting(w)
  /\ Joining(w)' => Joining(w)
  /\ Marking(w) =>
       \/ TicketsOf(w, "queued")' = {}
       \/ Marking(w)' /\ Head(tick'.todo).ticket[w] = Head(tick.todo).ticket[w]

\* A player with fewer live matches and no new way into the queue has still
\* one at most.
LEMMA OneLiveKept ==
  ASSUME NEW w \in Wallets, OneLive(w),
         MatchesOf(w, "live")' \subseteq MatchesOf(w, "live"),
         LastOf(w)' = LastOf(w),
         TicketsOf(w, "queued")' \subseteq TicketsOf(w, "queued"),
         MatchesOf(w, "live")' # {} => NoWay(w)
  PROVE  OneLive(w)'
<1>1. \A m \in MatchesOf(w, "live")' : m = LastOf(w)'
  BY DEF OneLive
<1>2. \A s, t \in TicketsOf(w, "queued")' : s = t
  BY DEF OneLive
<1>3. ASSUME MatchesOf(w, "live")' # {}
      PROVE  /\ queue'[w] = 0 /\ ~Waiting(w)' /\ ~Joining(w)'
             /\ \A t \in TicketsOf(w, "queued")' :
                  Marking(w)' /\ t = Head(tick'.todo).ticket[w]
  <2>1. NoWay(w) /\ MatchesOf(w, "live") # {}
    BY <1>3
  <2>2. /\ queue[w] = 0 /\ ~Waiting(w) /\ ~Joining(w)
        /\ \A t \in TicketsOf(w, "queued") :
             Marking(w) /\ t = Head(tick.todo).ticket[w]
    BY <2>1 DEF OneLive
  <2>3. \A t \in TicketsOf(w, "queued")' :
          Marking(w)' /\ t = Head(tick'.todo).ticket[w]
    BY <2>1, <2>2, Zenon DEF NoWay
  <2> QED
    BY <2>1, <2>2, <2>3 DEF NoWay
<1> QED
  BY <1>1, <1>2, <1>3, Zenon DEF OneLive

\* The matches of a player depend on the match rows alone.
LEMMA SameMatches ==
  ASSUME UNCHANGED matches
  PROVE  /\ \A w, s : MatchesOf(w, s)' = MatchesOf(w, s)
         /\ \A w : LastOf(w)' = LastOf(w)
<1>1. \A w : PlayedBy(w)' = PlayedBy(w)
  BY DEF PlayedBy
<1> QED
  BY <1>1 DEF MatchesOf, LastOf

\* The tickets of a player depend on the ticket rows alone.
LEMMA SameRows ==
  ASSUME UNCHANGED tickets
  PROVE  \A w, s : TicketsOf(w, s)' = TicketsOf(w, s)
  BY DEF TicketsOf

\* Who waits in the loop depends on the loop alone.
LEMMA SameTick ==
  ASSUME UNCHANGED tick
  PROVE  /\ \A w : Waiting(w)' <=> Waiting(w)
         /\ \A w : Marking(w)' <=> Marking(w)
  BY DEF Waiting, Marking

\* Who is joining depends on the requests alone.
LEMMA SameJoining ==
  ASSUME UNCHANGED request
  PROVE  \A w : Joining(w)' <=> Joining(w)
  BY DEF Joining, PagesOf

\* One request moves: the others join as before.
LEMMA JoiningMoved ==
  ASSUME NEW p \in Pages, OnlyRequest(p), NEW w,
         w = WalletOf[p] /\ request'[p].kind = "join"
           /\ request'[p].at \in {"checked", "insert", "enter"} =>
             request[p].kind = "join" /\ request[p].at \in {"checked", "insert", "enter"}
  PROVE  Joining(w)' => Joining(w)
  BY DEF Joining, PagesOf, OnlyRequest

\* The groups that are left were waiting before.
LEMMA WaitingNext ==
  ASSUME ServerTypes, TickInv, tick.todo # <<>>, tick' = NextGroup \/ tick' = NoTick, NEW w
  PROVE  Waiting(w)' => Waiting(w)
<1>1. CASE tick' = NoTick
  BY <1>1 DEF NoTick, Waiting
<1>2. CASE tick' = NextGroup
  <2>1. /\ tick' \in Ticks
        /\ \A i \in DOMAIN tick'.todo :
             i + 1 \in DOMAIN tick.todo /\ tick'.todo[i] = tick.todo[i + 1]
    BY <1>2, NextGroupIs
  <2>2. \A i \in DOMAIN tick'.todo : i \in Nat \ {0}
    BY <2>1 DEF Ticks
  <2>3. ASSUME Waiting(w)' PROVE Waiting(w)
    <3>1. PICK i \in DOMAIN tick'.todo : w \in tick'.todo[i].wallets
      BY <2>3 DEF Waiting
    <3>2. i + 1 > 1
      BY <2>2
    <3> QED
      BY <2>1, <3>1, <3>2 DEF Waiting
  <2> QED
    BY <2>3
<1> QED
  BY <1>1, <1>2

\* Whoever waits for a match has none, and neither has whoever is in the
\* queue or has passed the check.
LEMMA NoLive ==
  ASSUME NEW w \in Wallets, OneLive(w), queue[w] # 0 \/ Waiting(w) \/ Joining(w)
  PROVE  MatchesOf(w, "live") = {}
  BY DEF OneLive

\* A match that changes its state moves between the sets of its own players'
\* matches.
LEMMA MatchIsMoved ==
  ASSUME ServerTypes, NEW m \in DOMAIN matches, NEW state, NEW reports,
         MatchIs(m, state, reports)
  PROVE  /\ \A w : LastOf(w)' = LastOf(w)
         /\ \A w, s : MatchesOf(w, s)' =
              (MatchesOf(w, s) \ {m})
                \cup IF w \in matches[m].players /\ s = state THEN {m} ELSE {}
  BY MatchMoved DEF MatchIs

\* The check of queue_join and the loop never give an untangled player a
\* second live match.
LEMMA OneLiveStep ==
  ASSUME ServerTypes, PageTypes, TicketInv, TickInv, OneLiveInv, Next
  PROVE  OneLiveInv'
<1> USE DEF server
<1>0. RequestTypes
  BY DEF PageTypes
<1>w. \A w \in Wallets \ tangled : OneLive(w)
  BY DEF OneLiveInv
<1>z. ASSUME tangled \subseteq tangled',
             \A w \in Wallets : OneLive(w) /\ w \notin tangled' => OneLive(w)'
      PROVE  OneLiveInv'
  BY <1>w, <1>z DEF OneLiveInv
<1>m. tick.at # "mark" => \A w : ~Marking(w)
  BY DEF Marking
<1>1. ASSUME NEW p \in Pages, PageStep(p)
      PROVE  OneLiveInv'
  <2>1. /\ UNCHANGED server /\ OnlyRequest(p) /\ tangled \subseteq tangled'
        /\ request'[p] = request[p] \/ request'[p].at \in {"none", "start", "error"}
    BY <1>1, PageStepFrame DEF PageFrame
  <2>2. \A w : Joining(w)' => Joining(w)
    BY <2>1, JoiningMoved
  <2>3. ASSUME NEW w \in Wallets, OneLive(w) PROVE OneLive(w)'
    <3>1. NoWay(w)
      BY <2>1, <2>2, SameTick DEF NoWay
    <3> QED
      BY <2>1, <2>3, <3>1, OneLiveKept, SameMatches, SameRows
  <2> QED
    BY <1>z, <2>1, <2>3
<1>2. ASSUME NEW p \in Pages, RequestStep(p)
      PROVE  OneLiveInv'
  <2> DEFINE v == WalletOf[p]
  <2>0. v \in Wallets /\ p \in PagesOf({v})
    BY QueueAssumption DEF PagesOf
  <2>j. request[p].kind = "join" /\ request[p].at \in {"checked", "insert", "enter"}
          => Joining(v)
    BY <2>0 DEF Joining
  <2>1. ASSUME UNCHANGED <<matches, tick>>, tangled \subseteq tangled',
               \A w \in Wallets : TicketsOf(w, "queued")' \subseteq TicketsOf(w, "queued"),
               NEW w \in Wallets, OneLive(w),
               MatchesOf(w, "live") # {} =>
                 /\ queue'[w] = 0 \/ queue'[w] = queue[w]
                 /\ Joining(w)' => Joining(w)
        PROVE  OneLive(w)'
    <3>1. MatchesOf(w, "live") # {} => NoWay(w)
      BY <2>1, SameTick DEF NoWay
    <3> QED
      BY <2>1, <3>1, OneLiveKept, SameMatches
  <2>2. CASE JoinCheckLive(p)
    <3>1. UNCHANGED server /\ UNCHANGED tangled
      BY <2>2 DEF JoinCheckLive, history
    <3>2. /\ OnlyRequest(p)
          /\ request'[p].at = IF MatchesOf(v, "live") # {} THEN "error" ELSE "checked"
      BY <1>0, <2>2, RequestStepEffect
    <3>3. ASSUME NEW w \in Wallets, OneLive(w) PROVE OneLive(w)'
      <4>1. MatchesOf(w, "live") # {} => (Joining(w)' => Joining(w))
        BY <3>2, JoiningMoved
      <4> QED
        BY <2>1, <3>1, <3>3, <4>1, SameRows
    <3> QED
      BY <1>z, <3>1, <3>3
  <2>3. CASE JoinCheckTicket(p)
    <3>1. UNCHANGED server /\ UNCHANGED tangled
      BY <2>3 DEF JoinCheckTicket, history
    <3>2. OnlyRequest(p) /\ Joining(v)
      BY <1>0, <2>3, <2>j, RequestStepEffect DEF JoinCheckTicket, Waits
    <3>3. \A w : Joining(w)' => Joining(w)
      BY <3>2, JoiningMoved, <2>3 DEF JoinCheckTicket, Waits
    <3>4. ASSUME NEW w \in Wallets, OneLive(w) PROVE OneLive(w)'
      BY <2>1, <3>1, <3>3, <3>4, SameRows
    <3> QED
      BY <1>z, <3>1, <3>4
  <2>4. CASE InsertTicket(p)
    <3>1. /\ UNCHANGED <<queue, matches, tick>>
          /\ TicketsOf(v, "queued")' = TicketsOf(v, "queued") \cup {Len(tickets) + 1}
          /\ \A w \in Wallets \ {v} : TicketsOf(w, "queued")' = TicketsOf(w, "queued")
          /\ tangled' = IF TicketsOf(v, "queued") # {} THEN tangled \cup {v} ELSE tangled
      BY <2>4, InsertEffect
    <3>2. OnlyRequest(p) /\ Joining(v)
      BY <1>0, <2>4, <2>j, RequestStepEffect DEF InsertTicket, Waits
    <3>3. \A w : Joining(w)' => Joining(w)
      BY <3>2, JoiningMoved, <2>4 DEF InsertTicket, Waits
    <3>4. ASSUME NEW w \in Wallets \ {v}, OneLive(w) PROVE OneLive(w)'
      <4>1. NoWay(w)
        BY <3>1, <3>3, SameTick DEF NoWay
      <4> QED
        BY <3>1, <3>4, <4>1, OneLiveKept, SameMatches
    <3>5. ASSUME OneLive(v), v \notin tangled' PROVE OneLive(v)'
      <4>1. MatchesOf(v, "live") = {}
        BY <2>0, <3>2, <3>5, NoLive
      <4>2. MatchesOf(v, "live")' = {}
        BY <3>1, <4>1, SameMatches
      <4>3. TicketsOf(v, "queued")' = {Len(tickets) + 1}
        BY <3>1, <3>5
      <4> QED
        BY <4>2, <4>3 DEF OneLive
    <3> HIDE DEF v
    <3> QED
      BY <1>z, <3>1, <3>4, <3>5
  <2>5. CASE EnterQueue(p)
    <3>1. UNCHANGED <<tickets, matches, tick, tangled>>
      BY <2>5 DEF EnterQueue, history
    <3>2. \A w \in Wallets \ {v} : queue'[w] = queue[w]
      BY <2>5 DEF EnterQueue, ServerTypes
    <3>3. OnlyRequest(p) /\ Joining(v)
      BY <1>0, <2>5, <2>j, RequestStepEffect DEF EnterQueue, Waits
    <3>4. \A w : Joining(w)' => Joining(w)
      BY <3>3, JoiningMoved, <2>5 DEF EnterQueue, Waits
    <3>5. ASSUME NEW w \in Wallets, OneLive(w) PROVE OneLive(w)'
      <4>1. w = v => MatchesOf(w, "live") = {}
        BY <3>3, <3>5, NoLive
      <4> QED
        BY <2>1, <3>1, <3>2, <3>4, <3>5, <4>1, SameRows
    <3> QED
      BY <1>z, <3>1, <3>5
  <2>6. CASE CancelTicket(p)
    <3>1. /\ UNCHANGED <<queue, matches, tick, tangled>>
          /\ \A w \in Wallets : TicketsOf(w, "queued")' \subseteq TicketsOf(w, "queued")
      <4>1. /\ UNCHANGED <<queue, matches, tick, tangled>>
            /\ TicketsOf(v, "queued")' \subseteq TicketsOf(v, "queued")
            /\ \A w \in Wallets \ {v} : TicketsOf(w, "queued")' = TicketsOf(w, "queued")
        BY <2>6, CancelEffect
      <4> HIDE DEF v
      <4> QED
        BY <4>1
    <3>2. OnlyRequest(p) /\ request'[p].at = "forget"
      BY <1>0, <2>6, RequestStepEffect
    <3>3. \A w : Joining(w)' => Joining(w)
      BY <3>2, JoiningMoved
    <3>4. ASSUME NEW w \in Wallets, OneLive(w) PROVE OneLive(w)'
      BY <2>1, <3>1, <3>3, <3>4
    <3> QED
      BY <1>z, <3>1, <3>4
  <2>7. CASE LeaveQueue(p)
    <3>1. UNCHANGED <<tickets, matches, tick, tangled>>
      BY <2>7 DEF LeaveQueue, history
    <3>2. \A w \in Wallets : queue'[w] = 0 \/ queue'[w] = queue[w]
      BY <2>7 DEF LeaveQueue, ServerTypes
    <3>3. OnlyRequest(p) /\ request'[p].at = "ok"
      BY <1>0, <2>7, RequestStepEffect
    <3>4. \A w : Joining(w)' => Joining(w)
      BY <3>3, JoiningMoved
    <3>5. ASSUME NEW w \in Wallets, OneLive(w) PROVE OneLive(w)'
      BY <2>1, <3>1, <3>2, <3>4, <3>5, SameRows
    <3> QED
      BY <1>z, <3>1, <3>5
  <2>8. CASE ReportOutcome(p)
    <3> DEFINE m == request[p].match
    <3>1. UNCHANGED <<tickets, queue, tick, tangled>>
      BY <1>0, <2>8, ReportEffect
    <3>2. OnlyRequest(p) /\ request'[p].kind = "report"
      BY <1>0, <2>8, RequestStepEffect
    <3>3. \A w : Joining(w)' => Joining(w)
      BY <3>2, JoiningMoved
    <3>4. \/ UNCHANGED matches
          \/ m \in MatchesOf(v, "live") /\ \E state, reports : MatchIs(m, state, reports)
      BY <1>0, <2>8, ReportEffect
    <3>5. \A w : /\ LastOf(w)' = LastOf(w)
                 /\ MatchesOf(w, "live")' \subseteq MatchesOf(w, "live")
      <4>1. CASE UNCHANGED matches
        BY <4>1, SameMatches
      <4>2. CASE m \in MatchesOf(v, "live") /\ \E state, reports : MatchIs(m, state, reports)
        <5>1. PICK state, reports : MatchIs(m, state, reports)
          BY <4>2
        <5>2. m \in DOMAIN matches /\ \A w : w \in matches[m].players => m \in MatchesOf(w, "live")
          BY <4>2 DEF MatchesOf
        <5> HIDE DEF m, v
        <5> QED
          BY <5>1, <5>2, MatchIsMoved
      <4> QED
        BY <3>4, <4>1, <4>2
    <3>6. ASSUME NEW w \in Wallets, OneLive(w) PROVE OneLive(w)'
      <4>1. NoWay(w)
        BY <3>1, <3>3, SameTick DEF NoWay
      <4> QED
        BY <3>1, <3>5, <3>6, <4>1, OneLiveKept, SameRows
    <3> QED
      BY <1>z, <3>1, <3>6
  <2> QED
    BY <1>2, <2>2, <2>3, <2>4, <2>5, <2>6, <2>7, <2>8 DEF RequestStep
<1>3. ASSUME UNCHANGED <<tickets, matches, request, tangled>>, tick.at = "idle",
             \A w \in Wallets : queue'[w] = 0 \/ queue'[w] = queue[w],
             \A i \in DOMAIN tick'.todo : \A w \in tick'.todo[i].wallets :
               w \in Wallets => queue[w] # 0
      PROVE  OneLiveInv'
  <2>1. ASSUME NEW w \in Wallets, OneLive(w) PROVE OneLive(w)'
    <3>1. ASSUME MatchesOf(w, "live") # {} PROVE NoWay(w)
      <4>1. queue[w] = 0
        BY <2>1, <3>1, NoLive
      <4>2. ~Waiting(w)'
        BY <1>3, <4>1 DEF Waiting
      <4> QED
        BY <1>3, <1>m, <4>2, SameJoining DEF NoWay
    <3> QED
      BY <1>3, <2>1, <3>1, OneLiveKept, SameMatches, SameRows
  <2> QED
    BY <1>3, <1>z, <2>1
<1>4. ASSUME NEW a \in Wallets, NEW b \in Wallets, TakePair(a, b)
      PROVE  OneLiveInv'
  <2>1. /\ UNCHANGED <<tickets, matches, request, tangled>> /\ tick.at = "idle"
        /\ queue[a] # 0 /\ queue[b] # 0
    BY <1>4 DEF TakePair, history
  <2> DEFINE g == Taken({a, b}, FALSE)
  <2>2. g.wallets = {a, b}
    BY TakenGroup
  <2>3. /\ tick'.todo = <<g>>
        /\ \A w \in Wallets : queue'[w] = 0 \/ queue'[w] = queue[w]
    BY <1>4, TakePairEffect
  <2> HIDE DEF g
  <2>4. \A i \in DOMAIN tick'.todo : \A w \in tick'.todo[i].wallets :
          w \in Wallets => queue[w] # 0
    BY <2>1, <2>2, <2>3
  <2> QED
    BY <1>3, <2>1, <2>3, <2>4
<1>5. ASSUME NEW W \in SUBSET Wallets, TakeStale(W)
      PROVE  OneLiveInv'
  <2>1. /\ UNCHANGED <<tickets, matches, request, tangled>> /\ tick.at = "idle"
        /\ \A w \in W : queue[w] # 0
    BY <1>5 DEF TakeStale, history
  <2>2. \A v \in W : Taken({v}, TRUE).wallets = {v}
    BY TakenGroup
  <2>3. /\ \A i \in DOMAIN tick'.todo : \E v \in W : tick'.todo[i] = Taken({v}, TRUE)
        /\ \A w \in Wallets : queue'[w] = 0 \/ queue'[w] = queue[w]
    BY <1>5, TakeStaleEffect
  <2>4. \A i \in DOMAIN tick'.todo : \A w \in tick'.todo[i].wallets :
          w \in Wallets => queue[w] # 0
    BY <2>1, <2>2, <2>3
  <2> QED
    BY <1>3, <2>1, <2>3, <2>4
<1>6. CASE InsertMatch
  <2> DEFINE g == Head(tick.todo)
  <2>1. /\ tick.at = "insert" /\ tick.todo # <<>> /\ g \in Groups
        /\ g = tick.todo[1] /\ 1 \in DOMAIN tick.todo
        /\ UNCHANGED <<tickets, request>>
    BY <1>6, InsertMatchEffect
  <2>2. \A w \in g.wallets : Waiting(w)
    BY <2>1 DEF Waiting
  <2>3. CASE Rejoin(g) /\ tick' = NextGroup /\ UNCHANGED <<matches, tangled>>
    <3>1. \A w \in Wallets :
            queue'[w] = IF w \in g.wallets THEN g.ticket[w] ELSE queue[w]
      BY <2>1, <2>3, RejoinEffect
    <3>2. ASSUME NEW w \in Wallets, OneLive(w) PROVE OneLive(w)'
      <4>1. ASSUME MatchesOf(w, "live") # {} PROVE NoWay(w)
        <5>1. w \notin g.wallets
          BY <2>2, <3>2, <4>1, NoLive
        <5>2. Waiting(w)' => Waiting(w)
          BY <2>1, <2>3, WaitingNext
        <5> QED
          BY <1>m, <2>1, <3>1, <5>1, <5>2, SameJoining DEF NoWay
      <4> QED
        BY <2>1, <2>3, <3>2, <4>1, OneLiveKept, SameMatches, SameRows
    <3> QED
      BY <1>z, <2>3, <3>2
  <2>4. CASE /\ matches' = Append(matches, [players |-> g.wallets, bot |-> g.bot,
                                            state |-> "live", reports |-> {}])
             /\ tick'.at = "mark" /\ tick'.todo = tick.todo
             /\ tangled' = tangled \cup {w \in g.wallets : Overlaps(w, g.ticket[w])}
             /\ UNCHANGED queue
    <3>1. /\ \A w \in g.wallets :
               /\ MatchesOf(w, "live")' = MatchesOf(w, "live") \cup {Len(matches')}
               /\ LastOf(w)' = Len(matches')
          /\ \A w \in Wallets \ g.wallets :
               /\ MatchesOf(w, "live")' = MatchesOf(w, "live")
               /\ LastOf(w)' = LastOf(w)
      <4>1. matches' = Append(matches, [players |-> g.wallets, bot |-> g.bot,
                                        state |-> "live", reports |-> {}])
        BY <2>4
      <4> HIDE DEF g
      <4> QED
        BY <2>1, <4>1, MatchInserted
    <3>2. ASSUME NEW w \in Wallets \ g.wallets, OneLive(w) PROVE OneLive(w)'
      <4>1. Waiting(w)' => Waiting(w)
        BY <2>1, <2>4 DEF Waiting
      <4>2. NoWay(w)
        BY <1>m, <2>1, <2>4, <4>1, SameJoining DEF NoWay
      <4> QED
        BY <2>1, <3>1, <3>2, <4>2, OneLiveKept, SameRows
    <3>3. ASSUME NEW w \in Wallets, w \in g.wallets, OneLive(w), w \notin tangled'
          PROVE  OneLive(w)'
      <4>1. MatchesOf(w, "live") = {}
        BY <2>2, <3>3, NoLive
      <4>2. MatchesOf(w, "live")' = {Len(matches')} /\ LastOf(w)' = Len(matches')
        BY <3>1, <3>3, <4>1
      <4>3. ~Overlaps(w, g.ticket[w])
        BY <2>4, <3>3
      <4>4. queue[w] = 0 /\ ~Joining(w) /\ TicketsOf(w, "queued") \ {g.ticket[w]} = {}
        BY <4>3 DEF Overlaps, Joining
      <4>5. ~Waiting(w)'
        <5>1. \A i, j \in DOMAIN tick.todo :
                i # j => tick.todo[i].wallets \cap tick.todo[j].wallets = {}
          BY DEF TickInv
        <5>2. \A i \in DOMAIN tick.todo : i > 1 => w \notin tick.todo[i].wallets
          BY <2>1, <3>3, <5>1
        <5> QED
          BY <2>4, <5>2 DEF Waiting
      <4>6. Marking(w)' /\ Head(tick'.todo).ticket[w] = g.ticket[w]
        BY <2>4, <3>3 DEF Marking
      <4>7. TicketsOf(w, "queued")' \subseteq {g.ticket[w]}
        BY <2>1, <4>4, SameRows
      <4>8. queue'[w] = 0 /\ ~Joining(w)'
        BY <2>1, <2>4, <4>4, SameJoining
      <4> HIDE DEF g
      <4> QED
        BY <4>2, <4>5, <4>6, <4>7, <4>8 DEF OneLive
    <3>4. tangled \subseteq tangled'
      BY <2>4
    <3> QED
      BY <1>z, <3>2, <3>3, <3>4
  <2> QED
    BY <1>6, <2>3, <2>4, InsertMatchEffect
<1>7. CASE MarkTickets
  <2> DEFINE g == Head(tick.todo)
  <2>1. /\ tick.at = "mark" /\ tick.todo # <<>> /\ g \in Groups
        /\ g = tick.todo[1] /\ 1 \in DOMAIN tick.todo
        /\ UNCHANGED <<matches, request>>
    BY <1>7, MarkTicketsEffect
  <2>2. \A w : Marking(w) <=> w \in g.wallets
    BY <2>1 DEF Marking
  <2>3. CASE /\ tickets' = [t \in DOMAIN tickets |->
                    IF \E w \in g.wallets : g.ticket[w] = t
                    THEN [tickets[t] EXCEPT !.status = "matched"] ELSE tickets[t]]
             /\ \/ tick' = NextGroup
                \/ tick'.at = "close" /\ tick'.todo = tick.todo
             /\ UNCHANGED <<queue, tangled>>
    <3>1. /\ \A w \in g.wallets :
               TicketsOf(w, "queued")' = TicketsOf(w, "queued") \ {g.ticket[w]}
          /\ \A w \in Wallets \ g.wallets :
               TicketsOf(w, "queued")' = TicketsOf(w, "queued")
      <4>1. \A w \in g.wallets : IsTicketOf(w, g.ticket[w])
        BY <2>1 DEF TicketInv
      <4>2. tickets' = [t \in DOMAIN tickets |->
                    IF \E w \in g.wallets : g.ticket[w] = t
                    THEN [tickets[t] EXCEPT !.status = "matched"] ELSE tickets[t]]
        BY <2>3
      <4> HIDE DEF g
      <4> QED
        BY <2>1, <4>1, <4>2, TicketsMarked
    <3>2. ASSUME NEW w \in Wallets, OneLive(w) PROVE OneLive(w)'
      <4>1. Waiting(w)' => Waiting(w)
        <5>1. CASE tick' = NextGroup
          BY <2>1, <5>1, WaitingNext
        <5>2. CASE tick'.at = "close" /\ tick'.todo = tick.todo
          BY <5>2 DEF Waiting
        <5> QED
          BY <2>3, <5>1, <5>2
      <4>2. ASSUME MatchesOf(w, "live") # {}, w \in g.wallets
            PROVE  TicketsOf(w, "queued")' = {}
        <5>1. \A t \in TicketsOf(w, "queued") : t = g.ticket[w]
          BY <3>2, <4>2 DEF OneLive
        <5> QED
          BY <3>1, <4>2, <5>1
      <4>3. ASSUME MatchesOf(w, "live") # {} PROVE NoWay(w)
        BY <2>1, <2>2, <2>3, <4>1, <4>2, <4>3, SameJoining DEF NoWay
      <4>4. TicketsOf(w, "queued")' \subseteq TicketsOf(w, "queued")
        BY <3>1
      <4> QED
        BY <2>1, <3>2, <4>3, <4>4, OneLiveKept, SameMatches
    <3> QED
      BY <1>z, <2>3, <3>2
  <2>4. CASE /\ Rejoin(g) /\ tick' = NextGroup /\ UNCHANGED tickets
             /\ tangled' = tangled \cup g.wallets
    <3>1. \A w \in Wallets :
            queue'[w] = IF w \in g.wallets THEN g.ticket[w] ELSE queue[w]
      BY <2>1, <2>4, RejoinEffect
    <3>2. ASSUME NEW w \in Wallets, OneLive(w), w \notin tangled' PROVE OneLive(w)'
      <4>1. w \notin g.wallets
        BY <2>4, <3>2
      <4>2. Waiting(w)' => Waiting(w)
        BY <2>1, <2>4, WaitingNext
      <4>3. NoWay(w)
        BY <2>1, <2>2, <3>1, <4>1, <4>2, SameJoining DEF NoWay
      <4> QED
        BY <2>1, <2>4, <3>2, <4>3, OneLiveKept, SameMatches, SameRows
    <3>3. tangled \subseteq tangled'
      BY <2>4
    <3> QED
      BY <1>z, <3>2, <3>3
  <2> QED
    BY <1>7, <2>3, <2>4, MarkTicketsEffect
<1>8. CASE CloseTicket
  <2>1. /\ tick.at = "close" /\ tick.todo # <<>> /\ UNCHANGED <<queue, matches, request>>
        /\ tick' = NextGroup \/ tick' = NoTick
        /\ tangled \subseteq tangled'
    BY <1>8, CloseTicketEffect
  <2>2. \A w \in Wallets : TicketsOf(w, "queued")' \subseteq TicketsOf(w, "queued")
    <3>1. CASE UNCHANGED tickets
      BY <3>1, SameRows
    <3>2. ASSUME NEW v \in Wallets, NEW t \in TicketsOf(v, "queued"),
                 tickets' = [tickets EXCEPT ![t].status = "cancelled"]
          PROVE  \A w \in Wallets : TicketsOf(w, "queued")' \subseteq TicketsOf(w, "queued")
      BY <3>2, TicketCancelled
    <3> QED
      BY <1>8, <3>1, <3>2, CloseTicketEffect
  <2>3. ASSUME NEW w \in Wallets, OneLive(w) PROVE OneLive(w)'
    <3>1. Waiting(w)' => Waiting(w)
      BY <2>1, WaitingNext
    <3>2. NoWay(w)
      BY <1>m, <2>1, <3>1, SameJoining DEF NoWay
    <3> QED
      BY <2>1, <2>2, <2>3, <3>2, OneLiveKept, SameMatches
  <2> QED
    BY <1>z, <2>1, <2>3
<1>9. ASSUME NEW m \in DOMAIN matches, EndMatch(m)
      PROVE  OneLiveInv'
  <2>1. UNCHANGED <<tickets, queue, tick, request, tangled>>
    BY <1>9, EndEffect
  <2>2. PICK state, reports : MatchIs(m, state, reports) /\ state # "live"
    <3>1. PICK e \in EndEvents : MatchIs(m, e[1], matches[m].reports)
      BY <1>9, EndEffect
    <3>2. e[1] # "live"
      BY DEF EndEvents
    <3> QED
      BY <3>1, <3>2
  <2>3. ASSUME NEW w \in Wallets, OneLive(w) PROVE OneLive(w)'
    <3>1. /\ MatchesOf(w, "live")' \subseteq MatchesOf(w, "live")
          /\ LastOf(w)' = LastOf(w)
      BY <2>2, MatchIsMoved
    <3>2. NoWay(w)
      BY <2>1, SameTick, SameJoining DEF NoWay
    <3> QED
      BY <2>1, <2>3, <3>1, <3>2, OneLiveKept, SameRows
  <2> QED
    BY <1>z, <2>1, <2>3
<1>10. CASE Restart
  <2>1. /\ UNCHANGED <<tickets, matches>> /\ tick' = NoTick
        /\ \A w \in Wallets : queue'[w] = Newest(TicketsOf(w, "queued"))
        /\ tangled' = tangled \cup
             IF tick.at = "mark" THEN Head(tick.todo).wallets ELSE {}
        /\ \A p \in Pages : IF request[p].kind = "none" THEN request'[p] = NoRequest
                            ELSE request'[p].at = "error"
    BY <1>0, <1>10, RestartEffect
  <2>2. ASSUME NEW w \in Wallets, OneLive(w), w \notin tangled' PROVE OneLive(w)'
    <3>1. ~Marking(w)
      BY <2>1, <2>2 DEF Marking
    <3>2. ~Waiting(w)'
      BY <2>1 DEF Waiting, NoTick
    <3>3. ~Joining(w)'
      BY <2>1 DEF Joining, NoRequest, PagesOf
    <3>4. ASSUME MatchesOf(w, "live") # {} PROVE NoWay(w)
      <4>1. TicketsOf(w, "queued") = {}
        BY <2>2, <3>1, <3>4 DEF OneLive
      <4>2. queue'[w] = 0
        BY <2>1, <4>1 DEF Newest
      <4> QED
        BY <3>1, <3>2, <3>3, <4>2 DEF NoWay
    <3> QED
      BY <2>1, <2>2, <3>4, OneLiveKept, SameMatches, SameRows
  <2>3. tangled \subseteq tangled'
    BY <2>1
  <2> QED
    BY <1>z, <2>2, <2>3
<1> QED
  BY <1>1, <1>2, <1>4, <1>5, <1>6, <1>7, <1>8, <1>9, <1>10 DEF Next, TickStep

-----------------------------------------------------------------------------
(***************************************************************************)
(* The start.                                                              *)
(***************************************************************************)
\* Each element is at one place.
LEMMA OrderOf ==
  ASSUME NEW S, IsFiniteSet(S)
  PROVE  /\ SetToSeq(S) \in Seq(S)
         /\ \A i, j \in DOMAIN SetToSeq(S) : SetToSeq(S)[i] = SetToSeq(S)[j] => i = j
         /\ \A x \in S : \E i \in DOMAIN SetToSeq(S) : SetToSeq(S)[i] = x
<1> DEFINE n == Cardinality(S)
           order == SetToSeq(S)
<1>1. n \in Nat /\ ExistsBijection(1 .. n, S)
  BY FS_CardinalityType
<1>2. \E f \in [1 .. n -> S] : IsInjective(f)
  BY <1>1 DEF ExistsBijection, Bijection, Injection
<1>3. order \in [1 .. n -> S] /\ IsInjective(order)
  BY <1>2 DEF SetToSeq
<1> HIDE DEF order
<1>4. order \in Seq(S) /\ DOMAIN order = 1 .. n
  <2> HIDE DEF n
  <2> QED
    BY <1>1, <1>3
<1>5. IsFiniteSet(1 .. n) /\ Cardinality(1 .. n) = n
  <2> HIDE DEF n
  <2> QED
    BY <1>1, FS_Interval
<1>6. order \in Surjection(1 .. n, S)
  <2>1. order \in Injection(1 .. n, S)
    BY <1>3 DEF Injection
  <2>2. Cardinality(1 .. n) = Cardinality(S)
    BY <1>5
  <2> HIDE DEF n
  <2> QED
    BY <2>1, <2>2, FS_Injection
<1>7. \A x \in S : \E i \in DOMAIN order : order[i] = x
  BY <1>4, <1>6 DEF Surjection
<1>8. \A i, j \in DOMAIN order : order[i] = order[j] => i = j
  BY <1>3 DEF IsInjective
<1> QED
  BY <1>4, <1>7, <1>8 DEF order

\* How far the players of W are.
Started(W, start) ==
  /\ Len(matches) = IF start = "paired" THEN 1 ELSE 0
  /\ \A w \in W :
       /\ TicketsOf(w, "queued") # {} <=> start = "queued"
       /\ MatchesOf(w, "live") # {} <=> start = "paired"
       /\ LastOf(w) = IF start = "paired" THEN 1 ELSE 0
  /\ request = [p \in Pages |-> NoRequest] /\ unseen = {} /\ tick = NoTick

\* The three starting points of the queue satisfy the server's invariants.
LEMMA QueueStart ==
  ASSUME NEW W \in SUBSET Wallets, NEW start \in {"idle", "queued", "paired"},
         QueueInit(W, start)
  PROVE  ServerTypes /\ RequestTypes /\ TicketInv /\ TickInv /\ OneLiveInv
         /\ Started(W, start)
<1> DEFINE S == IF start = "idle" THEN {} ELSE W
           order == SetToSeq(S)
           status == IF start = "queued" THEN "queued" ELSE "matched"
           row == [players |-> W, bot |-> FALSE, state |-> "live", reports |-> {}]
<1>1. IsFiniteSet(S) /\ S \in SUBSET Wallets
  BY QueueAssumption, FS_Subset, FS_EmptySet
<1>2. /\ order \in Seq(S)
      /\ \A i, j \in DOMAIN order : order[i] = order[j] => i = j
      /\ \A x \in S : \E i \in DOMAIN order : order[i] = x
  <2> HIDE DEF S
  <2> QED
    BY <1>1, OrderOf
<1>3. /\ tickets = [i \in DOMAIN order |-> [wallet |-> order[i], status |-> status]]
      /\ queue = [w \in Wallets |->
           IF start = "queued" THEN Newest({i \in DOMAIN order : order[i] = w}) ELSE 0]
      /\ matches = IF start # "paired" THEN <<>> ELSE <<row>>
      /\ tick = NoTick /\ request = [p \in Pages |-> NoRequest] /\ unseen = {}
  BY DEF QueueInit
<1>4. start = "idle" => S = {}
  OBVIOUS
<1>5. start # "idle" => S = W
  OBVIOUS
<1>6. status \in {"queued", "matched"} /\ (status = "queued" <=> start = "queued")
  OBVIOUS
<1> HIDE DEF S, order, status
<1>7. Len(order) \in Nat /\ DOMAIN order = 1 .. Len(order)
      /\ \A i \in DOMAIN order : order[i] \in Wallets /\ order[i] \in S
  BY <1>1, <1>2
<1>8. /\ tickets \in Seq(TicketRows) /\ DOMAIN tickets = DOMAIN order
      /\ \A i \in DOMAIN order : tickets[i].wallet = order[i] /\ tickets[i].status = status
  <2>1. \A i \in DOMAIN order : [wallet |-> order[i], status |-> status] \in TicketRows
    BY <1>6, <1>7 DEF TicketRows
  <2> QED
    BY <1>3, <1>7, <2>1
<1>9. \A w \in Wallets : /\ Newest({i \in DOMAIN order : order[i] = w}) \in Nat
                         /\ Newest({i \in DOMAIN order : order[i] = w}) # 0 =>
                              IsTicketOf(w, Newest({i \in DOMAIN order : order[i] = w}))
  <2> SUFFICES ASSUME NEW w \in Wallets
               PROVE  /\ Newest({i \in DOMAIN order : order[i] = w}) \in Nat
                      /\ Newest({i \in DOMAIN order : order[i] = w}) # 0 =>
                           IsTicketOf(w, Newest({i \in DOMAIN order : order[i] = w}))
    OBVIOUS
  <2> DEFINE T == {i \in DOMAIN order : order[i] = w}
  <2>1. T \in SUBSET (1 .. Len(order)) /\ \A t \in T : IsTicketOf(w, t)
    BY <1>7, <1>8 DEF IsTicketOf
  <2> HIDE DEF T
  <2>2. Newest(T) \in 0 .. Len(order) /\ (T # {} => Newest(T) \in T)
    BY <1>7, <2>1, NewestLast
  <2>3. T = {} => Newest(T) = 0
    BY DEF Newest
  <2>4. Newest(T) \in Nat /\ (Newest(T) # 0 => IsTicketOf(w, Newest(T)))
    BY <1>7, <2>1, <2>2, <2>3
  <2> QED
    BY <2>4 DEF T
<1>10. /\ queue \in [Wallets -> Nat]
       /\ \A w \in Wallets : queue[w] # 0 => start = "queued" /\ IsTicketOf(w, queue[w])
  BY <1>3, <1>9
<1>11. /\ matches \in Seq(MatchRows)
       /\ Len(matches) = IF start = "paired" THEN 1 ELSE 0
       /\ DOMAIN matches = IF start = "paired" THEN {1} ELSE {}
       /\ start = "paired" => matches[1].players = W /\ matches[1].state = "live"
  <2>1. row \in MatchRows
    BY DEF MatchRows
  <2>2. row.players = W /\ row.state = "live"
    OBVIOUS
  <2> HIDE DEF row
  <2>3. CASE start = "paired"
    <3>1. matches = <<row>>
      BY <1>3, <2>3
    <3> QED
      BY <2>1, <2>2, <2>3, <3>1
  <2>4. CASE start # "paired"
    <3>1. matches = <<>>
      BY <1>3, <2>4
    <3> QED
      BY <2>4, <3>1
  <2> QED
    BY <2>3, <2>4
<1>12. ServerTypes /\ RequestTypes
  BY <1>3, <1>8, <1>10, <1>11
  DEF ServerTypes, RequestTypes, NoTick, Ticks, NoRequest, Asks
<1>13. TicketInv /\ TickInv
  BY <1>3, <1>10 DEF TicketInv, TickInv, NoTick, NoRequest, Waits
<1>14. \A w : \A s, t \in TicketsOf(w, "queued") : s = t
  BY <1>2, <1>8 DEF TicketsOf
<1>15. \A w : TicketsOf(w, "queued") # {} => start = "queued"
  BY <1>6, <1>8 DEF TicketsOf
<1>16. /\ \A w : MatchesOf(w, "live") \subseteq {1}
       /\ \A w : MatchesOf(w, "live") # {} => start = "paired"
       /\ \A w : PlayedBy(w) = MatchesOf(w, "live")
       /\ \A w \in W : start = "paired" => MatchesOf(w, "live") = {1}
  BY <1>11 DEF MatchesOf, PlayedBy
<1>17. Newest({}) = 0 /\ Newest({1}) = 1
  <2>1. {1} \in SUBSET Nat /\ 1 \in {1} /\ \A y \in {1} : y <= 1
    OBVIOUS
  <2>2. Newest({1}) = 1
    BY <2>1, NewestIs
  <2> QED
    BY <2>2 DEF Newest
<1>18. ASSUME NEW w \in Wallets PROVE OneLive(w)
  <2>1. \A m \in MatchesOf(w, "live") : m = LastOf(w)
    BY <1>16, <1>17 DEF LastOf
  <2>2. ASSUME MatchesOf(w, "live") # {}
        PROVE  queue[w] = 0 /\ ~Waiting(w) /\ ~Joining(w) /\ TicketsOf(w, "queued") = {}
    <3>1. start # "queued"
      BY <1>16, <2>2
    <3> QED
      BY <1>3, <1>10, <1>15, <3>1 DEF Waiting, Joining, NoTick, NoRequest, PagesOf
  <2> QED
    BY <1>14, <2>1, <2>2 DEF OneLive
<1>19. ASSUME NEW w \in W
       PROVE  /\ TicketsOf(w, "queued") # {} <=> start = "queued"
              /\ MatchesOf(w, "live") # {} <=> start = "paired"
              /\ LastOf(w) = IF start = "paired" THEN 1 ELSE 0
  <2>1. start = "queued" => TicketsOf(w, "queued") # {}
    BY <1>2, <1>5, <1>6, <1>8 DEF TicketsOf
  <2>2. LastOf(w) = IF start = "paired" THEN 1 ELSE 0
    <3>1. CASE start = "paired"
      BY <1>16, <1>17, <3>1 DEF LastOf
    <3>2. CASE start # "paired"
      BY <1>16, <1>17, <3>2 DEF LastOf
    <3> QED
      BY <3>1, <3>2
  <2> QED
    BY <1>15, <1>16, <2>1, <2>2
<1> QED
  BY <1>3, <1>11, <1>12, <1>13, <1>18, <1>19 DEF OneLiveInv, Started

\* What the pages show at the start.
Opened(p, s) ==
  IF p \in s.open
  THEN /\ WalletOf[p] \in {WalletOf[o] : o \in s.open}
       /\ page[p].me = <<>> /\ page[p].session
       /\ s.start = "idle" => page[p].phase = "idle" /\ page[p].view = 0
       /\ s.start = "queued" => page[p].phase = "queued" /\ page[p].view = 0
       /\ s.start = "paired" => page[p].phase = "matchFound" /\ page[p].view = 1
  ELSE page[p] = Closed /\ ~socket[p].on

\* The screens the pages start with are well formed.
LEMMA FirstScreens ==
  /\ Closed \in Screens
  /\ Idle \in Screens /\ Idle.me = <<>> /\ Idle.session
  /\ Idle.phase = "idle" /\ Idle.view = 0
  /\ [Idle EXCEPT !.phase = "queued"] \in Screens
  /\ [Idle EXCEPT !.phase = "queued"].me = <<>>
  /\ [Idle EXCEPT !.phase = "queued"].session
  /\ [Idle EXCEPT !.phase = "queued"].phase = "queued"
  /\ [Idle EXCEPT !.phase = "queued"].view = 0
  /\ [Idle EXCEPT !.phase = "matchFound", !.view = 1] \in Screens
  /\ [Idle EXCEPT !.phase = "matchFound", !.view = 1].me = <<>>
  /\ [Idle EXCEPT !.phase = "matchFound", !.view = 1].session
  /\ [Idle EXCEPT !.phase = "matchFound", !.view = 1].phase = "matchFound"
  /\ [Idle EXCEPT !.phase = "matchFound", !.view = 1].view = 1
<1>1. Closed \in Screens
  BY DEF Closed, Screens
<1>2. /\ Idle \in Screens /\ Idle.me = <<>> /\ Idle.session
      /\ Idle.phase = "idle" /\ Idle.view = 0
  BY DEF Idle, Screens
<1>3. /\ [Idle EXCEPT !.phase = "queued"] \in Screens
      /\ [Idle EXCEPT !.phase = "queued"].me = <<>>
      /\ [Idle EXCEPT !.phase = "queued"].session
      /\ [Idle EXCEPT !.phase = "queued"].phase = "queued"
      /\ [Idle EXCEPT !.phase = "queued"].view = 0
  BY <1>2 DEF Screens
<1>4. /\ [Idle EXCEPT !.phase = "matchFound", !.view = 1] \in Screens
      /\ [Idle EXCEPT !.phase = "matchFound", !.view = 1].me = <<>>
      /\ [Idle EXCEPT !.phase = "matchFound", !.view = 1].session
      /\ [Idle EXCEPT !.phase = "matchFound", !.view = 1].phase = "matchFound"
      /\ [Idle EXCEPT !.phase = "matchFound", !.view = 1].view = 1
  BY <1>2 DEF Screens
<1> QED
  BY <1>1, <1>2, <1>3, <1>4

\* The first states, page by page.
LEMMA InitEffect ==
  ASSUME Init
  PROVE  \E s \in Scenarios :
           /\ s.start \in {"idle", "queued", "paired"}
           /\ {WalletOf[o] : o \in s.open} \in SUBSET Wallets
           /\ QueueInit({WalletOf[o] : o \in s.open}, s.start)
           /\ page \in [Pages -> Screens] /\ socket \in [Pages -> Sockets]
           /\ \A p \in Pages : Opened(p, s) /\ socket[p].inbox = <<>>
<1>1. PICK s \in Scenarios :
        /\ QueueInit({WalletOf[p] : p \in s.open}, s.start)
        /\ page = [p \in Pages |->
             IF p \notin s.open THEN Closed
             ELSE CASE s.start = "idle"   -> Idle
                    [] s.start = "queued" -> [Idle EXCEPT !.phase = "queued"]
                    [] s.start = "paired" -> [Idle EXCEPT !.phase = "matchFound",
                                                          !.view = 1]]
        /\ socket = [p \in Pages |-> [on |-> p \in s.open, inbox |-> <<>>]]
  BY DEF Init
<1>2. s.open \subseteq Pages /\ s.start \in {"idle", "queued", "paired"}
  BY ArenaAssumption
<1>3. {WalletOf[o] : o \in s.open} \in SUBSET Wallets
  BY <1>2, QueueAssumption
<1>4. /\ Closed \in Screens /\ Idle \in Screens
      /\ [Idle EXCEPT !.phase = "queued"] \in Screens
      /\ [Idle EXCEPT !.phase = "matchFound", !.view = 1] \in Screens
  BY FirstScreens
<1>5. ASSUME NEW p \in Pages
      PROVE  /\ page[p] \in Screens /\ socket[p] \in Sockets
             /\ Opened(p, s) /\ socket[p].inbox = <<>>
  <2>1. \A on \in BOOLEAN : [on |-> on, inbox |-> <<>>] \in Sockets
    BY DEF Sockets
  <2>2. socket[p] \in Sockets /\ socket[p].inbox = <<>> /\ (socket[p].on <=> p \in s.open)
    <3> DEFINE on == p \in s.open
               new == [on |-> on, inbox |-> <<>>]
    <3>1. socket[p] = new
      BY <1>1
    <3>2. on \in BOOLEAN
      OBVIOUS
    <3> HIDE DEF on
    <3>3. new \in Sockets /\ new.inbox = <<>> /\ new.on = on
      BY <2>1, <3>2
    <3> HIDE DEF new
    <3>4. socket[p] \in Sockets /\ socket[p].inbox = <<>> /\ socket[p].on = on
      BY <3>1, <3>3
    <3> QED
      BY <3>4 DEF on
  <2>3. CASE p \notin s.open
    BY <1>1, <1>4, <2>2, <2>3 DEF Opened
  <2>4. CASE p \in s.open
    <3>1. WalletOf[p] \in {WalletOf[o] : o \in s.open}
      BY <2>4
    <3>2. /\ s.start = "idle" => page[p] = Idle
          /\ s.start = "queued" => page[p] = [Idle EXCEPT !.phase = "queued"]
          /\ s.start = "paired" => page[p] = [Idle EXCEPT !.phase = "matchFound", !.view = 1]
      BY <1>1, <2>4
    <3>3. page[p] \in Screens
      BY <1>2, <1>4, <3>2
    <3>4. /\ page[p].me = <<>> /\ page[p].session
          /\ s.start = "idle" => page[p].phase = "idle" /\ page[p].view = 0
          /\ s.start = "queued" => page[p].phase = "queued" /\ page[p].view = 0
          /\ s.start = "paired" => page[p].phase = "matchFound" /\ page[p].view = 1
      <4>1. CASE s.start = "idle"
        BY <3>2, <4>1, FirstScreens
      <4>2. CASE s.start = "queued"
        BY <3>2, <4>2, FirstScreens
      <4>3. CASE s.start = "paired"
        BY <3>2, <4>3, FirstScreens
      <4> QED
        BY <1>2, <4>1, <4>2, <4>3
    <3> QED
      BY <2>2, <2>4, <3>1, <3>3, <3>4 DEF Opened
  <2> QED
    BY <2>3, <2>4
<1>6. page \in [Pages -> Screens] /\ socket \in [Pages -> Sockets]
  BY <1>1, <1>5
<1> QED
  BY <1>1, <1>2, <1>3, <1>5, <1>6

\* The server's invariants hold at the start.
LEMMA InitServer ==
  ASSUME Init
  PROVE  ServerTypes /\ PageTypes /\ TicketInv /\ TickInv /\ KnownInv /\ OneLiveInv
<1>1. PICK s \in Scenarios :
           /\ s.start \in {"idle", "queued", "paired"}
           /\ {WalletOf[o] : o \in s.open} \in SUBSET Wallets
           /\ QueueInit({WalletOf[o] : o \in s.open}, s.start)
           /\ page \in [Pages -> Screens] /\ socket \in [Pages -> Sockets]
           /\ \A p \in Pages : Opened(p, s) /\ socket[p].inbox = <<>>
  BY InitEffect
<1> DEFINE W == {WalletOf[o] : o \in s.open}
           start == s.start
<1>2. /\ ServerTypes /\ RequestTypes /\ TicketInv /\ TickInv /\ OneLiveInv
      /\ Started(W, start)
  <2>1. W \in SUBSET Wallets /\ start \in {"idle", "queued", "paired"}
        /\ QueueInit(W, start)
    BY <1>1
  <2> HIDE DEF W, start
  <2> QED
    BY <2>1, QueueStart
<1>3. Known = IF start = "paired" THEN 1 ELSE 0
  BY <1>2 DEF Known, Started, NoTick
<1>4. ASSUME NEW p \in Pages PROVE KnownOf(p)
  <2>1. page[p].view \in 0 .. Known
    BY <1>1, <1>3 DEF Opened, Closed
  <2>2. request[p].kind # "report"
    BY <1>2 DEF Started, NoRequest
  <2> QED
    BY <1>1, <2>1, <2>2 DEF KnownOf
<1> QED
  BY <1>1, <1>2, <1>4, KnownParts DEF PageTypes

-----------------------------------------------------------------------------
(***************************************************************************)
(* One live match at a time.                                               *)
(***************************************************************************)
ServerInv ==
  ServerTypes /\ PageTypes /\ TicketInv /\ TickInv /\ KnownInv /\ OneLiveInv

\* The server's invariants are inductive.
LEMMA ServerInvStep ==
  ASSUME ServerInv, [Next]_vars
  PROVE  ServerInv'
<1> USE DEF ServerInv
<1>1. CASE Next
  <2>1. ServerTypes' /\ PageTypes'
    BY <1>1, TypesStep
  <2>2. TicketInv'
    BY <1>1, <2>1, TicketInvStep
  <2>3. TickInv'
    BY <1>1, TickInvStep
  <2>4. KnownInv'
    BY <1>1, <2>1, <2>3, KnownInvStep
  <2>5. OneLiveInv'
    BY <1>1, OneLiveStep
  <2> QED
    BY <2>1, <2>2, <2>3, <2>4, <2>5
<1>2. CASE UNCHANGED vars
  <2> USE <1>2 DEF vars, server, history
  <2>1. ServerTypes' /\ PageTypes'
    BY DEF ServerTypes, PageTypes, RequestTypes
  <2>2. TicketInv' /\ TickInv'
    BY DEF TicketInv, TickInv, IsTicketOf, Waits, PagesOf
  <2>3. KnownInv'
    BY DEF KnownInv, Known
  <2>4. OneLiveInv'
    BY SameMatches, SameRows, SameTick, SameJoining DEF OneLiveInv, OneLive
  <2> QED
    BY <2>1, <2>2, <2>3, <2>4
<1> QED
  BY <1>1, <1>2

\* The state always fits the invariant: rows of the right shape, entries that
\* name their own player's tickets, disjoint groups in the loop, nothing
\* heard of a match before it is announced.
THEOREM ServerInvariant == Spec => []ServerInv
<1>1. Init => ServerInv
  BY InitServer DEF ServerInv
<1>2. ServerInv /\ [Next]_vars => ServerInv'
  BY ServerInvStep
<1> QED
  BY <1>1, <1>2, PTL DEF Spec

\* A set whose members are all equal has one at most.
LEMMA AtMostOne ==
  ASSUME NEW S, NEW x, \A y \in S : y = x
  PROVE  Cardinality(S) <= 1
<1>1. S \in SUBSET {x}
  OBVIOUS
<1>2. IsFiniteSet({x}) /\ Cardinality({x}) = 1
  BY FS_Singleton
<1>3. Cardinality(S) <= Cardinality({x})
  BY <1>1, <1>2, FS_Subset
<1> QED
  BY <1>2, <1>3

\* For any number of players and pages, and whatever fails or restarts on the
\* way: the checks of queue_join and the loop's order of steps leave a player
\* at most one live match, unless a join ran beside the loop or the loop
\* failed half way.
THEOREM PlayersHaveOneLiveMatch == Spec => []OneLiveMatch
<1>1. ServerInv => OneLiveMatch
  <2> SUFFICES ASSUME ServerInv, NEW w \in Wallets \ tangled
               PROVE  Cardinality(MatchesOf(w, "live")) <= 1
    BY DEF OneLiveMatch
  <2>1. \A m \in MatchesOf(w, "live") : m = LastOf(w)
    BY DEF ServerInv, OneLiveInv, OneLive
  <2> QED
    BY <2>1, AtMostOne
<1> QED
  BY <1>1, ServerInvariant, PTL

-----------------------------------------------------------------------------
(***************************************************************************)
(* The events on their way to a page.                                      *)
(***************************************************************************)
\* Only an open socket holds events; a closed page has nothing going on.
Boxed(p) ==
  /\ socket[p].inbox # <<>> => socket[p].on
  /\ page[p].phase = "closed" =>
       page[p] = Closed /\ request[p] = NoRequest /\ ~socket[p].on

\* Events are about the player's matches, and a match that was disputed or
\* cancelled stays that as long as the event is on its way.
Heard(p) ==
  \A k \in DOMAIN socket[p].inbox :
    LET event == socket[p].inbox[k] IN
    /\ WalletOf[p] \in matches[event.match].players
    /\ event.type \in {"disputed", "cancelled"} =>
         matches[event.match].state = event.type

\* A page is told of its player's matches in their order, the last of them
\* before anything else happens to it.
Found(p) ==
  LET box == socket[p].inbox IN
  \A k \in DOMAIN box : box[k].type = "match_found" =>
    /\ p \in unseen
    /\ k = Len(box) => matches[box[k].match].state = "live"
    /\ \A j \in DOMAIN box :
         j < k /\ box[j].type = "match_found" => box[j].match < box[k].match

\* An open page that has been told of its player's last match is about it.
Viewed(p) ==
  page[p].phase # "closed" /\ p \notin unseen => page[p].view = LastOf(WalletOf[p])

EventOf(p) == Boxed(p) /\ Heard(p) /\ Found(p) /\ Viewed(p)
EventInv == \A p \in Pages : EventOf(p)

\* A page's socket holds a sequence of well-formed events.
LEMMA BoxTyped ==
  ASSUME PageTypes, NEW p \in Pages
  PROVE  /\ socket[p].inbox \in Seq(Notices) /\ Len(socket[p].inbox) \in Nat
         /\ DOMAIN socket[p].inbox = 1 .. Len(socket[p].inbox)
         /\ \A k \in DOMAIN socket[p].inbox : socket[p].inbox[k] \in Notices
<1>1. socket[p] \in Sockets
  BY DEF PageTypes
<1>2. socket[p].inbox \in Seq(Notices)
  BY <1>1 DEF Sockets
<1> DEFINE box == socket[p].inbox
<1>3. box \in Seq(Notices)
  BY <1>2
<1> HIDE DEF box
<1>4. /\ box \in Seq(Notices) /\ Len(box) \in Nat /\ DOMAIN box = 1 .. Len(box)
      /\ \A k \in DOMAIN box : box[k] \in Notices
  BY <1>3
<1> QED
  BY <1>4 DEF box

\* The events that concern a page are about matches that exist.
LEMMA BoxKnown ==
  ASSUME ServerTypes, MarkInv, KnownInv, NEW p \in Pages, NEW k \in DOMAIN socket[p].inbox
  PROVE  /\ socket[p].inbox[k].match \in DOMAIN matches
         /\ socket[p].inbox[k].match \in 1 .. Known
<1>1. socket[p].inbox[k].match \in 1 .. Known
  BY DEF KnownInv
<1>2. /\ Known \in Nat /\ Len(matches) \in Nat /\ DOMAIN matches = 1 .. Len(matches)
  BY KnownType
<1>3. Known <= Len(matches)
  <2>1. Known = Len(matches) \/ Known = Len(matches) - 1
    BY DEF Known
  <2>2. Known \in Nat /\ Len(matches) \in Nat
    BY <1>2
  <2> QED
    BY <2>1, <2>2
<1> DEFINE m == socket[p].inbox[k].match
<1>4. m \in 1 .. Known
  BY <1>1
<1> HIDE DEF m
<1>5. m \in DOMAIN matches
  <2>1. Known \in Nat /\ Len(matches) \in Nat
    BY <1>2
  <2>2. m \in 1 .. Len(matches)
    BY <1>3, <1>4, <2>1
  <2> QED
    BY <1>2, <2>2
<1> QED
  BY <1>4, <1>5 DEF m

\* Nothing reaches the page and what it has heard of stays as it is.
LEMMA EventKept ==
  ASSUME NEW p \in Pages, EventOf(p),
         page'[p] = page[p], request[p] = NoRequest => request'[p] = NoRequest,
         socket'[p].inbox = socket[p].inbox, socket'[p].on = socket[p].on,
         \A k \in DOMAIN socket[p].inbox :
           /\ matches'[socket[p].inbox[k].match].players =
                matches[socket[p].inbox[k].match].players
           /\ matches'[socket[p].inbox[k].match].state =
                matches[socket[p].inbox[k].match].state,
         p \in unseen => p \in unseen',
         p \notin unseen' => LastOf(WalletOf[p])' = LastOf(WalletOf[p])
  PROVE  EventOf(p)'
<1> DEFINE box == socket[p].inbox
<1>0. socket'[p].inbox = box
  OBVIOUS
<1>1. Boxed(p)'
  BY DEF EventOf, Boxed
<1>2. Heard(p)'
  <2>1. \A k \in DOMAIN box :
          /\ WalletOf[p] \in matches[box[k].match].players
          /\ box[k].type \in {"disputed", "cancelled"} =>
               matches[box[k].match].state = box[k].type
    BY DEF EventOf, Heard
  <2>2. \A k \in DOMAIN box : /\ matches'[box[k].match].players = matches[box[k].match].players
                              /\ matches'[box[k].match].state = matches[box[k].match].state
    OBVIOUS
  <2> HIDE DEF box
  <2>3. \A k \in DOMAIN box :
          /\ WalletOf[p] \in matches'[box[k].match].players
          /\ box[k].type \in {"disputed", "cancelled"} =>
               matches'[box[k].match].state = box[k].type
    BY <2>1, <2>2
  <2> QED
    BY <1>0, <2>3 DEF Heard
<1>3. Found(p)'
  <2>1. \A k \in DOMAIN box : box[k].type = "match_found" =>
          /\ p \in unseen
          /\ k = Len(box) => matches[box[k].match].state = "live"
          /\ \A j \in DOMAIN box :
               j < k /\ box[j].type = "match_found" => box[j].match < box[k].match
    BY Zenon DEF EventOf, Found
  <2>2. \A k \in DOMAIN box : matches'[box[k].match].state = matches[box[k].match].state
    OBVIOUS
  <2> HIDE DEF box
  <2>3. \A k \in DOMAIN box : box[k].type = "match_found" =>
          /\ p \in unseen'
          /\ k = Len(box) => matches'[box[k].match].state = "live"
          /\ \A j \in DOMAIN box :
               j < k /\ box[j].type = "match_found" => box[j].match < box[k].match
    BY <2>1, <2>2, Zenon
  <2> QED
    BY <1>0, <2>3, Zenon DEF Found
<1>4. Viewed(p)'
  BY DEF EventOf, Viewed
<1> QED
  BY <1>1, <1>2, <1>3, <1>4 DEF EventOf

\* The page has no events.
LEMMA EventNone ==
  ASSUME NEW p \in Pages, socket'[p].inbox = <<>>, Boxed(p)', Viewed(p)'
  PROVE  EventOf(p)'
  BY DEF EventOf, Heard, Found

\* A closed page has nothing to press and nothing under way.
LEMMA ClosedRests ==
  ASSUME PageTypes, NEW p \in Pages, Boxed(p), page[p].phase = "closed"
  PROVE  ~PageStep(p)
<1>1. page[p] = Closed /\ request[p] = NoRequest /\ ~socket[p].on /\ socket[p].inbox = <<>>
  BY DEF Boxed
<1>2. /\ ~page[p].session /\ page[p].wallet = "none" /\ ~page[p].wire /\ page[p].me = <<>>
      /\ page[p].phase = "closed"
  BY <1>1 DEF Closed
<1>3. request[p].at = "none"
  BY <1>1 DEF NoRequest
<1>4. DOMAIN page[p].me = {}
  BY <1>2
<1>5. ~Connect(p) /\ ~Logout(p) /\ ~OpenSocket(p) /\ ~LoseSocket(p) /\ ~Reload(p)
  BY <1>1, <1>2 DEF Connect, ConnectPanel, Logout, LogoutButton, OpenSocket, LoseSocket, Reload
<1>6. ~Queue(p) /\ ~Leave(p) /\ ~Report(p) /\ ~SelectGame(p) /\ ~PlayedAgain(p)
  BY <1>2 DEF Queue, Leave, Report, SelectGame, PlayedAgain, FindMatchPanel, QueuedPanel,
              MatchPanel, ResultPanel
<1>7. ~ApplyAnswer(p) /\ ~HandleEvent(p)
  BY <1>1, <1>3 DEF ApplyAnswer, HandleEvent
<1> QED
  BY <1>4, <1>5, <1>6, <1>7 DEF PageStep

\* What a page's own steps, other than handling an event, do to its events and
\* to the match it is about.
BoxKept(p) ==
  /\ page'[p].phase # "closed"
  /\ socket'[p].inbox = <<>> \/ (socket'[p].inbox = socket[p].inbox
                                 /\ (socket[p].on => socket'[p].on))
  /\ p \in unseen => p \in unseen'
  /\ p \in unseen' \/ (page'[p].view = page[p].view /\ p \notin unseen)

\* A page step other than handling an event keeps or empties the page's
\* socket.
LEMMA PageStepBox ==
  ASSUME ServerTypes, PageTypes, NEW p \in Pages, PageStep(p), Boxed(p)
  PROVE  HandleEvent(p) \/ BoxKept(p)
<1> USE DEF server, history
<1>0. /\ page[p].phase # "closed"
      /\ page \in [Pages -> Screens] /\ page[p] \in Screens /\ socket \in [Pages -> Sockets]
  BY ClosedRests DEF PageTypes
<1>1. CASE Connect(p)
  <2>1. UNCHANGED <<socket, unseen>>
    BY <1>1 DEF Connect
  <2> QED
    BY <1>0, <1>1, <2>1, ConnectEffect DEF BoxKept
<1>2. CASE Logout(p)
  <2>1. CloseSocket(p) /\ UNCHANGED unseen
    BY <1>2 DEF Logout
  <2> QED
    BY <1>2, <2>1, LogoutEffect, CloseEffect DEF BoxKept
<1>3. CASE OpenSocket(p)
  <2>1. UNCHANGED <<unseen, page>> /\ socket' = [socket EXCEPT ![p].on = TRUE]
    BY <1>3 DEF OpenSocket
  <2>2. socket'[p].inbox = socket[p].inbox /\ socket'[p].on
    BY <1>0, <2>1 DEF Sockets
  <2> QED
    BY <1>0, <2>1, <2>2 DEF BoxKept
<1>4. CASE LoseSocket(p)
  <2>1. CloseSocket(p) /\ UNCHANGED <<unseen, page>>
    BY <1>4 DEF LoseSocket
  <2> QED
    BY <1>0, <2>1, CloseEffect DEF BoxKept
<1>5. CASE Reload(p)
  <2>1. CloseSocket(p) /\ unseen' = unseen \cup {p}
    BY <1>5 DEF Reload
  <2> QED
    BY <1>5, <2>1, ReloadEffect, CloseEffect DEF BoxKept
<1>6. ASSUME NEW i \in DOMAIN page[p].me, ReadLive(p, i)
      PROVE  BoxKept(p)
  <2>1. UNCHANGED <<socket, unseen>>
    BY <1>6 DEF ReadLive
  <2>2. page'[p].view = page[p].view /\ page'[p].phase = page[p].phase
    BY <1>6, ReadLiveEffect DEF FetchBecomes
  <2> QED
    BY <1>0, <2>1, <2>2 DEF BoxKept
<1>7. ASSUME NEW i \in DOMAIN page[p].me, ReadTicket(p, i)
      PROVE  BoxKept(p)
  <2>1. UNCHANGED <<socket, unseen>>
    BY <1>7 DEF ReadTicket
  <2>2. page'[p].view = page[p].view /\ page'[p].phase = page[p].phase
    BY <1>7, ReadTicketEffect DEF FetchBecomes
  <2> QED
    BY <1>0, <2>1, <2>2 DEF BoxKept
<1>8. ASSUME NEW i \in DOMAIN page[p].me, ApplyMe(p, i)
      PROVE  BoxKept(p)
  <2>1. UNCHANGED unseen
    BY <1>8, Zenon DEF ApplyMe
  <2>2. \/ socket' = [socket EXCEPT ![p] = [on |-> FALSE, inbox |-> <<>>]]
        \/ socket' = socket
    BY <1>8, Zenon DEF ApplyMe
  <2>3. socket'[p].inbox = <<>> \/ socket'[p] = socket[p]
    BY <1>0, <2>2
  <2>4. page'[p].view = page[p].view /\ page'[p].phase # "closed"
    BY <1>8, ApplyMeEffect
  <2> QED
    BY <2>1, <2>3, <2>4 DEF BoxKept
<1>9. CASE Queue(p) \/ Leave(p) \/ Report(p)
  <2>1. UNCHANGED <<socket, unseen, page>>
    BY <1>9 DEF Queue, Leave, Report, Ask
  <2> QED
    BY <1>0, <2>1 DEF BoxKept
<1>10. CASE SelectGame(p)
  <2>1. UNCHANGED <<socket, unseen>>
    BY <1>10 DEF SelectGame
  <2> QED
    BY <1>0, <1>10, <2>1, SelectGameEffect DEF BoxKept
<1>11. CASE PlayedAgain(p)
  <2>1. UNCHANGED <<socket>> /\ unseen' = unseen \cup {p}
    BY <1>11 DEF PlayedAgain
  <2> QED
    BY <1>0, <1>11, <2>1, PlayedAgainEffect DEF BoxKept
<1>12. CASE ApplyAnswer(p)
  <2>1. UNCHANGED <<socket, unseen>> /\ request[p].at \in {"ok", "error"}
    BY <1>12 DEF ApplyAnswer
  <2>2. request[p].at = "ok" => Shown[request[p].kind] # "closed"
    <3>1. request[p].at = "ok" => request[p].kind \in {"join", "leave", "report"}
      BY DEF PageTypes, RequestTypes, Asks, NoRequest
    <3> QED
      BY <3>1 DEF Shown
  <2> QED
    BY <1>0, <1>12, <2>1, <2>2, AnswerEffect DEF BoxKept
<1> QED
  BY <1>1, <1>2, <1>3, <1>4, <1>5, <1>6, <1>7, <1>8, <1>9, <1>10, <1>11, <1>12
  DEF PageStep

\* The last match is not before any other.
LEMMA LastOfAll ==
  ASSUME ServerTypes, NEW w, NEW m \in DOMAIN matches, w \in matches[m].players
  PROVE  /\ LastOf(w) \in Nat /\ m \in Nat /\ m <= LastOf(w)
         /\ LastOf(w) \in PlayedBy(w)
<1>1. /\ Len(matches) \in Nat /\ DOMAIN matches = 1 .. Len(matches)
      /\ PlayedBy(w) \in SUBSET (1 .. Len(matches))
  BY DEF ServerTypes, PlayedBy
<1>2. m \in PlayedBy(w)
  BY DEF PlayedBy
<1>3. /\ Newest(PlayedBy(w)) \in 0 .. Len(matches)
      /\ \A y \in PlayedBy(w) : y <= Newest(PlayedBy(w))
      /\ Newest(PlayedBy(w)) \in PlayedBy(w)
  BY <1>1, <1>2, NewestLast
<1>4. m \in 1 .. Len(matches)
  BY <1>1
<1> QED
  BY <1>1, <1>2, <1>3, <1>4 DEF LastOf

\* A page handles the first event it has.
LEMMA EventHandled ==
  ASSUME ServerTypes, PageTypes, KnownInv, MarkInv, NEW p \in Pages, EventOf(p),
         HandleEvent(p), UNCHANGED matches
  PROVE  EventOf(p)'
<1> DEFINE box == socket[p].inbox
           tail == Tail(box)
           event == Head(box)
           w == WalletOf[p]
<1>1. /\ box \in Seq(Notices) /\ box # <<>> /\ event \in Notices
      /\ event = box[1] /\ 1 \in DOMAIN box
      /\ Len(box) \in Nat
      /\ Len(tail) = Len(box) - 1
      /\ \A i \in DOMAIN tail : i + 1 \in DOMAIN box /\ tail[i] = box[i + 1]
      /\ DOMAIN tail = 1 .. Len(tail)
  <2>1. box \in Seq(Notices) /\ Len(box) \in Nat
    BY BoxTyped
  <2>2. box # <<>>
    BY DEF HandleEvent
  <2> HIDE DEF box
  <2>3. tail \in Seq(Notices)
    BY <2>1, <2>2, TailOf
  <2> QED
    BY <2>1, <2>2, <2>3, TailOf
<1>2. /\ socket'[p].inbox = tail /\ socket'[p].on = socket[p].on
  BY HandledEffect
<1>3. page' = OnEvent(p, event)
  BY DEF HandleEvent
<1>4. /\ page'[p].phase # "closed"
      /\ event.type = "match_found" => page'[p].view = event.match
      /\ event.type # "match_found" => page'[p].view = page[p].view
  <2>1. event.type \in {"match_found", "match_result", "disputed", "cancelled"}
    BY <1>1 DEF Notices
  <2>2. event \in Notices /\ page' = OnEvent(p, event)
    BY <1>1, <1>3
  <2> HIDE DEF event
  <2> QED
    BY <2>1, <2>2, EventEffect
<1>5. unseen' = IF event.type = "match_found" /\ event.match = LastOf(w)
                THEN unseen \ {p} ELSE unseen
  BY LastMatchIs, Zenon DEF HandleEvent
<1>6. page[p].phase # "closed"
  BY <1>1 DEF EventOf, Boxed
<1>7. \A k \in DOMAIN box :
        /\ box[k].match \in DOMAIN matches
        /\ w \in matches[box[k].match].players
        /\ box[k].type \in {"disputed", "cancelled"} =>
             matches[box[k].match].state = box[k].type
  BY BoxKnown DEF EventOf, Heard
<1>8. \A k \in DOMAIN box : box[k].type = "match_found" =>
        /\ p \in unseen
        /\ k = Len(box) => matches[box[k].match].state = "live"
        /\ \A j \in DOMAIN box :
             j < k /\ box[j].type = "match_found" => box[j].match < box[k].match
  BY Zenon DEF EventOf, Found
<1>9. \A k \in DOMAIN box : /\ LastOf(w) \in Nat /\ box[k].match \in Nat
                            /\ box[k].match <= LastOf(w)
  BY <1>7, LastOfAll
<1>10. p \notin unseen => page[p].view = LastOf(w)
  BY <1>6 DEF EventOf, Viewed
<1>11. LastOf(w)' = LastOf(w)
  BY SameMatches
<1>12. socket[p].on
  BY <1>1 DEF EventOf, Boxed
<1> HIDE DEF box, tail, event, w
<1>13. Boxed(p)'
  BY <1>2, <1>4, <1>12 DEF Boxed
<1>14. Heard(p)'
  <2>1. \A k \in DOMAIN tail :
          /\ w \in matches[tail[k].match].players
          /\ tail[k].type \in {"disputed", "cancelled"} =>
               matches[tail[k].match].state = tail[k].type
    BY <1>1, <1>7
  <2> QED
    BY <1>2, <2>1 DEF Heard, w
<1>15. Found(p)'
  <2>1. ASSUME NEW k \in DOMAIN tail, tail[k].type = "match_found"
        PROVE  /\ p \in unseen'
               /\ k = Len(tail) => matches[tail[k].match].state = "live"
               /\ \A j \in DOMAIN tail :
                    j < k /\ tail[j].type = "match_found" => tail[j].match < tail[k].match
    <3>1. /\ k + 1 \in DOMAIN box /\ tail[k] = box[k + 1] /\ k \in Nat /\ 1 < k + 1
      BY <1>1, <2>1
    <3>2. p \in unseen /\ box[k + 1].type = "match_found"
      BY <1>8, <2>1, <3>1
    <3>3. p \in unseen'
      <4>1. ASSUME event.type = "match_found", event.match = LastOf(w) PROVE FALSE
        <5>1. box[1].match < box[k + 1].match
          BY <1>1, <1>8, <3>1, <3>2, <4>1
        <5>2. box[k + 1].match <= LastOf(w) /\ box[k + 1].match \in Nat /\ LastOf(w) \in Nat
          BY <1>9, <3>1
        <5> QED
          BY <1>1, <4>1, <5>1, <5>2
      <4> QED
        BY <1>5, <3>2, <4>1
    <3>4. ASSUME k = Len(tail) PROVE matches[tail[k].match].state = "live"
      <4>1. k + 1 = Len(box)
        BY <1>1, <3>4
      <4> QED
        BY <1>8, <3>1, <3>2, <4>1
    <3>5. ASSUME NEW j \in DOMAIN tail, j < k, tail[j].type = "match_found"
          PROVE  tail[j].match < tail[k].match
      <4>1. j + 1 \in DOMAIN box /\ tail[j] = box[j + 1] /\ j \in Nat
        BY <1>1
      <4>2. j + 1 < k + 1
        BY <3>1, <3>5, <4>1
      <4> QED
        BY <1>8, <3>1, <3>2, <3>5, <4>1, <4>2
    <3> QED
      BY <3>3, <3>4, <3>5
  <2>2. matches' = matches
    OBVIOUS
  <2> QED
    BY <1>2, <2>1, <2>2, Zenon DEF Found
<1>16. Viewed(p)'
  <2>1. ASSUME p \notin unseen' PROVE page'[p].view = LastOf(w)
    <3>1. CASE event.type = "match_found" /\ event.match = LastOf(w)
      BY <1>4, <3>1
    <3>2. CASE ~(event.type = "match_found" /\ event.match = LastOf(w))
      <4>1. p \notin unseen
        BY <1>5, <2>1, <3>2
      <4>2. event.type # "match_found"
        BY <1>1, <1>8, <4>1
      <4> QED
        BY <1>4, <1>10, <4>1, <4>2
    <3> QED
      BY <3>1, <3>2
  <2> QED
    BY <1>11, <2>1 DEF Viewed, w
<1> QED
  BY <1>13, <1>14, <1>15, <1>16 DEF EventOf

\* Any other step of the page itself.
LEMMA EventOwn ==
  ASSUME NEW p \in Pages, EventOf(p), BoxKept(p), UNCHANGED matches, page[p].phase # "closed"
  PROVE  EventOf(p)'
<1> DEFINE box == socket[p].inbox
<1>1. Boxed(p)'
  BY DEF EventOf, Boxed, BoxKept
<1>2. LastOf(WalletOf[p])' = LastOf(WalletOf[p])
  BY SameMatches
<1>3. Viewed(p)'
  BY <1>2 DEF EventOf, Viewed, BoxKept
<1>4. CASE socket'[p].inbox = <<>>
  BY <1>1, <1>3, <1>4, EventNone
<1>5. CASE socket'[p].inbox = box
  <2>1. Heard(p)'
    <3>1. \A k \in DOMAIN box :
            /\ WalletOf[p] \in matches[box[k].match].players
            /\ box[k].type \in {"disputed", "cancelled"} =>
                 matches[box[k].match].state = box[k].type
      BY DEF EventOf, Heard
    <3> HIDE DEF box
    <3> QED
      BY <1>5, <3>1 DEF Heard
  <2>2. Found(p)'
    <3>1. \A k \in DOMAIN box : box[k].type = "match_found" =>
            /\ p \in unseen
            /\ k = Len(box) => matches[box[k].match].state = "live"
            /\ \A j \in DOMAIN box :
                 j < k /\ box[j].type = "match_found" => box[j].match < box[k].match
      BY Zenon DEF EventOf, Found
    <3>2. p \in unseen => p \in unseen'
      BY DEF BoxKept
    <3>3. matches' = matches
      OBVIOUS
    <3> HIDE DEF box
    <3>4. \A k \in DOMAIN box : box[k].type = "match_found" =>
            /\ p \in unseen'
            /\ k = Len(box) => matches'[box[k].match].state = "live"
            /\ \A j \in DOMAIN box :
                 j < k /\ box[j].type = "match_found" => box[j].match < box[k].match
      BY <3>1, <3>2, <3>3, Zenon
    <3> QED
      BY <1>5, <3>4, Zenon DEF Found
  <2> QED
    BY <1>1, <1>3, <2>1, <2>2 DEF EventOf
<1> QED
  BY <1>4, <1>5 DEF BoxKept

\* An event reaches the page.
LEMMA EventSent ==
  ASSUME PageTypes, NEW p \in Pages, NEW event \in Notices, EventOf(p),
         page'[p] = page[p], socket[p].on, socket'[p].on,
         socket'[p].inbox = Append(socket[p].inbox, event),
         WalletOf[p] \in matches'[event.match].players,
         event.type \in {"disputed", "cancelled"} =>
           matches'[event.match].state = event.type,
         event.type = "match_found" =>
           /\ p \in unseen' /\ matches'[event.match].state = "live"
           /\ \A k \in DOMAIN socket[p].inbox : socket[p].inbox[k].match < event.match,
         \A k \in DOMAIN socket[p].inbox :
           /\ matches'[socket[p].inbox[k].match].players =
                matches[socket[p].inbox[k].match].players
           /\ socket[p].inbox[k].type \in {"disputed", "cancelled"} =>
                matches'[socket[p].inbox[k].match].state =
                  matches[socket[p].inbox[k].match].state,
         p \in unseen => p \in unseen',
         p \notin unseen' => LastOf(WalletOf[p])' = LastOf(WalletOf[p])
  PROVE  EventOf(p)'
<1> DEFINE box == socket[p].inbox
           box2 == Append(box, event)
<1>1. /\ box \in Seq(Notices) /\ Len(box) \in Nat /\ DOMAIN box = 1 .. Len(box)
  BY BoxTyped
<1>2. /\ Len(box2) = Len(box) + 1
      /\ DOMAIN box2 = DOMAIN box \cup {Len(box) + 1}
      /\ \A k \in DOMAIN box : box2[k] = box[k]
      /\ box2[Len(box) + 1] = event
  BY <1>1, AppendedEvents
<1>3. socket'[p].inbox = box2
  OBVIOUS
<1>4. page[p].phase # "closed"
  BY DEF EventOf, Boxed
<1>5. \A k \in DOMAIN box :
        /\ WalletOf[p] \in matches[box[k].match].players
        /\ box[k].type \in {"disputed", "cancelled"} =>
             matches[box[k].match].state = box[k].type
  BY DEF EventOf, Heard
<1>6. \A k \in DOMAIN box : box[k].type = "match_found" =>
        /\ p \in unseen
        /\ \A j \in DOMAIN box :
             j < k /\ box[j].type = "match_found" => box[j].match < box[k].match
  BY Zenon DEF EventOf, Found
<1>7. \A k \in DOMAIN box :
        /\ matches'[box[k].match].players = matches[box[k].match].players
        /\ box[k].type \in {"disputed", "cancelled"} =>
             matches'[box[k].match].state = matches[box[k].match].state
  OBVIOUS
<1>8. event.type = "match_found" => \A k \in DOMAIN box : box[k].match < event.match
  OBVIOUS
<1>9. Boxed(p)' /\ Viewed(p)'
  BY <1>4 DEF EventOf, Boxed, Viewed
<1> HIDE DEF box, box2
<1>10. \A k \in DOMAIN box2 : k \in DOMAIN box \/ k = Len(box) + 1
  BY <1>2
<1>11. Heard(p)'
  <2>1. ASSUME NEW k \in DOMAIN box2
        PROVE  /\ WalletOf[p] \in matches'[box2[k].match].players
               /\ box2[k].type \in {"disputed", "cancelled"} =>
                    matches'[box2[k].match].state = box2[k].type
    <3>1. CASE k \in DOMAIN box
      BY <1>2, <1>5, <1>7, <3>1
    <3>2. CASE k = Len(box) + 1
      BY <1>2, <3>2
    <3> QED
      BY <1>10, <3>1, <3>2
  <2> QED
    BY <1>3, <2>1 DEF Heard
<1>12. Found(p)'
  <2>1. ASSUME NEW k \in DOMAIN box2, box2[k].type = "match_found"
        PROVE  /\ p \in unseen'
               /\ k = Len(box2) => matches'[box2[k].match].state = "live"
               /\ \A j \in DOMAIN box2 :
                    j < k /\ box2[j].type = "match_found" => box2[j].match < box2[k].match
    <3>1. CASE k \in DOMAIN box
      <4>1. box2[k] = box[k] /\ k <= Len(box) /\ k \in Nat
        BY <1>1, <1>2, <3>1
      <4>2. p \in unseen'
        BY <1>6, <2>1, <3>1, <4>1
      <4>3. k # Len(box2)
        BY <1>1, <1>2, <4>1
      <4>4. ASSUME NEW j \in DOMAIN box2, j < k, box2[j].type = "match_found"
            PROVE  box2[j].match < box2[k].match
        <5>1. j \in DOMAIN box
          BY <1>1, <1>10, <4>1, <4>4
        <5>2. box2[j] = box[j]
          BY <1>2, <5>1
        <5> QED
          BY <1>6, <2>1, <3>1, <4>1, <4>4, <5>1, <5>2
      <4> QED
        BY <4>2, <4>3, <4>4
    <3>2. CASE k = Len(box) + 1
      <4>1. box2[k] = event
        BY <1>2, <3>2
      <4>2. ASSUME NEW j \in DOMAIN box2, j < k, box2[j].type = "match_found"
            PROVE  box2[j].match < box2[k].match
        <5>1. j \in DOMAIN box
          BY <1>1, <1>10, <3>2, <4>2
        <5>2. box2[j] = box[j]
          BY <1>2, <5>1
        <5> QED
          BY <1>8, <2>1, <4>1, <5>1, <5>2
      <4> QED
        BY <2>1, <4>1, <4>2
    <3> QED
      BY <1>10, <3>1, <3>2
  <2> QED
    BY <1>3, <2>1, Zenon DEF Found
<1> QED
  BY <1>9, <1>11, <1>12 DEF EventOf

\* Every page of the players of match m that can be reached is told.
LEMMA EventSends ==
  ASSUME ServerTypes, PageTypes, KnownInv, MarkInv, EventInv,
         NEW m \in DOMAIN matches, NEW event \in Notices, event.match = m,
         Send(matches[m].players, event), UNCHANGED <<page, unseen>>,
         \A k \in DOMAIN matches : matches'[k].players = matches[k].players,
         \A k \in DOMAIN matches \ {m} : matches'[k] = matches[k],
         event.type \in {"disputed", "cancelled"} => matches'[m].state = event.type,
         event.type = "match_found" =>
           /\ matches'[m].state = "live" /\ PagesOf(matches[m].players) \subseteq unseen
           /\ Known < m,
         \/ matches[m].state = "live"
         \/ \A p \in PagesOf(matches[m].players) : socket[p].inbox = <<>>,
         \A p \in Pages : request[p] = NoRequest => request'[p] = NoRequest,
         \A w : LastOf(w)' = LastOf(w)
  PROVE  EventInv'
<1> SUFFICES ASSUME NEW p \in Pages PROVE EventOf(p)'
  BY DEF EventInv, EventOf, Boxed, Heard, Found, Viewed
<1> DEFINE box == socket[p].inbox
<1>1. EventOf(p)
  BY DEF EventInv
<1>2. /\ socket'[p].on = socket[p].on
      /\ socket'[p].inbox = IF p \in PagesOf(matches[m].players) /\ socket[p].on
                            THEN Append(box, event) ELSE box
  BY SendEffect
<1>3. \A k \in DOMAIN box :
        /\ box[k].match \in DOMAIN matches /\ box[k].match \in 1 .. Known
        /\ WalletOf[p] \in matches[box[k].match].players
        /\ box[k].type \in {"disputed", "cancelled"} =>
             matches[box[k].match].state = box[k].type
  BY <1>1, BoxKnown DEF EventOf, Heard
<1>4. page'[p] = page[p] /\ (p \in unseen => p \in unseen')
  OBVIOUS
<1>5. LastOf(WalletOf[p])' = LastOf(WalletOf[p])
  OBVIOUS
<1>6. request[p] = NoRequest => request'[p] = NoRequest
  OBVIOUS
<1>7. CASE p \in PagesOf(matches[m].players) /\ socket[p].on
  <2>1. WalletOf[p] \in matches'[event.match].players
    BY <1>7 DEF PagesOf
  <2>2. event.type \in {"disputed", "cancelled"} =>
          matches'[event.match].state = event.type
    OBVIOUS
  <2>3. event.type = "match_found" =>
          /\ p \in unseen' /\ matches'[event.match].state = "live"
          /\ \A k \in DOMAIN box : box[k].match < event.match
    <3>1. \A k \in DOMAIN box : box[k].match \in 1 .. Known
      BY <1>3
    <3>2. m \in Nat /\ Known \in Nat
      BY KnownType
    <3>3. Known < m => \A k \in DOMAIN box : box[k].match < m
      <4> HIDE DEF box
      <4> QED
        BY <3>1, <3>2
    <3> QED
      BY <1>7, <3>3
  <2>4. \A k \in DOMAIN box :
          /\ matches'[box[k].match].players = matches[box[k].match].players
          /\ box[k].type \in {"disputed", "cancelled"} =>
               matches'[box[k].match].state = matches[box[k].match].state
    <3>1. ASSUME NEW k \in DOMAIN box, box[k].type \in {"disputed", "cancelled"}
          PROVE  matches'[box[k].match] = matches[box[k].match]
      <4>1. box # <<>>
        BY <3>1
      <4>2. matches[m].state = "live"
        BY <1>7, <4>1
      <4>3. matches[box[k].match].state = box[k].type
        BY <1>3, <3>1
      <4>4. box[k].match # m
        BY <3>1, <4>2, <4>3
      <4> QED
        BY <1>3, <4>4
    <3>2. \A k \in DOMAIN box : matches'[box[k].match].players = matches[box[k].match].players
      BY <1>3
    <3> QED
      BY <3>1, <3>2
  <2>5. socket[p].on /\ socket'[p].on /\ socket'[p].inbox = Append(box, event)
    BY <1>2, <1>7
  <2> QED
    BY <1>1, <1>4, <1>5, <2>1, <2>2, <2>3, <2>4, <2>5, EventSent
<1>8. CASE ~socket[p].on
  <2>1. box = <<>>
    BY <1>1, <1>8 DEF EventOf, Boxed
  <2>2. socket'[p].inbox = <<>> /\ ~socket'[p].on
    BY <1>2, <1>8, <2>1
  <2>3. Boxed(p)' /\ Viewed(p)'
    BY <1>1, <1>4, <1>5, <1>6, <2>2 DEF EventOf, Boxed, Viewed
  <2> QED
    BY <2>2, <2>3, EventNone
<1>9. CASE p \notin PagesOf(matches[m].players)
  <2>1. WalletOf[p] \notin matches[m].players
    BY <1>9 DEF PagesOf
  <2>2. \A k \in DOMAIN box :
          /\ matches'[box[k].match].players = matches[box[k].match].players
          /\ matches'[box[k].match].state = matches[box[k].match].state
    BY <1>3, <2>1
  <2>3. socket'[p].inbox = box
    BY <1>2, <1>9
  <2> QED
    BY <1>1, <1>2, <1>4, <1>5, <1>6, <2>2, <2>3, EventKept
<1> QED
  BY <1>7, <1>8, <1>9

\* No page is told anything; some may lose their events.
LEMMA EventStill ==
  ASSUME EventInv, UNCHANGED <<matches, page, unseen>>,
         \A p \in Pages : request[p] = NoRequest => request'[p] = NoRequest,
         \A p \in Pages :
           \/ socket'[p].inbox = socket[p].inbox /\ socket'[p].on = socket[p].on
           \/ socket'[p].inbox = <<>> /\ ~socket'[p].on
  PROVE  EventInv'
<1> SUFFICES ASSUME NEW p \in Pages PROVE EventOf(p)'
  BY DEF EventInv, EventOf, Boxed, Heard, Found, Viewed
<1>1. EventOf(p)
  BY DEF EventInv
<1>2. LastOf(WalletOf[p])' = LastOf(WalletOf[p])
  BY SameMatches
<1>3. request[p] = NoRequest => request'[p] = NoRequest
  OBVIOUS
<1>4. CASE socket'[p].inbox = socket[p].inbox /\ socket'[p].on = socket[p].on
  BY <1>1, <1>2, <1>3, <1>4, EventKept
<1>5. CASE socket'[p].inbox = <<>> /\ ~socket'[p].on
  <2>1. Boxed(p)' /\ Viewed(p)'
    BY <1>1, <1>2, <1>3, <1>5 DEF EventOf, Boxed, Viewed
  <2> QED
    BY <1>5, <2>1, EventNone
<1> QED
  BY <1>4, <1>5

\* What is in the sockets stays true of the matches until it is handled.
LEMMA EventInvStep ==
  ASSUME ServerTypes, PageTypes, TickInv, KnownInv, EventInv, Next
  PROVE  EventInv'
<1> USE DEF server, history
<1>0. RequestTypes /\ MarkInv /\ socket \in [Pages -> Sockets]
  BY TickParts DEF PageTypes
<1>e. \A p \in Pages : EventOf(p)
  BY DEF EventInv
<1>1. ASSUME NEW p \in Pages, PageStep(p)
      PROVE  EventInv'
  <2> SUFFICES ASSUME NEW o \in Pages PROVE EventOf(o)'
    BY DEF EventInv, EventOf, Boxed, Heard, Found, Viewed
  <2>1. /\ UNCHANGED matches /\ OnlyPage(p) /\ OnlyRequest(p)
        /\ \A q \in Pages \ {p} : socket'[q] = socket[q] /\ (q \in unseen' <=> q \in unseen)
    BY <1>1, PageStepFrame DEF PageFrame
  <2>2. CASE o # p
    <3>1. /\ page'[o] = page[o] /\ request'[o] = request[o] /\ socket'[o] = socket[o]
          /\ o \in unseen' <=> o \in unseen
      BY <2>1, <2>2 DEF OnlyPage, OnlyRequest
    <3>2. LastOf(WalletOf[o])' = LastOf(WalletOf[o])
      BY <2>1, SameMatches
    <3>3. matches' = matches /\ EventOf(o)
      BY <1>e, <2>1
    <3> QED
      BY <3>1, <3>2, <3>3, EventKept
  <2>3. CASE o = p
    <3>1. EventOf(p) /\ Boxed(p)
      BY <1>e DEF EventOf
    <3>2. page[p].phase # "closed"
      BY <1>1, <3>1, ClosedRests
    <3>3. HandleEvent(p) \/ BoxKept(p)
      BY <1>1, <3>1, PageStepBox
    <3>4. EventOf(p)'
      BY <1>0, <2>1, <3>1, <3>2, <3>3, EventHandled, EventOwn
    <3> QED
      BY <2>3, <3>4
  <2> QED
    BY <2>2, <2>3
<1>2. ASSUME NEW p \in Pages, RequestStep(p), UNCHANGED page
      PROVE  EventInv'
  <2>a. \E kind \in {"join", "leave", "report"}, at \in {"start", "checked", "insert", "enter", "forget"} :
          Waits(p, kind, at)
    <3>1. CASE JoinCheckLive(p)
      BY <3>1 DEF JoinCheckLive
    <3>2. CASE JoinCheckTicket(p)
      BY <3>2 DEF JoinCheckTicket
    <3>3. CASE InsertTicket(p)
      BY <3>3 DEF InsertTicket
    <3>4. CASE EnterQueue(p)
      BY <3>4 DEF EnterQueue
    <3>5. CASE CancelTicket(p)
      BY <3>5 DEF CancelTicket
    <3>6. CASE LeaveQueue(p)
      BY <3>6 DEF LeaveQueue
    <3>7. CASE ReportOutcome(p)
      BY <3>7 DEF ReportOutcome
    <3> QED
      BY <1>2, <3>1, <3>2, <3>3, <3>4, <3>5, <3>6, <3>7 DEF RequestStep
  <2>1. request[p] # NoRequest
    BY <2>a DEF Waits, NoRequest
  <2>2. OnlyRequest(p)
    BY <1>0, <1>2, RequestStepEffect DEF RequestStep
  <2>3. \A o \in Pages : request[o] = NoRequest => request'[o] = NoRequest
    BY <2>1, <2>2 DEF OnlyRequest
  <2>4. CASE ~ReportOutcome(p)
    <3>1. UNCHANGED <<matches, socket, unseen>>
      BY <1>2, <2>4 DEF RequestStep, JoinCheckLive, JoinCheckTicket, InsertTicket,
                        EnterQueue, CancelTicket, LeaveQueue
    <3> QED
      BY <1>2, <2>3, <3>1, EventStill
  <2>5. CASE ReportOutcome(p)
    <3> DEFINE v == WalletOf[p]
               m == request[p].match
               all == matches[m].reports \cup {v}
    <3>1. /\ UNCHANGED unseen
          /\ \/ UNCHANGED <<matches, socket>>
             \/ /\ m \in MatchesOf(v, "live") /\ MatchIs(m, "live", all) /\ UNCHANGED socket
             \/ /\ m \in MatchesOf(v, "live")
                /\ \E e \in EndEvents :
                     /\ e[1] # "cancelled"
                     /\ MatchIs(m, e[1], all)
                     /\ Send(matches[m].players, [type |-> e[2], match |-> m])
      BY <1>0, <2>5, ReportEffect
    <3>2. CASE UNCHANGED <<matches, socket>>
      BY <1>2, <2>3, <3>1, <3>2, EventStill
    <3>3. ASSUME m \in MatchesOf(v, "live"), MatchIs(m, "live", all), UNCHANGED socket
          PROVE  EventInv'
      <4> SUFFICES ASSUME NEW o \in Pages PROVE EventOf(o)'
        BY DEF EventInv, EventOf, Boxed, Heard, Found, Viewed
      <4>1. m \in DOMAIN matches /\ matches[m].state = "live"
        BY <3>3 DEF MatchesOf
      <4>2. \A k \in DOMAIN matches : /\ matches'[k].players = matches[k].players
                                      /\ matches'[k].state = matches[k].state
        BY <3>3, <4>1 DEF MatchIs
      <4>3. \A w : LastOf(w)' = LastOf(w)
        <5> HIDE DEF m, all
        <5> QED
          BY <3>3, <4>1, MatchIsMoved
      <4>4. \A k \in DOMAIN socket[o].inbox : socket[o].inbox[k].match \in DOMAIN matches
        BY <1>0, BoxKnown
      <4>5. \A k \in DOMAIN socket[o].inbox :
              /\ matches'[socket[o].inbox[k].match].players =
                   matches[socket[o].inbox[k].match].players
              /\ matches'[socket[o].inbox[k].match].state =
                   matches[socket[o].inbox[k].match].state
        BY <4>2, <4>4
      <4>6. /\ page'[o] = page[o] /\ socket'[o] = socket[o] /\ EventOf(o)
            /\ o \in unseen => o \in unseen'
            /\ request[o] = NoRequest => request'[o] = NoRequest
            /\ LastOf(WalletOf[o])' = LastOf(WalletOf[o])
        BY <1>2, <1>e, <2>3, <3>1, <3>3, <4>3
      <4> QED
        BY <4>5, <4>6, EventKept
    <3>4. ASSUME m \in MatchesOf(v, "live"), NEW e \in EndEvents, e[1] # "cancelled",
                 MatchIs(m, e[1], all),
                 Send(matches[m].players, [type |-> e[2], match |-> m])
          PROVE  EventInv'
      <4> DEFINE event == [type |-> e[2], match |-> m]
      <4>1. m \in DOMAIN matches /\ matches[m].state = "live" /\ m \in Nat
        BY <3>4 DEF MatchesOf, ServerTypes
      <4>2. /\ event \in Notices /\ event.type = e[2] /\ event.match = m
            /\ e[2] \in {"match_result", "disputed", "cancelled"}
        BY <4>1 DEF EndEvents, Notices
      <4>3. event.type \in {"disputed", "cancelled"} => event.type = e[1]
        BY <4>2 DEF EndEvents
      <4>4. Send(matches[m].players, event)
        BY <3>4
      <4> DEFINE state == e[1]
      <4>5. event.type \in {"disputed", "cancelled"} => event.type = state
        BY <4>3
      <4>6. MatchIs(m, state, all)
        BY <3>4
      <4> HIDE DEF m, all, event, state
      <4>7. \A w : LastOf(w)' = LastOf(w)
        BY <4>1, <4>6, MatchIsMoved
      <4>8. /\ \A k \in DOMAIN matches : matches'[k].players = matches[k].players
            /\ \A k \in DOMAIN matches \ {m} : matches'[k] = matches[k]
            /\ matches'[m].state = state
        BY <4>6 DEF MatchIs
      <4>9. event.type \in {"disputed", "cancelled"} => matches'[m].state = event.type
        BY <4>5, <4>8
      <4>10. event.type # "match_found"
        BY <4>2
      <4>11. UNCHANGED <<page, unseen>>
        BY <1>2, <3>1
      <4> QED
        BY <1>0, <2>3, <4>1, <4>2, <4>4, <4>7, <4>8, <4>9, <4>10, <4>11, EventSends
    <3> HIDE DEF m, all
    <3> QED
      BY <3>1, <3>2, <3>3, <3>4
  <2> QED
    BY <2>4, <2>5
<1>3. ASSUME \/ \E a, b \in Wallets : TakePair(a, b)
             \/ \E W \in SUBSET Wallets : TakeStale(W), UNCHANGED page
      PROVE  EventInv'
  <2>1. UNCHANGED <<matches, request, socket, unseen>>
    <3>1. ASSUME NEW a \in Wallets, NEW b \in Wallets, TakePair(a, b)
          PROVE  UNCHANGED <<matches, request, socket, unseen>>
      BY <3>1 DEF TakePair
    <3>2. ASSUME NEW W \in SUBSET Wallets, TakeStale(W)
          PROVE  UNCHANGED <<matches, request, socket, unseen>>
      BY <3>2 DEF TakeStale
    <3> QED
      BY <1>3, <3>1, <3>2
  <2> QED
    BY <1>3, <2>1, EventStill
<1>4. ASSUME InsertMatch, UNCHANGED page PROVE EventInv'
  <2> DEFINE g == Head(tick.todo)
  <2>1. /\ g \in Groups
        /\ UNCHANGED <<request, socket>>
        /\ \/ /\ matches' = Append(matches, [players |-> g.wallets, bot |-> g.bot,
                                             state |-> "live", reports |-> {}])
              /\ unseen' = unseen \cup PagesOf(g.wallets)
           \/ UNCHANGED <<matches, unseen>>
    BY <1>4, InsertMatchEffect
  <2>2. CASE UNCHANGED <<matches, unseen>>
    BY <1>4, <2>1, <2>2, EventStill
  <2>3. ASSUME matches' = Append(matches, [players |-> g.wallets, bot |-> g.bot,
                                           state |-> "live", reports |-> {}]),
               unseen' = unseen \cup PagesOf(g.wallets), NEW o \in Pages
        PROVE  EventOf(o)'
    <3> HIDE DEF g
    <3>1. /\ \A k \in DOMAIN matches : matches'[k] = matches[k]
          /\ \A w \in Wallets \ g.wallets : LastOf(w)' = LastOf(w)
      BY <2>1, <2>3, MatchInserted
    <3>2. \A k \in DOMAIN socket[o].inbox : socket[o].inbox[k].match \in DOMAIN matches
      BY <1>0, BoxKnown
    <3>3. \A k \in DOMAIN socket[o].inbox :
            /\ matches'[socket[o].inbox[k].match].players =
                 matches[socket[o].inbox[k].match].players
            /\ matches'[socket[o].inbox[k].match].state =
                 matches[socket[o].inbox[k].match].state
      BY <3>1, <3>2
    <3>4. WalletOf[o] \in Wallets
      BY QueueAssumption
    <3>5. o \notin unseen' => LastOf(WalletOf[o])' = LastOf(WalletOf[o])
      BY <2>3, <3>1, <3>4 DEF PagesOf
    <3>6. /\ page'[o] = page[o] /\ socket'[o] = socket[o] /\ request'[o] = request[o]
          /\ EventOf(o) /\ (o \in unseen => o \in unseen')
      BY <1>4, <1>e, <2>1, <2>3
    <3> QED
      BY <3>3, <3>5, <3>6, EventKept
  <2> HIDE DEF g
  <2>4. (\A o \in Pages : EventOf(o)') => EventInv'
    BY DEF EventInv, EventOf, Boxed, Heard, Found, Viewed
  <2> QED
    BY <2>1, <2>2, <2>3, <2>4
<1>5. ASSUME MarkTickets, UNCHANGED page PROVE EventInv'
  <2> DEFINE g == Head(tick.todo)
             event == [type |-> "match_found", match |-> tick.match]
  <2>1. /\ tick.at = "mark" /\ UNCHANGED <<matches, request, unseen>>
        /\ event \in Notices
        /\ Send(g.wallets, event) \/ UNCHANGED socket
    BY <1>5, MarkTicketsEffect
  <2>2. CASE UNCHANGED socket
    BY <1>5, <2>1, <2>2, EventStill
  <2>3. CASE Send(g.wallets, event)
    <3> DEFINE m == tick.match
    <3>1. /\ m \in DOMAIN matches /\ matches[m].players = g.wallets
          /\ matches[m].state = "live" /\ PagesOf(g.wallets) \subseteq unseen
      BY <1>0, <2>1 DEF MarkInv
    <3>2. Known < m
      <4>1. Known \in Nat /\ Known + 1 = Len(matches) /\ m = Len(matches)
        BY <1>0, <2>1, KnownType
      <4> QED
        BY <4>1
    <3>3. event.match = m /\ event.type = "match_found"
      OBVIOUS
    <3>4. \A w : LastOf(w)' = LastOf(w)
      BY <2>1, SameMatches
    <3>5. /\ matches' = matches /\ UNCHANGED <<page, unseen>>
          /\ \A o \in Pages : request[o] = NoRequest => request'[o] = NoRequest
      BY <1>5, <2>1
    <3> HIDE DEF m, g, event
    <3> QED
      BY <1>0, <2>1, <2>3, <3>1, <3>2, <3>3, <3>4, <3>5, EventSends
  <2> QED
    BY <2>1, <2>2, <2>3
<1>6. ASSUME CloseTicket, UNCHANGED page PROVE EventInv'
  BY <1>6, CloseTicketEffect, EventStill
<1>7. ASSUME NEW m \in DOMAIN matches, EndMatch(m), UNCHANGED page
      PROVE  EventInv'
  <2>1. /\ UNCHANGED <<request, unseen>>
        /\ \A p \in PagesOf(matches[m].players) : socket[p].inbox = <<>>
    BY <1>7, EndEffect
  <2>2. PICK e \in EndEvents :
              /\ e[1] # "disputed"
              /\ MatchIs(m, e[1], matches[m].reports)
              /\ Send(matches[m].players, [type |-> e[2], match |-> m])
    BY <1>7, EndEffect
  <2> DEFINE event == [type |-> e[2], match |-> m]
             state == e[1]
             reports == matches[m].reports
  <2>3. /\ event \in Notices /\ event.type = e[2] /\ event.match = m
        /\ e[2] \in {"match_result", "disputed", "cancelled"}
    BY DEF EndEvents, Notices, ServerTypes
  <2>4. event.type \in {"disputed", "cancelled"} => event.type = state
    BY <2>3 DEF EndEvents
  <2>5. Send(matches[m].players, event) /\ MatchIs(m, state, reports)
    BY <2>2
  <2> HIDE DEF event, state, reports
  <2>6. \A w : LastOf(w)' = LastOf(w)
    BY <2>5, MatchIsMoved
  <2>7. /\ \A k \in DOMAIN matches : matches'[k].players = matches[k].players
        /\ \A k \in DOMAIN matches \ {m} : matches'[k] = matches[k]
        /\ matches'[m].state = state
    BY <2>5 DEF MatchIs
  <2>8. event.type \in {"disputed", "cancelled"} => matches'[m].state = event.type
    BY <2>4, <2>7
  <2>9. event.type # "match_found"
    BY <2>3
  <2>10. /\ UNCHANGED <<page, unseen>>
         /\ \A o \in Pages : request[o] = NoRequest => request'[o] = NoRequest
    BY <1>7, <2>1
  <2> QED
    BY <1>0, <2>1, <2>3, <2>5, <2>6, <2>7, <2>8, <2>9, <2>10, EventSends
<1>8. ASSUME Restart, UNCHANGED page PROVE EventInv'
  <2>1. /\ UNCHANGED <<matches, unseen>>
        /\ \A p \in Pages : request[p].kind = "none" => request'[p] = NoRequest
        /\ \A p \in Pages : socket'[p].inbox = <<>> /\ ~socket'[p].on
    BY <1>0, <1>8, RestartEffect
  <2>2. \A p \in Pages : request[p] = NoRequest => request'[p] = NoRequest
    BY <2>1 DEF NoRequest
  <2> QED
    BY <1>8, <2>1, <2>2, EventStill
<1> QED
  BY <1>1, <1>2, <1>3, <1>4, <1>5, <1>6, <1>7, <1>8 DEF Next, TickStep

\* At the start no event is on its way.
LEMMA InitEvents ==
  ASSUME Init
  PROVE  EventInv
<1>1. PICK s \in Scenarios :
           /\ s.start \in {"idle", "queued", "paired"}
           /\ {WalletOf[o] : o \in s.open} \in SUBSET Wallets
           /\ QueueInit({WalletOf[o] : o \in s.open}, s.start)
           /\ page \in [Pages -> Screens] /\ socket \in [Pages -> Sockets]
           /\ \A p \in Pages : Opened(p, s) /\ socket[p].inbox = <<>>
  BY InitEffect
<1> DEFINE W == {WalletOf[o] : o \in s.open}
           start == s.start
<1>2. Started(W, start)
  <2>1. W \in SUBSET Wallets /\ start \in {"idle", "queued", "paired"}
        /\ QueueInit(W, start)
    BY <1>1
  <2> HIDE DEF W, start
  <2> QED
    BY <2>1, QueueStart
<1> SUFFICES ASSUME NEW p \in Pages PROVE EventOf(p)
  BY DEF EventInv
<1>3. Opened(p, s) /\ socket[p].inbox = <<>> /\ request[p] = NoRequest
  BY <1>1, <1>2 DEF Started
<1>4. CASE p \in s.open
  <2>1. WalletOf[p] \in W
    BY <1>3, <1>4 DEF Opened
  <2>2. page[p].view = LastOf(WalletOf[p]) /\ page[p].phase # "closed"
    BY <1>1, <1>2, <1>3, <1>4, <2>1 DEF Opened, Started
  <2> QED
    BY <1>3, <2>2 DEF EventOf, Boxed, Heard, Found, Viewed
<1>5. CASE p \notin s.open
  <2>1. page[p] = Closed /\ ~socket[p].on /\ page[p].phase = "closed"
    BY <1>3, <1>5 DEF Opened, Closed
  <2> QED
    BY <1>3, <2>1 DEF EventOf, Boxed, Heard, Found, Viewed
<1> QED
  BY <1>4, <1>5

-----------------------------------------------------------------------------
(***************************************************************************)
(* The pages that are not out of step.                                     *)
(***************************************************************************)
\* What the server knows of the page's player.
Queued(p)   == TicketsOf(WalletOf[p], "queued") # {}
Live(p)     == MatchesOf(WalletOf[p], "live") # {}
Reported(p) == \E m \in MatchesOf(WalletOf[p], "live") : WalletOf[p] \in matches[m].reports
Disputed(p) == MatchesOf(WalletOf[p], "disputed") # {}

\* No event is on its way to the page or about to be sent.
Calm(p) == socket[p].inbox = <<>> /\ ~Marking(WalletOf[p])
\* The page's join has its ticket and no entry yet.
Enters(p) == Waits(p, "join", "enter")

\* A player with a match found or a dispute on the way is not in the queue.
NewsInv(p) ==
  \A k \in DOMAIN socket[p].inbox :
    socket[p].inbox[k].type \in {"match_found", "disputed"} => ~Queued(p)

\* With no answer on the way the page shows what the server knows.
ShowsIt(p) ==
  /\ page[p].phase \in {"idle", "matchFound", "reported", "disputed"} => ~Queued(p)
  /\ page[p].phase = "result" => page[p].me # <<>>
  /\ Calm(p) =>
       /\ page[p].phase = "queued" => Queued(p)
       /\ page[p].phase = "idle" => ~Live(p)
       /\ page[p].phase = "matchFound" => Live(p)
       /\ page[p].phase = "reported" => Reported(p)
       /\ page[p].phase = "disputed" => ~Live(p) /\ Disputed(p)

Shows(p) == Computed(p) = {} /\ ~Answered(p) /\ ~Enters(p) => ShowsIt(p)

\* A single answer of /v1/me that is on the way is still right.
FetchIs(p, me) ==
  /\ Calm(p) /\ (me.at = "read" \/ ~me.ticket) => (me.live # 0 <=> Live(p))
  /\ me.at = "ok" /\ me.ticket /\ Calm(p) => Queued(p)
  /\ me.at = "ok" /\ ~me.ticket /\ ~Enters(p) => ~Queued(p)

WillShow(p) ==
  \A i \in Computed(p) :
    Computed(p) = {i} /\ ~Answered(p) => FetchIs(p, page[p].me[i])

\* So is a single answer to the player's own request.
AnswerIs(p) ==
  /\ request[p].kind = "join" => (Calm(p) => Queued(p))
  /\ request[p].kind = "leave" =>
       /\ request[p].at \in {"start", "forget", "ok"}
       /\ Calm(p) => ~Live(p)
       /\ request[p].at # "start" => ~Queued(p)
  /\ request[p].kind = "report" => ~Queued(p) /\ (Calm(p) => Reported(p))

WillAnswer(p) == Computed(p) = {} /\ Answered(p) => AnswerIs(p)

ScreenOf(p) ==
  /\ NewsInv(p)
  /\ page[p].session =>
       /\ Enters(p) => Queued(p)
       /\ Shows(p) /\ WillShow(p) /\ WillAnswer(p)

InStepInv == \A p \in Pages : InStep(p) => ScreenOf(p)

\* What the server knows of a player changes with the tables only.
LEMMA SameServer ==
  ASSUME UNCHANGED server
  PROVE  \A p : /\ Queued(p)' <=> Queued(p)
                /\ Live(p)' <=> Live(p)
                /\ Reported(p)' <=> Reported(p)
                /\ Disputed(p)' <=> Disputed(p)
                /\ Marking(WalletOf[p])' <=> Marking(WalletOf[p])
<1>1. UNCHANGED <<tickets, matches, tick>>
  BY DEF server
<1> QED
  BY <1>1, SameMatches, SameRows, SameTick DEF Queued, Live, Reported, Disputed

\* The answers on the way to a page are part of the page.
LEMMA SameComputed ==
  ASSUME NEW p, page'[p].me = page[p].me
  PROVE  Computed(p)' = Computed(p)
  BY DEF Computed

\* Whether a request is answered depends on the request alone.
LEMMA SameEnters ==
  ASSUME NEW p, request'[p] = request[p]
  PROVE  (Enters(p)' <=> Enters(p)) /\ (Answered(p)' <=> Answered(p))
  BY DEF Enters, Waits, Answered

\* A page that neither asks nor is answered nor changes what it shows.
LEMMA SameScreen ==
  ASSUME NEW p \in Pages, ScreenOf(p), page'[p] = page[p], request'[p] = request[p],
         Queued(p)' => Queued(p),
         Queued(p) /\ (Calm(p)' \/ Enters(p)) => Queued(p)',
         Calm(p)' => /\ Calm(p)
                     /\ Live(p)' <=> Live(p)
                     /\ Reported(p) => Reported(p)'
                     /\ Disputed(p) => Disputed(p)',
         NewsInv(p)'
  PROVE  ScreenOf(p)'
<1>1. Computed(p)' = Computed(p)
  BY SameComputed
<1>2. (Enters(p)' <=> Enters(p)) /\ (Answered(p)' <=> Answered(p))
  BY SameEnters
<1> SUFFICES ASSUME page[p].session
             PROVE  /\ Enters(p)' => Queued(p)'
                    /\ Shows(p)' /\ WillShow(p)' /\ WillAnswer(p)'
  BY DEF ScreenOf
<1>3. /\ Enters(p) => Queued(p)
      /\ Shows(p) /\ WillShow(p) /\ WillAnswer(p)
  BY DEF ScreenOf
<1>4. Enters(p)' => Queued(p)'
  BY <1>2, <1>3
<1>5. Shows(p)'
  <2>1. ShowsIt(p) => ShowsIt(p)'
    BY DEF ShowsIt
  <2> QED
    BY <1>1, <1>2, <1>3, <2>1 DEF Shows
<1>6. WillShow(p)'
  <2>1. \A me : FetchIs(p, me) => FetchIs(p, me)'
    BY <1>2 DEF FetchIs
  <2> QED
    BY <1>1, <1>2, <1>3, <2>1 DEF WillShow
<1>7. WillAnswer(p)'
  <2>1. AnswerIs(p) => AnswerIs(p)'
    BY DEF AnswerIs
  <2> QED
    BY <1>1, <1>2, <1>3, <2>1 DEF WillAnswer
<1> QED
  BY <1>4, <1>5, <1>6, <1>7

\* One fetch gets on.
LEMMA FetchComputed ==
  ASSUME NEW p, NEW i \in DOMAIN page[p].me, NEW r, FetchBecomes(p, i, r)
  PROVE  /\ r.at \in {"read", "ok"} => Computed(p)' = Computed(p) \cup {i}
         /\ r.at \notin {"read", "ok"} => Computed(p)' = Computed(p) \ {i}
         /\ page'[p].me[i] = r
         /\ \A k \in Computed(p) \ {i} : page'[p].me[k] = page[p].me[k]
  BY DEF FetchBecomes, Computed

\* A new request for /v1/me comes after the others.
LEMMA AppendedFetches ==
  ASSUME NEW me \in Seq(Fetches), NEW f \in Fetches
  PROVE  /\ DOMAIN Append(me, f) = DOMAIN me \cup {Len(me) + 1}
         /\ \A k \in DOMAIN me : Append(me, f)[k] = me[k]
         /\ Append(me, f)[Len(me) + 1] = f
         /\ Append(me, f) # <<>>
  OBVIOUS

\* A new fetch is not computed yet.
LEMMA RefreshComputed ==
  ASSUME PageTypes, NEW p \in Pages, page'[p].me = Refresh(p)
  PROVE  /\ Computed(p)' = Computed(p) /\ page'[p].me # <<>>
         /\ \A k \in Computed(p) : page'[p].me[k] = page[p].me[k]
<1> DEFINE me == page[p].me
           new == Append(me, Asked)
<1>1. me \in Seq(Fetches) /\ Asked \in Fetches
  BY DEF PageTypes, Screens, Asked, Fetches
<1>2. Asked.at = "asked"
  BY DEF Asked
<1>3. page'[p].me = new
  BY DEF Refresh
<1>4. Computed(p) = {k \in DOMAIN me : me[k].at \in {"read", "ok"}}
  BY DEF Computed
<1>5. Computed(p)' = {k \in DOMAIN new : new[k].at \in {"read", "ok"}}
  BY <1>3, Zenon DEF Computed
<1>6. /\ DOMAIN new = DOMAIN me \cup {Len(me) + 1}
      /\ \A k \in DOMAIN me : new[k] = me[k]
      /\ new[Len(me) + 1] = Asked /\ new # <<>>
  <2> HIDE DEF me, new
  <2>1. DOMAIN Append(me, Asked) = DOMAIN me \cup {Len(me) + 1}
        /\ \A k \in DOMAIN me : Append(me, Asked)[k] = me[k]
        /\ Append(me, Asked)[Len(me) + 1] = Asked /\ Append(me, Asked) # <<>>
    BY <1>1, AppendedFetches
  <2> QED
    BY <2>1 DEF new
<1> HIDE DEF me, new
<1> QED
  BY <1>2, <1>3, <1>4, <1>5, <1>6 DEF me

\* The only computed answer is applied.
LEMMA AppliedComputed ==
  ASSUME PageTypes, NEW p \in Pages, NEW i \in DOMAIN page[p].me,
         page'[p].me = RemoveAt(page[p].me, i), Computed(p) \ {i} = {}
  PROVE  Computed(p)' = {}
<1> DEFINE me == page[p].me
           new == RemoveAt(me, i)
<1>1. me \in Seq(Fetches) /\ i \in DOMAIN me
  BY DEF PageTypes, Screens
<1>2. \A k \in DOMAIN me \ {i} : me[k].at \notin {"read", "ok"}
  BY DEF Computed
<1>3. Computed(p)' = {k \in DOMAIN new : new[k].at \in {"read", "ok"}}
  BY DEF Computed
<1> HIDE DEF me
<1>4. /\ new \in Seq(Fetches) /\ Len(new) = Len(me) - 1
      /\ \A k \in 1 .. Len(me) - 1 : new[k] = IF k < i THEN me[k] ELSE me[k + 1]
  BY <1>1, Removed
<1> HIDE DEF new
<1>5. ASSUME NEW k \in DOMAIN new PROVE new[k].at \notin {"read", "ok"}
  <2>1. k \in 1 .. Len(me) - 1 /\ Len(me) \in Nat /\ DOMAIN me = 1 .. Len(me)
    BY <1>1, <1>4, <1>5
  <2>2. i \in Nat
    BY <1>1, <2>1
  <2>3. CASE k < i
    <3>1. k \in DOMAIN me \ {i} /\ new[k] = me[k]
      BY <1>4, <2>1, <2>2, <2>3
    <3> QED
      BY <1>2, <3>1
  <2>4. CASE ~(k < i)
    <3>1. k + 1 \in DOMAIN me \ {i} /\ new[k] = me[k + 1]
      BY <1>4, <2>1, <2>2, <2>4
    <3> QED
      BY <1>2, <3>1
  <2> QED
    BY <2>3, <2>4
<1> QED
  BY <1>3, <1>5

\* The player of a calm page that is in the queue has no live match.
LEMMA QueuedHasNone ==
  ASSUME NEW p \in Pages, WalletOf[p] \notin tangled, OneLiveInv, Queued(p),
         ~Marking(WalletOf[p])
  PROVE  ~Live(p)
<1>1. OneLive(WalletOf[p])
  BY QueueAssumption DEF OneLiveInv
<1> QED
  BY <1>1 DEF OneLive, Live, Queued

\* A page's requests to the server, before they are handled.
LEMMA ScreenAsks ==
  ASSUME RequestTypes, OneLiveInv, NEW p \in Pages, WalletOf[p] \notin tangled, ScreenOf(p),
         Queue(p) \/ Leave(p) \/ Report(p), page[p].view \in Nat
  PROVE  ScreenOf(p)'
<1> USE DEF server
<1>1. PICK kind \in {"join", "leave", "report"}, match \in Nat :
        /\ Ask(p, kind, match)
        /\ kind = "leave" => page[p].phase = "queued"
  BY DEF Queue, Leave, Report, QueuedPanel
<1>2. UNCHANGED <<server, socket, page>>
  BY <1>1 DEF Ask
<1>3. /\ request[p] = NoRequest
      /\ request'[p].kind = kind
      /\ request'[p].at = IF page[p].session THEN "start" ELSE "error"
  BY <1>1, AskEffect
<1>4. /\ ~Answered(p) /\ ~Enters(p) /\ ~Enters(p)'
      /\ Answered(p)' => kind = "leave"
  BY <1>3 DEF Answered, Enters, Waits, NoRequest
<1>5. Computed(p)' = Computed(p)
  BY <1>2, SameComputed
<1>6. /\ Queued(p)' <=> Queued(p)
      /\ Live(p)' <=> Live(p)
      /\ Reported(p)' <=> Reported(p)
      /\ Disputed(p)' <=> Disputed(p)
      /\ Marking(WalletOf[p])' <=> Marking(WalletOf[p])
  BY <1>2, SameServer
<1>7. Calm(p)' <=> Calm(p)
  BY <1>2, <1>6 DEF Calm
<1>8. NewsInv(p)'
  BY <1>2, <1>6 DEF ScreenOf, NewsInv
<1> SUFFICES ASSUME page[p].session
             PROVE  Shows(p)' /\ WillShow(p)' /\ WillAnswer(p)'
  BY <1>2, <1>4, <1>8 DEF ScreenOf
<1>9. Shows(p) /\ WillShow(p)
  BY DEF ScreenOf
<1>10. Shows(p)'
  <2>1. ShowsIt(p) => ShowsIt(p)'
    BY <1>2, <1>6, <1>7 DEF ShowsIt
  <2> QED
    BY <1>4, <1>5, <1>9, <2>1 DEF Shows
<1>11. WillShow(p)'
  <2>1. \A me : FetchIs(p, me) => FetchIs(p, me)'
    BY <1>4, <1>6, <1>7 DEF FetchIs
  <2> QED
    BY <1>2, <1>4, <1>5, <1>9, <2>1 DEF WillShow
<1>12. WillAnswer(p)'
  <2> SUFFICES ASSUME Computed(p)' = {}, Answered(p)'
               PROVE  AnswerIs(p)'
    BY DEF WillAnswer
  <2>1. kind = "leave" /\ page[p].phase = "queued"
    BY <1>1, <1>4
  <2>2. Calm(p) => Queued(p)
    BY <1>4, <1>5, <1>9, <2>1 DEF Shows, ShowsIt
  <2>3. Calm(p) => ~Live(p)
    BY <2>2, QueuedHasNone DEF Calm
  <2> QED
    BY <1>3, <1>6, <1>7, <2>1, <2>3 DEF AnswerIs
<1> QED
  BY <1>10, <1>11, <1>12

\* /v1/me: the live match is read, or the request fails.
LEMMA ScreenReadsLive ==
  ASSUME ServerTypes, PageTypes, NEW p \in Pages, InStep(p) => ScreenOf(p),
         InStep(p)', NEW i \in DOMAIN page[p].me, ReadLive(p, i)
  PROVE  ScreenOf(p)'
<1> USE DEF server
<1>1. /\ UNCHANGED <<server, request, socket, tangled>> /\ page[p].me[i].at = "asked"
  BY DEF ReadLive
<1>2. i \notin Computed(p)
  BY <1>1 DEF Computed
<1>3. (Enters(p)' <=> Enters(p)) /\ (Answered(p)' <=> Answered(p))
  BY <1>1, SameEnters
<1>4. /\ Queued(p)' <=> Queued(p)
      /\ Live(p)' <=> Live(p)
      /\ Reported(p)' <=> Reported(p)
      /\ Disputed(p)' <=> Disputed(p)
      /\ Marking(WalletOf[p])' <=> Marking(WalletOf[p])
  BY <1>1, SameServer
<1>5. Calm(p)' <=> Calm(p)
  BY <1>1, <1>4 DEF Calm
<1>6. WalletOf[p] \notin tangled /\ p \notin behind'
  BY <1>1 DEF InStep
<1> DEFINE live == Newest(MatchesOf(WalletOf[p], "live"))
           read == [at |-> "read", live |-> live, ticket |-> page[p].me[i].ticket]
           error == [at |-> "error", live |-> page[p].me[i].live,
                     ticket |-> page[p].me[i].ticket]
<1>7. CASE /\ page[p].session
           /\ FetchBecomes(p, i, read)
           /\ behind' = IF Busy(p) \/ socket[p].inbox # <<>> THEN behind ELSE behind \ {p}
  <2>1. live # 0 <=> Live(p)
    <3>1. Len(matches) \in Nat /\ MatchesOf(WalletOf[p], "live") \in SUBSET (1 .. Len(matches))
      BY DEF ServerTypes, MatchesOf
    <3>2. /\ MatchesOf(WalletOf[p], "live") # {} => live # 0
          /\ MatchesOf(WalletOf[p], "live") = {} => live = 0
      BY <3>1, NewestLast DEF Newest
    <3> QED
      BY <3>2 DEF Live
  <2>2. read.at = "read" /\ read.live = live
    OBVIOUS
  <2> HIDE DEF live, read
  <2>3. Computed(p)' = Computed(p) \cup {i} /\ page'[p].me[i] = read
    BY <1>7, <2>2, FetchComputed
  <2>4. page'[p].session = page[p].session /\ page'[p].phase = page[p].phase
    BY <1>7 DEF FetchBecomes
  <2>5. p \in behind => ~Busy(p) /\ socket[p].inbox = <<>>
    BY <1>6, <1>7
  <2>6. p \notin behind => ScreenOf(p)
    BY <1>6 DEF InStep
  <2>7. NewsInv(p)'
    <3>1. CASE p \in behind
      BY <1>1, <2>5, <3>1 DEF NewsInv
    <3>2. CASE p \notin behind
      BY <1>1, <1>4, <2>6, <3>2 DEF ScreenOf, NewsInv
    <3> QED
      BY <3>1, <3>2
  <2>8. Enters(p)' => Queued(p)'
    <3>1. CASE p \in behind
      BY <1>3, <2>5, <3>1 DEF Busy, Enters, Waits
    <3>2. CASE p \notin behind
      BY <1>3, <1>4, <1>7, <2>6, <3>2 DEF ScreenOf
    <3> QED
      BY <3>1, <3>2
  <2>9. Shows(p)' /\ WillAnswer(p)'
    BY <2>3 DEF Shows, WillAnswer
  <2>10. WillShow(p)'
    <3> SUFFICES ASSUME NEW j \in Computed(p)', Computed(p)' = {j}
                 PROVE  FetchIs(p, page[p].me[j])'
      BY DEF WillShow
    <3>1. j = i
      BY <2>3
    <3>2. Calm(p)' => (read.live # 0 <=> Live(p)')
      BY <1>4, <2>1, <2>2
    <3> QED
      BY <2>2, <2>3, <3>1, <3>2 DEF FetchIs
  <2> QED
    BY <2>7, <2>8, <2>9, <2>10 DEF ScreenOf
<1>8. CASE FetchBecomes(p, i, error) /\ behind' = behind
  <2>1. error.at = "error"
    OBVIOUS
  <2> HIDE DEF error
  <2>2. /\ Computed(p)' = Computed(p)
        /\ \A k \in Computed(p) : page'[p].me[k] = page[p].me[k]
    BY <1>2, <1>8, <2>1, FetchComputed
  <2>3. /\ page'[p].session = page[p].session /\ page'[p].phase = page[p].phase
        /\ DOMAIN page'[p].me = DOMAIN page[p].me
    BY <1>8 DEF FetchBecomes
  <2>4. ScreenOf(p)
    BY <1>6, <1>8 DEF InStep
  <2>5. NewsInv(p)'
    BY <1>1, <1>4, <2>4 DEF ScreenOf, NewsInv
  <2> SUFFICES ASSUME page[p].session
               PROVE  /\ Enters(p)' => Queued(p)'
                      /\ Shows(p)' /\ WillShow(p)' /\ WillAnswer(p)'
    BY <2>3, <2>5 DEF ScreenOf
  <2>6. /\ Enters(p) => Queued(p)
        /\ Shows(p) /\ WillShow(p) /\ WillAnswer(p)
    BY <2>4 DEF ScreenOf
  <2>7. Shows(p)'
    <3>1. page'[p].me # <<>>
      BY <2>3
    <3>2. ShowsIt(p) => ShowsIt(p)'
      BY <1>4, <1>5, <2>3, <3>1 DEF ShowsIt
    <3> QED
      BY <1>3, <2>2, <2>6, <3>2 DEF Shows
  <2>8. WillShow(p)'
    <3>1. \A me : FetchIs(p, me) => FetchIs(p, me)'
      BY <1>3, <1>4, <1>5 DEF FetchIs
    <3> QED
      BY <1>3, <2>2, <2>6, <3>1 DEF WillShow
  <2>9. WillAnswer(p)'
    <3>1. AnswerIs(p) => AnswerIs(p)'
      BY <1>1, <1>4, <1>5 DEF AnswerIs
    <3> QED
      BY <1>3, <2>2, <2>6, <3>1 DEF WillAnswer
  <2> QED
    BY <1>3, <1>4, <2>6, <2>7, <2>8, <2>9
<1>9. \/ /\ page[p].session
         /\ FetchBecomes(p, i, read)
         /\ behind' = IF Busy(p) \/ socket[p].inbox # <<>> THEN behind ELSE behind \ {p}
      \/ FetchBecomes(p, i, error) /\ behind' = behind
  BY ReadLiveEffect
<1> HIDE DEF read, error
<1> QED
  BY <1>7, <1>8, <1>9

\* /v1/me: the ticket is read.
LEMMA ScreenReadsTicket ==
  ASSUME PageTypes, NEW p \in Pages, ScreenOf(p), NEW i \in DOMAIN page[p].me,
         ReadTicket(p, i)
  PROVE  ScreenOf(p)'
<1> USE DEF server
<1>1. /\ UNCHANGED <<server, request, socket>> /\ page[p].me[i].at = "read"
  BY DEF ReadTicket
<1>2. i \in Computed(p)
  BY <1>1 DEF Computed
<1>3. (Enters(p)' <=> Enters(p)) /\ (Answered(p)' <=> Answered(p))
  BY <1>1, SameEnters
<1>4. /\ Queued(p)' <=> Queued(p)
      /\ Live(p)' <=> Live(p)
      /\ Marking(WalletOf[p])' <=> Marking(WalletOf[p])
  BY <1>1, SameServer
<1>5. Calm(p)' <=> Calm(p)
  BY <1>1, <1>4 DEF Calm
<1> DEFINE me == page[p].me[i]
           new == [at |-> "ok", live |-> me.live,
                   ticket |-> TicketsOf(WalletOf[p], "queued") # {}]
<1>6. FetchBecomes(p, i, new)
  BY ReadTicketEffect
<1>7. new.at = "ok" /\ new.live = me.live /\ (new.ticket <=> Queued(p))
  BY DEF Queued
<1> HIDE DEF new
<1>8. Computed(p)' = Computed(p) /\ page'[p].me[i] = new
  <2>1. Computed(p)' = Computed(p) \cup {i} /\ page'[p].me[i] = new
    BY <1>6, <1>7, FetchComputed
  <2> QED
    BY <1>2, <2>1
<1>9. page'[p].session = page[p].session
  BY <1>6 DEF FetchBecomes
<1>10. NewsInv(p)'
  BY <1>1, <1>4 DEF ScreenOf, NewsInv
<1> SUFFICES ASSUME page[p].session
             PROVE  /\ Enters(p)' => Queued(p)'
                    /\ Shows(p)' /\ WillShow(p)' /\ WillAnswer(p)'
  BY <1>9, <1>10 DEF ScreenOf
<1>11. (Enters(p) => Queued(p)) /\ WillShow(p)
  BY DEF ScreenOf
<1>12. Shows(p)' /\ WillAnswer(p)'
  BY <1>2, <1>8 DEF Shows, WillAnswer
<1>13. WillShow(p)'
  <2> SUFFICES ASSUME NEW j \in Computed(p)', Computed(p)' = {j}, ~Answered(p)'
               PROVE  FetchIs(p, page[p].me[j])'
    BY DEF WillShow
  <2>1. j = i /\ Computed(p) = {i}
    BY <1>2, <1>8
  <2>2. FetchIs(p, me)
    BY <1>3, <1>2, <1>11, <2>1 DEF WillShow
  <2>3. me.at = "read"
    BY <1>1
  <2> HIDE DEF me
  <2>4. Calm(p) => (me.live # 0 <=> Live(p))
    BY <2>2, <2>3 DEF FetchIs
  <2> QED
    BY <1>3, <1>4, <1>5, <1>7, <1>8, <2>1, <2>4 DEF FetchIs
<1> QED
  BY <1>3, <1>4, <1>11, <1>12, <1>13

\* The answer of /v1/me is applied.
LEMMA ScreenApplies ==
  ASSUME PageTypes, NEW p \in Pages, ScreenOf(p), p \notin behind',
         NEW i \in DOMAIN page[p].me, ApplyMe(p, i)
  PROVE  ScreenOf(p)'
<1> USE DEF server
<1> DEFINE me == page[p].me[i]
<1>1. /\ UNCHANGED <<server, request>> /\ me.at \in {"ok", "error"}
  BY Zenon DEF ApplyMe
<1>2. \/ socket' = [socket EXCEPT ![p] = [on |-> FALSE, inbox |-> <<>>]]
      \/ socket' = socket
  BY Zenon DEF ApplyMe
<1>3. socket'[p].inbox = <<>> \/ socket'[p].inbox = socket[p].inbox
  BY <1>2 DEF PageTypes
<1>4. (Enters(p)' <=> Enters(p)) /\ (Answered(p)' <=> Answered(p))
  BY <1>1, SameEnters
<1>5. /\ Queued(p)' <=> Queued(p)
      /\ Live(p)' <=> Live(p)
      /\ Marking(WalletOf[p])' <=> Marking(WalletOf[p])
  BY <1>1, SameServer
<1>6. NewsInv(p)'
  <2>1. CASE socket'[p].inbox = <<>>
    BY <2>1 DEF NewsInv
  <2>2. CASE socket'[p].inbox = socket[p].inbox
    BY <1>5, <2>2 DEF ScreenOf, NewsInv
  <2> QED
    BY <1>3, <2>1, <2>2
<1>7. /\ page'[p].me = RemoveAt(page[p].me, i)
      /\ \/ me.at = "error" /\ ~page'[p].session
         \/ /\ me.at = "ok" /\ page'[p].session = page[p].session
            /\ page'[p].phase = IF me.ticket THEN "queued"
                                ELSE IF me.live # 0 THEN "matchFound" ELSE "idle"
  BY ApplyMeEffect
<1> SUFFICES ASSUME page'[p].session
             PROVE  /\ Enters(p)' => Queued(p)'
                    /\ Shows(p)' /\ WillShow(p)' /\ WillAnswer(p)'
  BY <1>6 DEF ScreenOf
<1>8. /\ me.at = "ok" /\ page[p].session
      /\ page'[p].phase = IF me.ticket THEN "queued"
                          ELSE IF me.live # 0 THEN "matchFound" ELSE "idle"
  BY <1>7
<1>9. i \in Computed(p)
  BY <1>8 DEF Computed
<1>10. /\ Computed(p) \ {i} = {} /\ ~Answered(p)
       /\ socket'[p].inbox = socket[p].inbox
  <2> DEFINE wallet == IF me.at = "error" THEN "none" ELSE "lower"
             anew == wallet # page[p].wallet
             crossed == Computed(p) \ {i} # {} \/ Answered(p)
  <2>1. behind' = IF crossed \/ (anew /\ socket[p].inbox # <<>>)
                  THEN behind \cup {p} ELSE behind
    BY Zenon DEF ApplyMe
  <2>2. socket' = IF anew THEN [socket EXCEPT ![p] = [on |-> FALSE, inbox |-> <<>>]]
                  ELSE socket
    BY Zenon DEF ApplyMe
  <2>3. ~crossed /\ (anew => socket[p].inbox = <<>>)
    <3> HIDE DEF crossed, anew
    <3> QED
      BY <2>1
  <2>4. socket'[p].inbox = socket[p].inbox
    <3>1. CASE anew
      BY <2>2, <2>3, <3>1 DEF PageTypes
    <3>2. CASE ~anew
      BY <2>2, <3>2
    <3> QED
      BY <3>1, <3>2
  <2> QED
    BY <2>3, <2>4
<1>11. Computed(p)' = {}
  BY <1>7, <1>10, AppliedComputed
<1>12. Calm(p)' <=> Calm(p)
  BY <1>5, <1>10 DEF Calm
<1>13. (Enters(p) => Queued(p)) /\ WillShow(p)
  BY <1>8 DEF ScreenOf
<1>14. FetchIs(p, me)
  BY <1>9, <1>10, <1>13 DEF WillShow
<1>15. WillShow(p)' /\ WillAnswer(p)'
  BY <1>4, <1>10, <1>11 DEF WillShow, WillAnswer
<1>16. Shows(p)'
  <2> SUFFICES ASSUME ~Enters(p)
               PROVE  ShowsIt(p)'
    BY <1>4 DEF Shows
  <2> HIDE DEF me
  <2>1. /\ Calm(p) /\ ~me.ticket => (me.live # 0 <=> Live(p))
        /\ me.ticket /\ Calm(p) => Queued(p)
        /\ ~me.ticket => ~Queued(p)
    BY <1>8, <1>14 DEF FetchIs
  <2>2. CASE me.ticket
    BY <1>5, <1>8, <1>12, <2>1, <2>2 DEF ShowsIt
  <2>3. CASE ~me.ticket /\ me.live # 0
    BY <1>5, <1>8, <1>12, <2>1, <2>3 DEF ShowsIt
  <2>4. CASE ~me.ticket /\ me.live = 0
    BY <1>5, <1>8, <1>12, <2>1, <2>4 DEF ShowsIt
  <2> QED
    BY <2>2, <2>3, <2>4
<1> QED
  BY <1>4, <1>5, <1>13, <1>15, <1>16

\* The player's request is answered.
LEMMA ScreenAnswered ==
  ASSUME PageTypes, NEW p \in Pages, ScreenOf(p), p \notin behind', ApplyAnswer(p)
  PROVE  ScreenOf(p)'
<1> USE DEF server
<1>1. /\ UNCHANGED <<server, socket>> /\ request[p].at \in {"ok", "error"}
      /\ request' = [request EXCEPT ![p] = NoRequest]
      /\ Computed(p) = {}
  BY DEF ApplyAnswer
<1>2. request'[p] = NoRequest
  BY <1>1 DEF PageTypes, RequestTypes
<1>3. ~Enters(p)' /\ ~Answered(p)' /\ ~Enters(p)
  BY <1>1, <1>2 DEF Enters, Waits, Answered, NoRequest
<1>4. /\ Queued(p)' <=> Queued(p)
      /\ Live(p)' <=> Live(p)
      /\ Reported(p)' <=> Reported(p)
      /\ Disputed(p)' <=> Disputed(p)
      /\ Marking(WalletOf[p])' <=> Marking(WalletOf[p])
  BY <1>1, SameServer
<1>5. Calm(p)' <=> Calm(p)
  BY <1>1, <1>4 DEF Calm
<1>6. NewsInv(p)'
  BY <1>1, <1>4 DEF ScreenOf, NewsInv
<1>7. /\ page'[p].session = page[p].session /\ page'[p].me = page[p].me
      /\ page'[p].phase = IF request[p].at = "ok" THEN Shown[request[p].kind]
                                                  ELSE page[p].phase
  BY AnswerEffect
<1>8. Computed(p)' = {}
  BY <1>1, <1>7, SameComputed
<1> SUFFICES ASSUME page[p].session
             PROVE  Shows(p)' /\ WillShow(p)' /\ WillAnswer(p)'
  BY <1>3, <1>6, <1>7 DEF ScreenOf
<1>9. Shows(p) /\ WillAnswer(p)
  BY DEF ScreenOf
<1>10. WillShow(p)' /\ WillAnswer(p)'
  BY <1>3, <1>8 DEF WillShow, WillAnswer
<1>11. ShowsIt(p)'
  <2>1. request[p].at = "ok" => request[p].kind \in {"join", "leave", "report"}
    BY DEF PageTypes, RequestTypes, Asks, NoRequest
  <2>2. request[p].at = "ok" => AnswerIs(p)
    BY <1>1, <1>9 DEF WillAnswer, Answered
  <2>3. CASE request[p].at = "ok" /\ request[p].kind = "join"
    <3>1. page'[p].phase = "queued"
      BY <1>7, <2>3 DEF Shown
    <3>2. Calm(p) => Queued(p)
      BY <2>2, <2>3 DEF AnswerIs
    <3> QED
      BY <1>4, <1>5, <3>1, <3>2 DEF ShowsIt
  <2>4. CASE request[p].at = "ok" /\ request[p].kind = "leave"
    <3>1. page'[p].phase = "idle"
      BY <1>7, <2>4 DEF Shown
    <3>2. ~Queued(p) /\ (Calm(p) => ~Live(p))
      BY <2>2, <2>4 DEF AnswerIs
    <3> QED
      BY <1>4, <1>5, <3>1, <3>2 DEF ShowsIt
  <2>5. CASE request[p].at = "ok" /\ request[p].kind = "report"
    <3>1. page'[p].phase = "reported"
      BY <1>7, <2>5 DEF Shown
    <3>2. ~Queued(p) /\ (Calm(p) => Reported(p))
      BY <2>2, <2>5 DEF AnswerIs
    <3> QED
      BY <1>4, <1>5, <3>1, <3>2 DEF ShowsIt
  <2>6. CASE request[p].at = "error"
    <3>1. ~Answered(p)
      BY <1>1, <1>9, <2>6 DEF WillAnswer, Answered, AnswerIs
    <3>2. ShowsIt(p)
      BY <1>1, <1>3, <1>9, <3>1 DEF Shows
    <3>3. page'[p].phase = page[p].phase
      BY <1>7, <2>6
    <3> QED
      BY <1>4, <1>5, <1>7, <3>2, <3>3 DEF ShowsIt
  <2> QED
    BY <1>1, <2>1, <2>3, <2>4, <2>5, <2>6
<1> QED
  BY <1>10, <1>11 DEF Shows

\* A page handles an event about its player's last match.
LEMMA ScreenHandles ==
  ASSUME ServerTypes, PageTypes, MarkInv, KnownInv, OneLiveInv, NEW p \in Pages,
         EventOf(p), ScreenOf(p), p \notin behind', WalletOf[p] \notin tangled,
         HandleEvent(p)
  PROVE  ScreenOf(p)'
<1> USE DEF server
<1> DEFINE box == socket[p].inbox
           event == Head(box)
           tail == Tail(box)
           w == WalletOf[p]
<1>1. /\ UNCHANGED <<server, request>> /\ box # <<>> /\ page' = OnEvent(p, event)
      /\ Computed(p) = {} /\ ~Answered(p) /\ Concerns(p, event)
  BY DEF HandleEvent
<1>2. /\ box \in Seq(Notices) /\ event \in Notices
      /\ event = box[1] /\ 1 \in DOMAIN box
      /\ Len(tail) = Len(box) - 1
      /\ \A i \in DOMAIN tail : i + 1 \in DOMAIN box /\ tail[i] = box[i + 1]
      /\ tail = <<>> => Len(box) = 1
  <2>1. box \in Seq(Notices)
    BY BoxTyped
  <2> HIDE DEF box
  <2> QED
    BY <1>1, <2>1, TailOf
<1>3. socket'[p].inbox = tail
  BY HandledEffect
<1>4. (Enters(p)' <=> Enters(p)) /\ (Answered(p)' <=> Answered(p))
  BY <1>1, SameEnters
<1>5. /\ Queued(p)' <=> Queued(p)
      /\ Live(p)' <=> Live(p)
      /\ Disputed(p)' <=> Disputed(p)
      /\ Marking(w)' <=> Marking(w)
  BY <1>1, SameServer
<1>6. /\ page'[p].session = page[p].session
      /\ event.type = "match_found" =>
           page'[p].phase = "matchFound" /\ page'[p].me = page[p].me
      /\ event.type = "match_result" =>
           page'[p].phase = "result" /\ page'[p].me = Refresh(p)
      /\ event.type = "disputed" =>
           page'[p].phase = "disputed" /\ page'[p].me = page[p].me
      /\ event.type = "cancelled" =>
           page'[p].phase = "idle" /\ page'[p].me = page[p].me
  <2>1. event \in Notices /\ page' = OnEvent(p, event)
    BY <1>1, <1>2
  <2> HIDE DEF event
  <2> QED
    BY <2>1, EventEffect
<1>7. event.type \in {"match_found", "match_result", "disputed", "cancelled"}
  BY <1>2 DEF Notices
<1>8. Computed(p)' = {} /\ (event.type = "match_result" => page'[p].me # <<>>)
  <2>1. CASE event.type = "match_result"
    BY <1>1, <1>6, <2>1, RefreshComputed
  <2>2. CASE event.type # "match_result"
    BY <1>1, <1>6, <1>7, <2>2, SameComputed
  <2> QED
    BY <2>1, <2>2
<1>9. \A k \in DOMAIN box : box[k].type \in {"match_found", "disputed"} => ~Queued(p)
  BY DEF ScreenOf, NewsInv
<1>10. /\ event.match \in DOMAIN matches /\ w \in matches[event.match].players
       /\ event.type \in {"disputed", "cancelled"} => matches[event.match].state = event.type
  BY <1>2, BoxKnown DEF EventOf, Heard
<1>11. event.type = "match_found" /\ Len(box) = 1 => matches[event.match].state = "live"
  BY <1>2 DEF EventOf, Found
<1>12. event.type \in {"disputed", "cancelled"} =>
         /\ page[p].view = event.match /\ p \notin unseen
         /\ page[p].phase \in {"matchFound", "reported", "disputed"}
  BY <1>1 DEF Concerns
<1>13. event.type \in {"disputed", "cancelled"} => ~Live(p)
  <2>1. page[p].phase # "closed"
    BY <1>1 DEF EventOf, Boxed
  <2>2. event.type \in {"disputed", "cancelled"} => event.match = LastOf(w)
    BY <1>12, <2>1 DEF EventOf, Viewed
  <2>3. \A m \in MatchesOf(w, "live") : m = LastOf(w) /\ matches[m].state = "live"
    BY QueueAssumption DEF OneLiveInv, OneLive, MatchesOf
  <2> QED
    BY <1>10, <2>2, <2>3 DEF Live
<1>14. event.type = "disputed" => Disputed(p)
  BY <1>10 DEF Disputed, MatchesOf
<1>15. matches[event.match].state = "live" => Live(p)
  BY <1>10 DEF Live, MatchesOf
<1>16. page[p].session /\ ~Enters(p) /\ event.type = "cancelled" => ~Queued(p)
  BY <1>1, <1>12 DEF ScreenOf, Shows, ShowsIt
<1> HIDE DEF box, tail, event
<1>17. NewsInv(p)'
  BY <1>2, <1>3, <1>5, <1>9 DEF NewsInv
<1>18. WillShow(p)' /\ WillAnswer(p)'
  BY <1>1, <1>4, <1>8 DEF WillShow, WillAnswer
<1> SUFFICES ASSUME page[p].session
             PROVE  (Enters(p)' => Queued(p)') /\ Shows(p)'
  BY <1>6, <1>17, <1>18 DEF ScreenOf
<1>19. Enters(p)' => Queued(p)'
  BY <1>4, <1>5 DEF ScreenOf
<1>20. ASSUME ~Enters(p) PROVE ShowsIt(p)'
  <2>1. Calm(p)' => Len(box) = 1
    BY <1>2, <1>3 DEF Calm
  <2>2. CASE event.type = "match_found"
    <3>1. page'[p].phase = "matchFound" /\ ~Queued(p)' /\ (Calm(p)' => Live(p)')
      BY <1>2, <1>5, <1>6, <1>9, <1>11, <1>15, <2>1, <2>2
    <3> QED
      BY <3>1 DEF ShowsIt
  <2>3. CASE event.type = "match_result"
    BY <1>6, <1>8, <2>3 DEF ShowsIt
  <2>4. CASE event.type = "disputed"
    <3>1. page'[p].phase = "disputed" /\ ~Queued(p)' /\ ~Live(p)' /\ Disputed(p)'
      BY <1>2, <1>5, <1>6, <1>9, <1>13, <1>14, <2>4
    <3> QED
      BY <3>1 DEF ShowsIt
  <2>5. CASE event.type = "cancelled"
    <3>1. page'[p].phase = "idle" /\ ~Queued(p)' /\ ~Live(p)'
      BY <1>5, <1>6, <1>13, <1>16, <1>20, <2>5
    <3> QED
      BY <3>1 DEF ShowsIt
  <2> QED
    BY <1>7, <2>2, <2>3, <2>4, <2>5
<1> QED
  BY <1>4, <1>19, <1>20 DEF Shows

\* The page asks /v1/me once more and shows what it showed.
LEMMA ScreenRefreshes ==
  ASSUME PageTypes, NEW p \in Pages, ScreenOf(p), UNCHANGED <<server, request, socket>>,
         page'[p].session = page[p].session, page'[p].phase = page[p].phase,
         page'[p].me = Refresh(p)
  PROVE  ScreenOf(p)'
<1>1. (Enters(p)' <=> Enters(p)) /\ (Answered(p)' <=> Answered(p))
  BY SameEnters
<1>2. /\ Queued(p)' <=> Queued(p)
      /\ Live(p)' <=> Live(p)
      /\ Reported(p)' <=> Reported(p)
      /\ Disputed(p)' <=> Disputed(p)
      /\ Marking(WalletOf[p])' <=> Marking(WalletOf[p])
  BY SameServer
<1>3. Calm(p)' <=> Calm(p)
  BY <1>2 DEF Calm
<1>4. NewsInv(p)'
  BY <1>2 DEF ScreenOf, NewsInv
<1>5. /\ Computed(p)' = Computed(p) /\ page'[p].me # <<>>
      /\ \A k \in Computed(p) : page'[p].me[k] = page[p].me[k]
  BY RefreshComputed
<1> SUFFICES ASSUME page[p].session
             PROVE  /\ Enters(p)' => Queued(p)'
                    /\ Shows(p)' /\ WillShow(p)' /\ WillAnswer(p)'
  BY <1>4 DEF ScreenOf
<1>6. /\ Enters(p) => Queued(p)
      /\ Shows(p) /\ WillShow(p) /\ WillAnswer(p)
  BY DEF ScreenOf
<1>7. Shows(p)'
  <2>1. ShowsIt(p) => ShowsIt(p)'
    BY <1>2, <1>3, <1>5 DEF ShowsIt
  <2> QED
    BY <1>1, <1>5, <1>6, <2>1 DEF Shows
<1>8. WillShow(p)'
  <2>1. \A me : FetchIs(p, me) => FetchIs(p, me)'
    BY <1>1, <1>2, <1>3 DEF FetchIs
  <2> QED
    BY <1>1, <1>5, <1>6, <2>1 DEF WillShow
<1>9. WillAnswer(p)'
  <2>1. AnswerIs(p) => AnswerIs(p)'
    BY <1>2, <1>3 DEF AnswerIs
  <2> QED
    BY <1>1, <1>5, <1>6, <2>1 DEF WillAnswer
<1> QED
  BY <1>1, <1>2, <1>6, <1>7, <1>8, <1>9

\* The page starts over: it asks /v1/me before it shows anything.
LEMMA ScreenStartsOver ==
  ASSUME NEW p \in Pages, request'[p] = NoRequest, NewsInv(p)',
         page'[p].phase \in {"loading", "loggedOut"},
         \A i \in DOMAIN page'[p].me : page'[p].me[i].at = "asked"
  PROVE  ScreenOf(p)'
<1>1. Computed(p)' = {}
  BY DEF Computed
<1>2. ~Enters(p)' /\ ~Answered(p)'
  BY DEF Enters, Waits, Answered, NoRequest
<1>3. ShowsIt(p)'
  BY DEF ShowsIt
<1> QED
  BY <1>1, <1>2, <1>3 DEF ScreenOf, Shows, WillShow, WillAnswer

\* Whatever a page does, it is in step afterwards unless it is counted out.
LEMMA ScreenOwn ==
  ASSUME ServerTypes, PageTypes, MarkInv, KnownInv, OneLiveInv, NEW p \in Pages,
         EventOf(p), InStep(p) => ScreenOf(p), PageStep(p), InStep(p)'
  PROVE  ScreenOf(p)'
<1> USE DEF server, history
<1>0. /\ RequestTypes /\ page[p].view \in Nat /\ p \notin behind'
      /\ socket \in [Pages -> Sockets]
  BY DEF PageTypes, Screens, InStep
<1>t. WalletOf[p] \notin tangled
  BY PageStepFrame DEF PageFrame, InStep
<1>a. ASSUME p \notin behind PROVE ScreenOf(p)
  BY <1>t, <1>a DEF InStep
<1>s. UNCHANGED server => /\ Queued(p)' <=> Queued(p)
                          /\ Live(p)' <=> Live(p)
                          /\ Reported(p)' <=> Reported(p)
                          /\ Disputed(p)' <=> Disputed(p)
                          /\ Marking(WalletOf[p])' <=> Marking(WalletOf[p])
  BY SameServer
<1>1. CASE Connect(p)
  <2>1. /\ UNCHANGED <<server, request, socket, behind>> /\ page[p].phase = "loggedOut"
        /\ request[p].kind = "none"
    BY <1>1 DEF Connect, ConnectPanel, Busy
  <2>2. page'[p].phase = "loggedOut" /\ page'[p].me = <<Asked>>
    BY <1>1, <2>1, ConnectEffect
  <2>3. \A i \in DOMAIN page'[p].me : page'[p].me[i].at = "asked"
    <3>1. Asked.at = "asked"
      BY DEF Asked
    <3> QED
      BY <2>2, <3>1
  <2>4. request'[p] = NoRequest
    BY <1>0, <2>1 DEF RequestTypes
  <2>5. ScreenOf(p)
    BY <1>0, <1>a, <2>1
  <2>6. NewsInv(p)'
    BY <1>s, <2>1, <2>5 DEF ScreenOf, NewsInv
  <2> QED
    BY <2>2, <2>3, <2>4, <2>6, ScreenStartsOver
<1>2. CASE Logout(p)
  <2>1. CloseSocket(p)
    BY <1>2 DEF Logout
  <2>2. socket'[p].inbox = <<>> /\ ~page'[p].session
    BY <1>2, <2>1, CloseEffect, LogoutEffect
  <2> QED
    BY <2>2 DEF ScreenOf, NewsInv
<1>3. CASE OpenSocket(p)
  <2>1. /\ UNCHANGED <<server, request, behind, page>>
        /\ socket' = [socket EXCEPT ![p].on = TRUE]
    BY <1>3 DEF OpenSocket
  <2>2. socket'[p].inbox = socket[p].inbox
    BY <1>0, <2>1 DEF Sockets
  <2>3. ScreenOf(p)
    BY <1>0, <1>a, <2>1
  <2>4. NewsInv(p)' /\ (Calm(p)' <=> Calm(p))
    BY <1>s, <2>1, <2>2, <2>3 DEF ScreenOf, NewsInv, Calm
  <2>5. page'[p] = page[p] /\ request'[p] = request[p]
    BY <2>1
  <2> QED
    BY <1>s, <2>1, <2>3, <2>4, <2>5, SameScreen
<1>4. CASE LoseSocket(p)
  <2>1. CloseSocket(p) /\ UNCHANGED <<server, request, page>>
    BY <1>4 DEF LoseSocket
  <2>2. /\ socket'[p].inbox = <<>>
        /\ behind' = IF socket[p].inbox # <<>> THEN behind \cup {p} ELSE behind
    BY <2>1, CloseEffect
  <2>3. socket[p].inbox = <<>> /\ ScreenOf(p)
    BY <1>0, <1>a, <2>2
  <2>4. NewsInv(p)' /\ (Calm(p)' <=> Calm(p))
    BY <1>s, <2>1, <2>2, <2>3 DEF NewsInv, Calm
  <2>5. page'[p] = page[p] /\ request'[p] = request[p]
    BY <2>1
  <2> QED
    BY <1>s, <2>1, <2>3, <2>4, <2>5, SameScreen
<1>5. CASE Reload(p)
  <2>1. CloseSocket(p) /\ request' = [request EXCEPT ![p] = NoRequest]
    BY <1>5 DEF Reload
  <2>2. socket'[p].inbox = <<>>
    BY <2>1, CloseEffect
  <2>3. NewsInv(p)'
    BY <2>2 DEF NewsInv
  <2>4. request'[p] = NoRequest
    BY <1>0, <2>1, NoRequestEffect
  <2>5. /\ page'[p].phase \in {"loading", "loggedOut"}
        /\ \A i \in DOMAIN page'[p].me : page'[p].me[i] = Asked
    BY <1>5, ReloadEffect
  <2>6. Asked.at = "asked"
    BY DEF Asked
  <2> QED
    BY <2>3, <2>4, <2>5, <2>6, ScreenStartsOver
<1>6. ASSUME NEW i \in DOMAIN page[p].me, ReadLive(p, i)
      PROVE  ScreenOf(p)'
  BY <1>6, ScreenReadsLive
<1>7. ASSUME NEW i \in DOMAIN page[p].me, ReadTicket(p, i)
      PROVE  ScreenOf(p)'
  <2>1. ScreenOf(p)
    BY <1>0, <1>7, <1>a DEF ReadTicket
  <2> QED
    BY <1>7, <2>1, ScreenReadsTicket
<1>8. ASSUME NEW i \in DOMAIN page[p].me, ApplyMe(p, i)
      PROVE  ScreenOf(p)'
  <2>1. behind \subseteq behind'
    <3>1. behind' = behind \cup {p} \/ behind' = behind
      BY <1>8, Zenon DEF ApplyMe
    <3> QED
      BY <3>1
  <2>2. ScreenOf(p)
    BY <1>0, <1>a, <2>1
  <2> QED
    BY <1>0, <1>8, <2>2, ScreenApplies
<1>9. CASE Queue(p) \/ Leave(p) \/ Report(p)
  <2>1. UNCHANGED behind
    BY <1>9 DEF Queue, Leave, Report, Ask
  <2>2. ScreenOf(p)
    BY <1>0, <1>a, <2>1
  <2> QED
    BY <1>0, <1>9, <1>t, <2>2, ScreenAsks
<1>10. CASE SelectGame(p)
  <2>1. UNCHANGED <<server, request, socket, behind>>
    BY <1>10 DEF SelectGame
  <2>2. ScreenOf(p)
    BY <1>0, <1>a, <2>1
  <2>3. CASE page[p].session
    BY <1>10, <2>1, <2>2, <2>3, SelectGameEffect, ScreenRefreshes
  <2>4. CASE ~page[p].session
    <3>1. ~page'[p].session
      BY <1>10, <2>4, SelectGameEffect
    <3> QED
      BY <1>s, <2>1, <2>2, <3>1 DEF ScreenOf, NewsInv
  <2> QED
    BY <2>3, <2>4
<1>11. CASE PlayedAgain(p)
  <2>1. UNCHANGED <<server, request, socket, behind>>
    BY <1>11 DEF PlayedAgain
  <2>2. ScreenOf(p)
    BY <1>0, <1>a, <2>1
  <2> QED
    BY <1>11, <2>1, <2>2, PlayedAgainEffect, ScreenRefreshes
<1>12. CASE ApplyAnswer(p)
  <2>1. ScreenOf(p)
    BY <1>0, <1>12, <1>a DEF ApplyAnswer
  <2> QED
    BY <1>0, <1>12, <2>1, ScreenAnswered
<1>13. CASE HandleEvent(p)
  <2>1. ScreenOf(p)
    BY <1>0, <1>13, <1>a DEF HandleEvent
  <2> QED
    BY <1>0, <1>13, <1>t, <2>1, ScreenHandles
<1> QED
  BY <1>1, <1>2, <1>3, <1>4, <1>5, <1>6, <1>7, <1>8, <1>9, <1>10, <1>11, <1>12, <1>13
  DEF PageStep

\* A player with a live match that has been announced is not in the queue.
LEMMA LiveKnown ==
  ASSUME ServerTypes, MarkInv, OneLiveInv, NEW w \in Wallets \ tangled,
         NEW m \in MatchesOf(w, "live"), m \in 0 .. Known
  PROVE  ~Marking(w) /\ TicketsOf(w, "queued") = {}
<1>1. OneLive(w)
  BY DEF OneLiveInv
<1>2. ~Marking(w)
  <2> SUFFICES ASSUME Marking(w) PROVE FALSE
    OBVIOUS
  <2>1. LastOf(w) = Len(matches) /\ tick.at = "mark"
    BY MarkedLast DEF Marking
  <2>2. m = Len(matches)
    BY <1>1, <2>1 DEF OneLive
  <2>3. Known + 1 = Len(matches) /\ Known \in Nat
    BY <2>1, KnownType
  <2> QED
    BY <2>2, <2>3
<1> QED
  BY <1>1, <1>2 DEF OneLive

\* An event is sent to the pages of W.
LEMMA NewsSent ==
  ASSUME PageTypes, NEW W, NEW event \in Notices, Send(W, event), NEW p \in Pages,
         NewsInv(p), Queued(p)' => Queued(p),
         event.type \in {"match_found", "disputed"} /\ p \in PagesOf(W) => ~Queued(p)'
  PROVE  /\ NewsInv(p)'
         /\ p \in PagesOf(W) /\ p \notin behind' => ~Calm(p)'
         /\ p \notin PagesOf(W) => socket'[p].inbox = socket[p].inbox
<1> DEFINE box == socket[p].inbox
           box2 == Append(box, event)
<1>1. /\ socket'[p].inbox = IF p \in PagesOf(W) /\ socket[p].on THEN box2 ELSE box
      /\ behind' = behind \cup {o \in PagesOf(W) : ~socket[o].on}
  BY SendEffect
<1>2. box \in Seq(Notices)
  BY BoxTyped
<1>3. \A k \in DOMAIN box : box[k].type \in {"match_found", "disputed"} => ~Queued(p)'
  BY DEF NewsInv
<1>4. CASE p \in PagesOf(W) /\ socket[p].on
  <2>1. socket'[p].inbox = box2
    BY <1>1, <1>4
  <2> HIDE DEF box
  <2>2. /\ DOMAIN box2 = DOMAIN box \cup {Len(box) + 1}
        /\ \A k \in DOMAIN box : box2[k] = box[k]
        /\ box2[Len(box) + 1] = event
    BY <1>2, AppendedEvents
  <2>3. box2 # <<>>
    BY <2>2
  <2> HIDE DEF box2
  <2>4. \A k \in DOMAIN box2 : box2[k] = event \/ (k \in DOMAIN box /\ box2[k] = box[k])
    BY <2>2, Zenon
  <2>5. \A k \in DOMAIN box2 : box2[k].type \in {"match_found", "disputed"} => ~Queued(p)'
    BY <1>3, <1>4, <2>4
  <2> QED
    BY <1>4, <2>1, <2>3, <2>5 DEF NewsInv, Calm
<1>5. CASE ~(p \in PagesOf(W) /\ socket[p].on)
  <2>1. socket'[p].inbox = box
    BY <1>1, <1>5
  <2>2. NewsInv(p)'
    BY <1>3, <2>1 DEF NewsInv
  <2> QED
    BY <1>1, <1>5, <2>1, <2>2
<1> QED
  BY <1>4, <1>5

\* Nothing the page is about changes.
LEMMA ScreenStill ==
  ASSUME NEW p \in Pages, ScreenOf(p), page'[p] = page[p], request'[p] = request[p],
         socket'[p].inbox = socket[p].inbox,
         Queued(p)' <=> Queued(p), Live(p)' <=> Live(p),
         Reported(p) => Reported(p)', Disputed(p)' <=> Disputed(p),
         Marking(WalletOf[p])' <=> Marking(WalletOf[p])
  PROVE  ScreenOf(p)'
<1>1. (Calm(p)' <=> Calm(p)) /\ NewsInv(p)'
  BY DEF Calm, NewsInv, ScreenOf
<1> QED
  BY <1>1, SameScreen

\* A match changes.  The others' matches do not.
LEMMA OthersMatches ==
  ASSUME ServerTypes, NEW m \in DOMAIN matches, NEW state, NEW reports,
         MatchIs(m, state, reports), NEW p \in Pages, WalletOf[p] \notin matches[m].players
  PROVE  /\ Live(p)' <=> Live(p)
         /\ Reported(p)' <=> Reported(p)
         /\ Disputed(p)' <=> Disputed(p)
<1>1. \A s : MatchesOf(WalletOf[p], s)' = MatchesOf(WalletOf[p], s) \ {m}
  BY MatchIsMoved
<1>2. \A s : m \notin MatchesOf(WalletOf[p], s)
  BY DEF MatchesOf
<1>3. \A s : MatchesOf(WalletOf[p], s)' = MatchesOf(WalletOf[p], s)
  BY <1>1, <1>2
<1>4. \A k \in MatchesOf(WalletOf[p], "live") : matches'[k] = matches[k]
  BY <1>2 DEF MatchIs, MatchesOf
<1> QED
  BY <1>3, <1>4 DEF Live, Reported, Disputed

\* A match ends and its players' pages are told.
LEMMA ScreenTold ==
  ASSUME ServerTypes, PageTypes, NEW m \in DOMAIN matches, NEW state, NEW reports,
         MatchIs(m, state, reports), NEW event \in Notices, event.type # "match_found",
         Send(matches[m].players, event), UNCHANGED <<tickets, tick>>,
         NEW p \in Pages, ScreenOf(p), page'[p] = page[p], request'[p] = request[p],
         p \notin behind',
         event.type = "disputed" /\ p \in PagesOf(matches[m].players) => ~Queued(p)
  PROVE  ScreenOf(p)'
<1>1. Queued(p)' <=> Queued(p)
  BY SameRows DEF Queued
<1>2. NewsInv(p)
  BY DEF ScreenOf
<1>3. event.type \in {"match_found", "disputed"} /\ p \in PagesOf(matches[m].players)
        => ~Queued(p)'
  BY <1>1
<1>4. /\ NewsInv(p)'
      /\ p \in PagesOf(matches[m].players) => ~Calm(p)'
      /\ p \notin PagesOf(matches[m].players) => socket'[p].inbox = socket[p].inbox
  BY <1>1, <1>2, <1>3, NewsSent
<1>5. CASE p \in PagesOf(matches[m].players)
  BY <1>1, <1>4, <1>5, SameScreen
<1>6. CASE p \notin PagesOf(matches[m].players)
  <2>1. WalletOf[p] \notin matches[m].players
    BY <1>6 DEF PagesOf
  <2>2. /\ Live(p)' <=> Live(p)
        /\ Reported(p)' <=> Reported(p)
        /\ Disputed(p)' <=> Disputed(p)
    BY <2>1, OthersMatches
  <2>3. Marking(WalletOf[p])' <=> Marking(WalletOf[p])
    BY SameTick
  <2> QED
    BY <1>1, <1>4, <1>6, <2>2, <2>3, ScreenStill
<1> QED
  BY <1>5, <1>6

\* The server serves the page's request, short of answering it.
LEMMA ScreenServed ==
  ASSUME NEW p \in Pages, ScreenOf(p), page'[p] = page[p],
         UNCHANGED <<tickets, matches, tick, socket>>,
         ~Answered(p), ~Enters(p), ~Answered(p)', ~Enters(p)'
  PROVE  ScreenOf(p)'
<1>1. /\ Queued(p)' <=> Queued(p)
      /\ Live(p)' <=> Live(p)
      /\ Reported(p)' <=> Reported(p)
      /\ Disputed(p)' <=> Disputed(p)
      /\ Marking(WalletOf[p])' <=> Marking(WalletOf[p])
  BY SameMatches, SameRows, SameTick DEF Queued, Live, Reported, Disputed
<1>2. Calm(p)' <=> Calm(p)
  BY <1>1 DEF Calm
<1>3. NewsInv(p)'
  BY <1>1 DEF ScreenOf, NewsInv
<1>4. Computed(p)' = Computed(p)
  BY SameComputed
<1> SUFFICES ASSUME page[p].session
             PROVE  Shows(p)' /\ WillShow(p)' /\ WillAnswer(p)'
  BY <1>3 DEF ScreenOf
<1>5. Shows(p) /\ WillShow(p)
  BY DEF ScreenOf
<1>6. Shows(p)'
  <2>1. ShowsIt(p) => ShowsIt(p)'
    BY <1>1, <1>2 DEF ShowsIt
  <2> QED
    BY <1>4, <1>5, <2>1 DEF Shows
<1>7. WillShow(p)'
  <2>1. \A me : FetchIs(p, me) => FetchIs(p, me)'
    BY <1>1, <1>2 DEF FetchIs
  <2> QED
    BY <1>4, <1>5, <2>1 DEF WillShow
<1> QED
  BY <1>6, <1>7 DEF WillAnswer

\* The server answers the page's request.
LEMMA ScreenReplies ==
  ASSUME NEW p \in Pages, page'[p] = page[p], NewsInv(p)', Answered(p)', ~Enters(p)',
         page[p].session /\ Computed(p) = {} => AnswerIs(p)'
  PROVE  ScreenOf(p)'
<1>1. Computed(p)' = Computed(p)
  BY SameComputed
<1> QED
  BY <1>1 DEF ScreenOf, Shows, WillShow, WillAnswer

\* The player's own report.
LEMMA ScreenReports ==
  ASSUME ServerTypes, PageTypes, MarkInv, KnownInv, OneLiveInv, NEW p \in Pages,
         ScreenOf(p), WalletOf[p] \notin tangled, p \notin behind', UNCHANGED page,
         ReportOutcome(p)
  PROVE  ScreenOf(p)'
<1> DEFINE v == WalletOf[p]
           m == request[p].match
           all == matches[m].reports \cup {v}
<1>0. RequestTypes
  BY DEF PageTypes
<1>1. /\ UNCHANGED <<tickets, tick, page>>
      /\ request[p].kind = "report" /\ request[p].at = "start"
  BY DEF ReportOutcome, Waits
<1>2. /\ request'[p].kind = "report"
      /\ request'[p].at = IF m \in MatchesOf(v, "live") THEN "ok" ELSE "error"
  BY <1>0, RequestStepEffect
<1>3. ~Answered(p) /\ ~Enters(p) /\ ~Enters(p)'
  BY <1>1, <1>2 DEF Answered, Enters, Waits
<1>4. \/ /\ UNCHANGED <<matches, socket, behind>>
         /\ m \in MatchesOf(v, "live") => v \in matches[m].reports
      \/ /\ m \in MatchesOf(v, "live") /\ MatchIs(m, "live", all) /\ UNCHANGED socket
      \/ /\ m \in MatchesOf(v, "live")
         /\ \E e \in EndEvents :
              /\ MatchIs(m, e[1], all)
              /\ Send(matches[m].players, [type |-> e[2], match |-> m])
  BY <1>0, ReportEffect
<1>5. page'[p] = page[p]
  OBVIOUS
<1>6. CASE m \notin MatchesOf(v, "live")
  <2>1. ~Answered(p)'
    BY <1>2, <1>6 DEF Answered
  <2>2. UNCHANGED <<tickets, matches, tick, socket>>
    BY <1>1, <1>4, <1>6
  <2> QED
    BY <1>3, <1>5, <2>1, <2>2, ScreenServed
<1>7. ASSUME m \in MatchesOf(v, "live") PROVE ScreenOf(p)'
  <2>1. Answered(p)'
    BY <1>2, <1>7 DEF Answered
  <2>2. m \in 0 .. Known
    BY <1>1 DEF KnownInv
  <2>3. v \in Wallets \ tangled
    BY QueueAssumption
  <2> DEFINE n == m
  <2>4. n \in MatchesOf(v, "live") /\ n \in 0 .. Known
    BY <1>7, <2>2
  <2>5. TicketsOf(v, "queued") = {}
    <3> HIDE DEF n, v
    <3> QED
      BY <2>3, <2>4, LiveKnown
  <2>6. ~Queued(p) /\ ~Queued(p)'
    BY <1>1, <2>5, SameRows DEF Queued
  <2>7. NewsInv(p)
    BY DEF ScreenOf
  <2>8. m \in DOMAIN matches /\ v \in matches[m].players /\ m \in Nat
    BY <1>7 DEF MatchesOf, ServerTypes
  <2>9. v \in all
    OBVIOUS
  <2>10. ASSUME NewsInv(p)', Calm(p)' => Reported(p)' PROVE ScreenOf(p)'
    <3>1. AnswerIs(p)'
      BY <1>2, <2>6, <2>10 DEF AnswerIs
    <3> QED
      BY <1>3, <1>5, <2>1, <2>10, <3>1, ScreenReplies
  <2>11. CASE UNCHANGED <<matches, socket>> /\ v \in matches[m].reports
    <3>1. NewsInv(p)'
      BY <2>6, <2>7, <2>11 DEF NewsInv
    <3>2. Reported(p)'
      <4>1. Reported(p)
        BY <1>7, <2>11 DEF Reported
      <4> QED
        BY <2>11, <4>1, SameMatches DEF Reported
    <3> QED
      BY <2>10, <3>1, <3>2
  <2>12. CASE MatchIs(m, "live", all) /\ UNCHANGED socket
    <3>1. NewsInv(p)'
      BY <2>6, <2>7, <2>12 DEF NewsInv
    <3>2. Reported(p)'
      <4> HIDE DEF all, m
      <4>1. \A w, s : MatchesOf(w, s)' =
              (MatchesOf(w, s) \ {m})
                \cup IF w \in matches[m].players /\ s = "live" THEN {m} ELSE {}
        BY <2>8, <2>12, MatchIsMoved
      <4>2. m \in MatchesOf(v, "live")'
        BY <2>8, <4>1
      <4>3. v \in matches'[m].reports
        BY <2>9, <2>12 DEF MatchIs
      <4> QED
        BY <4>2, <4>3 DEF Reported
    <3> QED
      BY <2>10, <3>1, <3>2
  <2>13. ASSUME NEW e \in EndEvents, MatchIs(m, e[1], all),
                Send(matches[m].players, [type |-> e[2], match |-> m])
         PROVE  ScreenOf(p)'
    <3> DEFINE event == [type |-> e[2], match |-> m]
    <3>1. event \in Notices
      BY <2>8 DEF EndEvents, Notices
    <3>2. Send(matches[m].players, event) /\ p \in PagesOf(matches[m].players)
      BY <2>8, <2>13 DEF PagesOf
    <3> HIDE DEF event, m
    <3>3. NewsInv(p)' /\ ~Calm(p)'
      BY <2>6, <2>7, <3>1, <3>2, NewsSent
    <3> QED
      BY <2>10, <3>3
  <2> QED
    BY <1>4, <1>7, <2>11, <2>12, <2>13
<1> QED
  BY <1>6, <1>7

\* The server's steps for the page's own request.
LEMMA ScreenRequests ==
  ASSUME ServerTypes, PageTypes, MarkInv, KnownInv, OneLiveInv, NEW p \in Pages,
         ScreenOf(p), WalletOf[p] \notin tangled, p \notin behind', UNCHANGED page,
         RequestStep(p)
  PROVE  ScreenOf(p)'
<1> USE DEF server, history
<1>0. RequestTypes /\ page'[p] = page[p]
  BY DEF PageTypes
<1>q. UNCHANGED tickets => (Queued(p)' <=> Queued(p))
  BY SameRows DEF Queued
<1>n. ASSUME UNCHANGED socket, Queued(p)' => Queued(p) PROVE NewsInv(p)'
  BY <1>n DEF ScreenOf, NewsInv
<1>1. CASE JoinCheckLive(p)
  <2>1. /\ UNCHANGED <<tickets, matches, tick, socket>>
        /\ request[p].kind = "join" /\ request[p].at = "start"
    BY <1>1 DEF JoinCheckLive, Waits
  <2>2. request'[p].kind = "join" /\ request'[p].at \in {"error", "checked"}
    BY <1>0, <1>1, RequestStepEffect
  <2>3. ~Answered(p) /\ ~Enters(p) /\ ~Answered(p)' /\ ~Enters(p)'
    BY <2>1, <2>2 DEF Answered, Enters, Waits
  <2> QED
    BY <1>0, <2>1, <2>3, ScreenServed
<1>2. CASE JoinCheckTicket(p)
  <2>1. /\ UNCHANGED <<tickets, matches, tick, socket>>
        /\ request[p].kind = "join" /\ request[p].at = "checked"
    BY <1>2 DEF JoinCheckTicket, Waits
  <2>2. /\ request'[p].kind = "join"
        /\ request'[p].at = IF Queued(p) THEN "ok" ELSE "insert"
    BY <1>0, <1>2, RequestStepEffect DEF Queued
  <2>3. CASE Queued(p)
    <3>1. Answered(p)' /\ ~Enters(p)'
      BY <2>2, <2>3 DEF Answered, Enters, Waits
    <3>2. AnswerIs(p)'
      BY <1>q, <2>1, <2>2, <2>3 DEF AnswerIs
    <3>3. NewsInv(p)'
      BY <1>n, <1>q, <2>1
    <3> QED
      BY <1>0, <3>1, <3>2, <3>3, ScreenReplies
  <2>4. CASE ~Queued(p)
    <3>1. ~Answered(p) /\ ~Enters(p) /\ ~Answered(p)' /\ ~Enters(p)'
      BY <2>1, <2>2, <2>4 DEF Answered, Enters, Waits
    <3> QED
      BY <1>0, <2>1, <3>1, ScreenServed
  <2> QED
    BY <2>3, <2>4
<1>3. CASE InsertTicket(p)
  <2>1. /\ UNCHANGED <<matches, tick, socket>>
        /\ TicketsOf(WalletOf[p], "queued")' =
             TicketsOf(WalletOf[p], "queued") \cup {Len(tickets) + 1}
        /\ behind' = behind \cup
             {o \in PagesOf({WalletOf[p]}) : o # p \/ socket[o].inbox # <<>>}
    BY <1>3, InsertEffect
  <2>2. request[p].kind = "join" /\ request[p].at = "insert"
    BY <1>3 DEF InsertTicket, Waits
  <2>3. request'[p].kind = "join" /\ request'[p].at = "enter"
    BY <1>0, <1>3, RequestStepEffect
  <2>4. Queued(p)'
    BY <2>1 DEF Queued
  <2>5. ~Answered(p) /\ ~Answered(p)' /\ Enters(p)'
    BY <2>2, <2>3 DEF Answered, Enters, Waits
  <2>6. socket[p].inbox = <<>>
    BY <2>1 DEF PagesOf
  <2>7. NewsInv(p)'
    BY <2>1, <2>6 DEF NewsInv
  <2>8. Calm(p)' <=> Calm(p)
    BY <2>1, SameTick DEF Calm
  <2>9. Live(p)' <=> Live(p)
    BY <2>1, SameMatches DEF Live
  <2>10. Computed(p)' = Computed(p)
    BY <1>0, SameComputed
  <2>11. page[p].session => WillShow(p)'
    <3> SUFFICES ASSUME page[p].session PROVE WillShow(p)'
      OBVIOUS
    <3>1. WillShow(p)
      BY DEF ScreenOf
    <3>2. \A me : FetchIs(p, me) => FetchIs(p, me)'
      BY <2>4, <2>5, <2>8, <2>9 DEF FetchIs
    <3> QED
      BY <1>0, <2>5, <2>10, <3>1, <3>2 DEF WillShow
  <2> QED
    BY <1>0, <2>4, <2>5, <2>7, <2>11 DEF ScreenOf, Shows, WillAnswer
<1>4. CASE EnterQueue(p)
  <2>1. UNCHANGED <<tickets, socket>> /\ Enters(p)
    BY <1>4 DEF EnterQueue, Enters
  <2>2. request'[p].kind = "join" /\ request'[p].at = "ok"
    BY <1>0, <1>4, RequestStepEffect
  <2>3. Answered(p)' /\ ~Enters(p)'
    BY <2>2 DEF Answered, Enters, Waits
  <2>4. page[p].session => AnswerIs(p)'
    BY <1>q, <2>1, <2>2 DEF ScreenOf, AnswerIs
  <2>5. NewsInv(p)'
    BY <1>n, <1>q, <2>1
  <2> QED
    BY <1>0, <2>3, <2>4, <2>5, ScreenReplies
<1>5. CASE CancelTicket(p)
  <2> DEFINE v == WalletOf[p]
  <2>1. /\ UNCHANGED <<matches, tick, socket>>
        /\ TicketsOf(v, "queued")' \subseteq TicketsOf(v, "queued")
        /\ \/ TicketsOf(v, "queued") = {}
           \/ \E t \in TicketsOf(v, "queued") :
                TicketsOf(v, "queued")' = TicketsOf(v, "queued") \ {t}
    BY <1>5, CancelEffect
  <2>2. request[p].kind = "leave"
    BY <1>5 DEF CancelTicket, Waits
  <2>3. request'[p].kind = "leave" /\ request'[p].at = "forget"
    BY <1>0, <1>5, RequestStepEffect
  <2>4. Answered(p) /\ Answered(p)' /\ ~Enters(p)'
    BY <2>2, <2>3 DEF Answered, Enters, Waits
  <2>5. ~Queued(p)'
    <3>1. \A s, t \in TicketsOf(v, "queued") : s = t
      BY QueueAssumption DEF OneLiveInv, OneLive
    <3>2. TicketsOf(v, "queued")' = {}
      BY <2>1, <3>1
    <3> QED
      BY <3>2 DEF Queued
  <2>6. NewsInv(p)'
    BY <2>5 DEF NewsInv
  <2>7. (Calm(p)' <=> Calm(p)) /\ (Live(p)' <=> Live(p))
    BY <2>1, SameTick, SameMatches DEF Calm, Live
  <2>8. page[p].session /\ Computed(p) = {} => AnswerIs(p)'
    <3>1. page[p].session /\ Computed(p) = {} => AnswerIs(p)
      BY <2>4 DEF ScreenOf, WillAnswer
    <3> QED
      BY <2>2, <2>3, <2>5, <2>7, <3>1 DEF AnswerIs
  <2> QED
    BY <1>0, <2>4, <2>6, <2>8, ScreenReplies
<1>6. CASE LeaveQueue(p)
  <2>1. /\ UNCHANGED <<tickets, matches, tick, socket>>
        /\ request[p].kind = "leave" /\ request[p].at = "forget"
    BY <1>6 DEF LeaveQueue, Waits
  <2>2. request'[p].kind = "leave" /\ request'[p].at = "ok"
    BY <1>0, <1>6, RequestStepEffect
  <2>3. Answered(p) /\ Answered(p)' /\ ~Enters(p)'
    BY <2>1, <2>2 DEF Answered, Enters, Waits
  <2>4. (Calm(p)' <=> Calm(p)) /\ (Live(p)' <=> Live(p))
    BY <2>1, SameTick, SameMatches DEF Calm, Live
  <2>5. page[p].session /\ Computed(p) = {} => AnswerIs(p)'
    <3>1. page[p].session /\ Computed(p) = {} => AnswerIs(p)
      BY <2>3 DEF ScreenOf, WillAnswer
    <3> QED
      BY <1>q, <2>1, <2>2, <2>4, <3>1 DEF AnswerIs
  <2>6. NewsInv(p)'
    BY <1>n, <1>q, <2>1
  <2> QED
    BY <1>0, <2>3, <2>5, <2>6, ScreenReplies
<1>7. CASE ReportOutcome(p)
  BY <1>7, ScreenReports
<1> QED
  BY <1>1, <1>2, <1>3, <1>4, <1>5, <1>6, <1>7 DEF RequestStep

\* The request of another page is served.
LEMMA ScreenBeside ==
  ASSUME ServerTypes, PageTypes, MarkInv, KnownInv, OneLiveInv, NEW p \in Pages,
         NEW o \in Pages \ {p}, ScreenOf(o), WalletOf[o] \notin tangled, o \notin behind',
         UNCHANGED page, RequestStep(p)
  PROVE  ScreenOf(o)'
<1> USE DEF server, history
<1>0. RequestTypes /\ page'[o] = page[o] /\ WalletOf[o] \in Wallets
  BY QueueAssumption DEF PageTypes
<1>1. OnlyRequest(p)
  BY <1>0, RequestStepEffect DEF RequestStep
<1>2. request'[o] = request[o]
  BY <1>1 DEF OnlyRequest
<1>3. ASSUME UNCHANGED <<matches, tick, socket>>,
             TicketsOf(WalletOf[o], "queued")' = TicketsOf(WalletOf[o], "queued")
      PROVE  ScreenOf(o)'
  <2>1. Queued(o)' <=> Queued(o)
    BY <1>3 DEF Queued
  <2>2. /\ Live(o)' <=> Live(o)
        /\ Reported(o)' <=> Reported(o)
        /\ Disputed(o)' <=> Disputed(o)
        /\ Marking(WalletOf[o])' <=> Marking(WalletOf[o])
    BY <1>3, SameMatches, SameTick DEF Live, Reported, Disputed
  <2>3. socket'[o].inbox = socket[o].inbox
    BY <1>3
  <2> QED
    BY <1>0, <1>2, <2>1, <2>2, <2>3, ScreenStill
<1>4. CASE JoinCheckLive(p) \/ JoinCheckTicket(p) \/ EnterQueue(p) \/ LeaveQueue(p)
  <2>1. UNCHANGED <<tickets, matches, tick, socket>>
    BY <1>4 DEF JoinCheckLive, JoinCheckTicket, EnterQueue, LeaveQueue
  <2> QED
    BY <1>3, <2>1, SameRows
<1>5. CASE InsertTicket(p)
  <2>1. /\ UNCHANGED <<matches, tick, socket>>
        /\ \A v \in Wallets \ {WalletOf[p]} :
             TicketsOf(v, "queued")' = TicketsOf(v, "queued")
        /\ behind' = behind \cup
             {q \in PagesOf({WalletOf[p]}) : q # p \/ socket[q].inbox # <<>>}
    BY <1>5, InsertEffect
  <2>2. WalletOf[o] # WalletOf[p]
    BY <2>1 DEF PagesOf
  <2> QED
    BY <1>0, <1>3, <2>1, <2>2
<1>6. CASE CancelTicket(p)
  <2>1. /\ UNCHANGED <<matches, tick, socket>>
        /\ \A v \in Wallets \ {WalletOf[p]} :
             TicketsOf(v, "queued")' = TicketsOf(v, "queued")
        /\ UNCHANGED tickets \/ behind' = behind \cup Siblings(p)
    BY <1>6, CancelEffect
  <2>2. CASE UNCHANGED tickets
    BY <1>3, <2>1, <2>2, SameRows
  <2>3. CASE behind' = behind \cup Siblings(p)
    <3>1. WalletOf[o] # WalletOf[p]
      BY <2>3 DEF Siblings, PagesOf
    <3> QED
      BY <1>0, <1>3, <2>1, <3>1
  <2> QED
    BY <2>1, <2>2, <2>3
<1>7. CASE ReportOutcome(p)
  <2> DEFINE m == request[p].match
             all == matches[m].reports \cup {WalletOf[p]}
  <2>1. /\ UNCHANGED <<tickets, tick>>
        /\ \/ UNCHANGED <<matches, socket>>
           \/ /\ m \in MatchesOf(WalletOf[p], "live") /\ MatchIs(m, "live", all)
              /\ behind' = behind \cup Siblings(p) /\ UNCHANGED socket
           \/ /\ m \in MatchesOf(WalletOf[p], "live")
              /\ \E e \in EndEvents :
                   /\ MatchIs(m, e[1], all)
                   /\ Send(matches[m].players, [type |-> e[2], match |-> m])
    BY <1>0, <1>7, ReportEffect
  <2>2. CASE UNCHANGED <<matches, socket>>
    BY <1>3, <2>1, <2>2, SameRows
  <2>3. m \in MatchesOf(WalletOf[p], "live") =>
          m \in DOMAIN matches /\ m \in Nat /\ matches[m].state = "live"
    BY DEF MatchesOf, ServerTypes
  <2>4. ASSUME m \in MatchesOf(WalletOf[p], "live"), MatchIs(m, "live", all),
               behind' = behind \cup Siblings(p), UNCHANGED socket
        PROVE  ScreenOf(o)'
    <3> HIDE DEF m, all
    <3>1. m \in DOMAIN matches /\ matches[m].state = "live"
      BY <2>3, <2>4
    <3>2. \A w, s : MatchesOf(w, s)' =
            (MatchesOf(w, s) \ {m})
              \cup IF w \in matches[m].players /\ s = "live" THEN {m} ELSE {}
      BY <2>4, <3>1, MatchIsMoved
    <3>3. \A w : /\ MatchesOf(w, "live")' = MatchesOf(w, "live")
                 /\ MatchesOf(w, "disputed")' = MatchesOf(w, "disputed")
      <4>1. \A w : /\ m \in MatchesOf(w, "live") <=> w \in matches[m].players
                   /\ m \notin MatchesOf(w, "disputed")
        BY <3>1 DEF MatchesOf
      <4> QED
        BY <3>2, <4>1
    <3>4. ASSUME NEW k \in MatchesOf(WalletOf[o], "live"), WalletOf[o] \in matches[k].reports
          PROVE  WalletOf[o] \in matches'[k].reports
      <4>1. CASE k = m
        <5>1. matches'[m].reports = all /\ matches[m].reports \subseteq all
          BY <2>4 DEF MatchIs, all
        <5> QED
          BY <3>4, <4>1, <5>1
      <4>2. CASE k # m
        <5>1. matches'[k] = matches[k]
          BY <2>4, <4>2 DEF MatchIs, MatchesOf
        <5> QED
          BY <3>4, <5>1
      <4> QED
        BY <4>1, <4>2
    <3>5. Reported(o) => Reported(o)'
      BY <3>3, <3>4 DEF Reported
    <3>6. (Live(o)' <=> Live(o)) /\ (Disputed(o)' <=> Disputed(o))
      BY <3>3 DEF Live, Disputed
    <3>7. (Queued(o)' <=> Queued(o)) /\ (Marking(WalletOf[o])' <=> Marking(WalletOf[o]))
      BY <2>1, SameRows, SameTick DEF Queued
    <3>8. socket'[o].inbox = socket[o].inbox
      BY <2>4
    <3> QED
      BY <1>0, <1>2, <3>5, <3>6, <3>7, <3>8, ScreenStill
  <2>5. ASSUME m \in MatchesOf(WalletOf[p], "live"), NEW e \in EndEvents,
               MatchIs(m, e[1], all),
               Send(matches[m].players, [type |-> e[2], match |-> m])
        PROVE  ScreenOf(o)'
    <3> DEFINE event == [type |-> e[2], match |-> m]
               state == e[1]
    <3>1. m \in DOMAIN matches /\ matches[m].state = "live" /\ m \in Nat
      BY <2>3, <2>5
    <3>2. event \in Notices /\ event.type # "match_found"
      BY <3>1 DEF EndEvents, Notices
    <3>3. MatchIs(m, state, all) /\ Send(matches[m].players, event)
      BY <2>5
    <3>4. m \in 0 .. Known
      BY <1>7 DEF KnownInv, ReportOutcome, Waits
    <3> HIDE DEF m, all, event, state
    <3>5. ASSUME o \in PagesOf(matches[m].players) PROVE ~Queued(o)
      <4>1. m \in MatchesOf(WalletOf[o], "live")
        BY <3>1, <3>5 DEF MatchesOf, PagesOf
      <4>2. WalletOf[o] \in Wallets \ tangled
        BY <1>0
      <4>3. TicketsOf(WalletOf[o], "queued") = {}
        BY <3>4, <4>1, <4>2, LiveKnown
      <4> QED
        BY <4>3 DEF Queued
    <3>6. UNCHANGED <<tickets, tick>>
      BY <2>1
    <3> QED
      BY <1>0, <1>2, <3>1, <3>2, <3>3, <3>5, <3>6, ScreenTold
  <2> HIDE DEF m, all
  <2> QED
    BY <2>1, <2>2, <2>4, <2>5
<1> QED
  BY <1>4, <1>5, <1>6, <1>7 DEF RequestStep

\* The loop stores a match or puts its players back.
LEMMA ScreenInserted ==
  ASSUME ServerTypes, PageTypes, TickInv, NEW p \in Pages, ScreenOf(p), UNCHANGED page,
         InsertMatch
  PROVE  ScreenOf(p)'
<1> DEFINE g == Head(tick.todo)
           w == WalletOf[p]
<1>0. w \in Wallets /\ GroupsInv
  BY QueueAssumption, TickParts
<1>1. /\ tick.at = "insert" /\ tick.todo # <<>> /\ g \in Groups
      /\ UNCHANGED <<tickets, request, socket>>
      /\ \/ /\ matches' = Append(matches, [players |-> g.wallets, bot |-> g.bot,
                                           state |-> "live", reports |-> {}])
            /\ tick'.at = "mark" /\ tick'.todo = tick.todo
         \/ UNCHANGED matches /\ tick' = NextGroup
  BY InsertMatchEffect
<1>2. /\ page'[p] = page[p] /\ request'[p] = request[p]
      /\ socket'[p].inbox = socket[p].inbox
  BY <1>1
<1>3. Queued(p)' <=> Queued(p)
  BY <1>1, SameRows DEF Queued
<1>4. ~Marking(w)
  BY <1>1 DEF Marking
<1>5. CASE UNCHANGED matches /\ tick' = NextGroup
  <2>1. tick'.at # "mark"
    BY <1>0, <1>1, <1>5, GroupsNext
  <2>2. ~Marking(w)'
    BY <2>1 DEF Marking
  <2>3. /\ Live(p)' <=> Live(p)
        /\ Reported(p)' <=> Reported(p)
        /\ Disputed(p)' <=> Disputed(p)
    BY <1>5, SameMatches DEF Live, Reported, Disputed
  <2> QED
    BY <1>2, <1>3, <1>4, <2>2, <2>3, ScreenStill
<1>6. ASSUME matches' = Append(matches, [players |-> g.wallets, bot |-> g.bot,
                                         state |-> "live", reports |-> {}]),
             tick'.at = "mark", tick'.todo = tick.todo
      PROVE  ScreenOf(p)'
  <2>1. Marking(w)' <=> w \in g.wallets
    BY <1>6 DEF Marking
  <2>2. CASE w \in g.wallets
    <3>1. ~Calm(p)'
      BY <2>1, <2>2 DEF Calm
    <3>2. NewsInv(p)'
      BY <1>2, <1>3 DEF NewsInv, ScreenOf
    <3> QED
      BY <1>2, <1>3, <3>1, <3>2, SameScreen
  <2>3. CASE w \notin g.wallets
    <3> HIDE DEF g
    <3>1. /\ \A m \in DOMAIN matches : matches'[m] = matches[m]
          /\ MatchesOf(w, "live")' = MatchesOf(w, "live")
          /\ MatchesOf(w, "disputed")' = MatchesOf(w, "disputed")
      BY <1>0, <1>1, <1>6, <2>3, MatchInserted
    <3>2. \A m \in MatchesOf(w, "live") : m \in DOMAIN matches
      BY DEF MatchesOf
    <3>3. /\ Live(p)' <=> Live(p)
          /\ Reported(p)' <=> Reported(p)
          /\ Disputed(p)' <=> Disputed(p)
      BY <3>1, <3>2 DEF Live, Reported, Disputed
    <3> QED
      BY <1>2, <1>3, <1>4, <2>1, <2>3, <3>3, ScreenStill
  <2> QED
    BY <2>2, <2>3
<1> HIDE DEF g
<1> QED
  BY <1>1, <1>5, <1>6

\* The loop marks the tickets of a match and announces it, or fails.
LEMMA ScreenMarked ==
  ASSUME ServerTypes, PageTypes, TicketInv, TickInv, OneLiveInv, NEW p \in Pages,
         ScreenOf(p), WalletOf[p] \notin tangled, p \notin behind', UNCHANGED page,
         MarkTickets
  PROVE  ScreenOf(p)'
<1> DEFINE g == Head(tick.todo)
           w == WalletOf[p]
           event == [type |-> "match_found", match |-> tick.match]
<1>0. /\ w \in Wallets \ tangled /\ GroupsInv /\ MarkInv
  BY QueueAssumption, TickParts
<1>1. /\ tick.at = "mark" /\ tick.todo # <<>> /\ g \in Groups
      /\ g = tick.todo[1] /\ 1 \in DOMAIN tick.todo
      /\ UNCHANGED <<matches, request>>
      /\ event \in Notices
      /\ \/ /\ tickets' = [t \in DOMAIN tickets |->
                 IF \E v \in g.wallets : g.ticket[v] = t
                 THEN [tickets[t] EXCEPT !.status = "matched"] ELSE tickets[t]]
            /\ Send(g.wallets, event)
            /\ tick' = NextGroup \/ tick'.at = "close"
         \/ /\ tick' = NextGroup
            /\ behind' = behind \cup PagesOf(g.wallets)
            /\ UNCHANGED <<tickets, socket>>
  BY MarkTicketsEffect
<1>2. page'[p] = page[p] /\ request'[p] = request[p]
  BY <1>1
<1>3. /\ Live(p)' <=> Live(p)
      /\ Reported(p)' <=> Reported(p)
      /\ Disputed(p)' <=> Disputed(p)
  BY <1>1, SameMatches DEF Live, Reported, Disputed
<1>4. tick'.at # "mark"
  BY <1>0, <1>1, GroupsNext
<1>5. ~Marking(w)' /\ (Marking(w) <=> w \in g.wallets)
  BY <1>1, <1>4 DEF Marking
<1>6. ASSUME behind' = behind \cup PagesOf(g.wallets), UNCHANGED <<tickets, socket>>
      PROVE  ScreenOf(p)'
  <2>1. w \notin g.wallets
    BY <1>6 DEF PagesOf
  <2>2. Queued(p)' <=> Queued(p)
    BY <1>6, SameRows DEF Queued
  <2>3. socket'[p].inbox = socket[p].inbox
    BY <1>6
  <2> QED
    BY <1>2, <1>3, <1>5, <2>1, <2>2, <2>3, ScreenStill
<1>7. ASSUME tickets' = [t \in DOMAIN tickets |->
                 IF \E v \in g.wallets : g.ticket[v] = t
                 THEN [tickets[t] EXCEPT !.status = "matched"] ELSE tickets[t]],
             Send(g.wallets, event)
      PROVE  ScreenOf(p)'
  <2>1. \A v \in g.wallets : IsTicketOf(v, g.ticket[v])
    BY <1>1 DEF TicketInv
  <2>2. NewsInv(p) /\ event.type = "match_found"
    BY DEF ScreenOf
  <2>3. /\ g.wallets = matches[tick.match].players /\ tick.match \in DOMAIN matches
        /\ matches[tick.match].state = "live"
    BY <1>0, <1>1 DEF MarkInv
  <2>4. w \in g.wallets => \A t \in TicketsOf(w, "queued") : t = g.ticket[w]
    <3>1. OneLive(w)
      BY <1>0 DEF OneLiveInv
    <3>2. w \in g.wallets => MatchesOf(w, "live") # {}
      BY <2>3 DEF MatchesOf
    <3> QED
      BY <3>1, <3>2 DEF OneLive
  <2>5. w \in g.wallets => ~Enters(p)
    <3>1. OneLive(w)
      BY <1>0 DEF OneLiveInv
    <3>2. w \in g.wallets => MatchesOf(w, "live") # {}
      BY <2>3 DEF MatchesOf
    <3>3. Enters(p) => Joining(w)
      BY DEF Enters, Waits, Joining, PagesOf
    <3> QED
      BY <3>1, <3>2, <3>3 DEF OneLive
  <2> HIDE DEF g, event
  <2>6. /\ \A v \in g.wallets :
             TicketsOf(v, "queued")' = TicketsOf(v, "queued") \ {g.ticket[v]}
        /\ \A v \in Wallets \ g.wallets :
             TicketsOf(v, "queued")' = TicketsOf(v, "queued")
    BY <1>1, <1>7, <2>1, TicketsMarked
  <2>7. CASE w \in g.wallets
    <3>1. TicketsOf(w, "queued")' = {}
      BY <2>4, <2>6, <2>7
    <3>2. ~Queued(p)'
      BY <3>1 DEF Queued
    <3>3. p \in PagesOf(g.wallets)
      BY <2>7 DEF PagesOf
    <3>4. NewsInv(p)' /\ ~Calm(p)'
      BY <1>1, <1>7, <2>2, <3>2, <3>3, NewsSent
    <3> QED
      BY <1>2, <2>5, <2>7, <3>2, <3>4, SameScreen
  <2>8. CASE w \notin g.wallets
    <3>1. Queued(p)' <=> Queued(p)
      BY <1>0, <2>6, <2>8 DEF Queued
    <3>2. p \notin PagesOf(g.wallets)
      BY <2>8 DEF PagesOf
    <3>3. socket'[p].inbox = socket[p].inbox
      BY <1>1, <1>7, <2>2, <3>1, <3>2, NewsSent
    <3> QED
      BY <1>2, <1>3, <1>5, <2>8, <3>1, <3>3, ScreenStill
  <2> QED
    BY <2>7, <2>8
<1> HIDE DEF g, event
<1> QED
  BY <1>1, <1>6, <1>7

\* The loop closes a ticket after a match with the bot, or gives up.
LEMMA ScreenClosed ==
  ASSUME ServerTypes, TickInv, NEW p \in Pages, ScreenOf(p),
         WalletOf[p] \notin tangled', UNCHANGED page, CloseTicket
  PROVE  ScreenOf(p)'
<1> DEFINE w == WalletOf[p]
<1>0. w \in Wallets /\ GroupsInv
  BY QueueAssumption, TickParts
<1>1. /\ tick.at = "close" /\ tick.todo # <<>>
      /\ UNCHANGED <<matches, request, socket>>
      /\ tick' = NextGroup \/ tick' = NoTick
      /\ \/ UNCHANGED tickets
         \/ \E v \in Wallets : \E t \in TicketsOf(v, "queued") :
              /\ tickets' = [tickets EXCEPT ![t].status = "cancelled"]
              /\ tangled' = tangled \cup {v}
  BY CloseTicketEffect
<1>2. /\ page'[p] = page[p] /\ request'[p] = request[p]
      /\ socket'[p].inbox = socket[p].inbox
  BY <1>1
<1>3. /\ Live(p)' <=> Live(p)
      /\ Reported(p)' <=> Reported(p)
      /\ Disputed(p)' <=> Disputed(p)
  BY <1>1, SameMatches DEF Live, Reported, Disputed
<1>4. ~Marking(w) /\ ~Marking(w)'
  <2>1. tick' = NextGroup => tick'.at # "mark"
    BY <1>0, <1>1, GroupsNext
  <2>2. tick' = NoTick => tick'.at # "mark"
    BY DEF NoTick
  <2> QED
    BY <1>1, <2>1, <2>2 DEF Marking
<1>5. TicketsOf(w, "queued")' = TicketsOf(w, "queued")
  <2>1. CASE UNCHANGED tickets
    BY <2>1, SameRows
  <2>2. ASSUME NEW v \in Wallets, NEW t \in TicketsOf(v, "queued"),
               tickets' = [tickets EXCEPT ![t].status = "cancelled"],
               tangled' = tangled \cup {v}
        PROVE  TicketsOf(w, "queued")' = TicketsOf(w, "queued")
    <3>1. w # v
      BY <2>2
    <3>2. \A u \in Wallets \ {v} : TicketsOf(u, "queued")' = TicketsOf(u, "queued")
      BY <2>2, TicketCancelled
    <3> QED
      BY <1>0, <3>1, <3>2
  <2> QED
    BY <1>1, <2>1, <2>2
<1> QED
  BY <1>2, <1>3, <1>4, <1>5, ScreenStill DEF Queued

\* Only a page's own steps bring it back in step.
LEMMA StaysBehind ==
  ASSUME ServerTypes, PageTypes, TickInv,
         \/ \E p \in Pages : RequestStep(p)
         \/ \E a, b \in Wallets : TakePair(a, b)
         \/ \E W \in SUBSET Wallets : TakeStale(W)
         \/ TickStep
         \/ \E m \in DOMAIN matches : EndMatch(m)
         \/ Restart
  PROVE  behind \subseteq behind' /\ tangled \subseteq tangled'
<1> USE DEF history
<1>0. RequestTypes
  BY DEF PageTypes
<1>s. ASSUME NEW W, NEW event, Send(W, event) PROVE behind \subseteq behind'
  BY <1>s DEF Send
<1>1. ASSUME NEW p \in Pages, RequestStep(p)
      PROVE  behind \subseteq behind' /\ tangled \subseteq tangled'
  <2>1. CASE JoinCheckLive(p) \/ JoinCheckTicket(p) \/ EnterQueue(p) \/ LeaveQueue(p)
    <3>1. UNCHANGED history
      BY <2>1 DEF JoinCheckLive, JoinCheckTicket, EnterQueue, LeaveQueue
    <3> QED
      BY <3>1
  <2>2. CASE InsertTicket(p)
    BY <2>2, InsertEffect
  <2>3. CASE CancelTicket(p)
    BY <2>3, CancelEffect
  <2>4. CASE ReportOutcome(p)
    <3>1. /\ UNCHANGED tangled
          /\ \/ UNCHANGED behind
             \/ behind' = behind \cup Siblings(p)
             \/ \E e \in EndEvents :
                  Send(matches[request[p].match].players,
                       [type |-> e[2], match |-> request[p].match])
      BY <1>0, <2>4, ReportEffect
    <3> QED
      BY <1>s, <3>1
  <2> QED
    BY <1>1, <2>1, <2>2, <2>3, <2>4 DEF RequestStep
<1>2. ASSUME NEW a \in Wallets, NEW b \in Wallets, TakePair(a, b)
      PROVE  behind \subseteq behind' /\ tangled \subseteq tangled'
  <2>1. UNCHANGED <<behind, tangled>>
    BY <1>2 DEF TakePair
  <2> QED
    BY <2>1
<1>3. ASSUME NEW W \in SUBSET Wallets, TakeStale(W)
      PROVE  behind \subseteq behind' /\ tangled \subseteq tangled'
  <2>1. UNCHANGED <<behind, tangled>>
    BY <1>3 DEF TakeStale
  <2> QED
    BY <2>1
<1>4. CASE InsertMatch
  BY <1>4, InsertMatchEffect
<1>5. CASE MarkTickets
  <2>1. \/ UNCHANGED tangled /\ Send(Head(tick.todo).wallets,
                                     [type |-> "match_found", match |-> tick.match])
        \/ /\ tangled' = tangled \cup Head(tick.todo).wallets
           /\ behind' = behind \cup PagesOf(Head(tick.todo).wallets)
    BY <1>5, MarkTicketsEffect
  <2> QED
    BY <1>s, <2>1
<1>6. CASE CloseTicket
  <2>1. /\ UNCHANGED behind
        /\ \/ UNCHANGED tangled
           \/ \E w \in Wallets : tangled' = tangled \cup {w}
           \/ tangled \subseteq tangled'
    BY <1>6, CloseTicketEffect
  <2> QED
    BY <2>1
<1>7. ASSUME NEW m \in DOMAIN matches, EndMatch(m)
      PROVE  behind \subseteq behind' /\ tangled \subseteq tangled'
  <2>1. /\ UNCHANGED tangled
        /\ \E e \in EndEvents :
             Send(matches[m].players, [type |-> e[2], match |-> m])
    BY <1>7, EndEffect
  <2> QED
    BY <1>s, <2>1
<1>8. CASE Restart
  BY <1>0, <1>8, RestartEffect
<1> QED
  BY <1>1, <1>2, <1>3, <1>4, <1>5, <1>6, <1>7, <1>8 DEF TickStep

\* The sweep or the operator ends a match.
LEMMA ScreenEnds ==
  ASSUME ServerTypes, PageTypes, NEW m \in DOMAIN matches, EndMatch(m),
         NEW p \in Pages, ScreenOf(p), p \notin behind', UNCHANGED page
  PROVE  ScreenOf(p)'
<1>1. UNCHANGED <<tickets, tick, request>>
  BY EndEffect
<1>2. PICK e \in EndEvents :
        /\ e[1] # "disputed"
        /\ MatchIs(m, e[1], matches[m].reports)
        /\ Send(matches[m].players, [type |-> e[2], match |-> m])
  BY EndEffect
<1> DEFINE event == [type |-> e[2], match |-> m]
           state == e[1]
           reports == matches[m].reports
<1>3. m \in Nat
  BY DEF ServerTypes
<1>4. event \in Notices /\ event.type \notin {"match_found", "disputed"}
  BY <1>2, <1>3 DEF EndEvents, Notices
<1>5. Send(matches[m].players, event) /\ MatchIs(m, state, reports)
  BY <1>2
<1>6. /\ page'[p] = page[p] /\ request'[p] = request[p]
      /\ event.type # "match_found" /\ event.type # "disputed"
  BY <1>1, <1>4
<1> HIDE DEF event, state, reports
<1> QED
  BY <1>1, <1>4, <1>5, <1>6, ScreenTold

\* The server starts again.
LEMMA ScreenRestarts ==
  ASSUME ServerTypes, PageTypes, Restart, NEW p \in Pages, ScreenOf(p),
         p \notin behind', UNCHANGED page
  PROVE  ScreenOf(p)'
<1>0. RequestTypes
  BY DEF PageTypes
<1>1. /\ UNCHANGED <<tickets, matches>> /\ tick' = NoTick
      /\ behind' = behind
           \cup {o \in Pages : socket[o].inbox # <<>> \/ request[o].kind # "none"}
           \cup IF tick.at = "mark" THEN PagesOf(Head(tick.todo).wallets) ELSE {}
      /\ IF request[p].kind = "none" THEN request'[p] = NoRequest
         ELSE request'[p].at = "error" /\ request'[p].match = 0
      /\ socket'[p].inbox = <<>>
  BY <1>0, RestartEffect
<1>2. socket[p].inbox = <<>> /\ request[p].kind = "none"
  BY <1>1
<1>3. /\ page'[p] = page[p] /\ request'[p] = request[p]
      /\ socket'[p].inbox = socket[p].inbox
  BY <1>0, <1>1, <1>2 DEF RequestTypes
<1>4. ~Marking(WalletOf[p]) /\ ~Marking(WalletOf[p])'
  <2>1. tick'.at # "mark"
    BY <1>1 DEF NoTick
  <2> QED
    BY <1>1, <2>1 DEF Marking, PagesOf
<1>5. /\ Queued(p)' <=> Queued(p)
      /\ Live(p)' <=> Live(p)
      /\ Reported(p)' <=> Reported(p)
      /\ Disputed(p)' <=> Disputed(p)
  BY <1>1, SameRows, SameMatches DEF Queued, Live, Reported, Disputed
<1> QED
  BY <1>3, <1>4, <1>5, ScreenStill

\* The loop takes entries out of the queue.
LEMMA ScreenTaken ==
  ASSUME UNCHANGED <<tickets, matches, request, socket, page>>, tick.at = "idle",
         tick'.at = "insert", NEW p \in Pages, ScreenOf(p)
  PROVE  ScreenOf(p)'
<1>1. ~Marking(WalletOf[p]) /\ ~Marking(WalletOf[p])'
  BY DEF Marking
<1>2. /\ Queued(p)' <=> Queued(p)
      /\ Live(p)' <=> Live(p)
      /\ Reported(p)' <=> Reported(p)
      /\ Disputed(p)' <=> Disputed(p)
  BY SameRows, SameMatches DEF Queued, Live, Reported, Disputed
<1>3. /\ page'[p] = page[p] /\ request'[p] = request[p]
      /\ socket'[p].inbox = socket[p].inbox
  OBVIOUS
<1> QED
  BY <1>1, <1>2, <1>3, ScreenStill

\* A page step of another page.
LEMMA ScreenApart ==
  ASSUME ServerTypes, PageTypes, NEW p \in Pages, PageStep(p), NEW o \in Pages \ {p},
         ScreenOf(o)
  PROVE  ScreenOf(o)'
<1>1. /\ UNCHANGED server /\ OnlyPage(p) /\ OnlyRequest(p) /\ socket'[o] = socket[o]
  BY PageStepFrame DEF PageFrame
<1>2. /\ page'[o] = page[o] /\ request'[o] = request[o]
      /\ socket'[o].inbox = socket[o].inbox
  BY <1>1 DEF OnlyPage, OnlyRequest
<1>3. /\ Queued(o)' <=> Queued(o)
      /\ Live(o)' <=> Live(o)
      /\ Reported(o)' <=> Reported(o)
      /\ Disputed(o)' <=> Disputed(o)
      /\ Marking(WalletOf[o])' <=> Marking(WalletOf[o])
  BY <1>1, SameServer
<1> QED
  BY <1>2, <1>3, ScreenStill

\* A page in step stays in step, or leaves its step in the open (behind,
\* tangled).
LEMMA InStepInvStep ==
  ASSUME ServerInv, EventInv, InStepInv, [Next]_vars
  PROVE  InStepInv'
<1> USE DEF server, history, ServerInv
<1>0. MarkInv
  BY TickParts
<1>1. ASSUME NEW q \in Pages, PageStep(q)
      PROVE  InStepInv'
  <2> SUFFICES ASSUME NEW p \in Pages, InStep(p)' PROVE ScreenOf(p)'
    BY DEF InStepInv
  <2>1. InStep(p) => ScreenOf(p)
    BY DEF InStepInv
  <2>2. CASE p = q
    <3>1. PageStep(p) /\ EventOf(p)
      BY <1>1, <2>2 DEF EventInv
    <3>2. ScreenOf(p)'
      BY <1>0, <2>1, <3>1, ScreenOwn
    <3> QED
      BY <3>2
  <2>3. CASE p # q
    <3>1. (p \in behind' <=> p \in behind) /\ tangled \subseteq tangled'
      BY <1>1, <2>3, PageStepFrame DEF PageFrame
    <3>2. ScreenOf(p)
      <4>1. InStep(p)
        BY <3>1 DEF InStep
      <4> QED
        BY <2>1, <4>1
    <3> QED
      BY <1>1, <2>3, <3>2, ScreenApart
  <2> QED
    BY <2>2, <2>3
<1>2. ASSUME \/ \E q \in Pages : RequestStep(q)
             \/ \E a, b \in Wallets : TakePair(a, b)
             \/ \E W \in SUBSET Wallets : TakeStale(W)
             \/ TickStep
             \/ \E m \in DOMAIN matches : EndMatch(m)
             \/ Restart,
             UNCHANGED page
      PROVE  InStepInv'
  <2>1. behind \subseteq behind' /\ tangled \subseteq tangled'
    BY <1>2, StaysBehind
  <2> SUFFICES ASSUME NEW p \in Pages, InStep(p)' PROVE ScreenOf(p)'
    BY DEF InStepInv
  <2>2. /\ p \notin behind' /\ WalletOf[p] \notin tangled'
        /\ p \notin behind /\ WalletOf[p] \notin tangled
    BY <2>1 DEF InStep
  <2>3. ScreenOf(p)
    BY <2>2 DEF InStepInv, InStep
  <2>4. ASSUME NEW q \in Pages, RequestStep(q)
        PROVE  ScreenOf(p)'
    <3>1. CASE p = q
      <4>1. RequestStep(p)
        BY <2>4, <3>1
      <4> QED
        BY <1>0, <1>2, <2>2, <2>3, <4>1, ScreenRequests
    <3>2. CASE p # q
      BY <1>0, <1>2, <2>2, <2>3, <2>4, <3>2, ScreenBeside
    <3> QED
      BY <3>1, <3>2
  <2>5. ASSUME NEW a \in Wallets, NEW b \in Wallets, TakePair(a, b)
        PROVE  ScreenOf(p)'
    <3>1. /\ tick.at = "idle" /\ UNCHANGED <<tickets, matches, request, socket>>
      BY <2>5 DEF TakePair
    <3>2. tick'.at = "insert"
      BY <2>5, TakePairEffect
    <3> QED
      BY <1>2, <2>3, <3>1, <3>2, ScreenTaken
  <2>6. ASSUME NEW W \in SUBSET Wallets, TakeStale(W)
        PROVE  ScreenOf(p)'
    <3>1. /\ tick.at = "idle" /\ UNCHANGED <<tickets, matches, request, socket>>
      BY <2>6 DEF TakeStale
    <3>2. tick'.at = "insert"
      BY <2>6, TakeStaleEffect
    <3> QED
      BY <1>2, <2>3, <3>1, <3>2, ScreenTaken
  <2>7. CASE InsertMatch
    BY <1>2, <2>3, <2>7, ScreenInserted
  <2>8. CASE MarkTickets
    BY <1>2, <2>2, <2>3, <2>8, ScreenMarked
  <2>9. CASE CloseTicket
    BY <1>2, <2>2, <2>3, <2>9, ScreenClosed
  <2>10. ASSUME NEW m \in DOMAIN matches, EndMatch(m)
         PROVE  ScreenOf(p)'
    BY <1>2, <2>2, <2>3, <2>10, ScreenEnds
  <2>11. CASE Restart
    BY <1>2, <2>2, <2>3, <2>11, ScreenRestarts
  <2> QED
    BY <1>2, <2>4, <2>5, <2>6, <2>7, <2>8, <2>9, <2>10, <2>11 DEF TickStep
<1>3. CASE UNCHANGED vars
  <2>1. UNCHANGED <<server, request, socket, behind, tangled, page>>
    BY <1>3 DEF vars
  <2> SUFFICES ASSUME NEW p \in Pages, InStep(p)' PROVE ScreenOf(p)'
    BY DEF InStepInv
  <2>2. ScreenOf(p)
    BY <2>1 DEF InStepInv, InStep
  <2>3. /\ page'[p] = page[p] /\ request'[p] = request[p]
        /\ socket'[p].inbox = socket[p].inbox
    BY <2>1
  <2>4. /\ Queued(p)' <=> Queued(p)
        /\ Live(p)' <=> Live(p)
        /\ Reported(p)' <=> Reported(p)
        /\ Disputed(p)' <=> Disputed(p)
        /\ Marking(WalletOf[p])' <=> Marking(WalletOf[p])
    BY <2>1, SameServer
  <2> QED
    BY <2>2, <2>3, <2>4, ScreenStill
<1>4. CASE Next
  BY <1>1, <1>2, <1>4 DEF Next
<1> QED
  BY <1>3, <1>4

\* In the first states the open pages show what the server knows.
LEMMA InitScreens ==
  ASSUME Init
  PROVE  InStepInv
<1>1. PICK s \in Scenarios :
           /\ s.start \in {"idle", "queued", "paired"}
           /\ {WalletOf[o] : o \in s.open} \in SUBSET Wallets
           /\ QueueInit({WalletOf[o] : o \in s.open}, s.start)
           /\ page \in [Pages -> Screens] /\ socket \in [Pages -> Sockets]
           /\ \A p \in Pages : Opened(p, s) /\ socket[p].inbox = <<>>
  BY InitEffect
<1> DEFINE W == {WalletOf[o] : o \in s.open}
           start == s.start
<1>2. Started(W, start)
  <2>1. W \in SUBSET Wallets /\ start \in {"idle", "queued", "paired"}
        /\ QueueInit(W, start)
    BY <1>1
  <2> HIDE DEF W, start
  <2> QED
    BY <2>1, QueueStart
<1> SUFFICES ASSUME NEW p \in Pages PROVE ScreenOf(p)
  BY DEF InStepInv
<1>3. Opened(p, s) /\ socket[p].inbox = <<>> /\ request[p] = NoRequest
  BY <1>1, <1>2 DEF Started
<1>4. ~Enters(p) /\ ~Answered(p)
  BY <1>3 DEF Enters, Answered, Waits, NoRequest
<1>5. NewsInv(p)
  BY <1>3 DEF NewsInv
<1>6. CASE p \in s.open
  <2>1. WalletOf[p] \in W /\ page[p].me = <<>>
    BY <1>3, <1>6 DEF Opened
  <2>2. Computed(p) = {}
    BY <2>1 DEF Computed
  <2>3. ShowsIt(p)
    <3>1. (Queued(p) <=> s.start = "queued") /\ (Live(p) <=> s.start = "paired")
      BY <1>2, <2>1 DEF Started, Queued, Live
    <3>2. /\ s.start = "idle" => page[p].phase = "idle"
          /\ s.start = "queued" => page[p].phase = "queued"
          /\ s.start = "paired" => page[p].phase = "matchFound"
      BY <1>3, <1>6 DEF Opened
    <3> QED
      BY <1>1, <3>1, <3>2 DEF ShowsIt
  <2> QED
    BY <1>4, <1>5, <2>2, <2>3 DEF ScreenOf, Shows, WillShow, WillAnswer
<1>7. CASE p \notin s.open
  BY <1>3, <1>5, <1>7 DEF Opened, Closed, ScreenOf
<1> QED
  BY <1>6, <1>7

-----------------------------------------------------------------------------
(***************************************************************************)
(* The arena page agrees with the server.                                  *)
(***************************************************************************)
ArenaInv == ServerInv /\ EventInv /\ InStepInv

\* The invariant of the queue, the hub and the pages together: whatever a page
\* of the arena shows is either right or about to be put right by something
\* that is on its way to it.
THEOREM ArenaInvariant == Spec => []ArenaInv
<1>1. Init => ArenaInv
  BY InitServer, InitEvents, InitScreens DEF ArenaInv, ServerInv
<1>2. ArenaInv /\ [Next]_vars => ArenaInv'
  <2> SUFFICES ASSUME ArenaInv, [Next]_vars PROVE ArenaInv'
    OBVIOUS
  <2>1. ServerInv /\ EventInv /\ InStepInv
    BY DEF ArenaInv
  <2>2. ServerInv'
    BY <2>1, ServerInvStep
  <2>3. EventInv'
    <3>1. CASE Next
      BY <2>1, <3>1, EventInvStep DEF ServerInv
    <3>2. CASE UNCHANGED vars
      <4>1. UNCHANGED <<matches, page, unseen, request, socket>>
        BY <3>2 DEF vars, server, history
      <4> QED
        BY <2>1, <4>1, EventStill
    <3> QED
      BY <3>1, <3>2
  <2>4. InStepInv'
    BY <2>1, InStepInvStep
  <2> QED
    BY <2>2, <2>3, <2>4 DEF ArenaInv
<1> QED
  BY <1>1, <1>2, PTL DEF Spec

\* When nothing is under way, an invariant page shows what the server knows.
LEMMA QuietAgrees ==
  ASSUME ArenaInv
  PROVE  ScreenAgrees
<1> SUFFICES ASSUME NEW p \in Pages, Quiet(p), InStep(p)
             PROVE  LET w == WalletOf[p]
                        live == MatchesOf(w, "live")
                    IN CASE page[p].phase = "queued" -> TicketsOf(w, "queued") # {}
                         [] page[p].phase = "idle" ->
                              TicketsOf(w, "queued") = {} /\ live = {}
                         [] page[p].phase = "matchFound" ->
                              live # {} /\ (p \notin unseen => page[p].view \in live)
                         [] page[p].phase = "reported" ->
                              \E m \in live : w \in matches[m].reports
                         [] page[p].phase = "disputed" -> MatchesOf(w, "disputed") # {}
                         [] OTHER -> FALSE
  BY DEF ScreenAgrees
<1> DEFINE w == WalletOf[p]
<1>0. /\ ServerTypes /\ PageTypes /\ RequestTypes /\ TickInv /\ OneLiveInv
      /\ EventOf(p) /\ ScreenOf(p) /\ w \in Wallets \ tangled /\ page[p] \in Screens
  BY QueueAssumption DEF ArenaInv, ServerInv, EventInv, InStepInv, InStep, PageTypes
<1>1. /\ page[p].session /\ page[p].phase \notin {"closed", "loading", "loggedOut"}
      /\ socket[p].inbox = <<>> /\ page[p].me = <<>> /\ request[p].kind = "none"
      /\ ~Held(w)
  BY DEF Quiet, Busy
<1>2. ~Marking(w)
  <2>1. tick.at = "mark" => tick.todo # <<>> /\ tick.todo \in Seq(Groups)
    BY <1>0 DEF TickInv, ServerTypes, Ticks
  <2>2. tick.at = "mark" => Head(tick.todo) = tick.todo[1] /\ 1 \in DOMAIN tick.todo
    BY <2>1, TailOf
  <2> QED
    BY <1>1, <2>2 DEF Marking, Held
<1>3. request[p] = NoRequest
  BY <1>0, <1>1 DEF RequestTypes
<1>4. ~Enters(p) /\ ~Answered(p)
  BY <1>3 DEF Enters, Answered, Waits, NoRequest
<1>5. Calm(p)
  BY <1>1, <1>2 DEF Calm
<1>6. Computed(p) = {}
  BY <1>1 DEF Computed
<1>7. ShowsIt(p)
  BY <1>0, <1>1, <1>4, <1>6 DEF ScreenOf, Shows
<1>8. page[p].phase \in {"idle", "queued", "matchFound", "reported", "disputed"}
  BY <1>0, <1>1, <1>7 DEF Screens, ShowsIt
<1>9. page[p].phase = "matchFound" /\ p \notin unseen
        => page[p].view \in MatchesOf(w, "live")
  <2> SUFFICES ASSUME page[p].phase = "matchFound", p \notin unseen
               PROVE  page[p].view \in MatchesOf(w, "live")
    OBVIOUS
  <2>1. page[p].view = LastOf(w)
    BY <1>0 DEF EventOf, Viewed
  <2>2. OneLive(w) /\ MatchesOf(w, "live") # {}
    BY <1>0, <1>5, <1>7 DEF OneLiveInv, ShowsIt, Live
  <2> QED
    BY <2>1, <2>2 DEF OneLive
<1>10. CASE page[p].phase = "queued"
  BY <1>5, <1>7, <1>10 DEF ShowsIt, Queued
<1>11. CASE page[p].phase = "idle"
  BY <1>5, <1>7, <1>11 DEF ShowsIt, Queued, Live
<1>12. CASE page[p].phase = "matchFound"
  BY <1>5, <1>7, <1>9, <1>12 DEF ShowsIt, Live
<1>13. CASE page[p].phase = "reported"
  BY <1>5, <1>7, <1>13 DEF ShowsIt, Reported
<1>14. CASE page[p].phase = "disputed"
  BY <1>5, <1>7, <1>14 DEF ShowsIt, Disputed
<1> QED
  BY <1>8, <1>10, <1>11, <1>12, <1>13, <1>14

\* A page at rest that no event missed or crossed shows what the server knows
\* of its player: whether there is a ticket, which match is live, whether the
\* report has been taken (refreshMe, the answers and the websocket handler).
THEOREM ScreensAgree == Spec => []ScreenAgrees
  BY ArenaInvariant, QuietAgrees, PTL
=============================================================================
