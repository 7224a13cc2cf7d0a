---------------------------- MODULE BracketEngine ----------------------------
(***************************************************************************)
(* The tournament engine of the web application (src/web/src/lib/engine)   *)
(* and the relayer's port of its single elimination half                   *)
(* (src/relayer/src/bracket.rs).                                           *)
(*                                                                         *)
(* A tournament is a value: the engine is synchronous, keeps no state      *)
(* outside the object and is rebuilt from the stored document on every     *)
(* request.  Its methods are operators from a tournament to a tournament;  *)
(* module BracketPlay records outcomes in every order.                     *)
(*                                                                         *)
(* An entrant's id is its position in the entrant list (the set-up page    *)
(* numbers the players in order), 0 is `null`.  A match id is the match's  *)
(* position in `matches` (ids are handed out 1, 2, ...).                   *)
(***************************************************************************)
EXTENDS Integers, FiniteSets, SequencesExt

Nobody   == 0
None     == "none"
Outcomes == {"A", "B", "Draw", "Void"}

\* S as a sequence, in the strict total order Before.
Sorted(S, Before(_, _)) ==
    [k \in 1 .. Cardinality(S) |->
        CHOOSE x \in S : Cardinality({y \in S : Before(y, x)}) = k - 1]

-----------------------------------------------------------------------------
(* types.ts *)

matchWinner(m) ==
    CASE m.outcome = "A" -> m.a
      [] m.outcome = "B" -> m.b
      [] OTHER           -> Nobody

matchLoser(m) ==
    CASE m.outcome = "A" -> m.b
      [] m.outcome = "B" -> m.a
      [] OTHER           -> Nobody

isBye(m)   == (m.a = Nobody) # (m.b = Nobody)
isReady(m) == m.outcome = None /\ m.a # Nobody /\ m.b # Nobody

Match(round, a, b, to, side) ==
    [round |-> round, a |-> a, b |-> b, outcome |-> None, to |-> to, side |-> side]

-----------------------------------------------------------------------------
(* seeding.ts *)

bitReverse(x, k) ==
    LET rev[i \in 0 .. k] ==
            IF i = 0 THEN [r |-> 0, v |-> x]
            ELSE [r |-> (2 * rev[i-1].r) + (rev[i-1].v % 2), v |-> rev[i-1].v \div 2]
    IN  rev[k].r

\* The exponent k with 2^k the smallest power of two >= n.
nextPow2(n) == CHOOSE k \in 0 .. n : 2^k >= n /\ \A j \in 0 .. k - 1 : 2^j < n

seedSlots(k) == [s \in 1 .. 2^k |-> bitReverse(s - 1, k)]

-----------------------------------------------------------------------------
(* singleElim.ts.  Ids are round-major: FirstId(k, r) - 1 matches precede   *)
(* round r of a bracket of 2^k slots.                                       *)

SeedOrder(seeds) ==
    Sorted(DOMAIN seeds,
           LAMBDA x, y : \/ seeds[x] < seeds[y]
                         \/ seeds[x] = seeds[y] /\ x < y)

FirstId(k, r) == 2^k - 2^(k - r) + 1

buildSingleElim(seeds) ==
    LET k       == nextPow2(IF Len(seeds) < 2 THEN 2 ELSE Len(seeds))
        ordered == SeedOrder(seeds)
        slots   == seedSlots(k)
        At(slot) == LET rank == CHOOSE s \in DOMAIN slots : slots[s] = slot
                    IN  IF rank <= Len(ordered) THEN ordered[rank] ELSE Nobody
        RoundOf(id) == CHOOSE r \in 0 .. k - 1 : FirstId(k, r) <= id /\ id < FirstId(k, r + 1)
    IN  [id \in 1 .. 2^k - 1 |->
            LET r == RoundOf(id)
                i == id - FirstId(k, r)
            IN  Match(r, IF r = 0 THEN At(2 * i) ELSE Nobody,
                         IF r = 0 THEN At(2 * i + 1) ELSE Nobody,
                         IF r + 1 < k THEN FirstId(k, r + 1) + i \div 2 ELSE 0,
                         IF i % 2 = 0 THEN "A" ELSE "B")]

\* Variant: in every round.
CompleteByesVariant(ms) ==
    [id \in DOMAIN ms |->
        IF ms[id].outcome = None /\ isBye(ms[id])
        THEN [ms[id] EXCEPT !.outcome = IF ms[id].a # Nobody THEN "A" ELSE "B"]
        ELSE ms[id]]

CompleteByes(ms) ==
    [id \in DOMAIN ms |->
        IF ms[id].round = 0 /\ ms[id].outcome = None /\ isBye(ms[id])
        THEN [ms[id] EXCEPT !.outcome = IF ms[id].a # Nobody THEN "A" ELSE "B"]
        ELSE ms[id]]

\* Variant: but always into side A of the next match.
PropagateWinnersVariant(ms) ==
    LET Arriving(id) == {matchWinner(ms[f]) : f \in {g \in DOMAIN ms : ms[g].to = id}} \ {Nobody}
    IN  [id \in DOMAIN ms |->
            IF ms[id].a = Nobody /\ Arriving(id) # {}
            THEN [ms[id] EXCEPT !.a = CHOOSE w \in Arriving(id) : TRUE] ELSE ms[id]]

PropagateWinners(ms) ==
    LET Arriving(id, side) ==
            {matchWinner(ms[f]) : f \in {g \in DOMAIN ms : /\ ms[g].to = id
                                                           /\ ms[g].side = side}} \ {Nobody}
        Seat(old, id, side) == IF old = Nobody /\ Arriving(id, side) # {}
                               THEN CHOOSE w \in Arriving(id, side) : TRUE
                               ELSE old
    IN  [id \in DOMAIN ms |-> [ms[id] EXCEPT !.a = Seat(@, id, "A"),
                                             !.b = Seat(@, id, "B")]]

\* The `for (;;)` loop: a pass per round, and so one per entrant, reaches the
\* fixed point.
advanceSingleElim(ms, entrants) ==
    LET pass[k \in 0 .. entrants] ==
            IF k = 0 THEN ms ELSE PropagateWinners(CompleteByes(pass[k - 1]))
    IN  pass[entrants]

-----------------------------------------------------------------------------
(* roundRobin.ts: the circle method. *)

buildRoundRobin(n) ==
    LET padded == n + (n % 2)
        half   == padded \div 2
        circle[r \in 0 .. padded - 2] ==
            IF r = 0 THEN [i \in 1 .. padded |-> IF i <= n THEN i ELSE Nobody]
            ELSE <<circle[r-1][1], circle[r-1][padded]>> \o SubSeq(circle[r-1], 2, padded - 1)
        RoundPairs(r) ==
            SelectSeq([i \in 1 .. half |->
                          Match(r, circle[r][i], circle[r][padded + 1 - i], 0, "A")],
                      LAMBDA m : m.a # Nobody /\ m.b # Nobody)
    IN  FlattenSeq([r \in 1 .. padded - 1 |-> RoundPairs(r - 1)])

-----------------------------------------------------------------------------
(* tournament.ts and swiss.ts.  A tournament is a record; score2 is twice    *)
(* the Swiss score (a draw counts one half).                                *)

SwissOrder(t) ==
    Sorted(DOMAIN t.seeds,
        LAMBDA x, y : \/ t.score2[x] > t.score2[y]
                      \/ /\ t.score2[x] = t.score2[y]
                         /\ \/ t.seeds[x] < t.seeds[y]
                            \/ t.seeds[x] = t.seeds[y] /\ x < y)

\* Variant: without the look at who has met whom.
pairSwissRoundVariant(t) ==
    LET idx == SwissOrder(t)
    IN  [t EXCEPT !.matches = @ \o [k \in 1 .. Len(idx) \div 2 |->
                                       Match(t.round, idx[2 * k - 1], idx[2 * k], 0, "A")]]

pairSwissRound(t) ==
    LET idx == SwissOrder(t)
        PairNext(acc, i) ==
            LET open == SelectSeq(idx, LAMBDA k : /\ k # i /\ k \notin acc.paired
                                                  /\ k \notin acc.played[i])
                j    == Head(open)
            IN IF i \in acc.paired \/ open = <<>> THEN acc
               ELSE [paired  |-> acc.paired \cup {i, j},
                     matches |-> Append(acc.matches, Match(t.round, i, j, 0, "A")),
                     played  |-> [acc.played EXCEPT ![i] = @ \cup {j}, ![j] = @ \cup {i}]]
        Paired(end) == [t EXCEPT !.matches = end.matches, !.played = end.played]
    IN  Paired(FoldLeft(PairNext, [paired |-> {}, matches |-> t.matches, played |-> t.played], idx))

swissRoundOpen(t) == \E m \in ToSet(t.matches) : m.round = t.round /\ isReady(m)

applySwissResults(t) ==
    LET Points2(i) ==
            LET Of(m) == CASE m.round # t.round  -> 0
                           [] matchWinner(m) = i -> 2
                           [] m.outcome = "Draw" /\ i \in {m.a, m.b} -> 1
                           [] OTHER -> 0
            IN  FoldLeft(LAMBDA s, m : s + Of(m), 0, t.matches)
    IN  [t EXCEPT !.score2 = [i \in DOMAIN @ |-> @[i] + Points2(i)]]

recomputeComplete(t) ==
    LET decided(m) == m.outcome # None
        ms         == ToSet(t.matches)
    IN  [t EXCEPT !.complete =
            CASE t.format = "single_elimination" -> \E m \in ms : m.to = 0 /\ decided(m)
              [] t.format = "round_robin" -> t.matches # <<>> /\ \A m \in ms : decided(m)
              [] t.format = "swiss" -> /\ t.rounds = t.round + 1
                                       /\ t.matches # <<>>
                                       /\ \A m \in ms : decided(m)]

advance(t) ==
    CASE t.format = "single_elimination" ->
           recomputeComplete([t EXCEPT !.matches = advanceSingleElim(@, Len(t.seeds))])
      [] t.format = "round_robin" -> recomputeComplete(t)
      [] t.format = "swiss" ->
           IF swissRoundOpen(t) THEN t
           ELSE LET scored == applySwissResults(t)
                IN  recomputeComplete(
                        IF t.round + 1 < t.rounds
                        THEN pairSwissRound([scored EXCEPT !.round = @ + 1])
                        ELSE scored)

\* Tournament.new: the set-up page and the API refuse fewer than two entrants.
newTournament(format, seeds, rounds) ==
    LET n     == Len(seeds)
        blank == [format |-> format, seeds |-> seeds, rounds |-> rounds, round |-> 0,
                  matches |-> <<>>, complete |-> FALSE,
                  score2 |-> [i \in 1 .. n |-> 0], played |-> [i \in 1 .. n |-> {}]]
    IN  recomputeComplete(
            CASE format = "single_elimination" ->
                   [blank EXCEPT !.matches = advanceSingleElim(buildSingleElim(seeds), n)]
              [] format = "round_robin" -> [blank EXCEPT !.matches = buildRoundRobin(n)]
              [] format = "swiss"       -> pairSwissRound(blank))

pending(t) == {id \in DOMAIN t.matches : isReady(t.matches[id])}

\* The exceptions of `record`: UnknownMatch, NotRecordable, DrawNotAllowed.
Recordable(t, id, outcome) ==
    /\ id \in pending(t)
    /\ ~(t.format = "single_elimination" /\ outcome = "Draw")

record(t, id, outcome) == advance([t EXCEPT !.matches[id].outcome = outcome])

\* Variant (no specification uses it): newest match first.
ByIdVariant(results) == Sorted(results, LAMBDA x, y : x.id > y.id)

\* The relayer's order of replay.
ById(results) == Sorted(results, LAMBDA x, y : x.id < y.id)

\* One recorded result replayed; `ok` becomes FALSE when record throws.
Stepped(s, r) == IF s.ok /\ Recordable(s.t, r.id, r.outcome)
                 THEN [s EXCEPT !.t = record(s.t, r.id, r.outcome)]
                 ELSE [s EXCEPT !.ok = FALSE]

\* Every reader of a stored document rebuilds the tournament this way: a new
\* one, then the recorded results one after the other.
reconstruct(format, seeds, rounds, results) ==
    FoldLeft(Stepped, [ok |-> TRUE, t |-> newTournament(format, seeds, rounds)], results)

-----------------------------------------------------------------------------
(* Standings and winners. *)

champion(t) ==
    LET finals == {m \in ToSet(t.matches) : m.to = 0 /\ m.outcome # None}
    IN  IF finals = {} THEN Nobody ELSE matchWinner(CHOOSE m \in finals : TRUE)

Wins(t, i)   == Cardinality({id \in DOMAIN t.matches :
                                /\ matchWinner(t.matches[id]) = i
                                /\ ~isBye(t.matches[id])})
Losses(t, i) == Cardinality({id \in DOMAIN t.matches : matchLoser(t.matches[id]) = i})

standings(t) ==
    Sorted(DOMAIN t.seeds,
        LAMBDA x, y : \/ Wins(t, x) > Wins(t, y)
                      \/ /\ Wins(t, x) = Wins(t, y)
                         /\ \/ Losses(t, x) < Losses(t, y)
                            \/ Losses(t, x) = Losses(t, y) /\ x < y)

\* The round an entrant lost in; 0 for one who never lost (`?? 0`).
elimRound(t, i) ==
    LET lost == {m.round : m \in {x \in ToSet(t.matches) : matchLoser(x) = i}}
    IN  IF lost = {} THEN 0 ELSE CHOOSE r \in lost : \A s \in lost : s <= r

\* Variant: earliest exit first.
OutLaterVariant(t, x, y) == \/ elimRound(t, x) < elimRound(t, y)
                            \/ elimRound(t, x) = elimRound(t, y) /\ t.seeds[x] < t.seeds[y]

OutLater(t, x, y) == \/ elimRound(t, x) > elimRound(t, y)
                     \/ elimRound(t, x) = elimRound(t, y) /\ t.seeds[x] < t.seeds[y]

\* Variant: everybody but the champion in seed order.
singleElimOrderVariant(t) ==
    LET rest == Sorted(DOMAIN t.seeds \ {champion(t)},
                    LAMBDA x, y : \/ t.seeds[x] < t.seeds[y]
                                  \/ t.seeds[x] = t.seeds[y] /\ x < y)
    IN  IF champion(t) = Nobody THEN rest ELSE <<champion(t)>> \o rest

singleElimOrder(t) ==
    LET rest == Sorted(DOMAIN t.seeds \ {champion(t)},
                    LAMBDA x, y : \/ OutLater(t, x, y)
                                  \/ ~OutLater(t, y, x) /\ x < y)
    IN  IF champion(t) = Nobody THEN rest ELSE <<champion(t)>> \o rest

winners(t) ==
    IF t.format = "single_elimination" THEN singleElimOrder(t) ELSE standings(t)

-----------------------------------------------------------------------------
(* relayer/src/bracket.rs, derive_single_elim_winners: the winner lists the *)
(* relayer may derive from a stored bracket; {} when it refuses.  Entrants  *)
(* it cannot tell apart by round and seed come out in the order of a        *)
(* HashMap's keys, which is any order.                                      *)

RelayerWinners(seeds, results) ==
    LET run  == reconstruct("single_elimination", seeds, 0, ById(results))
        Fits(s) == \A x, y \in DOMAIN s : x < y => ~OutLater(run.t, s[y], s[x])
    IN  IF \/ Len(seeds) < 2
           \/ ~run.ok
           \/ \E m \in ToSet(run.t.matches) : m.outcome = None
           \/ champion(run.t) = Nobody
        THEN {}
        ELSE {<<champion(run.t)>> \o rest :
                 rest \in {s \in SetToSeqs(DOMAIN seeds \ {champion(run.t)}) : Fits(s)}}

=============================================================================
