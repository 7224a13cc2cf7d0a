----------------------------- MODULE BracketPlay -----------------------------
(***************************************************************************)
(* A tournament being played: any pending match is recorded next, with any *)
(* outcome the engine takes.  `tour` is the engine's object, `log` the     *)
(* recorded results, as the stored document keeps them.                    *)
(***************************************************************************)
EXTENDS BracketEngine

CONSTANT Draws   \* the tournaments: records [format, seeds, rounds, outcomes]

ASSUME DrawsAssumption ==
    \A d \in Draws :
        /\ d.format \in {"single_elimination", "round_robin", "swiss"}
        /\ d.seeds \in Seq(Nat) /\ Len(d.seeds) >= 2   \* the set-up page and the API
        /\ d.rounds \in Nat /\ d.outcomes \subseteq Outcomes

VARIABLES tour, log, outcomes

playVars == <<tour, log, outcomes>>

Init ==
    \E d \in Draws :
        /\ tour = newTournament(d.format, d.seeds, d.rounds)
        /\ outcomes = d.outcomes
        /\ log = {}

\* Tournament.record
Record(id, o) ==
    /\ Recordable(tour, id, o)
    /\ tour' = record(tour, id, o)
    /\ log' = log \cup {[id |-> id, outcome |-> o]}
    /\ UNCHANGED outcomes

Next == \E id \in DOMAIN tour.matches, o \in outcomes : Record(id, o)

Spec == Init /\ [][Next]_playVars

-----------------------------------------------------------------------------
SingleElim == tour.format = "single_elimination"
Players    == DOMAIN tour.seeds
Met        == {id \in DOMAIN tour.matches : /\ tour.matches[id].a # Nobody
                                            /\ tour.matches[id].b # Nobody}
Pair(id)   == {tour.matches[id].a, tour.matches[id].b}
Voided     == \E r \in log : r.outcome = "Void"
Place(i)   == CHOOSE k \in Players : winners(tour)[k] = i

\* The document keeps results in the order they arrived; the relayer replays
\* them in ascending match id.  Whatever the order of play was, that rebuilds
\* the very tournament the players saw: rounds, byes, pairings, completion.
ReplayOrderFree ==
    reconstruct(tour.format, tour.seeds, tour.rounds, ById(log)) = [ok |-> TRUE, t |-> tour]

\* The relayer's own derivation (bracket.rs) answers exactly when the web
\* engine has a champion, and with the web engine's placements; it has a
\* choice only between entrants with equal seeds.
RelayerAgrees ==
    SingleElim =>
        LET derived == RelayerWinners(tour.seeds, log)
        IN  IF tour.complete /\ champion(tour) # Nobody
            THEN /\ winners(tour) \in derived
                 /\ IsInjective(tour.seeds) => derived = {winners(tour)}
            ELSE derived = {}

\* Prize order: everybody is placed once, and in a finished single
\* elimination nobody is placed above the opponent who beat them.
BeatenBelow ==
    /\ ToSet(winners(tour)) = Players /\ Len(winners(tour)) = Cardinality(Players)
    /\ SingleElim /\ tour.complete /\ champion(tour) # Nobody =>
          \A id \in Met : matchWinner(tour.matches[id]) # Nobody =>
              Place(matchWinner(tour.matches[id])) < Place(matchLoser(tour.matches[id]))

\* No format lets two entrants meet twice, or one entrant play two matches of
\* a round; a round robin brings every two entrants together.
PairsOnce ==
    /\ \A i, j \in Met : i # j =>
          /\ Pair(i) # Pair(j)
          /\ tour.matches[i].round = tour.matches[j].round => Pair(i) \cap Pair(j) = {}
    /\ \A i \in Met : Cardinality(Pair(i)) = 2
    /\ tour.format = "round_robin" =>
          {Pair(i) : i \in Met} = {p \in SUBSET Players : Cardinality(p) = 2}

\* A tournament that is not complete has a match to play: rounds never end
\* with nobody paired while rounds remain.  Two cases are left out because the
\* code does get stuck in them: a void match in a single elimination (its slot
\* in the next round stays empty) and more Swiss rounds than there are
\* opponents.
Playable ==
    \/ tour.complete
    \/ pending(tour) # {}
    \/ SingleElim /\ Voided
    \/ tour.format = "swiss"
       /\ tour.rounds > Len(tour.seeds) - IF Len(tour.seeds) % 2 = 0 THEN 1 ELSE 0

\* A single elimination implements Knockout: a decided match takes out one
\* entrant, for good, and the champion is the last one standing.  (The other
\* formats are mapped to an empty field, in which nothing happens.)
unbeaten == IF SingleElim
            THEN {i \in Players : \A m \in ToSet(tour.matches) : matchLoser(m) # i}
            ELSE {}
KO == INSTANCE Knockout WITH Entrants <- UNION {DOMAIN d.seeds : d \in Draws},
                             alive    <- unbeaten,
                             crowned  <- IF SingleElim THEN champion(tour) ELSE Nobody
ImplementsKnockout == KO!Spec

=============================================================================
