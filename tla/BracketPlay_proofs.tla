-------------------------- MODULE BracketPlay_proofs --------------------------
(***************************************************************************)
(* A tournament being played, with any number of entrants, any seeds and   *)
(* any order of play.                                                      *)
(***************************************************************************)
EXTENDS BracketPlay, BracketEngine_proofs

-----------------------------------------------------------------------------
(***************************************************************************)
(* The invariant.  The recorded results are all there is to know about a   *)
(* single elimination: InPlay determines its matches from them.            *)
(***************************************************************************)
Formats == {"single_elimination", "round_robin", "swiss"}

\* The engine's object, with the entrants it was made for.
IsTour(t) ==
  /\ t = [format |-> t.format, seeds |-> t.seeds, rounds |-> t.rounds, round |-> t.round,
          matches |-> t.matches, complete |-> t.complete, score2 |-> t.score2,
          played |-> t.played]
  /\ t.format \in Formats /\ t.seeds \in Seq(Nat) /\ Len(t.seeds) >= 2

IsResult(r) == r = [id |-> r.id, outcome |-> r.outcome] /\ r.outcome \in Outcomes

PlayTypes ==
  /\ IsTour(tour) /\ outcomes \subseteq Outcomes
  /\ IsFiniteSet(log) /\ \A r \in log : IsResult(r)

ElimPlay == SingleElim => /\ InPlay(tour, tour.seeds, tour.rounds, log)
                          /\ \A r \in log : r.outcome # "Draw"

PlayInv == PlayTypes /\ ElimPlay

\* What the methods of a tournament leave alone.
SameEntrants(t, u) == IsTour(u) /\ u.format = t.format /\ u.seeds = t.seeds /\ u.rounds = t.rounds

\* recomputeComplete touches nothing but the completion flag.
LEMMA RecomputeKeeps ==
  ASSUME NEW t, IsTour(t)
  PROVE  SameEntrants(t, recomputeComplete(t))
<1> DEFINE c == CASE t.format = "single_elimination" ->
                         \E m \in ToSet(t.matches) : m.to = 0 /\ m.outcome # None
                  [] t.format = "round_robin" ->
                         t.matches # <<>> /\ \A m \in ToSet(t.matches) : m.outcome # None
                  [] t.format = "swiss" -> /\ t.rounds = t.round + 1
                                           /\ t.matches # <<>>
                                           /\ \A m \in ToSet(t.matches) : m.outcome # None
<1>1. recomputeComplete(t) = [t EXCEPT !.complete = c]
  BY Zenon DEF recomputeComplete
<1> HIDE DEF c
<1>2. [t EXCEPT !.complete = c] =
        [format |-> t.format, seeds |-> t.seeds, rounds |-> t.rounds, round |-> t.round,
         matches |-> t.matches, complete |-> c, score2 |-> t.score2, played |-> t.played]
  BY DEF IsTour
<1> QED
  BY <1>1, <1>2 DEF IsTour, SameEntrants

\* New matches leave the format and the entrants alone.
LEMMA MatchesKeep ==
  ASSUME NEW t, IsTour(t), NEW ms
  PROVE  SameEntrants(t, [t EXCEPT !.matches = ms])
<1>2. [t EXCEPT !.matches = ms] =
        [format |-> t.format, seeds |-> t.seeds, rounds |-> t.rounds, round |-> t.round,
         matches |-> ms, complete |-> t.complete, score2 |-> t.score2, played |-> t.played]
  BY DEF IsTour
<1> QED
  BY <1>2 DEF IsTour, SameEntrants

\* Pairing a Swiss round leaves the format and the entrants alone.
LEMMA PairKeeps ==
  ASSUME NEW t, IsTour(t)
  PROVE  SameEntrants(t, pairSwissRound(t))
<1>1. PICK ms, ps : pairSwissRound(t) = [t EXCEPT !.matches = ms, !.played = ps]
  BY Zenon DEF pairSwissRound
<1> DEFINE u == [t EXCEPT !.matches = ms]
           v == [u EXCEPT !.played = ps]
<1>2. pairSwissRound(t) = v
  BY <1>1 DEF IsTour
<1>3. SameEntrants(t, u)
  BY MatchesKeep
<1> HIDE DEF u
<1>4. v = [format |-> u.format, seeds |-> u.seeds, rounds |-> u.rounds, round |-> u.round,
           matches |-> u.matches, complete |-> u.complete, score2 |-> u.score2, played |-> ps]
  BY <1>3 DEF IsTour, SameEntrants
<1> HIDE DEF v
<1> QED
  BY <1>2, <1>3, <1>4 DEF IsTour, SameEntrants

\* So does adding up the scores of a round.
LEMMA ScoreKeeps ==
  ASSUME NEW t, IsTour(t)
  PROVE  SameEntrants(t, applySwissResults(t))
<1>1. PICK sc : applySwissResults(t) = [t EXCEPT !.score2 = sc]
  BY Zenon DEF applySwissResults
<1>2. [t EXCEPT !.score2 = sc] =
        [format |-> t.format, seeds |-> t.seeds, rounds |-> t.rounds, round |-> t.round,
         matches |-> t.matches, complete |-> t.complete, score2 |-> sc, played |-> t.played]
  BY DEF IsTour
<1> QED
  BY <1>1, <1>2 DEF IsTour, SameEntrants

\* So does moving to the next round.
LEMMA RoundKeeps ==
  ASSUME NEW t, IsTour(t), NEW r
  PROVE  SameEntrants(t, [t EXCEPT !.round = r])
<1>2. [t EXCEPT !.round = r] =
        [format |-> t.format, seeds |-> t.seeds, rounds |-> t.rounds, round |-> r,
         matches |-> t.matches, complete |-> t.complete, score2 |-> t.score2, played |-> t.played]
  BY DEF IsTour
<1> QED
  BY <1>2 DEF IsTour, SameEntrants

\* advance keeps the format, the seeds and the number of rounds, in every
\* format.
LEMMA AdvanceKeeps ==
  ASSUME NEW t, IsTour(t)
  PROVE  SameEntrants(t, advance(t))
<1>0. t.format \in Formats /\ SameEntrants(t, t)
  BY DEF IsTour, SameEntrants
<1>a. ASSUME NEW u, NEW v, SameEntrants(t, u), SameEntrants(u, v) PROVE SameEntrants(t, v)
  BY <1>a DEF SameEntrants
<1>b. \A u : SameEntrants(t, u) => IsTour(u)
  BY DEF SameEntrants
<1>1. CASE t.format = "single_elimination"
  <2> DEFINE u == [t EXCEPT !.matches = advanceSingleElim(t.matches, Len(t.seeds))]
  <2>1. advance(t) = recomputeComplete(u)
    BY <1>1, Zenon DEF advance
  <2>2. SameEntrants(t, u)
    BY MatchesKeep
  <2> HIDE DEF u
  <2> QED
    BY <1>a, <1>b, <2>1, <2>2, RecomputeKeeps
<1>2. CASE t.format = "round_robin"
  <2>1. advance(t) = recomputeComplete(t)
    BY <1>2 DEF advance
  <2> QED
    BY <2>1, RecomputeKeeps
<1>3. CASE t.format = "swiss"
  <2> DEFINE s == applySwissResults(t)
             u == [s EXCEPT !.round = s.round + 1]
             v == pairSwissRound(u)
  <2>1. advance(t) = IF swissRoundOpen(t) THEN t
                     ELSE recomputeComplete(IF t.round + 1 < t.rounds THEN v ELSE s)
    BY <1>3, Zenon DEF advance
  <2>2. SameEntrants(t, s)
    BY ScoreKeeps
  <2>3. SameEntrants(s, u)
    <3> HIDE DEF s
    <3> QED
      BY <1>b, <2>2, RoundKeeps
  <2>4. SameEntrants(t, u)
    <3> HIDE DEF s, u
    <3> QED
      BY <1>a, <2>2, <2>3
  <2>5. SameEntrants(t, v)
    <3> HIDE DEF s, u
    <3> QED
      BY <1>a, <1>b, <2>4, PairKeeps
  <2> HIDE DEF s, u, v
  <2>6. SameEntrants(t, recomputeComplete(v)) /\ SameEntrants(t, recomputeComplete(s))
    BY <1>a, <1>b, <2>2, <2>5, RecomputeKeeps
  <2> QED
    BY <1>0, <2>1, <2>6
<1> QED
  BY <1>0, <1>1, <1>2, <1>3 DEF Formats

\* A new tournament has the format and the entrants it was asked for.
LEMMA NewTour ==
  ASSUME NEW format \in Formats, NEW seeds \in Seq(Nat), Len(seeds) >= 2, NEW rounds
  PROVE  LET t == newTournament(format, seeds, rounds) IN
         IsTour(t) /\ t.format = format /\ t.seeds = seeds /\ t.rounds = rounds
<1> DEFINE n     == Len(seeds)
           blank == [format |-> format, seeds |-> seeds, rounds |-> rounds, round |-> 0,
                     matches |-> <<>>, complete |-> FALSE,
                     score2 |-> [i \in 1 .. n |-> 0], played |-> [i \in 1 .. n |-> {}]]
           t     == newTournament(format, seeds, rounds)
<1>1. IsTour(blank) /\ blank.format = format /\ blank.seeds = seeds /\ blank.rounds = rounds
  <2> DEFINE sc == [i \in 1 .. n |-> 0]
             pl == [i \in 1 .. n |-> {}]
  <2> HIDE DEF sc, pl
  <2> QED
    BY DEF IsTour
<1>2. \/ t = recomputeComplete([blank EXCEPT !.matches = advanceSingleElim(buildSingleElim(seeds), n)])
      \/ t = recomputeComplete([blank EXCEPT !.matches = buildRoundRobin(n)])
      \/ t = recomputeComplete(pairSwissRound(blank))
  BY Zenon DEF newTournament, Formats
<1> HIDE DEF blank, t, n
<1>3. PICK u : t = recomputeComplete(u) /\ SameEntrants(blank, u)
  BY <1>1, <1>2, MatchesKeep, PairKeeps, Zenon
<1>4. IsTour(u)
  BY <1>3 DEF SameEntrants
<1>5. SameEntrants(u, t)
  BY <1>3, <1>4, RecomputeKeeps
<1> QED
  BY <1>1, <1>3, <1>5 DEF SameEntrants, t

-----------------------------------------------------------------------------
(***************************************************************************)
(* Replaying what was recorded, in the order of the ids.                   *)
(***************************************************************************)
\* Results that can be recorded in some order: one for a match, and no draws.
OneEach(S) ==
  /\ IsFiniteSet(S) /\ \A r \in S : IsResult(r) /\ r.id \in Nat /\ r.outcome # "Draw"
  /\ \A x, y \in S : x.id = y.id => x = y

\* A match recorded has one result: no two results of the log share a match.
LEMMA ResultsOneEach ==
  ASSUME NEW b, Tree(b), NEW ms, NEW S, Recorded(b, ms, S), IsFiniteSet(S),
         \A r \in S : IsResult(r) /\ r.outcome # "Draw"
  PROVE  OneEach(S)
<1>1. ASSUME NEW x \in S, NEW y \in S, x.id = y.id PROVE x = y
  BY <1>1 DEF Recorded, IsResult
<1>2. \A r \in S : r.id \in Nat
  BY DEF Recorded, Tree
<1> QED
  BY <1>1, <1>2 DEF OneEach

\* The next result by id can be recorded when every result with a smaller id was.
LEMMA NextGoes ==
  ASSUME NEW seeds, Len(seeds) \in Nat \ {0}, NEW rounds, NEW q, NEW t, NEW S,
         InPlay(t, seeds, rounds, S), OneEach(S), NEW x \in S,
         NEW P, P = {r \in S : r.id < x.id}, NEW u, InPlay(u, seeds, q, P)
  PROVE  Recordable(u, x.id, x.outcome)
<1> DEFINE b == buildSingleElim(seeds)
           ms == t.matches
           ns == u.matches
<1>1. Tree(b) /\ Settled(b, ms, S) /\ Settled(b, ns, P)
  BY BuiltTree DEF InPlay
<1> HIDE DEF b, ms, ns
<1>2. x.id \in Nat /\ x.id \in DOMAIN b /\ ms[x.id].a # Nobody /\ ms[x.id].b # Nobody
  BY <1>1 DEF Settled, Recorded, OneEach, IsResult
<1>3. ns[x.id].a = ms[x.id].a /\ ns[x.id].b = ms[x.id].b
  <2>1. {r \in S : r.id < x.id} = {r \in P : r.id < x.id}
    OBVIOUS
  <2>2. \A id \in DOMAIN b : id <= x.id => ms[id].a = ns[id].a /\ ms[id].b = ns[id].b
    BY <1>1, <1>2, <2>1, SettledBelow
  <2> QED
    BY <1>2, <2>2
<1>4. ns[x.id].outcome = None
  <2> SUFFICES ASSUME ns[x.id].outcome # None PROVE FALSE
    OBVIOUS
  <2>1. FirstBye(ns[x.id]) \/ \E r \in P : r.id = x.id
    BY <1>1, <1>2 DEF Settled, Recorded
  <2>2. ~FirstBye(ns[x.id])
    BY <1>2, <1>3 DEF FirstBye, isBye
  <2> QED
    BY <1>2, <2>1, <2>2
<1>5. x.id \in DOMAIN ns
  BY <1>1, <1>2 DEF Settled, SameTree
<1>6. x.id \in pending(u)
  BY <1>2, <1>3, <1>4, <1>5 DEF pending, isReady, ns
<1> QED
  BY <1>6 DEF Recordable, OneEach

\* Replayed in the order of the ids, the results of a single elimination are
\* all taken.
LEMMA ReplayGoes ==
  ASSUME NEW seeds, Len(seeds) \in Nat \ {0}, NEW rounds, NEW q, NEW t, NEW S,
         InPlay(t, seeds, rounds, S), OneEach(S)
  PROVE  LET run == reconstruct("single_elimination", seeds, q, ById(S)) IN
         run = [ok |-> TRUE, t |-> run.t] /\ InPlay(run.t, seeds, q, S)
<1> DEFINE rs == ById(S)
           n  == Len(rs)
           st == [ok |-> TRUE, t |-> newTournament("single_elimination", seeds, q)]
           f  == TheRun(st, rs)
           P(k) == {rs[i] : i \in 1 .. k}
<1>1. /\ rs \in Seq(S) /\ ToSet(rs) = S
      /\ \A i, j \in 1 .. n : i < j => rs[i].id < rs[j].id
  <2>1. IsFiniteSet(S) /\ (\A r \in S : r.id \in Nat) /\ \A x, y \in S : x.id = y.id => x = y
    BY DEF OneEach, IsResult
  <2> QED
    BY <2>1, ByIdLists
<1> HIDE DEF rs
<1>2. Stage(st, seeds, q, {}) /\ st.ok
  BY NewInPlay DEF Stage
<1> HIDE DEF st
<1>3. n \in Nat /\ Run(st, rs, n, f)
  BY <1>1, RunEnds
<1>e. FoldLeft(Stepped, st, rs) = f[1 .. n]
  BY <1>1, RunEnds
<1>4. \A i \in 1 .. n : rs[i] \in S /\ rs[i].outcome # None /\ rs[i].id \in Nat
  <2>1. \A i \in 1 .. n : rs[i] \in S
    BY <1>1
  <2>2. \A r \in S : r.outcome # None /\ r.id \in Nat
    BY DEF OneEach, IsResult, Outcomes, None
  <2> HIDE DEF n
  <2> QED
    BY <2>1, <2>2
<1> HIDE DEF f, n
<1>5. ASSUME NEW k \in Nat, k <= n PROVE Stage(f[1 .. k], seeds, q, P(k))
  <2>1. \A i \in 1 .. n : rs[i].outcome # None
    BY <1>4
  <2>a. k <= n /\ n \in Nat
    BY <1>3, <1>5
  <2>b. Run(st, rs, n, f)
    BY <1>3
  <2>c. Stage(st, seeds, q, {})
    BY <1>2
  <2>d. /\ Stage(f[1 .. k], seeds, q, {rs[i] : i \in 1 .. k})
        /\ f[1 .. k].ok => \A i \in 1 .. k : rs[i].outcome # "Draw"
    <3> HIDE DEF P
    <3> QED
      BY <2>a, <2>b, <2>c, <2>1, RunStages
  <2>2. Stage(f[1 .. k], seeds, q, {rs[i] : i \in 1 .. k})
    BY <2>d, Zenon
  <2> QED
    BY <2>2
<1>6. P(n) = S
  BY <1>1, <1>3 DEF ToSet, n
<1>7. ASSUME NEW k \in Nat, k + 1 <= n, f[1 .. k].ok PROVE f[1 .. k + 1].ok
  <2> HIDE DEF P
  <2>1. f[1 .. k + 1] = Stepped(f[1 .. k], rs[k + 1])
    BY <1>3, <1>7, RunStep
  <2>0. Stage(f[1 .. k], seeds, q, P(k))
    <3>1. k <= n
      BY <1>3, <1>7
    <3> QED
      BY <1>5, <3>1, Zenon
  <2>2. InPlay(f[1 .. k].t, seeds, q, P(k))
    BY <1>7, <2>0 DEF Stage
  <2> DEFINE x == rs[k + 1]
  <2>3. x \in S
    BY <1>3, <1>4, <1>7
  <2>4. P(k) = {r \in S : r.id < x.id}
    <3> USE DEF P
    <3>1. ASSUME NEW i \in 1 .. k PROVE rs[i] \in S /\ rs[i].id < x.id
      <4>1. i \in 1 .. n /\ k + 1 \in 1 .. n /\ i < k + 1
        BY <1>3, <1>7
      <4> QED
        BY <1>1, <1>4, <4>1
    <3>2. ASSUME NEW r \in S, r.id < x.id PROVE r \in P(k)
      <4>1. PICK i \in 1 .. n : r = rs[i]
        BY <1>6
      <4>2. k + 1 \in 1 .. n /\ rs[i].id \in Nat /\ x.id \in Nat
        BY <1>3, <1>4, <1>7
      <4>3. ~(i = k + 1) /\ ~(k + 1 < i)
        BY <1>1, <3>2, <4>1, <4>2
      <4>4. i \in 1 .. k
        BY <1>3, <4>1, <4>3
      <4> QED
        BY <4>1, <4>4
    <3> QED
      BY <3>1, <3>2
  <2> HIDE DEF x
  <2>5. Recordable(f[1 .. k].t, x.id, x.outcome)
    BY <2>2, <2>3, <2>4, NextGoes
  <2>6. Stepped(f[1 .. k], x) = [f[1 .. k] EXCEPT !.t = record(f[1 .. k].t, x.id, x.outcome)]
    BY <1>7, <2>5 DEF Stepped
  <2>7. f[1 .. k] = [ok |-> f[1 .. k].ok, t |-> f[1 .. k].t]
    BY <2>0 DEF Stage
  <2>8. f[1 .. k + 1].ok
    <3> DEFINE s == f[1 .. k]
               v == record(s.t, x.id, x.outcome)
    <3> HIDE DEF s, v
    <3>1. [s EXCEPT !.t = v].ok = s.ok
      BY <2>7 DEF s
    <3> QED
      BY <1>7, <2>1, <2>6, <3>1 DEF s, v, x
  <2> QED
    BY <2>8
<1>8. f[1 .. n].ok
  <2> DEFINE T == {k \in Nat : k <= n => f[1 .. k].ok}
  <2>1. 0 \in T
    BY <1>2, <1>3, RunStart
  <2>2. \A k \in T : k + 1 \in T
    BY <1>3, <1>7
  <2>3. T \in SUBSET Nat
    OBVIOUS
  <2>4. T = Nat
    <3> HIDE DEF T
    <3> QED
      BY <2>1, <2>2, <2>3, AllNumbers
  <2>5. n \in T
    BY <1>3, <2>4
  <2> QED
    BY <1>3, <2>5
<1> DEFINE e == f[1 .. n]
<1>9. Stage(e, seeds, q, S) /\ e.ok
  <2>1. Stage(e, seeds, q, P(n))
    <3> HIDE DEF P
    <3> QED
      BY <1>3, <1>5
  <2> QED
    BY <1>6, <1>8, <2>1
<1>10. reconstruct("single_elimination", seeds, q, rs) = e
  BY <1>e, Zenon DEF reconstruct, st
<1> HIDE DEF e
<1>11. e = [ok |-> TRUE, t |-> e.t]
  BY <1>9 DEF Stage
<1> QED
  BY <1>9, <1>10, <1>11 DEF Stage, rs

-----------------------------------------------------------------------------
(***************************************************************************)
(* The whole bracket: every seat of a later round has a match that fills   *)
(* it, and only the last match, the final, fills none.                     *)
(***************************************************************************)
Whole(b) ==
  \E n \in Nat \ {0} :
    /\ DOMAIN b = 1 .. n
    /\ \A id \in DOMAIN b : b[id].to = 0 <=> id = n
    /\ \A id \in DOMAIN b, side \in {"A", "B"} :
          b[id].round # 0 => \E f \in DOMAIN b : b[f].to = id /\ b[f].side = side

\* The two matches whose winners meet in match id of round r.
LEMMA Feeder ==
  ASSUME NEW k \in Nat, NEW r \in 1 .. k - 1, NEW id \in 1 .. Power(k) - 1, InRound(k, id, r),
         NEW h \in {0, 1}, NEW f, f = FirstId(k, r - 1) + 2 * (id - FirstId(k, r)) + h
  PROVE  /\ f \in 1 .. Power(k) - 1 /\ RoundIn(k, f) = r - 1
         /\ FirstId(k, r) + (f - FirstId(k, r - 1)) \div 2 = id
         /\ (f - FirstId(k, r - 1)) % 2 = h
<1> DEFINE q == r - 1
           i == id - FirstId(k, r)
           w == Power(k - (r + 1))
<1>1. /\ \A x \in 0 .. k : FirstId(k, x) \in Nat
      /\ FirstId(k, 0) = 1 /\ FirstId(k, k) = Power(k)
      /\ \A x \in 0 .. k - 1 : /\ FirstId(k, x + 1) = FirstId(k, x) + Power(k - (x + 1))
                               /\ Power(k - (x + 1)) \in Nat \ {0}
  BY FirstIds
<1>2. q \in 0 .. k - 1 /\ q + 1 = r /\ r + 1 \in 0 .. k
  OBVIOUS
<1>3. /\ FirstId(k, r) = FirstId(k, q) + Power(k - r) /\ FirstId(k, r + 1) = FirstId(k, r) + w
      /\ FirstId(k, q) \in Nat /\ FirstId(k, r) \in Nat /\ w \in Nat \ {0}
  BY <1>1, <1>2
<1>4. Power(k - r) = w + w
  <2>1. k - (r + 1) \in Nat /\ (k - (r + 1)) + 1 = k - r
    OBVIOUS
  <2> QED
    BY <2>1, PowerDoubles
<1> HIDE DEF w
<1>5. i \in 0 .. w - 1 /\ id = FirstId(k, r) + i
  BY <1>3 DEF InRound
<1> HIDE DEF i, q
<1>6. f = FirstId(k, q) + 2 * i + h
  BY DEF i, q
<1>7. FirstId(k, q) <= f /\ f < FirstId(k, r) /\ f \in Nat
  BY <1>3, <1>4, <1>5, <1>6
<1>8. 1 <= FirstId(k, q) /\ FirstId(k, r) <= Power(k) /\ Power(k) \in Nat
  <2>1. FirstId(k, 0) <= FirstId(k, q) /\ FirstId(k, r) <= FirstId(k, k)
    BY <1>2, FirstIdsGrow
  <2> QED
    BY <1>1, <2>1
<1>9. f \in 1 .. Power(k) - 1
  BY <1>3, <1>7, <1>8
<1>10. RoundIn(k, f) = q
  <2>1. InRound(k, f, q)
    BY <1>2, <1>7 DEF InRound
  <2> QED
    BY <1>2, <1>9, <2>1, OneRound
<1>11. (2 * i + h) \div 2 = i /\ (2 * i + h) % 2 = h
  BY <1>3, <1>5
<1>12. f - FirstId(k, q) = 2 * i + h
  BY <1>3, <1>5, <1>6
<1> QED
  BY <1>5, <1>9, <1>10, <1>11, <1>12 DEF q

\* The bracket buildSingleElim makes is whole.
LEMMA BuiltWhole ==
  ASSUME NEW seeds, Len(seeds) \in Nat
  PROVE  Whole(buildSingleElim(seeds))
<1> DEFINE k == BracketRounds(seeds)
           b == buildSingleElim(seeds)
           n == Power(k) - 1
           i(id) == id - FirstId(k, RoundIn(k, id))
<1>1. k \in Nat /\ Power(k) \in Nat /\ Power(k) >= 2
  <2>1. (IF Len(seeds) < 2 THEN 2 ELSE Len(seeds)) \in Nat
        /\ (IF Len(seeds) < 2 THEN 2 ELSE Len(seeds)) >= 2
    OBVIOUS
  <2>2. k \in Nat /\ Power(k) >= (IF Len(seeds) < 2 THEN 2 ELSE Len(seeds))
    BY <2>1, NextPow2 DEF BracketRounds
  <2>3. Power(k) \in Nat
    BY <2>2, PowerAbove
  <2> HIDE DEF k
  <2> QED
    BY <2>1, <2>2, <2>3
<1>2. k >= 1
  BY <1>1, PowerZero
<1>3. \A id \in 1 .. Power(k) - 1 :
         /\ b[id].round = RoundIn(k, id)
         /\ b[id].to = IF RoundIn(k, id) + 1 < k
                       THEN FirstId(k, RoundIn(k, id) + 1) + i(id) \div 2 ELSE 0
         /\ b[id].side = IF i(id) % 2 = 0 THEN "A" ELSE "B"
  BY BuiltMatches, Zenon
<1>d. DOMAIN b = 1 .. Power(k) - 1
  BY Zenon DEF buildSingleElim, BracketRounds, Power
<1> HIDE DEF b, k
<1>4. /\ \A x \in 0 .. k : FirstId(k, x) \in Nat
      /\ FirstId(k, k) = Power(k)
      /\ \A x \in 0 .. k - 1 : FirstId(k, x + 1) = FirstId(k, x) + Power(k - (x + 1))
  BY <1>1, FirstIds
<1>5. ASSUME NEW id \in 1 .. Power(k) - 1 PROVE b[id].to = 0 <=> id = n
  <2> DEFINE r == RoundIn(k, id)
  <2>1. r \in 0 .. k - 1 /\ InRound(k, id, r) /\ \A x \in 0 .. k - 1 : InRound(k, id, x) => x = r
    BY <1>1, OneRound
  <2>2. FirstId(k, k) = FirstId(k, k - 1) + 1 /\ FirstId(k, k - 1) \in Nat
    <3>1. k - 1 \in 0 .. k - 1 /\ k - 1 \in 0 .. k /\ (k - 1) + 1 = k /\ k - ((k - 1) + 1) = 0
      BY <1>1, <1>2
    <3> QED
      BY <1>4, <3>1, PowerZero
  <2>3. InRound(k, id, k - 1) <=> id = n
    BY <1>1, <1>2, <1>4, <2>2 DEF InRound
  <2>4. r + 1 < k => FirstId(k, r + 1) + i(id) \div 2 # 0
    <3>1. ASSUME r + 1 < k PROVE FirstId(k, r + 1) + i(id) \div 2 \in 1 .. Power(k) - 1
      <4> DEFINE j == i(id)
                 to == FirstId(k, r + 1) + j \div 2
      <4>1. r = RoundIn(k, id) /\ j = id - FirstId(k, r) /\ to = FirstId(k, r + 1) + j \div 2
        OBVIOUS
      <4> HIDE DEF r, j, to
      <4>2. to \in 1 .. Power(k) - 1
        BY <1>1, <2>1, <3>1, <4>1, NextMatch
      <4> QED
        BY <4>2 DEF to, j
    <3> HIDE DEF r
    <3> QED
      BY <1>1, <3>1
  <2>5. b[id].to = 0 <=> ~(r + 1 < k)
    BY <1>3, <2>4
  <2> HIDE DEF r
  <2>6. ~(r + 1 < k) <=> r = k - 1
    BY <1>1, <1>2, <2>1
  <2>7. r = k - 1 <=> InRound(k, id, k - 1)
    BY <1>1, <1>2, <2>1
  <2> QED
    BY <2>3, <2>5, <2>6, <2>7
<1>6. ASSUME NEW id \in 1 .. Power(k) - 1, NEW side \in {"A", "B"}, b[id].round # 0
      PROVE  \E f \in 1 .. Power(k) - 1 : b[f].to = id /\ b[f].side = side
  <2> DEFINE r == RoundIn(k, id)
             h == IF side = "A" THEN 0 ELSE 1
             f == FirstId(k, r - 1) + 2 * (id - FirstId(k, r)) + h
  <2>1. r \in 0 .. k - 1 /\ InRound(k, id, r) /\ r # 0
    BY <1>1, <1>3, <1>6, OneRound
  <2>2. r \in 1 .. k - 1 /\ h \in {0, 1} /\ f = FirstId(k, r - 1) + 2 * (id - FirstId(k, r)) + h
    BY <1>1, <2>1
  <2> HIDE DEF r, f, h
  <2>3. /\ f \in 1 .. Power(k) - 1 /\ RoundIn(k, f) = r - 1
        /\ FirstId(k, r) + (f - FirstId(k, r - 1)) \div 2 = id
        /\ (f - FirstId(k, r - 1)) % 2 = h
    BY <1>1, <2>1, <2>2, Feeder
  <2>4. (r - 1) + 1 = r /\ r < k
    BY <1>1, <2>2
  <2>5. b[f].to = id /\ b[f].side = IF h = 0 THEN "A" ELSE "B"
    BY <1>3, <2>3, <2>4
  <2> QED
    BY <2>3, <2>5 DEF h
<1>7. n \in Nat \ {0}
  BY <1>1
<1>8. /\ DOMAIN b = 1 .. n
      /\ \A id \in DOMAIN b : b[id].to = 0 <=> id = n
      /\ \A id \in DOMAIN b, side \in {"A", "B"} :
            b[id].round # 0 => \E f \in DOMAIN b : b[f].to = id /\ b[f].side = side
  BY <1>d, <1>5, <1>6
<1> HIDE DEF n
<1> QED
  BY <1>7, <1>8, Zenon DEF Whole, b

\* Once the final is decided, everything is: nobody comes to a match without a
\* decision in the one before.
LEMMA AllDecided ==
  ASSUME NEW seeds, Len(seeds) \in Nat, NEW rounds, NEW S, NEW t, InPlay(t, seeds, rounds, S)
  PROVE  Final(t.matches) <=> \A m \in ToSet(t.matches) : m.outcome # None
<1> DEFINE b == buildSingleElim(seeds)
           ms == t.matches
<1>1. Tree(b) /\ Whole(b) /\ Settled(b, ms, S)
  BY BuiltTree, BuiltWhole DEF InPlay
<1> HIDE DEF b, ms
<1>2. PICK n \in Nat \ {0} : DOMAIN b = 1 .. n /\ \A id \in DOMAIN b : b[id].to = 0 <=> id = n
  BY <1>1, Zenon DEF Whole
<1>3. DOMAIN ms = 1 .. n /\ \A id \in 1 .. n : ms[id].to = b[id].to /\ ms[id].round = b[id].round
  BY <1>1, <1>2 DEF Settled, SameTree
<1>4. Final(ms) <=> ms[n].outcome # None
  BY <1>2, <1>3 DEF Final, ToSet
<1>5. ASSUME ms[n].outcome # None, NEW g \in 1 .. n, ms[g].outcome = None,
             \A x \in 1 .. n : ms[x].outcome = None => x <= g
      PROVE  FALSE
  <2> DEFINE to == b[g].to
  <2>1. to # 0
    BY <1>2, <1>5
  <2>2. to \in 1 .. n /\ g < to /\ b[to].round = b[g].round + 1 /\ b[g].round \in Nat
    BY <1>1, <1>2, <2>1 DEF Tree
  <2>3. ms[to].outcome # None
    BY <1>5, <2>2
  <2>4. ~FirstBye(ms[to])
    BY <1>3, <2>2 DEF FirstBye
  <2>5. PICK r \in S : r.id = to
    BY <1>1, <1>2, <2>2, <2>3, <2>4 DEF Settled, Recorded
  <2>6. ms[to].a # Nobody /\ ms[to].b # Nobody
    BY <1>1, <2>5 DEF Settled, Recorded
  <2>7. Seat(ms[to], b[g].side) = matchWinner(ms[g]) /\ b[g].side \in {"A", "B"}
    BY <1>1, <1>2, <2>2 DEF Settled, Tree
  <2>8. matchWinner(ms[g]) = Nobody
    BY <1>5, SeatsOf
  <2> QED
    BY <2>6, <2>7, <2>8, SeatsOf
<1>6. ASSUME ms[n].outcome # None, NEW x \in 1 .. n PROVE ms[x].outcome # None
  <2> DEFINE T == {y \in 1 .. n : ms[y].outcome = None}
  <2> SUFFICES ASSUME x \in T PROVE FALSE
    OBVIOUS
  <2>1. T \in SUBSET Nat /\ T # {} /\ \A y \in T : y <= n
    OBVIOUS
  <2>2. \E y \in T : \A z \in T : z <= y
    <3> HIDE DEF T
    <3> QED
      BY <2>1, GreatestNumber
  <2> QED
    BY <1>5, <1>6, <2>2
<1>7. n \in 1 .. n
  BY <1>2
<1> QED
  BY <1>3, <1>4, <1>6, <1>7 DEF ToSet, ms

-----------------------------------------------------------------------------
(***************************************************************************)
(* Placing the entrants.  Two entrants with the same seed who went out in  *)
(* the same round come out in the order of their ids.                      *)
(***************************************************************************)
Later(t, x, y) == OutLater(t, x, y) \/ (~OutLater(t, y, x) /\ x < y)
RestOrder(t, D) == {p \in D \X D : Later(t, p[1], p[2])}

\* By round of exit, then seed, then id, the entrants are totally ordered.
LEMMA RestOrders ==
  ASSUME NEW t, t.seeds \in Seq(Nat), NEW D \in SUBSET DOMAIN t.seeds,
         \A x \in D : elimRound(t, x) \in Nat
  PROVE  /\ Orders(D, RestOrder(t, D)) /\ IsFiniteSet(D)
         /\ \A x, y \in D : /\ <<x, y>> \in RestOrder(t, D) <=> Later(t, x, y)
                            /\ Later(t, x, y) => ~OutLater(t, y, x)
<1> DEFINE R == RestOrder(t, D)
           e(x) == elimRound(t, x)
           s(x) == t.seeds[x]
<1>1. \A x \in D : x \in Nat /\ s(x) \in Nat /\ e(x) \in Nat
  OBVIOUS
<1>2. \A x, y \in D : <<x, y>> \in R <=> Later(t, x, y)
  BY DEF RestOrder
<1>3. \A x, y \in D : OutLater(t, x, y) <=> \/ e(x) > e(y)
                                            \/ e(x) = e(y) /\ s(x) < s(y)
  BY DEF OutLater
<1>f. IsFiniteSet(D)
  <2>1. IsFiniteSet(DOMAIN t.seeds)
    <3>1. Len(t.seeds) \in Nat /\ DOMAIN t.seeds = 1 .. Len(t.seeds)
      OBVIOUS
    <3> QED
      BY <3>1, FS_Interval
  <2> QED
    BY <2>1, FS_Subset
<1> HIDE DEF R, e, s
<1>4. \A x \in D : <<x, x>> \notin R
  BY <1>1, <1>2, <1>3 DEF Later
<1>5. \A x, y \in D : x # y => <<x, y>> \in R \/ <<y, x>> \in R
  BY <1>1, <1>2, <1>3 DEF Later
<1>6. ASSUME NEW x \in D, NEW y \in D, NEW z \in D, <<x, y>> \in R, <<y, z>> \in R
      PROVE  <<x, z>> \in R
  <2>1. Later(t, x, y) /\ Later(t, y, z)
    BY <1>2, <1>6
  <2> DEFINE L(u, v) == \/ e(u) > e(v)
                        \/ /\ e(u) = e(v)
                           /\ \/ s(u) < s(v)
                              \/ s(u) = s(v) /\ u < v
  <2>2. ASSUME NEW u \in D, NEW v \in D PROVE Later(t, u, v) <=> L(u, v)
    <3>1. /\ OutLater(t, u, v) <=> e(u) > e(v) \/ (e(u) = e(v) /\ s(u) < s(v))
          /\ OutLater(t, v, u) <=> e(v) > e(u) \/ (e(v) = e(u) /\ s(v) < s(u))
      BY <1>3
    <3>2. u \in Nat /\ v \in Nat /\ e(u) \in Nat /\ e(v) \in Nat /\ s(u) \in Nat /\ s(v) \in Nat
      BY <1>1
    <3>3. Later(t, u, v) <=> (OutLater(t, u, v) \/ (~OutLater(t, v, u) /\ u < v))
      BY Zenon DEF Later
    <3> DEFINE a == e(u)
               b == e(v)
               c == s(u)
               d == s(v)
    <3>4. L(u, v) <=> \/ a > b \/ (a = b /\ c < d)
                      \/ ~(b > a \/ (b = a /\ d < c)) /\ u < v
      <4>1. L(u, v) <=> a > b \/ (a = b /\ (c < d \/ (c = d /\ u < v)))
        BY Zenon
      <4>2. a \in Nat /\ b \in Nat /\ c \in Nat /\ d \in Nat /\ u \in Nat /\ v \in Nat
        BY <3>2
      <4> HIDE DEF a, b, c, d, L
      <4> QED
        BY <4>1, <4>2
    <3> QED
      BY <3>1, <3>3, <3>4
  <2>3. L(x, y) /\ L(y, z)
    BY <2>1, <2>2
  <2>4. L(x, z)
    BY <1>1, <2>3
  <2> QED
    BY <1>2, <2>2, <2>4
<1>7. \A x, y \in D : Later(t, x, y) => ~OutLater(t, y, x)
  BY <1>1, <1>3, SMTT(60) DEF Later
<1>8. Orders(D, R)
  BY <1>4, <1>5, <1>6 DEF Orders
<1> QED
  BY <1>2, <1>7, <1>8, <1>f DEF R

\* singleElimOrder lists the entrants other than the champion in that order.
LEMMA RestOrdered ==
  ASSUME NEW t, t.seeds \in Seq(Nat), NEW D \in SUBSET DOMAIN t.seeds,
         \A x \in D : elimRound(t, x) \in Nat
  PROVE  Ordered(D, RestOrder(t, D), Rest(t, D))
<1> DEFINE R == RestOrder(t, D)
           n == Cardinality(D)
           g == Rest(t, D)
<1>1. /\ Orders(D, R) /\ IsFiniteSet(D)
      /\ \A x, y \in D : <<x, y>> \in R <=> Later(t, x, y)
  BY RestOrders
<1> HIDE DEF R
<1>2. n \in Nat /\ \A k \in 1 .. n : \E x \in D : Cardinality(Below(D, R, x)) = k - 1
  BY <1>1, Ranks
<1>3. \A x \in D : Below(D, R, x) = {y \in D : Later(t, y, x)}
  BY <1>1 DEF Below
<1>4. g = [k \in 1 .. n |-> CHOOSE x \in D : Cardinality({y \in D : Later(t, y, x)}) = k - 1]
  BY Zenon DEF Rest, Sorted, Later
<1> HIDE DEF g
<1>5. ASSUME NEW k \in 1 .. n
      PROVE  g[k] \in D /\ Cardinality(Below(D, R, g[k])) = k - 1
  <2>1. \E x \in D : Cardinality({y \in D : Later(t, y, x)}) = k - 1
    BY <1>2, <1>3
  <2>2. g[k] \in D /\ Cardinality({y \in D : Later(t, y, g[k])}) = k - 1
    BY <1>4, <2>1
  <2> QED
    BY <1>3, <2>2
<1>6. g \in [1 .. n -> D]
  BY <1>4, <1>5
<1>7. Ordered(D, R, g)
  BY <1>1, <1>5, <1>6, RankedOrders DEF Ranked
<1> QED
  BY <1>7 DEF R, g

\* The engine's order of the rest is one of those the relayer may find.
LEMMA RestSorts ==
  ASSUME NEW t, t.seeds \in Seq(Nat), NEW D \in SUBSET DOMAIN t.seeds,
         \A x \in D : elimRound(t, x) \in Nat
  PROVE  Sorts(t, D, Rest(t, D))
<1> DEFINE R == RestOrder(t, D)
           n == Cardinality(D)
           g == Rest(t, D)
<1>1. /\ Orders(D, R) /\ IsFiniteSet(D)
      /\ \A x, y \in D : /\ <<x, y>> \in R <=> Later(t, x, y)
                         /\ Later(t, x, y) => ~OutLater(t, y, x)
  BY RestOrders
<1>2. Ordered(D, R, g)
  BY RestOrdered
<1> HIDE DEF R, g
<1>3. \A i, j \in 1 .. n : i # j => g[i] # g[j]
  BY <1>1, <1>2, OrderedAll
<1>4. g \in [1 .. n -> D] /\ \A i, j \in 1 .. n : i < j => <<g[i], g[j]>> \in R
  BY <1>2 DEF Ordered
<1>5. g \in SetToSeqs(D)
  BY <1>3, <1>4, Zenon DEF SetToSeqs
<1>6. \A i, j \in DOMAIN g : i < j => ~OutLater(t, g[j], g[i])
  BY <1>1, <1>4
<1> QED
  BY <1>5, <1>6 DEF Sorts, g

-----------------------------------------------------------------------------
(***************************************************************************)
(* The invariant holds.                                                    *)
(***************************************************************************)
LEMMA PlayInit == Init => PlayInv
<1> SUFFICES ASSUME Init PROVE PlayInv
  OBVIOUS
<1>1. PICK d \in Draws : /\ tour = newTournament(d.format, d.seeds, d.rounds)
                         /\ outcomes = d.outcomes /\ log = {}
  BY DEF Init
<1>2. /\ d.format \in Formats /\ d.seeds \in Seq(Nat) /\ Len(d.seeds) >= 2
      /\ d.outcomes \subseteq Outcomes
  BY DrawsAssumption DEF Formats
<1>3. /\ IsTour(tour) /\ tour.format = d.format /\ tour.seeds = d.seeds /\ tour.rounds = d.rounds
  BY <1>1, <1>2, NewTour
<1>4. PlayTypes
  BY <1>1, <1>2, <1>3, FS_EmptySet DEF PlayTypes
<1>5. ASSUME SingleElim PROVE InPlay(tour, tour.seeds, tour.rounds, log)
  <2>1. d.format = "single_elimination" /\ Len(d.seeds) \in Nat \ {0}
    BY <1>2, <1>3, <1>5 DEF SingleElim
  <2>2. InPlay(newTournament("single_elimination", d.seeds, d.rounds), d.seeds, d.rounds, {})
    BY <2>1, NewInPlay
  <2> QED
    BY <1>1, <1>3, <2>1, <2>2
<1> QED
  BY <1>1, <1>4, <1>5 DEF PlayInv, ElimPlay

\* A recorded result preserves the invariant, in every format.
LEMMA PlayStep == PlayInv /\ [Next]_playVars => PlayInv'
<1> SUFFICES ASSUME PlayInv, [Next]_playVars PROVE PlayInv'
  OBVIOUS
<1>1. ASSUME NEW id \in DOMAIN tour.matches, NEW o \in outcomes, Record(id, o)
      PROVE  PlayInv'
  <2> DEFINE r == [id |-> id, outcome |-> o]
             u == [tour EXCEPT !.matches[id].outcome = o]
             v == record(tour, id, o)
  <2>0. r.id = id /\ r.outcome = o /\ r = [id |-> r.id, outcome |-> r.outcome]
    OBVIOUS
  <2>1. tour' = v /\ log' = log \cup {r} /\ outcomes' = outcomes /\ Recordable(tour, id, o)
    BY <1>1 DEF Record
  <2>2. IsTour(tour) /\ IsFiniteSet(log) /\ o \in Outcomes /\ \A x \in log : IsResult(x)
    BY DEF PlayInv, PlayTypes
  <2>3. SameEntrants(tour, v)
    <3>1. v = advance(u)
      BY Zenon DEF record
    <3>2. SameEntrants(tour, u)
      <4> DEFINE ms == [tour.matches EXCEPT ![id].outcome = o]
      <4>1. u = [tour EXCEPT !.matches = ms]
        BY <2>2 DEF IsTour
      <4> HIDE DEF ms, u
      <4> QED
        BY <2>2, <4>1, MatchesKeep
    <3> HIDE DEF u, v
    <3>3. IsTour(u) /\ SameEntrants(u, advance(u))
      BY <3>2, AdvanceKeeps DEF SameEntrants
    <3> QED
      BY <3>1, <3>2, <3>3 DEF SameEntrants
  <2> HIDE DEF r, v
  <2>5. PlayTypes'
    <3>1. IsFiniteSet(log \cup {r})
      BY <2>2, FS_AddElement
    <3> QED
      BY <2>0, <2>1, <2>2, <2>3, <3>1 DEF PlayInv, PlayTypes, SameEntrants, IsResult
  <2>6. ElimPlay'
    <3> SUFFICES ASSUME tour'.format = "single_elimination"
                 PROVE  /\ InPlay(tour', tour'.seeds, tour'.rounds, log')
                        /\ \A x \in log' : x.outcome # "Draw"
      BY DEF ElimPlay, SingleElim
    <3>1. SingleElim /\ tour'.seeds = tour.seeds /\ tour'.rounds = tour.rounds
      BY <2>1, <2>3 DEF SameEntrants, SingleElim
    <3>2. InPlay(tour, tour.seeds, tour.rounds, log) /\ \A x \in log : x.outcome # "Draw"
      BY <3>1 DEF PlayInv, ElimPlay
    <3>3. r.id \in pending(tour) /\ r.outcome # None /\ r.outcome # "Draw"
      BY <2>0, <2>1, <2>2, <3>1 DEF Recordable, SingleElim, Outcomes, None
    <3>4. Len(tour.seeds) \in Nat \ {0}
      BY <2>2 DEF IsTour
    <3>5. InPlay(record(tour, r.id, r.outcome), tour.seeds, tour.rounds, log \cup {r})
      BY <3>2, <3>3, <3>4, RecordInPlay
    <3> QED
      BY <2>0, <2>1, <3>1, <3>2, <3>3, <3>5 DEF v
  <2> QED
    BY <2>5, <2>6 DEF PlayInv
<1>2. CASE UNCHANGED playVars
  BY <1>2 DEF playVars, PlayInv, PlayTypes, ElimPlay, SingleElim
<1> QED
  BY <1>1, <1>2 DEF Next

-----------------------------------------------------------------------------
(***************************************************************************)
(* Every reader of the document sees the tournament that was played.       *)
(***************************************************************************)
LEMMA LogOneEach ==
  ASSUME PlayInv, SingleElim
  PROVE  /\ OneEach(log) /\ InPlay(tour, tour.seeds, tour.rounds, log)
         /\ tour.seeds \in Seq(Nat) /\ Len(tour.seeds) \in Nat \ {0} /\ ~(Len(tour.seeds) < 2)
<1> DEFINE b == buildSingleElim(tour.seeds)
<1>1. /\ InPlay(tour, tour.seeds, tour.rounds, log) /\ \A r \in log : r.outcome # "Draw"
      /\ IsTour(tour) /\ IsFiniteSet(log) /\ \A r \in log : IsResult(r)
  BY DEF PlayInv, PlayTypes, ElimPlay
<1>2. tour.seeds \in Seq(Nat) /\ Len(tour.seeds) \in Nat \ {0} /\ ~(Len(tour.seeds) < 2)
  BY <1>1 DEF IsTour
<1>3. Tree(b) /\ Settled(b, tour.matches, log)
  BY <1>1, <1>2, BuiltTree DEF InPlay
<1> HIDE DEF b
<1>4. Recorded(b, tour.matches, log)
  BY <1>3 DEF Settled
<1>5. OneEach(log)
  BY <1>1, <1>3, <1>4, ResultsOneEach
<1> QED
  BY <1>1, <1>2, <1>5

\* A single elimination is what its results say, in whatever order they came.
LEMMA ElimReplays ==
  ASSUME PlayInv, SingleElim
  PROVE  ReplayOrderFree
<1> DEFINE run == reconstruct("single_elimination", tour.seeds, tour.rounds, ById(log))
<1>1. /\ OneEach(log) /\ InPlay(tour, tour.seeds, tour.rounds, log)
      /\ Len(tour.seeds) \in Nat \ {0}
  BY LogOneEach
<1>2. run = [ok |-> TRUE, t |-> run.t] /\ InPlay(run.t, tour.seeds, tour.rounds, log)
  BY <1>1, ReplayGoes
<1> HIDE DEF run
<1>3. run.t = tour
  BY <1>1, <1>2, SameResults
<1>4. run = [ok |-> TRUE, t |-> tour]
  BY <1>2, <1>3
<1> QED
  BY <1>4 DEF ReplayOrderFree, SingleElim, run

\* The relayer's replay has the same matches, whatever number of rounds it asks for.
LEMMA SameOutcome ==
  ASSUME NEW seeds \in Seq(Nat), NEW q, NEW r, NEW S, NEW t, NEW u,
         InPlay(t, seeds, q, S), InPlay(u, seeds, r, S)
  PROVE  /\ u.matches = t.matches /\ champion(u) = champion(t)
         /\ \A x, y : OutLater(u, x, y) <=> OutLater(t, x, y)
<1>1. u.matches = t.matches
  <2>1. Tree(buildSingleElim(seeds))
    BY BuiltTree
  <2> QED
    BY <2>1, SettledOnce DEF InPlay
<1>2. t.seeds = seeds /\ u.seeds = seeds
  BY PlayFormat
<1> DEFINE Champion(ms) ==
             LET finals == {m \in ToSet(ms) : m.to = 0 /\ m.outcome # None}
             IN  IF finals = {} THEN Nobody ELSE matchWinner(CHOOSE m \in finals : TRUE)
           Out(ms, i) ==
             LET lost == {m.round : m \in {x \in ToSet(ms) : matchLoser(x) = i}}
             IN  IF lost = {} THEN 0 ELSE CHOOSE x \in lost : \A s \in lost : s <= x
<1>a. champion(u) = Champion(u.matches) /\ champion(t) = Champion(t.matches)
  BY Zenon DEF champion
<1>b. ASSUME NEW x PROVE elimRound(u, x) = Out(u.matches, x) /\ elimRound(t, x) = Out(t.matches, x)
  BY Zenon DEF elimRound
<1> HIDE DEF Champion, Out
<1>3. champion(u) = champion(t)
  BY <1>1, <1>a
<1>4. ASSUME NEW x PROVE elimRound(u, x) = elimRound(t, x)
  BY <1>1, <1>b
<1>5. ASSUME NEW x, NEW y PROVE OutLater(u, x, y) <=> OutLater(t, x, y)
  BY <1>2, <1>4 DEF OutLater
<1> QED
  BY <1>1, <1>3, <1>5

\* The relayer's derivation gives the web engine's placements.
LEMMA ElimDerives ==
  ASSUME PlayInv, SingleElim
  PROVE  LET derived == RelayerWinners(tour.seeds, log)
         IN  IF tour.complete /\ champion(tour) # Nobody
             THEN /\ winners(tour) \in derived
                  /\ IsInjective(tour.seeds) => derived = {winners(tour)}
             ELSE derived = {}
<1> DEFINE seeds   == tour.seeds
           run     == reconstruct("single_elimination", seeds, 0, ById(log))
           c       == champion(tour)
           D       == DOMAIN seeds \ {c}
           derived == RelayerWinners(seeds, log)
<1>1. /\ OneEach(log) /\ InPlay(tour, seeds, tour.rounds, log)
      /\ seeds \in Seq(Nat) /\ Len(seeds) \in Nat \ {0} /\ ~(Len(seeds) < 2)
  BY LogOneEach
<1>2. run = [ok |-> TRUE, t |-> run.t] /\ InPlay(run.t, seeds, 0, log)
  BY <1>1, ReplayGoes
<1>3. run.ok
  BY <1>2
<1>4. derived = IF (\E m \in ToSet(run.t.matches) : m.outcome = None) \/ champion(run.t) = Nobody
                THEN {}
                ELSE {<<champion(run.t)>> \o rest :
                        rest \in {s \in SetToSeqs(DOMAIN seeds \ {champion(run.t)}) :
                           \A x, y \in DOMAIN s : x < y => ~OutLater(run.t, s[y], s[x])}}
  BY <1>1, <1>3, Zenon DEF RelayerWinners
<1> HIDE DEF run, derived
<1>5. /\ run.t.matches = tour.matches /\ champion(run.t) = c
      /\ \A x, y : OutLater(run.t, x, y) <=> OutLater(tour, x, y)
  BY <1>1, <1>2, SameOutcome
<1>6. tour.complete <=> \A m \in ToSet(tour.matches) : m.outcome # None
  <2>1. tour.complete = Final(tour.matches)
    BY <1>1 DEF InPlay, Cup
  <2>2. Final(tour.matches) <=> \A m \in ToSet(tour.matches) : m.outcome # None
    BY <1>1, AllDecided
  <2> QED
    BY <2>1, <2>2
<1>7. ASSUME ~(tour.complete /\ c # Nobody) PROVE derived = {}
  <2>1. (\E m \in ToSet(run.t.matches) : m.outcome = None) \/ champion(run.t) = Nobody
    BY <1>5, <1>6, <1>7, Zenon
  <2> QED
    BY <1>4, <2>1, Zenon
<1>8. ASSUME tour.complete, c # Nobody
      PROVE  winners(tour) \in derived /\ (IsInjective(seeds) => derived = {winners(tour)})
  <2>1. derived = {<<c>> \o rest : rest \in {s \in SetToSeqs(D) : Sorts(tour, D, s)}}
    <3>1. ~((\E m \in ToSet(run.t.matches) : m.outcome = None) \/ champion(run.t) = Nobody)
      BY <1>5, <1>6, <1>8, Zenon
    <3> DEFINE A == {s \in SetToSeqs(D) :
                       \A x, y \in DOMAIN s : x < y => ~OutLater(run.t, s[y], s[x])}
    <3>2. derived = {<<c>> \o rest : rest \in A}
      BY <1>4, <1>5, <3>1, Zenon
    <3>3. A = {s \in SetToSeqs(D) : Sorts(tour, D, s)}
      BY <1>5, Zenon DEF Sorts
    <3> QED
      BY <3>2, <3>3, Zenon
  <2>2. winners(tour) = <<c>> \o Rest(tour, D)
    <3>1. tour.format = "single_elimination"
      BY DEF SingleElim
    <3> QED
      BY <1>8, <3>1, Zenon DEF winners, singleElimOrder, Rest
  <2>3. D \in SUBSET DOMAIN seeds
    OBVIOUS
  <2> HIDE DEF D, c
  <2>4. Sorts(tour, D, Rest(tour, D))
    <3>1. \A x \in D : elimRound(tour, x) \in Nat
      BY <1>1, ElimRounds
    <3> QED
      BY <1>1, <2>3, <3>1, RestSorts
  <2>5. Rest(tour, D) \in SetToSeqs(D)
    BY <2>4 DEF Sorts
  <2>6. winners(tour) \in derived
    BY <2>1, <2>2, <2>4, <2>5, Zenon
  <2>7. ASSUME IsInjective(seeds) PROVE derived = {winners(tour)}
    <3>1. ASSUME NEW s, Sorts(tour, D, s) PROVE s = Rest(tour, D)
      BY <1>1, <2>3, <2>7, <3>1, OneRest
    <3>2. ASSUME NEW x \in derived PROVE x = winners(tour)
      BY <2>1, <2>2, <3>1, Zenon
    <3> QED
      BY <2>6, <3>2
  <2> QED
    BY <2>6, <2>7
<1> QED
  BY <1>7, <1>8, Zenon DEF derived, c

-----------------------------------------------------------------------------
(***************************************************************************)
(* Seeding: reversing the bits of a rank gives every slot of the first     *)
(* round to one rank, and one of the better half to each even slot.        *)
(***************************************************************************)
Rev(x, k, f) ==
  f = [i \in 0 .. k |-> IF i = 0 THEN [r |-> 0, v |-> x]
                        ELSE [r |-> (2 * f[i-1].r) + (f[i-1].v % 2), v |-> f[i-1].v \div 2]]

\* The loop of bitReverse has its values at every step.
LEMMA RevExists ==
  ASSUME NEW x, NEW n \in Nat
  PROVE  \E f : Rev(x, n, f)
<1> DEFINE T == {k \in Nat : \E f : Rev(x, k, f)}
           Halved(m) == [r |-> (2 * m.r) + (m.v % 2), v |-> m.v \div 2]
<1>1. 0 \in T
  <2>1. Rev(x, 0, [i \in 0 .. 0 |-> [r |-> 0, v |-> x]])
    BY DEF Rev
  <2> QED
    BY <2>1
<1>r. \A k, f : Rev(x, k, f) <=>
        f = [i \in 0 .. k |-> IF i = 0 THEN [r |-> 0, v |-> x] ELSE Halved(f[i - 1])]
  BY Zenon DEF Rev
<1> HIDE DEF Halved
<1>2. ASSUME NEW k \in T PROVE k + 1 \in T
  <2>1. PICK f : Rev(x, k, f)
    OBVIOUS
  <2> DEFINE last == Halved(f[k])
             g == [i \in 0 .. k + 1 |-> IF i = k + 1 THEN last ELSE f[i]]
  <2>f. f = [i \in 0 .. k |-> IF i = 0 THEN [r |-> 0, v |-> x] ELSE Halved(f[i - 1])]
    BY <1>r, <2>1
  <2>2. Rev(x, k + 1, g)
    <3> SUFFICES ASSUME NEW i \in 0 .. k + 1
                 PROVE  g[i] = IF i = 0 THEN [r |-> 0, v |-> x] ELSE Halved(g[i - 1])
      BY <1>r, ZenonT(60)
    <3>1. CASE i = k + 1
      <4>1. i # 0 /\ i - 1 = k /\ g[k] = f[k]
        BY <3>1
      <4> QED
        BY <3>1, <4>1
    <3>2. CASE i # k + 1
      <4>1. i \in 0 .. k /\ g[i] = f[i]
        BY <3>2
      <4>2. f[i] = IF i = 0 THEN [r |-> 0, v |-> x] ELSE Halved(f[i - 1])
        BY <2>f, <4>1
      <4>3. i # 0 => g[i - 1] = f[i - 1]
        BY <4>1
      <4> QED
        BY <4>1, <4>2, <4>3
    <3> QED
      BY <3>1, <3>2
  <2> QED
    BY <2>2
<1>3. T = Nat
  <2>1. T \in SUBSET Nat
    OBVIOUS
  <2> HIDE DEF T
  <2>2. \A k \in T : k + 1 \in T
    BY <1>2
  <2> QED
    BY <1>1, <2>1, <2>2, AllNumbers, Zenon
<1> QED
  BY <1>3

\* One step of the reversal, and where it ends.
LEMMA RevSteps ==
  ASSUME NEW k \in Nat, NEW x \in Nat
  PROVE  \E f : /\ f[0].r = 0 /\ f[0].v = x /\ bitReverse(x, k) = f[k].r
                /\ \A i \in 1 .. k : /\ f[i].r = (2 * f[i-1].r) + (f[i-1].v % 2)
                                     /\ f[i].v = f[i-1].v \div 2
<1> DEFINE f == CHOOSE g : Rev(x, k, g)
<1>1. Rev(x, k, f)
  BY RevExists
<1>2. bitReverse(x, k) = f[k].r
  BY Zenon DEF bitReverse, Rev
<1> HIDE DEF f
<1>3. f[0] = [r |-> 0, v |-> x]
  BY <1>1 DEF Rev
<1>4. ASSUME NEW i \in 1 .. k
      PROVE  f[i] = [r |-> (2 * f[i-1].r) + (f[i-1].v % 2), v |-> f[i-1].v \div 2]
  <2>1. i \in 0 .. k /\ i # 0
    OBVIOUS
  <2> QED
    BY <1>1, <2>1 DEF Rev
<1>5. ASSUME NEW i \in 1 .. k
      PROVE  f[i].r = (2 * f[i-1].r) + (f[i-1].v % 2) /\ f[i].v = f[i-1].v \div 2
  <2> DEFINE a == (2 * f[i-1].r) + (f[i-1].v % 2)
             b == f[i-1].v \div 2
  <2>1. f[i] = [r |-> a, v |-> b]
    BY <1>4
  <2> HIDE DEF a, b
  <2>2. f[i].r = a /\ f[i].v = b
    BY <2>1
  <2> QED
    BY <2>2 DEF a, b
<1>6. f[0].r = 0 /\ f[0].v = x
  BY <1>3
<1> QED
  BY <1>2, <1>5, <1>6, Zenon

\* The bits that are left, between the powers of two the number lies between,
\* and the bits that are done.
LEMMA RevBits ==
  ASSUME NEW k \in Nat, NEW x \in Nat, NEW f, f[0].r = 0, f[0].v = x,
         \A i \in 1 .. k : /\ f[i].r = (2 * f[i-1].r) + (f[i-1].v % 2)
                           /\ f[i].v = f[i-1].v \div 2,
         NEW i \in 0 .. k
  PROVE  /\ f[i].v \in Nat /\ f[i].r \in 0 .. Power(i) - 1
         /\ \A m \in i .. k : (x < Power(m) => f[i].v < Power(m - i))
                              /\ (Power(m) <= x => Power(m - i) <= f[i].v)
<1> DEFINE T == {j \in Nat : j <= k =>
                  /\ f[j].v \in Nat /\ f[j].r \in 0 .. Power(j) - 1
                  /\ \A m \in j .. k : (x < Power(m) => f[j].v < Power(m - j))
                                       /\ (Power(m) <= x => Power(m - j) <= f[j].v)}
<1>1. 0 \in T
  BY PowerZero
<1>2. ASSUME NEW j \in T PROVE j + 1 \in T
  <2> SUFFICES ASSUME j + 1 <= k
               PROVE  /\ f[j + 1].v \in Nat /\ f[j + 1].r \in 0 .. Power(j + 1) - 1
                      /\ \A m \in j + 1 .. k :
                           (x < Power(m) => f[j + 1].v < Power(m - (j + 1)))
                           /\ (Power(m) <= x => Power(m - (j + 1)) <= f[j + 1].v)
    OBVIOUS
  <2> DEFINE v == f[j].v
             r == f[j].r
  <2>1. j \in Nat /\ v \in Nat /\ r \in 0 .. Power(j) - 1
    OBVIOUS
  <2>2. f[j + 1].r = (2 * r) + (v % 2) /\ f[j + 1].v = v \div 2
    <3>1. j + 1 \in 1 .. k /\ (j + 1) - 1 = j
      BY <2>1
    <3> QED
      BY <3>1
  <2>3. Power(j + 1) = Power(j) + Power(j) /\ Power(j) \in Nat
    BY <2>1, PowerDoubles, PowerAbove
  <2>m. \A m \in j .. k : (x < Power(m) => v < Power(m - j)) /\ (Power(m) <= x => Power(m - j) <= v)
    BY <2>1
  <2> HIDE DEF T, v, r
  <2>4. f[j + 1].v \in Nat /\ f[j + 1].r \in 0 .. Power(j + 1) - 1
    BY <2>1, <2>2, <2>3
  <2>5. ASSUME NEW m \in j + 1 .. k
        PROVE  /\ x < Power(m) => f[j + 1].v < Power(m - (j + 1))
               /\ Power(m) <= x => Power(m - (j + 1)) <= f[j + 1].v
    <3> DEFINE p == Power(m - (j + 1))
    <3>1. m - (j + 1) \in Nat /\ (m - (j + 1)) + 1 = m - j /\ m \in j .. k
      BY <2>1
    <3>2. Power(m - j) = p + p /\ p \in Nat
      BY <3>1, PowerDoubles, PowerAbove
    <3>3. (x < Power(m) => v < Power(m - j)) /\ (Power(m) <= x => Power(m - j) <= v)
      BY <2>m, <3>1
    <3> HIDE DEF p
    <3>4. (x < Power(m) => v < p + p) /\ (Power(m) <= x => p + p <= v)
      BY <3>2, <3>3
    <3>5. (v < p + p => v \div 2 < p) /\ (p + p <= v => p <= v \div 2)
      BY <2>1, <3>2
    <3> QED
      BY <2>2, <3>4, <3>5 DEF p
  <2> QED
    BY <2>4, <2>5
<1>3. T = Nat
  <2>1. T \in SUBSET Nat
    OBVIOUS
  <2> HIDE DEF T
  <2>2. \A j \in T : j + 1 \in T
    BY <1>2
  <2> QED
    BY <1>1, <2>1, <2>2, AllNumbers, Zenon
<1>4. i \in T /\ i <= k
  BY <1>3
<1> QED
  BY <1>4

\* bitReverse of x over k bits halves as x doubles.
LEMMA BitReverse ==
  ASSUME NEW k \in Nat, NEW x \in 0 .. Power(k) - 1
  PROVE  /\ bitReverse(x, k) \in 0 .. Power(k) - 1
         /\ k # 0 /\ bitReverse(x, k) % 2 = 0 => x < Power(k - 1)
<1>0. Power(k) \in Nat /\ x \in Nat
  BY PowerAbove
<1>1. PICK f : /\ f[0].r = 0 /\ f[0].v = x /\ bitReverse(x, k) = f[k].r
               /\ \A i \in 1 .. k : /\ f[i].r = (2 * f[i-1].r) + (f[i-1].v % 2)
                                    /\ f[i].v = f[i-1].v \div 2
  BY <1>0, RevSteps
<1>2. \A i \in 0 .. k : /\ f[i].v \in Nat /\ f[i].r \in 0 .. Power(i) - 1
                        /\ \A m \in i .. k : (x < Power(m) => f[i].v < Power(m - i))
                                             /\ (Power(m) <= x => Power(m - i) <= f[i].v)
  BY <1>0, <1>1, RevBits
<1>3. f[k].r \in 0 .. Power(k) - 1
  BY <1>2
<1>4. ASSUME k # 0, f[k].r % 2 = 0 PROVE x < Power(k - 1)
  <2>1. k - 1 \in 0 .. k /\ k \in 1 .. k /\ k - (k - 1) = 1 /\ k \in k - 1 .. k
        /\ k - 1 \in k - 1 .. k /\ (k - 1) - (k - 1) = 0 /\ k - 1 \in Nat
    BY <1>4
  <2>2. Power(1) = 2
    <3>1. Power(0 + 1) = Power(0) + Power(0)
      BY PowerDoubles
    <3> QED
      BY <3>1, PowerZero
  <2> DEFINE v == f[k - 1].v
  <2>3. v \in Nat /\ v < 2 /\ (Power(k - 1) <= x => 1 <= v)
    BY <1>0, <1>2, <2>1, <2>2, PowerZero
  <2>4. f[k].r = (2 * f[k - 1].r) + (v % 2) /\ f[k - 1].r \in Nat
    <3>1. f[k].r = (2 * f[k - 1].r) + (v % 2)
      BY <1>1, <2>1
    <3>2. f[k - 1].r \in 0 .. Power(k - 1) - 1 /\ Power(k - 1) \in Nat
      BY <1>2, <2>1, PowerAbove
    <3> QED
      BY <3>1, <3>2
  <2> HIDE DEF v
  <2>5. v % 2 = 0
    BY <1>4, <2>3, <2>4
  <2>6. v = 0
    BY <2>3, <2>5
  <2>7. Power(k - 1) \in Nat
    BY <2>1, PowerAbove
  <2> QED
    BY <1>0, <2>3, <2>6, <2>7
<1> QED
  BY <1>1, <1>3, <1>4

\* Two slots never reverse to the same number.
LEMMA OneBitReverse ==
  ASSUME NEW k \in Nat, NEW x \in 0 .. Power(k) - 1, NEW y \in 0 .. Power(k) - 1,
         bitReverse(x, k) = bitReverse(y, k)
  PROVE  x = y
<1>0. Power(k) \in Nat /\ x \in Nat /\ y \in Nat
  BY PowerAbove
<1>1. PICK f : /\ f[0].r = 0 /\ f[0].v = x /\ bitReverse(x, k) = f[k].r
               /\ \A i \in 1 .. k : /\ f[i].r = (2 * f[i-1].r) + (f[i-1].v % 2)
                                    /\ f[i].v = f[i-1].v \div 2
  BY <1>0, RevSteps
<1>2. PICK g : /\ g[0].r = 0 /\ g[0].v = y /\ bitReverse(y, k) = g[k].r
               /\ \A i \in 1 .. k : /\ g[i].r = (2 * g[i-1].r) + (g[i-1].v % 2)
                                    /\ g[i].v = g[i-1].v \div 2
  BY <1>0, RevSteps
<1>3. \A i \in 0 .. k : /\ f[i].v \in Nat /\ f[i].r \in 0 .. Power(i) - 1
                        /\ \A m \in i .. k : (x < Power(m) => f[i].v < Power(m - i))
                                             /\ (Power(m) <= x => Power(m - i) <= f[i].v)
  BY <1>0, <1>1, RevBits
<1>4. \A i \in 0 .. k : /\ g[i].v \in Nat /\ g[i].r \in 0 .. Power(i) - 1
                        /\ \A m \in i .. k : (y < Power(m) => g[i].v < Power(m - i))
                                             /\ (Power(m) <= y => Power(m - i) <= g[i].v)
  BY <1>0, <1>2, RevBits
<1>n. \A i \in 0 .. k : f[i].v \in Nat /\ f[i].r \in Nat /\ g[i].v \in Nat /\ g[i].r \in Nat
  <2>1. \A i \in 0 .. k : Power(i) \in Nat
    BY PowerAbove
  <2> QED
    BY <1>3, <1>4, <2>1
<1> DEFINE T == {j \in Nat : j <= k => f[k - j].r = g[k - j].r /\ f[k - j].v = g[k - j].v}
<1>5. 0 \in T
  <2>1. k \in 0 .. k /\ k - k = 0 /\ k \in k .. k /\ k - 0 = k
    OBVIOUS
  <2>2. f[k].v < 1 /\ g[k].v < 1
    BY <1>0, <1>3, <1>4, <2>1, PowerZero
  <2>3. f[k].v = 0 /\ g[k].v = 0
    BY <1>n, <2>1, <2>2
  <2> QED
    BY <1>1, <1>2, <2>1, <2>3
<1>6. ASSUME NEW j \in T PROVE j + 1 \in T
  <2> SUFFICES ASSUME j + 1 <= k
               PROVE  f[k - (j + 1)].r = g[k - (j + 1)].r /\ f[k - (j + 1)].v = g[k - (j + 1)].v
    OBVIOUS
  <2> DEFINE i == k - j
  <2>1. i \in 1 .. k /\ i - 1 = k - (j + 1) /\ i \in 0 .. k /\ i - 1 \in 0 .. k
    OBVIOUS
  <2>2. f[i].r = g[i].r /\ f[i].v = g[i].v
    OBVIOUS
  <2> HIDE DEF T, i
  <2> DEFINE a == f[i - 1].r
             b == g[i - 1].r
             v == f[i - 1].v
             w == g[i - 1].v
  <2>3. (2 * a) + (v % 2) = (2 * b) + (w % 2) /\ v \div 2 = w \div 2
    BY <1>1, <1>2, <2>1, <2>2
  <2>4. a \in Nat /\ b \in Nat /\ v \in Nat /\ w \in Nat
    BY <1>n, <2>1
  <2> HIDE DEF a, b, v, w
  <2>5. a = b /\ v = w
    BY <2>3, <2>4
  <2> QED
    BY <2>1, <2>5 DEF a, b, v, w
<1>7. T = Nat
  <2>1. T \in SUBSET Nat
    OBVIOUS
  <2> HIDE DEF T
  <2>2. \A j \in T : j + 1 \in T
    BY <1>6
  <2> QED
    BY <1>5, <2>1, <2>2, AllNumbers, Zenon
<1>8. k \in T /\ k <= k /\ k - k = 0
  BY <1>7
<1>9. f[0].v = g[0].v
  BY <1>8
<1> QED
  BY <1>1, <1>2, <1>9

\* Every slot has a rank.
LEMMA SlotRank ==
  ASSUME NEW k \in Nat, NEW slot \in 0 .. Power(k) - 1
  PROVE  LET rank == CHOOSE s \in DOMAIN seedSlots(k) : seedSlots(k)[s] = slot IN
         /\ rank \in 1 .. Power(k) /\ bitReverse(rank - 1, k) = slot
<1> DEFINE N == 0 .. Power(k) - 1
           h == [x \in N |-> bitReverse(x, k)]
<1>0. Power(k) \in Nat
  BY PowerAbove
<1>1. h \in Injection(N, N)
  <2>1. h \in [N -> N]
    BY BitReverse
  <2>2. \A x, y \in N : h[x] = h[y] => x = y
    BY OneBitReverse
  <2> HIDE DEF h, N
  <2> QED
    BY <2>1, <2>2, Fun_IsInj
<1>2. IsFiniteSet(N)
  BY <1>0, FS_Interval
<1>3. h \in Surjection(N, N)
  <2> HIDE DEF h, N
  <2> QED
    BY <1>1, <1>2, FS_Injection
<1>4. PICK x \in N : h[x] = slot
  <2> HIDE DEF h
  <2> QED
    BY <1>3 DEF Surjection
<1>5. seedSlots(k) = [s \in 1 .. Power(k) |-> bitReverse(s - 1, k)]
  BY Zenon DEF seedSlots, Power
<1>6. x + 1 \in 1 .. Power(k) /\ bitReverse((x + 1) - 1, k) = slot
  <2>1. x + 1 \in 1 .. Power(k) /\ (x + 1) - 1 = x
    BY <1>0
  <2> QED
    BY <1>4, <2>1
<1>7. \E s \in DOMAIN seedSlots(k) : seedSlots(k)[s] = slot
  BY <1>5, <1>6
<1> DEFINE rank == CHOOSE s \in DOMAIN seedSlots(k) : seedSlots(k)[s] = slot
<1>8. rank \in DOMAIN seedSlots(k) /\ seedSlots(k)[rank] = slot
  BY <1>7, Zenon
<1> HIDE DEF rank
<1>9. rank \in 1 .. Power(k) /\ bitReverse(rank - 1, k) = slot
  BY <1>5, <1>8
<1> QED
  BY <1>9 DEF rank

-----------------------------------------------------------------------------
(***************************************************************************)
(* The first round seats every entrant once, and no match of it is empty.  *)
(***************************************************************************)
LEMMA UpTo ==
  ASSUME NEW n \in Nat
  PROVE  IsFiniteSet(1 .. n) /\ Cardinality(1 .. n) = n
BY FS_Interval

SeedLess(seeds, x, y) == seeds[x] < seeds[y] \/ (seeds[x] = seeds[y] /\ x < y)
SeedRelation(seeds) == {p \in (DOMAIN seeds) \X (DOMAIN seeds) : SeedLess(seeds, p[1], p[2])}

\* SeedOrder lists every entrant once.
LEMMA SeedOrdered ==
  ASSUME NEW seeds \in Seq(Nat)
  PROVE  LET D == DOMAIN seeds IN
         /\ IsFiniteSet(D) /\ Cardinality(D) = Len(seeds)
         /\ Orders(D, SeedRelation(seeds)) /\ Ordered(D, SeedRelation(seeds), SeedOrder(seeds))
<1> DEFINE D == DOMAIN seeds
           R == SeedRelation(seeds)
           n == Cardinality(D)
           g == SeedOrder(seeds)
<1>1. IsFiniteSet(D) /\ n = Len(seeds)
  <2>1. Len(seeds) \in Nat /\ DOMAIN seeds = 1 .. Len(seeds)
    OBVIOUS
  <2>2. IsFiniteSet(1 .. Len(seeds)) /\ Cardinality(1 .. Len(seeds)) = Len(seeds)
    BY <2>1, UpTo
  <2> QED
    BY <2>1, <2>2
<1>2. \A x \in D : x \in Nat /\ seeds[x] \in Nat
  OBVIOUS
<1>3. \A x, y \in D : <<x, y>> \in R <=> SeedLess(seeds, x, y)
  BY DEF SeedRelation
<1> HIDE DEF R, D
<1>4. \A x \in D : <<x, x>> \notin R
  BY <1>2, <1>3 DEF SeedLess
<1>5. ASSUME NEW x \in D, NEW y \in D, x # y PROVE <<x, y>> \in R \/ <<y, x>> \in R
  BY <1>2, <1>3, <1>5 DEF SeedLess
<1>6. ASSUME NEW x \in D, NEW y \in D, NEW z \in D, <<x, y>> \in R, <<y, z>> \in R
      PROVE  <<x, z>> \in R
  <2> DEFINE a == seeds[x]
             b == seeds[y]
             c == seeds[z]
  <2>1. (a < b \/ (a = b /\ x < y)) /\ (b < c \/ (b = c /\ y < z))
    BY <1>3, <1>6 DEF SeedLess
  <2>2. a \in Nat /\ b \in Nat /\ c \in Nat /\ x \in Nat /\ y \in Nat /\ z \in Nat
    BY <1>2
  <2>3. a < c \/ (a = c /\ x < z)
    <3> HIDE DEF a, b, c
    <3> QED
      BY <2>1, <2>2
  <2> QED
    BY <1>3, <2>3 DEF SeedLess
<1>7. Orders(D, R)
  BY <1>4, <1>5, <1>6 DEF Orders
<1>8. n \in Nat /\ \A k \in 1 .. n : \E x \in D : Cardinality(Below(D, R, x)) = k - 1
  BY <1>1, <1>7, Ranks
<1>9. \A x \in D : Below(D, R, x) = {y \in D : SeedLess(seeds, y, x)}
  BY <1>3 DEF Below
<1>10. g = [k \in 1 .. n |-> CHOOSE x \in D : Cardinality({y \in D : SeedLess(seeds, y, x)}) = k - 1]
  BY Zenon DEF SeedOrder, Sorted, SeedLess, D
<1> HIDE DEF g
<1>11. ASSUME NEW k \in 1 .. n
       PROVE  g[k] \in D /\ Cardinality(Below(D, R, g[k])) = k - 1
  <2>1. \E x \in D : Cardinality({y \in D : SeedLess(seeds, y, x)}) = k - 1
    BY <1>8, <1>9
  <2>2. g[k] \in D /\ Cardinality({y \in D : SeedLess(seeds, y, g[k])}) = k - 1
    BY <1>10, <2>1
  <2> QED
    BY <1>9, <2>2
<1>12. g \in [1 .. n -> D]
  BY <1>10, <1>11
<1>13. Ordered(D, R, g)
  BY <1>1, <1>7, <1>11, <1>12, RankedOrders DEF Ranked
<1> QED
  BY <1>1, <1>7, <1>13 DEF R, g, D

\* Who comes to a slot: the entrant of the slot's rank.
RankOf(k, slot) == CHOOSE s \in DOMAIN seedSlots(k) : seedSlots(k)[s] = slot

\* The slots of a bracket hold every entrant once; the first of a pair is
\* never empty.
LEMMA SlotSeats ==
  ASSUME NEW seeds \in Seq(Nat), Len(seeds) >= 2, NEW k, k = BracketRounds(seeds)
  PROVE  /\ k \in Nat \ {0} /\ Power(k) \in Nat /\ Power(k - 1) \in Nat
         /\ Power(k) = Power(k - 1) + Power(k - 1)
         /\ \A slot \in 0 .. Power(k) - 1 :
              /\ SlotEntrant(seeds, slot) \in DOMAIN seeds \cup {Nobody}
              /\ slot % 2 = 0 => SlotEntrant(seeds, slot) # Nobody
         /\ \A s, t \in 0 .. Power(k) - 1 :
              SlotEntrant(seeds, s) = SlotEntrant(seeds, t) /\ SlotEntrant(seeds, s) # Nobody => s = t
         /\ \A x \in DOMAIN seeds : \E slot \in 0 .. Power(k) - 1 : SlotEntrant(seeds, slot) = x
<1> DEFINE n  == Len(seeds)
           so == SeedOrder(seeds)
           D  == DOMAIN seeds
           At(slot) == SlotEntrant(seeds, slot)
           rank(slot) == RankOf(k, slot)
<1>1. n \in Nat /\ n >= 2 /\ D = 1 .. n
  OBVIOUS
<1>2. k = nextPow2(n)
  BY <1>1 DEF BracketRounds
<1>3. k \in Nat /\ Power(k) >= n /\ \A j \in 0 .. k - 1 : Power(j) < n
  BY <1>1, <1>2, NextPow2
<1>4. k # 0
  BY <1>1, <1>3, PowerZero
<1>5. Power(k) \in Nat /\ Power(k - 1) \in Nat /\ Power(k) = Power(k - 1) + Power(k - 1) /\ Power(k - 1) < n
  <2>1. k - 1 \in Nat /\ (k - 1) + 1 = k /\ k - 1 \in 0 .. k - 1
    BY <1>3, <1>4
  <2>2. Power(k - 1) < n
    BY <1>3, <2>1
  <2>3. Power(k) = Power(k - 1) + Power(k - 1)
    BY <2>1, PowerDoubles
  <2>4. Power(k) \in Nat /\ Power(k - 1) \in Nat
    BY <1>3, <2>1, PowerAbove
  <2> QED
    BY <2>2, <2>3, <2>4
<1>6. /\ so \in [1 .. n -> D]
      /\ \A x \in D : \E i \in 1 .. n : so[i] = x
      /\ \A i, j \in 1 .. n : i # j => so[i] # so[j]
  <2>1. /\ IsFiniteSet(D) /\ Cardinality(D) = n
        /\ Orders(D, SeedRelation(seeds)) /\ Ordered(D, SeedRelation(seeds), so)
    BY SeedOrdered
  <2> HIDE DEF D, so
  <2>2. /\ \A x \in D : \E i \in 1 .. Cardinality(D) : so[i] = x
        /\ \A i, j \in 1 .. Cardinality(D) : i # j => so[i] # so[j]
    BY <2>1, OrderedAll
  <2>3. so \in [1 .. Cardinality(D) -> D]
    BY <2>1 DEF Ordered
  <2> QED
    BY <2>1, <2>2, <2>3
<1> HIDE DEF so, n
<1>7. Len(so) = n
  BY <1>1, <1>6
<1>8. ASSUME NEW slot PROVE At(slot) = IF rank(slot) <= n THEN so[rank(slot)] ELSE Nobody
  <2> DEFINE place == RankOf(BracketRounds(seeds), slot)
  <2>a. At(slot) = IF place <= Len(so) THEN so[place] ELSE Nobody
    BY Zenon DEF SlotEntrant, RankOf, so
  <2>1. At(slot) = IF rank(slot) <= Len(so) THEN so[rank(slot)] ELSE Nobody
    BY <2>a
  <2> QED
    BY <1>7, <2>1, Zenon
<1>9. \A slot \in 0 .. Power(k) - 1 :
         rank(slot) \in 1 .. Power(k) /\ bitReverse(rank(slot) - 1, k) = slot
  BY <1>3, SlotRank DEF RankOf
<1> HIDE DEF rank, At, D
<1>10. ASSUME NEW slot \in 0 .. Power(k) - 1
       PROVE  At(slot) \in D \cup {Nobody} /\ (slot % 2 = 0 => At(slot) # Nobody)
  <2>1. rank(slot) \in 1 .. Power(k) /\ bitReverse(rank(slot) - 1, k) = slot
    BY <1>9
  <2>2. rank(slot) <= n => At(slot) \in D
    <3>1. rank(slot) <= n => rank(slot) \in 1 .. n
      BY <1>1, <1>5, <2>1
    <3> QED
      BY <1>6, <1>8, <3>1
  <2>3. Nobody \notin D
    BY <1>1 DEF Nobody, D
  <2>4. slot % 2 = 0 => rank(slot) <= n
    <3>1. rank(slot) - 1 \in 0 .. Power(k) - 1
      BY <1>5, <2>1
    <3>2. slot % 2 = 0 => rank(slot) - 1 < Power(k - 1)
      BY <1>3, <1>4, <2>1, <3>1, BitReverse
    <3> QED
      BY <1>1, <1>5, <2>1, <3>2
  <2> QED
    BY <1>8, <2>2, <2>3, <2>4
<1>11. ASSUME NEW s \in 0 .. Power(k) - 1, NEW t \in 0 .. Power(k) - 1, At(s) = At(t), At(s) # Nobody
       PROVE  s = t
  <2>1. rank(s) \in 1 .. n /\ rank(t) \in 1 .. n
    <3>1. rank(s) <= n /\ rank(t) <= n
      BY <1>8, <1>11
    <3> QED
      BY <1>1, <1>5, <1>9, <3>1
  <2>2. so[rank(s)] = so[rank(t)]
    BY <1>8, <1>11, <2>1
  <2>3. rank(s) = rank(t)
    BY <1>6, <2>1, <2>2
  <2> QED
    BY <1>9, <2>3
<1>12. ASSUME NEW x \in D PROVE \E slot \in 0 .. Power(k) - 1 : At(slot) = x
  <2>1. PICK i \in 1 .. n : so[i] = x
    BY <1>6
  <2>2. i \in 1 .. Power(k) /\ i - 1 \in 0 .. Power(k) - 1
    BY <1>1, <1>3, <1>5
  <2> DEFINE slot == bitReverse(i - 1, k)
  <2>3. slot \in 0 .. Power(k) - 1
    BY <1>3, <2>2, BitReverse
  <2>4. rank(slot) \in 1 .. Power(k) /\ bitReverse(rank(slot) - 1, k) = slot
    BY <1>9, <2>3
  <2>5. rank(slot) - 1 = i - 1
    <3>1. rank(slot) - 1 \in 0 .. Power(k) - 1
      BY <1>5, <2>4
    <3> QED
      BY <1>3, <2>2, <2>4, <3>1, OneBitReverse
  <2>6. rank(slot) = i
    BY <1>5, <2>2, <2>4, <2>5
  <2> HIDE DEF slot
  <2>7. At(slot) = x
    BY <1>1, <1>8, <2>1, <2>6
  <2> QED
    BY <2>3, <2>7
<1>13. k \in Nat \ {0}
  BY <1>3, <1>4
<1> QED
  BY <1>5, <1>10, <1>11, <1>12, <1>13 DEF At, D

Sides == {"A", "B"}

Seated(b, D) ==
  /\ Nobody \notin D
  /\ \A id \in DOMAIN b : b[id].round = 0 => b[id].a \in D /\ b[id].b \in D \cup {Nobody}
  /\ \A id, jd \in DOMAIN b, s, z \in Sides :
        b[id].round = 0 /\ b[jd].round = 0 /\ Seat(b[id], s) = Seat(b[jd], z)
          /\ Seat(b[id], s) # Nobody => id = jd /\ s = z
  /\ \A x \in D : \E id \in DOMAIN b, s \in Sides : b[id].round = 0 /\ Seat(b[id], s) = x

\* A new bracket seats every entrant in one match of the first round.
LEMMA BuiltSeats ==
  ASSUME NEW seeds \in Seq(Nat), Len(seeds) >= 2
  PROVE  Seated(buildSingleElim(seeds), DOMAIN seeds)
<1> DEFINE k == BracketRounds(seeds)
           b == buildSingleElim(seeds)
           D == DOMAIN seeds
           At(slot) == SlotEntrant(seeds, slot)
           Slot(id, s) == 2 * (id - 1) + (IF s = "A" THEN 0 ELSE 1)
<1>1. /\ k \in Nat \ {0} /\ Power(k) \in Nat /\ Power(k - 1) \in Nat
      /\ Power(k) = Power(k - 1) + Power(k - 1)
  BY SlotSeats
<1>2. \A slot \in 0 .. Power(k) - 1 : At(slot) \in D \cup {Nobody} /\ (slot % 2 = 0 => At(slot) # Nobody)
  BY SlotSeats
<1>3. \A s, t \in 0 .. Power(k) - 1 : At(s) = At(t) /\ At(s) # Nobody => s = t
  BY SlotSeats
<1>4. \A x \in D : \E slot \in 0 .. Power(k) - 1 : At(slot) = x
  BY SlotSeats
<1>5. Nobody \notin D
  BY DEF Nobody
<1>6. b = [id \in 1 .. Power(k) - 1 |-> BuiltMatch(seeds, id)]
  BY Zenon DEF buildSingleElim, BracketRounds, Power, RoundIn, InRound, SlotEntrant, BuiltMatch
<1>7. \A id \in 1 .. Power(k) - 1 :
         /\ b[id].round = RoundIn(k, id)
         /\ RoundIn(k, id) = 0 => /\ b[id].a = At(2 * (id - FirstId(k, 0)))
                                  /\ b[id].b = At((2 * (id - FirstId(k, 0))) + 1)
  <2> SUFFICES ASSUME NEW id \in 1 .. Power(k) - 1
               PROVE  /\ b[id].round = RoundIn(k, id)
                      /\ RoundIn(k, id) = 0 => /\ b[id].a = At(2 * (id - FirstId(k, 0)))
                                               /\ b[id].b = At((2 * (id - FirstId(k, 0))) + 1)
    OBVIOUS
  <2> DEFINE r  == RoundIn(k, id)
             i  == id - FirstId(k, r)
             to == IF r + 1 < k THEN FirstId(k, r + 1) + i \div 2 ELSE 0
             sd == IF i % 2 = 0 THEN "A" ELSE "B"
             x  == IF r = 0 THEN At(2 * i) ELSE Nobody
             y  == IF r = 0 THEN At(2 * i + 1) ELSE Nobody
  <2>1. b[id] = Match(r, x, y, to, sd)
    <3>1. b[id] = BuiltMatch(seeds, id)
      <4> HIDE DEF b, k
      <4> QED
        BY <1>6
    <3> QED
      BY <3>1, Zenon DEF BuiltMatch
  <2>2. r = 0 => x = At(2 * (id - FirstId(k, 0))) /\ y = At((2 * (id - FirstId(k, 0))) + 1)
    <3> HIDE DEF At, k
    <3> QED
      OBVIOUS
  <2> HIDE DEF r, x, y, to, sd, b, At
  <2>3. b[id].round = r /\ b[id].a = x /\ b[id].b = y
    BY <2>1 DEF Match
  <2> QED
    BY <2>2, <2>3 DEF r
<1>d. DOMAIN b = 1 .. Power(k) - 1
  <2> HIDE DEF b, k
  <2> QED
    BY <1>6
<1> HIDE DEF b, k, At, D
<1>n. ASSUME NEW id \in DOMAIN b PROVE id \in Nat
  BY <1>1, <1>d
<1>8. FirstId(k, 0) = 1 /\ FirstId(k, 1) = 1 + Power(k - 1)
  <2>1. 0 \in 0 .. k - 1 /\ 0 + 1 = 1 /\ k - (0 + 1) = k - 1
    BY <1>1
  <2> QED
    BY <1>1, <2>1, FirstIds
<1>9. ASSUME NEW id \in DOMAIN b
      PROVE  b[id].round = 0 <=> id \in 1 .. Power(k - 1)
  <2>1. /\ RoundIn(k, id) \in 0 .. k - 1 /\ InRound(k, id, RoundIn(k, id))
        /\ \A r \in 0 .. k - 1 : InRound(k, id, r) => r = RoundIn(k, id)
    BY <1>1, <1>d, OneRound
  <2>2. 0 \in 0 .. k - 1 /\ id \in Nat /\ 1 <= id
    BY <1>1, <1>d
  <2>3. InRound(k, id, 0) <=> id \in 1 .. Power(k - 1)
    BY <1>1, <1>8, <2>2 DEF InRound
  <2> QED
    BY <1>7, <1>d, <2>1, <2>2, <2>3
<1>10. ASSUME NEW id \in DOMAIN b, b[id].round = 0, NEW s \in Sides
       PROVE  /\ Slot(id, s) \in 0 .. Power(k) - 1 /\ Seat(b[id], s) = At(Slot(id, s))
              /\ s = "A" => Slot(id, s) % 2 = 0
  <2>1. id \in 1 .. Power(k - 1) /\ id \in Nat
    BY <1>1, <1>9, <1>10
  <2>2. b[id].a = At(2 * (id - 1)) /\ b[id].b = At((2 * (id - 1)) + 1)
    BY <1>7, <1>8, <1>10, <1>d
  <2>3. Slot(id, "A") = 2 * (id - 1) /\ Slot(id, "B") = (2 * (id - 1)) + 1
    BY <2>1
  <2>4. Slot(id, s) \in 0 .. Power(k) - 1 /\ (s = "A" => Slot(id, s) % 2 = 0)
    BY <1>1, <2>1, <2>3, SMTT(60) DEF Sides
  <2>5. Seat(b[id], s) = At(Slot(id, s))
    BY <2>2, <2>3 DEF Sides, Seat
  <2> QED
    BY <2>4, <2>5
<1>11. \A id, jd \in DOMAIN b, s, z \in Sides : Slot(id, s) = Slot(jd, z) => id = jd /\ s = z
  <2> SUFFICES ASSUME NEW id \in DOMAIN b, NEW jd \in DOMAIN b, NEW s \in Sides, NEW z \in Sides,
                      Slot(id, s) = Slot(jd, z)
               PROVE  id = jd /\ s = z
    BY Zenon
  <2>1. id \in Nat /\ jd \in Nat
    BY <1>n, Zenon
  <2> QED
    BY <2>1 DEF Sides
<1>12. ASSUME NEW slot \in 0 .. Power(k) - 1
       PROVE  \E id \in DOMAIN b, s \in Sides : b[id].round = 0 /\ Slot(id, s) = slot
  <2> DEFINE id == (slot \div 2) + 1
             s  == IF slot % 2 = 0 THEN "A" ELSE "B"
  <2>1. id \in 1 .. Power(k - 1) /\ s \in Sides /\ Slot(id, s) = slot
    BY <1>1 DEF Sides
  <2>2. id \in DOMAIN b
    BY <1>1, <1>d, <2>1
  <2> HIDE DEF id, s
  <2>3. b[id].round = 0
    BY <1>9, <2>1, <2>2
  <2> QED
    BY <2>1, <2>2, <2>3
<1> HIDE DEF Slot
<1>13. ASSUME NEW id \in DOMAIN b, b[id].round = 0
       PROVE  b[id].a \in D /\ b[id].b \in D \cup {Nobody}
  <2>1. "A" \in Sides /\ "B" \in Sides /\ Seat(b[id], "A") = b[id].a /\ Seat(b[id], "B") = b[id].b
    BY DEF Sides, Seat
  <2> QED
    BY <1>2, <1>10, <1>13, <2>1
<1>14. ASSUME NEW id \in DOMAIN b, NEW jd \in DOMAIN b, NEW s \in Sides, NEW z \in Sides,
              b[id].round = 0, b[jd].round = 0,
              Seat(b[id], s) = Seat(b[jd], z), Seat(b[id], s) # Nobody
       PROVE  id = jd /\ s = z
  <2>1. Slot(id, s) = Slot(jd, z)
    BY <1>3, <1>10, <1>14
  <2> QED
    BY <1>11, <2>1
<1>15. ASSUME NEW x \in D
       PROVE  \E id \in DOMAIN b, s \in Sides : b[id].round = 0 /\ Seat(b[id], s) = x
  <2>1. PICK slot \in 0 .. Power(k) - 1 : At(slot) = x
    BY <1>4
  <2>2. PICK id \in DOMAIN b, s \in Sides : b[id].round = 0 /\ Slot(id, s) = slot
    BY <1>12
  <2> QED
    BY <1>10, <2>1, <2>2
<1>16. Seated(b, D)
  <2>1. \A id \in DOMAIN b : b[id].round = 0 => b[id].a \in D /\ b[id].b \in D \cup {Nobody}
    BY <1>13
  <2>2. \A id, jd \in DOMAIN b, s, z \in Sides :
          b[id].round = 0 /\ b[jd].round = 0 /\ Seat(b[id], s) = Seat(b[jd], z)
            /\ Seat(b[id], s) # Nobody => id = jd /\ s = z
    <3> SUFFICES ASSUME NEW id \in DOMAIN b, NEW jd \in DOMAIN b, NEW s \in Sides, NEW z \in Sides,
                        b[id].round = 0, b[jd].round = 0,
                        Seat(b[id], s) = Seat(b[jd], z), Seat(b[id], s) # Nobody
                 PROVE  id = jd /\ s = z
      OBVIOUS
    <3> QED
      BY <1>14
  <2>3. \A x \in D : \E id \in DOMAIN b, s \in Sides : b[id].round = 0 /\ Seat(b[id], s) = x
    BY <1>15
  <2> QED
    BY <1>5, <2>1, <2>2, <2>3, Zenon DEF Seated
<1> QED
  BY <1>16 DEF b, D

-----------------------------------------------------------------------------
(***************************************************************************)
(* Who meets whom in a settled bracket.                                    *)
(***************************************************************************)
Bracket(b, D) == Tree(b) /\ Whole(b) /\ Seated(b, D)

Sits(ms, id, x) == x # Nobody /\ \E s \in Sides : Seat(ms[id], s) = x

\* The winner and the loser of a match sit in it.
LEMMA WinnerSits ==
  ASSUME NEW ms, NEW id
  PROVE  /\ matchWinner(ms[id]) # Nobody => Sits(ms, id, matchWinner(ms[id]))
         /\ matchLoser(ms[id]) # Nobody => Sits(ms, id, matchLoser(ms[id]))
<1>1. "A" \in Sides /\ "B" \in Sides
  BY DEF Sides
<1>2. Seat(ms[id], "A") = ms[id].a /\ Seat(ms[id], "B") = ms[id].b
  BY DEF Seat
<1>3. matchWinner(ms[id]) # Nobody => matchWinner(ms[id]) \in {ms[id].a, ms[id].b}
  BY DEF matchWinner
<1>4. matchLoser(ms[id]) # Nobody => matchLoser(ms[id]) \in {ms[id].a, ms[id].b}
  BY DEF matchLoser
<1> QED
  BY <1>1, <1>2, <1>3, <1>4 DEF Sits

\* A seat of the first round never changes; a later seat is the winner's before.
LEMMA SeatFrom ==
  ASSUME NEW b, NEW D, Bracket(b, D), NEW ms, NEW S, Settled(b, ms, S),
         NEW id \in DOMAIN b, NEW s \in Sides
  PROVE  /\ id \in Nat /\ b[id].round \in Nat
         /\ b[id].round = 0 => Seat(ms[id], s) = Seat(b[id], s)
         /\ b[id].round # 0 =>
              \E f \in DOMAIN b : /\ b[f].to = id /\ b[f].side = s /\ f < id
                                  /\ b[id].round = b[f].round + 1 /\ b[f].round \in Nat
                                  /\ Seat(ms[id], s) = matchWinner(ms[f])
<1>1. Tree(b) /\ Whole(b) /\ s \in {"A", "B"}
  BY DEF Bracket, Sides
<1>2. id \in Nat /\ b[id].round \in Nat /\ id # 0
  BY <1>1 DEF Tree
<1>3. \A f \in DOMAIN b : b[f].to = id => f < id /\ b[id].round = b[f].round + 1 /\ b[f].round \in Nat
  BY <1>1, <1>2 DEF Tree
<1>4. b[id].round = 0 => Seat(ms[id], s) = Seat(b[id], s)
  <2>1. b[id].round = 0 => \A f \in DOMAIN b : ~(b[f].to = id /\ b[f].side = s)
    BY <1>3
  <2> QED
    BY <1>1, <2>1 DEF Settled
<1>5. ASSUME b[id].round # 0
      PROVE  \E f \in DOMAIN b : /\ b[f].to = id /\ b[f].side = s /\ f < id
                                 /\ b[id].round = b[f].round + 1 /\ b[f].round \in Nat
                                 /\ Seat(ms[id], s) = matchWinner(ms[f])
  <2>1. PICK f \in DOMAIN b : b[f].to = id /\ b[f].side = s
    BY <1>1, <1>5 DEF Whole
  <2>2. Seat(ms[id], s) = matchWinner(ms[f])
    BY <1>1, <2>1 DEF Settled
  <2> QED
    BY <1>3, <2>1, <2>2
<1> QED
  BY <1>2, <1>4, <1>5

\* Nobody sits in two matches of a round, or twice in a match.
LEMMA OneSeat ==
  ASSUME NEW b, NEW D, Bracket(b, D), NEW ms, NEW S, Settled(b, ms, S),
         NEW id \in DOMAIN b, NEW jd \in DOMAIN b, NEW s \in Sides, NEW z \in Sides,
         b[id].round = b[jd].round, Seat(ms[id], s) = Seat(ms[jd], z), Seat(ms[id], s) # Nobody
  PROVE  id = jd /\ s = z
<1> DEFINE Once(r) == \A i, j \in DOMAIN b, p, q \in Sides :
                        b[i].round = r /\ b[j].round = r /\ Seat(ms[i], p) = Seat(ms[j], q)
                          /\ Seat(ms[i], p) # Nobody => i = j /\ p = q
           T == {r \in Nat : Once(r)}
<1>s. \A i, j \in DOMAIN b, p, q \in Sides :
        b[i].round = 0 /\ b[j].round = 0 /\ Seat(b[i], p) = Seat(b[j], q)
          /\ Seat(b[i], p) # Nobody => i = j /\ p = q
  BY Zenon DEF Bracket, Seated
<1>1. 0 \in T
  <2> SUFFICES ASSUME NEW i \in DOMAIN b, NEW j \in DOMAIN b, NEW p \in Sides, NEW q \in Sides,
                      b[i].round = 0, b[j].round = 0, Seat(ms[i], p) = Seat(ms[j], q),
                      Seat(ms[i], p) # Nobody
               PROVE  i = j /\ p = q
    OBVIOUS
  <2>1. Seat(ms[i], p) = Seat(b[i], p) /\ Seat(ms[j], q) = Seat(b[j], q)
    BY SeatFrom
  <2>2. Seat(b[i], p) = Seat(b[j], q) /\ Seat(b[i], p) # Nobody
    BY <2>1
  <2> QED
    BY <1>s, <2>2
<1>2. ASSUME NEW r \in T PROVE r + 1 \in T
  <2> SUFFICES ASSUME NEW i \in DOMAIN b, NEW j \in DOMAIN b, NEW p \in Sides, NEW q \in Sides,
                      b[i].round = r + 1, b[j].round = r + 1, Seat(ms[i], p) = Seat(ms[j], q),
                      Seat(ms[i], p) # Nobody
               PROVE  i = j /\ p = q
    OBVIOUS
  <2>0. r \in Nat /\ Once(r) /\ b[i].round # 0 /\ b[j].round # 0
    OBVIOUS
  <2> HIDE DEF T, Once
  <2>1. PICK f \in DOMAIN b : /\ b[f].to = i /\ b[f].side = p /\ f < i
                              /\ b[i].round = b[f].round + 1 /\ b[f].round \in Nat
                              /\ Seat(ms[i], p) = matchWinner(ms[f])
    BY <2>0, SeatFrom
  <2>2. PICK g \in DOMAIN b : /\ b[g].to = j /\ b[g].side = q /\ g < j
                              /\ b[j].round = b[g].round + 1 /\ b[g].round \in Nat
                              /\ Seat(ms[j], q) = matchWinner(ms[g])
    BY <2>0, SeatFrom
  <2>3. b[f].round = r /\ b[g].round = r
    BY <2>0, <2>1, <2>2
  <2>4. PICK c \in Sides : Seat(ms[f], c) = matchWinner(ms[f])
    BY <2>1, WinnerSits DEF Sits
  <2>5. PICK d \in Sides : Seat(ms[g], d) = matchWinner(ms[g])
    BY <2>2, WinnerSits DEF Sits
  <2>6. Seat(ms[f], c) = Seat(ms[g], d) /\ Seat(ms[f], c) # Nobody
    BY <2>1, <2>2, <2>4, <2>5
  <2>7. f = g
    BY <2>0, <2>3, <2>6, Zenon DEF Once
  <2> QED
    BY <2>1, <2>2, <2>7
<1>3. T = Nat
  <2>1. T \in SUBSET Nat
    OBVIOUS
  <2> HIDE DEF T
  <2>2. \A r \in T : r + 1 \in T
    BY <1>2
  <2> QED
    BY <1>1, <2>1, <2>2, AllNumbers, Zenon
<1>4. b[id].round \in Nat
  BY SeatFrom
<1>5. Once(b[id].round)
  BY <1>3, <1>4
<1> QED
  BY <1>5

\* Who sits in a match won every match of an earlier round that they sat in.
LEMMA WonBefore ==
  ASSUME NEW b, NEW D, Bracket(b, D), NEW ms, NEW S, Settled(b, ms, S),
         NEW id \in DOMAIN b, NEW jd \in DOMAIN b, NEW x, Sits(ms, id, x), Sits(ms, jd, x),
         b[id].round < b[jd].round
  PROVE  matchWinner(ms[id]) = x
<1> DEFINE Won(r) == \A j \in DOMAIN b :
                       b[j].round = r /\ Sits(ms, j, x) /\ b[id].round < r => matchWinner(ms[id]) = x
           T == {r \in Nat : Won(r)}
<1>0. b[id].round \in Nat
  <2>1. "A" \in Sides
    BY DEF Sides
  <2> QED
    BY <2>1, SeatFrom
<1>1. 0 \in T
  BY <1>0
<1>2. ASSUME NEW r \in T PROVE r + 1 \in T
  <2> SUFFICES ASSUME NEW j \in DOMAIN b, b[j].round = r + 1, Sits(ms, j, x), b[id].round < r + 1
               PROVE  matchWinner(ms[id]) = x
    OBVIOUS
  <2>0. r \in Nat /\ Won(r) /\ b[j].round # 0
    OBVIOUS
  <2> HIDE DEF T, Won
  <2>1. PICK p \in Sides : Seat(ms[j], p) = x
    BY DEF Sits
  <2>2. PICK f \in DOMAIN b : /\ b[f].to = j /\ b[f].side = p /\ f < j
                              /\ b[j].round = b[f].round + 1 /\ b[f].round \in Nat
                              /\ Seat(ms[j], p) = matchWinner(ms[f])
    BY <2>0, SeatFrom
  <2>3. matchWinner(ms[f]) = x /\ x # Nobody /\ b[f].round = r
    BY <2>0, <2>1, <2>2 DEF Sits
  <2>4. Sits(ms, f, x)
    BY <2>3, WinnerSits
  <2>5. CASE b[id].round = r
    <3>1. PICK c \in Sides : Seat(ms[f], c) = x
      BY <2>4 DEF Sits
    <3>2. PICK d \in Sides : Seat(ms[id], d) = x
      BY DEF Sits
    <3>3. b[f].round = b[id].round /\ Seat(ms[f], c) = Seat(ms[id], d) /\ Seat(ms[f], c) # Nobody
      BY <2>3, <2>5, <3>1, <3>2
    <3>4. f = id
      BY <3>3, OneSeat
    <3> QED
      BY <2>3, <3>4
  <2>6. CASE b[id].round < r
    BY <2>0, <2>3, <2>4, <2>6 DEF Won
  <2> QED
    BY <1>0, <2>0, <2>5, <2>6
<1>3. T = Nat
  <2>1. T \in SUBSET Nat
    OBVIOUS
  <2> HIDE DEF T
  <2>2. \A r \in T : r + 1 \in T
    BY <1>2
  <2> QED
    BY <1>1, <2>1, <2>2, AllNumbers, Zenon
<1>4. b[jd].round \in Nat
  <2>1. "A" \in Sides
    BY DEF Sides
  <2> QED
    BY <2>1, SeatFrom
<1>5. Won(b[jd].round)
  BY <1>3, <1>4
<1> QED
  BY <1>5

\* A match that has a winner has another loser, unless it is a bye.
LEMMA TwoInMatch ==
  ASSUME NEW b, NEW D, Bracket(b, D), NEW ms, NEW S, Settled(b, ms, S), NEW id \in DOMAIN b
  PROVE  /\ ms[id].a # Nobody => ms[id].a # ms[id].b
         /\ matchWinner(ms[id]) # Nobody => matchWinner(ms[id]) # matchLoser(ms[id])
<1>1. "A" \in Sides /\ "B" \in Sides /\ Seat(ms[id], "A") = ms[id].a /\ Seat(ms[id], "B") = ms[id].b
  BY DEF Sides, Seat
<1>2. ASSUME ms[id].a # Nobody, ms[id].a = ms[id].b PROVE FALSE
  <2>1. b[id].round = b[id].round /\ Seat(ms[id], "A") = Seat(ms[id], "B") /\ Seat(ms[id], "A") # Nobody
    BY <1>1, <1>2
  <2>2. "A" = "B"
    BY <1>1, <2>1, OneSeat
  <2> QED
    BY <2>2
<1>3. matchWinner(ms[id]) # Nobody => \/ matchWinner(ms[id]) = ms[id].a /\ matchLoser(ms[id]) = ms[id].b
                                      \/ matchWinner(ms[id]) = ms[id].b /\ matchLoser(ms[id]) = ms[id].a
  BY DEF matchWinner, matchLoser
<1> QED
  BY <1>2, <1>3

\* Who lost a match sits in no other match of that round or a later one.
LEMMA OutForGood ==
  ASSUME NEW b, NEW D, Bracket(b, D), NEW ms, NEW S, Settled(b, ms, S),
         NEW id \in DOMAIN b, NEW jd \in DOMAIN b, NEW x, x # Nobody,
         matchLoser(ms[id]) = x, Sits(ms, jd, x)
  PROVE  id = jd \/ b[jd].round < b[id].round
<1>1. Sits(ms, id, x)
  BY WinnerSits
<1>2. "A" \in Sides
  BY DEF Sides
<1>3. b[id].round \in Nat /\ b[jd].round \in Nat
  BY <1>2, SeatFrom
<1>4. ASSUME b[id].round < b[jd].round PROVE FALSE
  <2>1. matchWinner(ms[id]) = x
    BY <1>1, <1>4, WonBefore
  <2> QED
    BY <2>1, TwoInMatch
<1>5. ASSUME b[id].round = b[jd].round PROVE id = jd
  <2>1. PICK c \in Sides : Seat(ms[id], c) = x
    BY <1>1 DEF Sits
  <2>2. PICK d \in Sides : Seat(ms[jd], d) = x
    BY DEF Sits
  <2>3. Seat(ms[id], c) = Seat(ms[jd], d) /\ Seat(ms[id], c) # Nobody
    BY <2>1, <2>2
  <2> QED
    BY <1>5, <2>3, OneSeat
<1> QED
  BY <1>3, <1>4, <1>5

\* Nobody loses twice.
LEMMA LosesOnce ==
  ASSUME NEW b, NEW D, Bracket(b, D), NEW ms, NEW S, Settled(b, ms, S),
         NEW id \in DOMAIN b, NEW jd \in DOMAIN b, NEW x, x # Nobody,
         matchLoser(ms[id]) = x, matchLoser(ms[jd]) = x
  PROVE  id = jd
<1>1. Sits(ms, id, x) /\ Sits(ms, jd, x)
  BY WinnerSits
<1>2. id = jd \/ b[jd].round < b[id].round
  BY <1>1, OutForGood
<1>3. id = jd \/ b[id].round < b[jd].round
  BY <1>1, OutForGood
<1>4. "A" \in Sides
  BY DEF Sides
<1>5. b[id].round \in Nat /\ b[jd].round \in Nat
  BY <1>4, SeatFrom
<1> QED
  BY <1>2, <1>3, <1>5

\* The last match, and that its round is the last.
Ends(b, n) == /\ n \in Nat \ {0} /\ DOMAIN b = 1 .. n
              /\ \A id \in DOMAIN b : b[id].to = 0 <=> id = n

\* The final is later than every other match.
LEMMA FinalLast ==
  ASSUME NEW b, NEW D, Bracket(b, D), NEW n, Ends(b, n), NEW id \in DOMAIN b, id # n
  PROVE  b[id].round < b[n].round
<1>1. Tree(b) /\ n \in Nat \ {0} /\ DOMAIN b = 1 .. n /\ \A j \in DOMAIN b : b[j].to = 0 <=> j = n
  BY DEF Bracket, Ends
<1> DEFINE T == {j \in 1 .. n : j # n /\ ~(b[j].round < b[n].round)}
<1> SUFFICES ASSUME id \in T PROVE FALSE
  BY <1>1
<1>2. T \in SUBSET Nat /\ T # {} /\ \A j \in T : j <= n
  OBVIOUS
<1>3. PICK g \in T : \A j \in T : j <= g
  <2> HIDE DEF T
  <2> QED
    BY <1>1, <1>2, GreatestNumber
<1>4. /\ b[g].to \in 1 .. n /\ g < b[g].to /\ b[b[g].to].round = b[g].round + 1
      /\ b[g].round \in Nat /\ b[n].round \in Nat /\ g \in 1 .. n /\ g # n
  BY <1>1 DEF Tree
<1>5. b[g].to \notin T
  BY <1>3, <1>4
<1> QED
  BY <1>3, <1>4, <1>5

\* While the final has no winner, some match with two entrants has none.
LEMMA LowestOpen ==
  ASSUME NEW b, NEW D, Bracket(b, D), NEW ms, NEW S, Settled(b, ms, S), NEW n, Ends(b, n),
         matchWinner(ms[n]) = Nobody
  PROVE  \E id \in DOMAIN b : /\ matchWinner(ms[id]) = Nobody
                              /\ ms[id].a # Nobody /\ ms[id].b # Nobody
<1>1. Tree(b) /\ Seated(b, D) /\ n \in Nat \ {0} /\ DOMAIN b = 1 .. n
  BY DEF Bracket, Ends
<1> DEFINE T == {j \in 1 .. n : matchWinner(ms[j]) = Nobody}
<1>2. T \in SUBSET Nat /\ T # {}
  BY <1>1
<1>3. PICK g \in T : \A j \in T : g <= j
  <2> HIDE DEF T
  <2> QED
    BY <1>2, LeastNumber
<1>4. g \in DOMAIN b /\ g \in Nat /\ matchWinner(ms[g]) = Nobody
  BY <1>1
<1>5. \A f \in DOMAIN b : f < g => matchWinner(ms[f]) # Nobody
  BY <1>1, <1>3
<1> HIDE DEF T
<1>6. "A" \in Sides /\ "B" \in Sides /\ Seat(ms[g], "A") = ms[g].a /\ Seat(ms[g], "B") = ms[g].b
      /\ Seat(b[g], "A") = b[g].a /\ Seat(b[g], "B") = b[g].b
  BY DEF Sides, Seat
<1>7. ASSUME b[g].round # 0, NEW s \in Sides PROVE Seat(ms[g], s) # Nobody
  <2>1. PICK f \in DOMAIN b : f < g /\ Seat(ms[g], s) = matchWinner(ms[f])
    BY <1>4, <1>7, SeatFrom
  <2> QED
    BY <1>5, <2>1
<1>8. ASSUME b[g].round = 0 PROVE ms[g].a # Nobody /\ ms[g].b # Nobody
  <2>1. Seat(ms[g], "A") = Seat(b[g], "A") /\ Seat(ms[g], "B") = Seat(b[g], "B")
    BY <1>4, <1>6, <1>8, SeatFrom
  <2>2. ms[g].a # Nobody
    BY <1>1, <1>4, <1>6, <1>8, <2>1 DEF Seated
  <2>3. ASSUME ms[g].b = Nobody PROVE FALSE
    <3>1. ms[g].round = 0
      BY <1>4, <1>8 DEF Settled, SameTree
    <3>2. FirstBye(ms[g])
      BY <2>2, <2>3, <3>1 DEF FirstBye, isBye
    <3>3. ms[g].outcome = "A"
      BY <1>4, <2>2, <3>2 DEF Settled, ByeSide
    <3> QED
      BY <1>4, <2>2, <3>3 DEF matchWinner
  <2> QED
    BY <2>2, <2>3
<1>9. ms[g].a # Nobody /\ ms[g].b # Nobody
  BY <1>6, <1>7, <1>8
<1> QED
  BY <1>4, <1>9

\* The entrants who have not lost.
Standing(ms, D) == {x \in D : \A id \in DOMAIN ms : matchLoser(ms[id]) # x}

\* Everybody who sits anywhere is an entrant.
LEMMA SitsIn ==
  ASSUME NEW b, NEW D, Bracket(b, D), NEW ms, NEW S, Settled(b, ms, S),
         NEW id \in DOMAIN b, NEW x, Sits(ms, id, x)
  PROVE  x \in D
<1> DEFINE In(r) == \A y : \A j \in DOMAIN b : b[j].round = r /\ Sits(ms, j, y) => y \in D
           T == {r \in Nat : In(r)}
<1>1. 0 \in T
  <2> SUFFICES ASSUME NEW j \in DOMAIN b, NEW y, b[j].round = 0, Sits(ms, j, y) PROVE y \in D
    OBVIOUS
  <2>1. PICK p \in Sides : Seat(ms[j], p) = y /\ y # Nobody
    BY DEF Sits
  <2>2. Seat(b[j], p) = y
    BY <2>1, SeatFrom
  <2>3. b[j].a \in D /\ b[j].b \in D \cup {Nobody}
    BY DEF Bracket, Seated
  <2> QED
    BY <2>1, <2>2, <2>3 DEF Seat
<1>2. ASSUME NEW r \in T PROVE r + 1 \in T
  <2> SUFFICES ASSUME NEW j \in DOMAIN b, NEW y, b[j].round = r + 1, Sits(ms, j, y) PROVE y \in D
    OBVIOUS
  <2>0. r \in Nat /\ In(r) /\ b[j].round # 0
    OBVIOUS
  <2> HIDE DEF T, In
  <2>1. PICK p \in Sides : Seat(ms[j], p) = y /\ y # Nobody
    BY DEF Sits
  <2>2. PICK f \in DOMAIN b : b[j].round = b[f].round + 1 /\ b[f].round \in Nat
                              /\ Seat(ms[j], p) = matchWinner(ms[f])
    BY <2>0, <2>1, SeatFrom
  <2>3. Sits(ms, f, y) /\ b[f].round = r
    BY <2>0, <2>1, <2>2, WinnerSits
  <2> QED
    BY <2>0, <2>3 DEF In
<1>3. T = Nat
  <2>1. T \in SUBSET Nat
    OBVIOUS
  <2> HIDE DEF T
  <2>2. \A r \in T : r + 1 \in T
    BY <1>2
  <2> QED
    BY <1>1, <2>1, <2>2, AllNumbers, Zenon
<1>4. b[id].round \in Nat
  <2>1. "A" \in Sides
    BY DEF Sides
  <2> QED
    BY <2>1, SeatFrom
<1>5. In(b[id].round)
  BY <1>3, <1>4
<1> QED
  BY <1>5

\* Before the final has a winner there are two who have not lost.
LEMMA TwoStand ==
  ASSUME NEW b, NEW D, Bracket(b, D), NEW ms, NEW S, Settled(b, ms, S), NEW n, Ends(b, n),
         matchWinner(ms[n]) = Nobody
  PROVE  \E x, y \in Standing(ms, D) : x # y
<1>1. PICK id \in DOMAIN b : /\ matchWinner(ms[id]) = Nobody
                             /\ ms[id].a # Nobody /\ ms[id].b # Nobody
  BY LowestOpen
<1>2. Sits(ms, id, ms[id].a) /\ Sits(ms, id, ms[id].b)
  <2>1. "A" \in Sides /\ "B" \in Sides /\ Seat(ms[id], "A") = ms[id].a /\ Seat(ms[id], "B") = ms[id].b
    BY DEF Sides, Seat
  <2> QED
    BY <1>1, <2>1 DEF Sits
<1>3. DOMAIN ms = DOMAIN b
  BY DEF Settled, SameTree
<1>4. ASSUME NEW x, Sits(ms, id, x) PROVE x \in Standing(ms, D)
  <2>1. x \in D /\ x # Nobody
    BY <1>4, SitsIn DEF Sits
  <2>2. ASSUME NEW j \in DOMAIN b, matchLoser(ms[j]) = x PROVE FALSE
    <3>1. j = id \/ b[id].round < b[j].round
      BY <1>4, <2>1, <2>2, OutForGood
    <3>2. CASE j = id
      <4>1. matchLoser(ms[id]) = Nobody
        BY <1>1 DEF matchWinner, matchLoser
      <4> QED
        BY <2>1, <2>2, <3>2, <4>1
    <3>3. CASE b[id].round < b[j].round
      <4>1. Sits(ms, j, x)
        BY <2>1, <2>2, WinnerSits
      <4>2. matchWinner(ms[id]) = x
        BY <1>4, <3>3, <4>1, WonBefore
      <4> QED
        BY <1>1, <2>1, <4>2
    <3> QED
      BY <3>1, <3>2, <3>3
  <2> QED
    BY <1>3, <2>1, <2>2 DEF Standing
<1>5. ms[id].a # ms[id].b
  BY <1>1, TwoInMatch
<1> QED
  BY <1>2, <1>4, <1>5

-----------------------------------------------------------------------------
(***************************************************************************)
(* The champion.                                                           *)
(***************************************************************************)

\* Only the last match of the bracket leads nowhere, so it decides the champion.
LEMMA ChampionIs ==
  ASSUME NEW b, NEW n, Ends(b, n), NEW t, NEW S, Settled(b, t.matches, S)
  PROVE  /\ champion(t) = matchWinner(t.matches[n])
         /\ Final(t.matches) <=> t.matches[n].outcome # None
<1> DEFINE ms == t.matches
           finals == {m \in ToSet(ms) : m.to = 0 /\ m.outcome # None}
<1>1. champion(t) = IF finals = {} THEN Nobody ELSE matchWinner(CHOOSE m \in finals : TRUE)
  BY Zenon DEF champion
<1>2. DOMAIN ms = 1 .. n /\ n \in 1 .. n /\ \A id \in 1 .. n : ms[id].to = 0 <=> id = n
  BY DEF Ends, Settled, SameTree
<1> HIDE DEF ms
<1>3. finals = IF ms[n].outcome # None THEN {ms[n]} ELSE {}
  BY <1>2 DEF ToSet
<1>4. ms[n].outcome = None => matchWinner(ms[n]) = Nobody
  BY DEF matchWinner, None
<1>5. Final(ms) <=> ms[n].outcome # None
  BY <1>2 DEF Final, ToSet
<1> HIDE DEF finals
<1>6. champion(t) = matchWinner(ms[n])
  <2>1. CASE ms[n].outcome # None
    <3>1. finals = {ms[n]} /\ finals # {}
      BY <1>3, <2>1
    <3> QED
      BY <1>1, <3>1
  <2>2. CASE ms[n].outcome = None
    BY <1>1, <1>3, <1>4, <2>2
  <2> QED
    BY <2>1, <2>2
<1> QED
  BY <1>5, <1>6 DEF ms

\* With a champion, everybody else has lost.
LEMMA OnlyChampion ==
  ASSUME NEW b, NEW D, Bracket(b, D), NEW ms, NEW S, Settled(b, ms, S), NEW n, Ends(b, n),
         \A id \in DOMAIN b : ms[id].outcome # None, matchWinner(ms[n]) # Nobody
  PROVE  Standing(ms, D) = {matchWinner(ms[n])}
<1> DEFINE w == matchWinner(ms[n])
<1>1. /\ Tree(b) /\ Whole(b) /\ Seated(b, D) /\ DOMAIN ms = DOMAIN b
      /\ n \in Nat \ {0} /\ DOMAIN b = 1 .. n /\ n \in DOMAIN b
  BY DEF Bracket, Settled, SameTree, Ends
<1>2. w \in Standing(ms, D)
  <2>1. Sits(ms, n, w)
    BY WinnerSits
  <2>2. w \in D
    BY <1>1, <2>1, SitsIn
  <2>3. ASSUME NEW id \in DOMAIN b, matchLoser(ms[id]) = w PROVE FALSE
    <3>1. id = n \/ b[n].round < b[id].round
      BY <1>1, <2>1, <2>3, OutForGood
    <3>2. id # n => b[id].round < b[n].round
      BY FinalLast
    <3>3. b[n].round \in Nat /\ b[id].round \in Nat
      BY <1>1 DEF Tree
    <3>4. id # n
      BY <1>1, <2>3, TwoInMatch
    <3> QED
      BY <3>1, <3>2, <3>3, <3>4
  <2> QED
    BY <1>1, <2>2, <2>3 DEF Standing
<1>3. ASSUME NEW x \in Standing(ms, D), x # w PROVE FALSE
  <2>1. x \in D /\ x # Nobody /\ \A id \in DOMAIN b : matchLoser(ms[id]) # x
    BY <1>1 DEF Standing, Seated
  <2>w. ASSUME NEW id \in DOMAIN b, Sits(ms, id, x), matchWinner(ms[id]) # Nobody
        PROVE  matchWinner(ms[id]) = x
    <3>1. x = ms[id].a \/ x = ms[id].b
      BY <2>w DEF Sits, Seat
    <3>2. \/ matchWinner(ms[id]) = ms[id].a /\ matchLoser(ms[id]) = ms[id].b
          \/ matchWinner(ms[id]) = ms[id].b /\ matchLoser(ms[id]) = ms[id].a
      BY <2>w DEF matchWinner, matchLoser
    <3> QED
      BY <2>1, <3>1, <3>2
  <2> DEFINE T == {id \in 1 .. n : Sits(ms, id, x)}
  <2>2. T \in SUBSET Nat /\ \A id \in T : id <= n
    OBVIOUS
  <2>3. T # {}
    <3>1. PICK id \in DOMAIN b, s \in Sides : b[id].round = 0 /\ Seat(b[id], s) = x
      BY <1>1, <2>1 DEF Seated
    <3>2. Seat(ms[id], s) = x
      BY <3>1, SeatFrom
    <3>3. Sits(ms, id, x)
      BY <2>1, <3>2 DEF Sits
    <3> QED
      BY <1>1, <3>3
  <2>4. PICK g \in T : \A id \in T : id <= g
    <3> HIDE DEF T
    <3> QED
      BY <1>1, <2>2, <2>3, GreatestNumber
  <2>5. g \in DOMAIN b /\ Sits(ms, g, x) /\ g \in Nat
    BY <1>1
  <2>6. g # n
    BY <1>3, <2>5, <2>w
  <2> DEFINE to == b[g].to
  <2>7. to # 0
    BY <2>5, <2>6 DEF Ends
  <2>8. /\ to \in DOMAIN b /\ g < to /\ b[to].round = b[g].round + 1 /\ b[g].round \in Nat
        /\ b[g].side \in {"A", "B"}
    BY <1>1, <2>5, <2>7 DEF Tree
  <2> HIDE DEF T
  <2>9. ~FirstBye(ms[to])
    BY <2>8 DEF FirstBye, Settled, SameTree
  <2>10. PICK r \in S : r.id = to
    BY <2>8, <2>9 DEF Settled, Recorded
  <2>11. ms[to].a # Nobody /\ ms[to].b # Nobody
    BY <2>10 DEF Settled, Recorded
  <2>12. Seat(ms[to], b[g].side) = matchWinner(ms[g])
    BY <2>5, <2>8 DEF Settled
  <2>13. matchWinner(ms[g]) = x
    BY <2>5, <2>11, <2>12, <2>w DEF Seat
  <2>14. Sits(ms, to, x)
    BY <2>1, <2>8, <2>12, <2>13 DEF Sits, Sides
  <2>15. to \in T
    BY <1>1, <2>8, <2>14 DEF T
  <2>16. to \in Nat
    BY <1>1, <2>8
  <2> HIDE DEF to
  <2> QED
    BY <2>4, <2>5, <2>8, <2>15, <2>16
<1> QED
  BY <1>2, <1>3

\* Who waits in a match with two entrants has not lost.
LEMMA OpenStands ==
  ASSUME NEW b, NEW D, Bracket(b, D), NEW ms, NEW S, Settled(b, ms, S),
         NEW id \in DOMAIN b, ms[id].outcome = None, NEW x, Sits(ms, id, x)
  PROVE  x \in Standing(ms, D)
<1>1. x \in D /\ x # Nobody
  BY SitsIn DEF Sits
<1>2. matchLoser(ms[id]) = Nobody /\ matchWinner(ms[id]) = Nobody
  BY DEF matchWinner, matchLoser, None
<1>3. ASSUME NEW j \in DOMAIN b, matchLoser(ms[j]) = x PROVE FALSE
  <2>1. j = id \/ b[id].round < b[j].round
    BY <1>1, <1>3, OutForGood
  <2>2. b[id].round < b[j].round
    BY <1>1, <1>2, <1>3, <2>1
  <2>3. Sits(ms, j, x)
    BY <1>1, <1>3, WinnerSits
  <2>4. matchWinner(ms[id]) = x
    BY <2>2, <2>3, WonBefore
  <2> QED
    BY <1>1, <1>2, <2>4
<1>4. DOMAIN ms = DOMAIN b
  BY DEF Settled, SameTree
<1> QED
  BY <1>1, <1>3, <1>4 DEF Standing
-----------------------------------------------------------------------------
(***************************************************************************)
(* A result recorded: nobody else's match changes.                         *)
(***************************************************************************)
Recording(b, ms, S, ns, r) ==
  /\ Settled(b, ms, S) /\ Settled(b, ns, S \cup {r})
  /\ r.id \in DOMAIN b /\ isReady(ms[r.id]) /\ r.outcome # None

\* Recording a result decides that match and no other.
LEMMA OutcomesKeep ==
  ASSUME NEW b, NEW D, Bracket(b, D), NEW ms, NEW S, NEW ns, NEW r, Recording(b, ms, S, ns, r)
  PROVE  /\ ns[r.id].outcome = r.outcome
         /\ \A j \in DOMAIN b : j # r.id => ns[j].outcome = ms[j].outcome
<1>1. ns[r.id].outcome = r.outcome
  BY DEF Recording, Settled, Recorded
<1>2. ASSUME NEW j \in DOMAIN b, j # r.id PROVE ns[j].outcome = ms[j].outcome
  <2>0. Settled(b, ms, S) /\ Settled(b, ns, S \cup {r})
    BY DEF Recording
  <2>1. ms[j].round = b[j].round /\ ns[j].round = b[j].round
    BY <2>0 DEF Settled, SameTree
  <2>2. b[j].round = 0 => ns[j].a = ms[j].a /\ ns[j].b = ms[j].b
    <3>1. "A" \in Sides /\ "B" \in Sides
      BY DEF Sides
    <3>2. ASSUME b[j].round = 0, NEW s \in Sides PROVE Seat(ns[j], s) = Seat(ms[j], s)
      <4>1. Seat(ns[j], s) = Seat(b[j], s)
        BY <2>0, <3>2, SeatFrom
      <4>2. Seat(ms[j], s) = Seat(b[j], s)
        BY <2>0, <3>2, SeatFrom
      <4> QED
        BY <4>1, <4>2
    <3>3. b[j].round = 0 => Seat(ns[j], "A") = Seat(ms[j], "A") /\ Seat(ns[j], "B") = Seat(ms[j], "B")
      BY <3>1, <3>2
    <3> QED
      BY <3>3 DEF Seat
  <2>3. FirstBye(ns[j]) <=> FirstBye(ms[j])
    BY <2>1, <2>2 DEF FirstBye, isBye
  <2>4. FirstBye(ms[j]) => ns[j].outcome = ms[j].outcome
    <3>1. FirstBye(ms[j]) => ms[j].outcome = ByeSide(ms[j]) /\ ns[j].outcome = ByeSide(ns[j])
      BY <2>0, <2>3 DEF Settled
    <3>2. FirstBye(ms[j]) => ByeSide(ms[j]) = ByeSide(ns[j])
      BY <2>1, <2>2 DEF FirstBye, ByeSide
    <3> QED
      BY <3>1, <3>2
  <2>5. ASSUME ~FirstBye(ms[j]), ms[j].outcome # None PROVE ns[j].outcome = ms[j].outcome
    <3>1. PICK q \in S : q.id = j
      BY <2>0, <2>5 DEF Settled, Recorded
    <3>2. ms[j].outcome = q.outcome
      BY <2>0, <3>1 DEF Settled, Recorded
    <3>3. ns[j].outcome = q.outcome
      BY <2>0, <3>1 DEF Settled, Recorded
    <3> QED
      BY <3>2, <3>3
  <2>6. ASSUME ~FirstBye(ms[j]), ms[j].outcome = None, ns[j].outcome # None PROVE FALSE
    <3>1. PICK q \in S \cup {r} : q.id = j
      BY <2>0, <2>3, <2>6 DEF Settled, Recorded
    <3>2. q \in S
      BY <1>2, <3>1
    <3>3. ms[j].outcome = q.outcome /\ q.outcome # None
      BY <2>0, <3>1, <3>2 DEF Settled, Recorded
    <3> QED
      BY <2>6, <3>3
  <2> QED
    BY <2>4, <2>5, <2>6
<1> QED
  BY <1>1, <1>2

\* A taken seat stays taken by the same entrant.
LEMMA SeatsKeep ==
  ASSUME NEW b, NEW D, Bracket(b, D), NEW ms, NEW S, NEW ns, NEW r, Recording(b, ms, S, ns, r),
         NEW id \in DOMAIN b, NEW s \in Sides, Seat(ms[id], s) # Nobody
  PROVE  Seat(ns[id], s) = Seat(ms[id], s)
<1> DEFINE Kept(k) == \A j \in DOMAIN b, p \in Sides :
                        b[j].round = k /\ Seat(ms[j], p) # Nobody => Seat(ns[j], p) = Seat(ms[j], p)
           T == {k \in Nat : Kept(k)}
<1>0. Settled(b, ms, S) /\ Settled(b, ns, S \cup {r})
  BY DEF Recording
<1>s. Tree(b)
  BY DEF Bracket
<1>1. 0 \in T
  <2> SUFFICES ASSUME NEW j \in DOMAIN b, NEW p \in Sides, b[j].round = 0
               PROVE  Seat(ns[j], p) = Seat(ms[j], p)
    OBVIOUS
  <2>1. Seat(ms[j], p) = Seat(b[j], p)
    BY <1>0, SeatFrom
  <2>2. Seat(ns[j], p) = Seat(b[j], p)
    BY <1>0, SeatFrom
  <2> QED
    BY <2>1, <2>2
<1>2. ASSUME NEW k \in T PROVE k + 1 \in T
  <2> SUFFICES ASSUME NEW j \in DOMAIN b, NEW p \in Sides, b[j].round = k + 1,
                      Seat(ms[j], p) # Nobody
               PROVE  Seat(ns[j], p) = Seat(ms[j], p)
    OBVIOUS
  <2>0. k \in Nat /\ Kept(k) /\ b[j].round # 0
    OBVIOUS
  <2> HIDE DEF T, Kept
  <2>1. PICK f \in DOMAIN b : /\ b[f].to = j /\ b[f].side = p /\ f < j
                              /\ b[j].round = b[f].round + 1 /\ b[f].round \in Nat
                              /\ Seat(ms[j], p) = matchWinner(ms[f])
    BY <1>0, <2>0, SeatFrom
  <2>2. Seat(ns[j], p) = matchWinner(ns[f])
    BY <1>0, <2>1 DEF Settled, Sides
  <2>3. b[f].round = k
    BY <2>0, <2>1
  <2>4. ms[f].outcome # None
    BY <2>1, SeatsOf
  <2>5. f # r.id
    BY <2>4 DEF Recording, isReady
  <2>6. ns[f].outcome = ms[f].outcome
    BY <2>5, OutcomesKeep
  <2>7. "A" \in Sides /\ "B" \in Sides
    BY DEF Sides
  <2>8. /\ Seat(ms[f], "A") # Nobody => Seat(ns[f], "A") = Seat(ms[f], "A")
        /\ Seat(ms[f], "B") # Nobody => Seat(ns[f], "B") = Seat(ms[f], "B")
    BY <2>0, <2>3, <2>7 DEF Kept
  <2>9. /\ ms[f].a # Nobody => ns[f].a = ms[f].a
        /\ ms[f].b # Nobody => ns[f].b = ms[f].b
    BY <2>8 DEF Seat
  <2>10. matchWinner(ns[f]) = matchWinner(ms[f])
    <3>1. matchWinner(ms[f]) # Nobody
      BY <2>1
    <3> QED
      BY <2>6, <2>9, <3>1 DEF matchWinner
  <2> QED
    BY <2>1, <2>2, <2>10
<1>3. T = Nat
  <2>1. T \in SUBSET Nat
    OBVIOUS
  <2> HIDE DEF T
  <2>2. \A k \in T : k + 1 \in T
    BY <1>2
  <2> QED
    BY <1>1, <2>1, <2>2, AllNumbers, Zenon
<1>4. b[id].round \in Nat
  BY <1>s DEF Tree
<1>5. Kept(b[id].round)
  BY <1>3, <1>4
<1> QED
  BY <1>5

\* The recorded match has the loser and the winner of its two entrants; no
\* other match has a new one.
LEMMA Progress ==
  ASSUME NEW b, NEW D, Bracket(b, D), NEW ms, NEW S, NEW ns, NEW r, Recording(b, ms, S, ns, r)
  PROVE  /\ ns[r.id].a = ms[r.id].a /\ ns[r.id].b = ms[r.id].b
         /\ \A j \in DOMAIN b : j # r.id => /\ matchWinner(ns[j]) = matchWinner(ms[j])
                                            /\ matchLoser(ns[j]) = matchLoser(ms[j])
         /\ Standing(ns, D) = Standing(ms, D) \ {matchLoser(ns[r.id])}
<1>0. Settled(b, ms, S) /\ Settled(b, ns, S \cup {r}) /\ r.id \in DOMAIN b
  BY DEF Recording
<1>1. "A" \in Sides /\ "B" \in Sides
  BY DEF Sides
<1>2. ASSUME NEW j \in DOMAIN b
      PROVE  /\ ms[j].a # Nobody => ns[j].a = ms[j].a
             /\ ms[j].b # Nobody => ns[j].b = ms[j].b
  <2>1. Seat(ms[j], "A") # Nobody => Seat(ns[j], "A") = Seat(ms[j], "A")
    BY <1>1, SeatsKeep
  <2>2. Seat(ms[j], "B") # Nobody => Seat(ns[j], "B") = Seat(ms[j], "B")
    BY <1>1, SeatsKeep
  <2> QED
    BY <2>1, <2>2 DEF Seat
<1>3. ns[r.id].a = ms[r.id].a /\ ns[r.id].b = ms[r.id].b
  BY <1>0, <1>2 DEF Recording, isReady
<1>4. ASSUME NEW j \in DOMAIN b, j # r.id
      PROVE  matchWinner(ns[j]) = matchWinner(ms[j]) /\ matchLoser(ns[j]) = matchLoser(ms[j])
  <2>1. ns[j].outcome = ms[j].outcome
    BY <1>4, OutcomesKeep
  <2>2. CASE ms[j].outcome = None
    BY <2>1, <2>2 DEF matchWinner, matchLoser, None
  <2>3. CASE ms[j].outcome # None
    <3>1. ns[j].a = ms[j].a /\ ns[j].b = ms[j].b
      <4>1. CASE FirstBye(ms[j])
        <5>1. b[j].round = 0
          BY <1>0, <4>1 DEF FirstBye, Settled, SameTree
        <5>2. Seat(ms[j], "A") = Seat(b[j], "A") /\ Seat(ms[j], "B") = Seat(b[j], "B")
          BY <1>0, <1>1, <5>1, SeatFrom
        <5>3. Seat(ns[j], "A") = Seat(b[j], "A") /\ Seat(ns[j], "B") = Seat(b[j], "B")
          BY <1>0, <1>1, <5>1, SeatFrom
        <5> QED
          BY <5>2, <5>3 DEF Seat
      <4>2. CASE ~FirstBye(ms[j])
        <5>1. PICK q \in S : q.id = j
          BY <1>0, <2>3, <4>2 DEF Settled, Recorded
        <5>2. ms[j].a # Nobody /\ ms[j].b # Nobody
          BY <1>0, <5>1 DEF Settled, Recorded
        <5> QED
          BY <1>2, <5>2
      <4> QED
        BY <4>1, <4>2
    <3> QED
      BY <2>1, <3>1, SameWinner
  <2> QED
    BY <2>2, <2>3
<1>5. matchLoser(ms[r.id]) = Nobody
  BY DEF Recording, isReady, matchLoser, None
<1>6. DOMAIN ms = DOMAIN b /\ DOMAIN ns = DOMAIN b /\ Nobody \notin D
  BY <1>0 DEF Settled, SameTree, Bracket, Seated
<1>7. ASSUME NEW x \in D
      PROVE  (\A j \in DOMAIN b : matchLoser(ns[j]) # x) <=>
             (\A j \in DOMAIN b : matchLoser(ms[j]) # x) /\ matchLoser(ns[r.id]) # x
  BY <1>0, <1>4, <1>5, <1>6
<1>8. Standing(ns, D) = Standing(ms, D) \ {matchLoser(ns[r.id])}
  BY <1>6, <1>7 DEF Standing
<1> QED
  BY <1>3, <1>4, <1>8
-----------------------------------------------------------------------------
(***************************************************************************)
(* The runs' properties, in a state the invariant describes.               *)
(***************************************************************************)
LEMMA InBracket ==
  ASSUME NEW t, NEW S, t.seeds \in Seq(Nat), Len(t.seeds) >= 2, InPlay(t, t.seeds, t.rounds, S)
  PROVE  LET b == buildSingleElim(t.seeds) IN
         \E n : /\ Bracket(b, DOMAIN t.seeds) /\ Ends(b, n) /\ n \in DOMAIN b
                /\ Settled(b, t.matches, S)
                /\ DOMAIN t.matches = DOMAIN b
                /\ champion(t) = matchWinner(t.matches[n])
                /\ t.complete <=> t.matches[n].outcome # None
                /\ t.complete => \A id \in DOMAIN b : t.matches[id].outcome # None
<1> DEFINE b == buildSingleElim(t.seeds)
<1>2. Len(t.seeds) \in Nat
  OBVIOUS
<1>3. Tree(b) /\ Whole(b) /\ Seated(b, DOMAIN t.seeds) /\ Settled(b, t.matches, S)
  BY <1>2, BuiltTree, BuiltWhole, BuiltSeats DEF InPlay
<1>4. t.complete = Final(t.matches)
  BY DEF InPlay, Cup
<1>5. Final(t.matches) <=> \A m \in ToSet(t.matches) : m.outcome # None
  BY <1>2, AllDecided
<1> HIDE DEF b
<1>6. PICK n \in Nat \ {0} : DOMAIN b = 1 .. n /\ \A id \in DOMAIN b : b[id].to = 0 <=> id = n
  BY <1>3, Zenon DEF Whole
<1>7. Ends(b, n) /\ n \in DOMAIN b
  BY <1>6 DEF Ends
<1>8. champion(t) = matchWinner(t.matches[n]) /\ (Final(t.matches) <=> t.matches[n].outcome # None)
  BY <1>3, <1>7, ChampionIs
<1>9. DOMAIN t.matches = DOMAIN b
  BY <1>3 DEF Settled, SameTree
<1>10. t.complete => \A id \in DOMAIN b : t.matches[id].outcome # None
  BY <1>4, <1>5, <1>9 DEF ToSet
<1>11. Bracket(b, DOMAIN t.seeds)
  BY <1>3 DEF Bracket
<1>12. t.complete <=> t.matches[n].outcome # None
  BY <1>4, <1>8
<1> QED
  BY <1>3, <1>7, <1>8, <1>9, <1>10, <1>11, <1>12, Zenon DEF b

\* The same, of the tournament that is being played.
LEMMA ElimBracket ==
  ASSUME PlayInv, SingleElim
  PROVE  LET b == buildSingleElim(tour.seeds) IN
         \E n : /\ Bracket(b, Players) /\ Ends(b, n) /\ n \in DOMAIN b
                /\ Settled(b, tour.matches, log)
                /\ DOMAIN tour.matches = DOMAIN b
                /\ champion(tour) = matchWinner(tour.matches[n])
                /\ tour.complete <=> tour.matches[n].outcome # None
                /\ tour.complete => \A id \in DOMAIN b : tour.matches[id].outcome # None
<1>1. InPlay(tour, tour.seeds, tour.rounds, log) /\ tour.seeds \in Seq(Nat) /\ Len(tour.seeds) >= 2
  BY DEF PlayInv, PlayTypes, ElimPlay, IsTour
<1> QED
  BY <1>1, InBracket, Zenon DEF Players

\* A bracket without a void match has an open match until it is complete.
LEMMA ElimPlayable ==
  ASSUME PlayInv, SingleElim
  PROVE  Playable
<1> DEFINE b  == buildSingleElim(tour.seeds)
           ms == tour.matches
<1>1. PICK n : /\ Bracket(b, Players) /\ Ends(b, n) /\ n \in DOMAIN b
               /\ Settled(b, ms, log) /\ DOMAIN ms = DOMAIN b
               /\ tour.complete <=> ms[n].outcome # None
  BY ElimBracket, Zenon
<1> HIDE DEF b, ms
<1>2. SUFFICES ASSUME ~tour.complete PROVE pending(tour) # {} \/ Voided
  BY DEF Playable
<1>3. matchWinner(ms[n]) = Nobody
  BY <1>1, <1>2, SeatsOf
<1>4. PICK id \in DOMAIN b : /\ matchWinner(ms[id]) = Nobody
                             /\ ms[id].a # Nobody /\ ms[id].b # Nobody
  BY <1>1, <1>3, LowestOpen
<1>5. CASE ms[id].outcome = None
  BY <1>1, <1>4, <1>5 DEF pending, isReady, ms
<1>6. CASE ms[id].outcome # None
  <2>1. ~FirstBye(ms[id])
    BY <1>4 DEF FirstBye, isBye
  <2>2. PICK r \in log : r.id = id /\ ms[id].outcome = r.outcome
    <3>1. Recorded(b, ms, log)
      BY <1>1 DEF Settled
    <3>2. PICK r \in log : r.id = id
      BY <1>6, <2>1, <3>1 DEF Recorded
    <3>3. ms[id].outcome = r.outcome
      BY <3>1, <3>2 DEF Recorded
    <3> QED
      BY <3>2, <3>3
  <2>3. r.outcome \in Outcomes /\ r.outcome # "Draw"
    BY DEF PlayInv, PlayTypes, ElimPlay, IsResult
  <2>4. r.outcome # "A" /\ r.outcome # "B"
    BY <1>4, <2>2 DEF matchWinner
  <2>5. r.outcome = "Void"
    BY <2>3, <2>4 DEF Outcomes
  <2> QED
    BY <2>5 DEF Voided
<1> QED
  BY <1>5, <1>6

\* A set of two different entrants has two members.
LEMMA PairOfTwo ==
  ASSUME NEW x, NEW y, x # y
  PROVE  Cardinality({x, y}) = 2
<1>1. IsFiniteSet({x}) /\ Cardinality({x}) = 1
  BY FS_Singleton
<1>2. Cardinality({x} \cup {y}) = 2
  BY <1>1, FS_AddElement
<1>3. {x} \cup {y} = {x, y}
  OBVIOUS
<1> QED
  BY <1>2, <1>3

\* In a bracket two entrants meet once, and nobody plays twice in a round.
LEMMA ElimPairs ==
  ASSUME PlayInv, SingleElim
  PROVE  PairsOnce
<1> DEFINE b  == buildSingleElim(tour.seeds)
           ms == tour.matches
<1>1. /\ Bracket(b, Players) /\ Settled(b, ms, log) /\ DOMAIN ms = DOMAIN b
  BY ElimBracket, Zenon
<1>2. \A id \in DOMAIN b : b[id].round \in Nat /\ ms[id].round = b[id].round
  BY <1>1 DEF Bracket, Tree, Settled, SameTree
<1> HIDE DEF b, ms
<1>3. /\ \A id \in Met : id \in DOMAIN b /\ ms[id].a # Nobody /\ ms[id].b # Nobody
      /\ \A id : Pair(id) = {ms[id].a, ms[id].b}
  BY <1>1 DEF Met, Pair, ms
<1>4. ASSUME NEW i \in Met, NEW x PROVE x \in Pair(i) <=> Sits(ms, i, x)
  <2>1. Sits(ms, i, x) <=> x # Nobody /\ (x = ms[i].a \/ x = ms[i].b)
    <3>1. Seat(ms[i], "A") = ms[i].a /\ Seat(ms[i], "B") = ms[i].b
      BY DEF Seat
    <3>2. (\E s \in Sides : Seat(ms[i], s) = x) <=> Seat(ms[i], "A") = x \/ Seat(ms[i], "B") = x
      BY DEF Sides
    <3> QED
      BY <3>1, <3>2 DEF Sits
  <2> QED
    BY <1>3, <2>1
<1>5. ASSUME NEW i \in Met PROVE ms[i].a # ms[i].b
  <2>1. i \in DOMAIN b /\ ms[i].a # Nobody
    BY <1>3
  <2> QED
    BY <1>1, <2>1, TwoInMatch
<1>6. ASSUME NEW i \in Met, NEW j \in Met, i # j, ms[i].round = ms[j].round
      PROVE  Pair(i) \cap Pair(j) = {}
  <2> SUFFICES ASSUME NEW x, x \in Pair(i), x \in Pair(j) PROVE FALSE
    OBVIOUS
  <2>0. i \in DOMAIN b /\ j \in DOMAIN b
    BY <1>3
  <2>1. Sits(ms, i, x) /\ Sits(ms, j, x)
    BY <1>4
  <2>2. PICK c \in Sides : Seat(ms[i], c) = x /\ x # Nobody
    BY <2>1 DEF Sits
  <2>3. PICK d \in Sides : Seat(ms[j], d) = x
    BY <2>1 DEF Sits
  <2>4. b[i].round = b[j].round /\ Seat(ms[i], c) = Seat(ms[j], d) /\ Seat(ms[i], c) # Nobody
    BY <1>2, <1>6, <2>0, <2>2, <2>3
  <2> QED
    BY <1>1, <1>6, <2>0, <2>4, OneSeat
<1>7. ASSUME NEW i \in Met, NEW j \in Met, ms[i].round < ms[j].round PROVE Pair(i) # Pair(j)
  <2> SUFFICES ASSUME Pair(i) = Pair(j) PROVE FALSE
    OBVIOUS
  <2>0. i \in DOMAIN b /\ j \in DOMAIN b /\ b[i].round < b[j].round
    BY <1>2, <1>3, <1>7
  <2>1. ms[i].a \in Pair(i) /\ ms[i].b \in Pair(i)
    BY <1>3
  <2>2. Sits(ms, i, ms[i].a) /\ Sits(ms, j, ms[i].a) /\ Sits(ms, i, ms[i].b) /\ Sits(ms, j, ms[i].b)
    BY <1>4, <2>1
  <2>3. matchWinner(ms[i]) = ms[i].a
    BY <1>1, <2>0, <2>2, WonBefore
  <2>4. matchWinner(ms[i]) = ms[i].b
    BY <1>1, <2>0, <2>2, WonBefore
  <2> QED
    BY <1>5, <2>3, <2>4
<1>8. ASSUME NEW i \in Met, NEW j \in Met, i # j
      PROVE  /\ Pair(i) # Pair(j)
             /\ ms[i].round = ms[j].round => Pair(i) \cap Pair(j) = {}
  <2>1. ms[i].round \in Nat /\ ms[j].round \in Nat
    BY <1>2, <1>3
  <2>2. Pair(i) # {}
    BY <1>3
  <2>3. CASE ms[i].round = ms[j].round
    BY <1>6, <1>8, <2>2, <2>3
  <2>4. CASE ms[i].round < ms[j].round
    BY <1>7, <2>4
  <2>5. CASE ms[j].round < ms[i].round
    BY <1>7, <2>5
  <2> QED
    BY <2>1, <2>3, <2>4, <2>5
<1>9. ASSUME NEW i \in Met PROVE Cardinality(Pair(i)) = 2
  BY <1>3, <1>5, PairOfTwo
<1>10. ~(tour.format = "round_robin")
  BY DEF SingleElim
<1> QED
  BY <1>8, <1>9, <1>10 DEF PairsOnce, ms
\* The round an entrant went out in is the round of the one match they lost.
LEMMA OutIn ==
  ASSUME NEW b, NEW D, Bracket(b, D), NEW t, NEW S, Settled(b, t.matches, S),
         NEW id \in DOMAIN b, NEW x, x # Nobody, matchLoser(t.matches[id]) = x
  PROVE  elimRound(t, x) = b[id].round
<1> DEFINE ms   == t.matches
           lost == {m.round : m \in {y \in ToSet(ms) : matchLoser(y) = x}}
<1>1. elimRound(t, x) = IF lost = {} THEN 0 ELSE CHOOSE r \in lost : \A s \in lost : s <= r
  BY Zenon DEF elimRound
<1>2. DOMAIN ms = DOMAIN b /\ b[id].round \in Nat /\ \A j \in DOMAIN b : ms[j].round = b[j].round
  BY DEF Settled, SameTree, Bracket, Tree
<1>3. ASSUME NEW j \in DOMAIN b, matchLoser(ms[j]) = x PROVE j = id
  <2>1. matchLoser(t.matches[j]) = x
    BY <1>3
  <2> QED
    BY <2>1, LosesOnce
<1>4. {y \in ToSet(ms) : matchLoser(y) = x} = {ms[id]}
  BY <1>2, <1>3 DEF ToSet
<1>5. lost = {b[id].round}
  BY <1>2, <1>4
<1> HIDE DEF lost
<1>6. b[id].round <= b[id].round
  BY <1>2
<1>7. lost # {} /\ \E r \in lost : \A s \in lost : s <= r
  BY <1>5, <1>6
<1>8. (CHOOSE r \in lost : \A s \in lost : s <= r) \in lost
  BY <1>7
<1> QED
  BY <1>1, <1>5, <1>7, <1>8

\* The list of winners is the entrants, each once, the champion first.
LEMMA ElimPlaces ==
  ASSUME PlayInv, SingleElim
  PROVE  LET N == Cardinality(Players)
             w == winners(tour)
             c == champion(tour) IN
         /\ N \in Nat /\ Players = 1 .. N /\ w \in [1 .. N -> Players]
         /\ \A x \in Players : \E k \in 1 .. N : w[k] = x
         /\ \A i, j \in 1 .. N : i # j => w[i] # w[j]
         /\ c # Nobody => w[1] = c
         /\ \A i, j \in 1 .. N : i < j /\ w[i] # c /\ w[j] # c => ~OutLater(tour, w[j], w[i])
<1> DEFINE N == Cardinality(Players)
           w == winners(tour)
           c == champion(tour)
           D == Players \ {c}
           g == Rest(tour, D)
           R == RestOrder(tour, D)
           n == Cardinality(D)
<1>1. /\ InPlay(tour, tour.seeds, tour.rounds, log) /\ tour.seeds \in Seq(Nat)
      /\ Len(tour.seeds) \in Nat
  BY LogOneEach
<1>2. Players = 1 .. Len(tour.seeds)
  BY <1>1 DEF Players
<1>3. IsFiniteSet(Players) /\ N = Len(tour.seeds)
  BY <1>1, <1>2, FS_Interval, UpTo
<1>4. w = IF c = Nobody THEN g ELSE <<c>> \o g
  BY Zenon DEF winners, singleElimOrder, Rest, SingleElim, Players
<1>5. \A x \in D : elimRound(tour, x) \in Nat
  BY <1>1, ElimRounds
<1>6. D \in SUBSET DOMAIN tour.seeds
  BY DEF Players
<1>c. c = Nobody \/ c \in Players
  <2> DEFINE b == buildSingleElim(tour.seeds)
  <2>1. PICK m : /\ Bracket(b, Players) /\ m \in DOMAIN b
                 /\ Settled(b, tour.matches, log) /\ champion(tour) = matchWinner(tour.matches[m])
    BY ElimBracket, Zenon
  <2> HIDE DEF b
  <2> QED
    BY <2>1, WinnerSits, SitsIn
<1> HIDE DEF D, c
<1>7. /\ Orders(D, R) /\ IsFiniteSet(D)
      /\ \A x, y \in D : /\ <<x, y>> \in R <=> Later(tour, x, y)
                         /\ Later(tour, x, y) => ~OutLater(tour, y, x)
  BY <1>1, <1>5, <1>6, RestOrders
<1>8. Ordered(D, R, g)
  BY <1>1, <1>5, <1>6, RestOrdered
<1> HIDE DEF g, R
<1>9. /\ \A x \in D : \E k \in 1 .. n : g[k] = x
      /\ \A i, j \in 1 .. n : i # j => g[i] # g[j]
  BY <1>7, <1>8, OrderedAll
<1>10. /\ g \in [1 .. n -> D] /\ \A i, j \in 1 .. n : i < j => ~OutLater(tour, g[j], g[i])
  BY <1>7, <1>8 DEF Ordered
<1>11. Nobody \notin Players
  BY <1>2 DEF Nobody
<1> HIDE DEF w, N
<1>12. CASE c = Nobody
  <2>1. D = Players /\ n = N /\ w = g
    BY <1>4, <1>11, <1>12 DEF D, N
  <2> QED
    BY <1>1, <1>2, <1>3, <1>9, <1>10, <1>12, <2>1 DEF w, c, N
<1>13. CASE c # Nobody
  <2>1. c \in Players
    BY <1>c, <1>13
  <2>2. N = n + 1 /\ n \in Nat
    <3>1. D \cup {c} = Players /\ c \notin D
      BY <2>1 DEF D
    <3>2. n \in Nat
      BY <1>7, FS_CardinalityType
    <3>3. Cardinality(D \cup {c}) = n + 1
      BY <1>7, <3>1, FS_AddElement
    <3> QED
      BY <3>1, <3>2, <3>3 DEF N
  <2>3. g \in Seq(D) /\ Len(g) = n
    <3> HIDE DEF n
    <3> QED
      BY <1>10, <2>2
  <2>4. w = <<c>> \o g
    BY <1>4, <1>13
  <2> HIDE DEF n
  <2>5. \A k \in 1 .. N : w[k] = IF k = 1 THEN c ELSE g[k - 1]
    BY <2>2, <2>3, <2>4
  <2>6. w \in [1 .. N -> Players]
    <3>1. w \in Seq(Players) /\ Len(w) = N
      <4>1. g \in Seq(Players) /\ <<c>> \in Seq(Players)
        BY <1>10, <2>1, <2>2, <2>3 DEF D
      <4> QED
        BY <2>2, <2>3, <2>4, <4>1
    <3> QED
      BY <3>1
  <2>7. \A k \in 2 .. N : k - 1 \in 1 .. n
    BY <2>2
  <2>8. ASSUME NEW x \in Players PROVE \E k \in 1 .. N : w[k] = x
    <3>1. CASE x = c
      <4>1. 1 \in 1 .. N
        BY <2>2
      <4> QED
        BY <2>5, <3>1, <4>1
    <3>2. CASE x # c
      <4>1. PICK k \in 1 .. n : g[k] = x
        BY <1>9, <3>2 DEF D
      <4>2. k + 1 \in 1 .. N /\ k + 1 # 1 /\ (k + 1) - 1 = k
        BY <2>2
      <4> QED
        BY <2>5, <4>1, <4>2
    <3> QED
      BY <3>1, <3>2
  <2>d. \A k \in 1 .. n : g[k] # c
    BY <1>10 DEF D
  <2>9. ASSUME NEW i \in 1 .. N, NEW j \in 1 .. N, i # j PROVE w[i] # w[j]
    <3>1. CASE i = 1
      <4>1. w[i] = c /\ j \in 2 .. N
        BY <2>5, <2>9, <3>1
      <4> QED
        BY <2>5, <2>7, <2>d, <3>1, <4>1
    <3>2. CASE j = 1
      <4>1. w[j] = c /\ i \in 2 .. N
        BY <2>5, <2>9, <3>2
      <4> QED
        BY <2>5, <2>7, <2>d, <3>2, <4>1
    <3>3. CASE i # 1 /\ j # 1
      <4>1. i - 1 \in 1 .. n /\ j - 1 \in 1 .. n /\ i - 1 # j - 1
        BY <2>2, <2>9, <3>3
      <4> QED
        BY <1>9, <2>5, <3>3, <4>1
    <3> QED
      BY <3>1, <3>2, <3>3
  <2>10. ASSUME NEW i \in 1 .. N, NEW j \in 1 .. N, i < j, w[i] # c, w[j] # c
         PROVE  ~OutLater(tour, w[j], w[i])
    <3>1. i # 1 /\ j # 1
      BY <2>5, <2>10
    <3>2. i - 1 \in 1 .. n /\ j - 1 \in 1 .. n /\ i - 1 < j - 1
      BY <2>2, <2>10, <3>1
    <3>3. w[i] = g[i - 1] /\ w[j] = g[j - 1]
      BY <2>5, <3>1
    <3> QED
      BY <1>10, <3>2, <3>3
  <2>11. w[1] = c
    <3>1. 1 \in 1 .. N
      BY <2>2
    <3> QED
      BY <2>5, <3>1
  <2> QED
    BY <1>1, <1>2, <1>3, <2>6, <2>8, <2>9, <2>10, <2>11 DEF w, c, N
<1> QED
  BY <1>12, <1>13

\* The list of winners places nobody above the opponent who beat them.
LEMMA ElimBeaten ==
  ASSUME PlayInv, SingleElim
  PROVE  BeatenBelow
<1> DEFINE b  == buildSingleElim(tour.seeds)
           ms == tour.matches
           N  == Cardinality(Players)
           w  == winners(tour)
           c  == champion(tour)
<1>1. PICK n : /\ Bracket(b, Players) /\ Ends(b, n) /\ n \in DOMAIN b
               /\ Settled(b, ms, log) /\ DOMAIN ms = DOMAIN b
               /\ c = matchWinner(ms[n])
               /\ tour.complete => \A id \in DOMAIN b : ms[id].outcome # None
  BY ElimBracket, Zenon
<1>p. /\ N \in Nat /\ Players = 1 .. N /\ w \in [1 .. N -> Players]
      /\ \A x \in Players : \E k \in 1 .. N : w[k] = x
      /\ \A i, j \in 1 .. N : i # j => w[i] # w[j]
      /\ c # Nobody => w[1] = c
      /\ \A i, j \in 1 .. N : i < j /\ w[i] # c /\ w[j] # c => ~OutLater(tour, w[j], w[i])
  BY ElimPlaces, Zenon
<1>r. \A id \in DOMAIN b : b[id].round \in Nat
  BY <1>1 DEF Bracket, Tree
<1> HIDE DEF b, ms, N, c
<1>2. ToSet(winners(tour)) = Players /\ Len(winners(tour)) = Cardinality(Players)
  <2> HIDE DEF w
  <2>0. N \in Nat /\ w \in [1 .. N -> Players]
    BY <1>p
  <2>1. DOMAIN w = 1 .. N /\ Len(w) = N
    BY <2>0
  <2>2. ToSet(w) = Players
    <3>1. ToSet(w) = {w[i] : i \in DOMAIN w}
      BY Zenon DEF ToSet
    <3>2. \A i \in 1 .. N : w[i] \in Players
      BY <2>0
    <3>3. \A x \in Players : \E i \in 1 .. N : w[i] = x
      BY <1>p
    <3>4. ToSet(w) \subseteq Players
      BY <2>1, <3>1, <3>2, SMTT(60)
    <3>5. Players \subseteq ToSet(w)
      BY <2>1, <3>1, <3>3, SMTT(60)
    <3> QED
      BY <3>4, <3>5
  <2> QED
    BY <2>1, <2>2 DEF w, N
<1>3. ASSUME tour.complete, c # Nobody, NEW id \in Met, matchWinner(ms[id]) # Nobody
      PROVE  Place(matchWinner(ms[id])) < Place(matchLoser(ms[id]))
  <2> DEFINE x == matchWinner(ms[id])
             y == matchLoser(ms[id])
  <2>1. /\ id \in DOMAIN b /\ ms[id].a # Nobody /\ ms[id].b # Nobody
    BY <1>1 DEF Met, ms
  <2>2. x # Nobody /\ y # Nobody /\ x # y
    <3>1. y \in {ms[id].a, ms[id].b}
      BY <1>3 DEF matchWinner, matchLoser
    <3>2. x # y
      BY <1>1, <1>3, <2>1, TwoInMatch
    <3> QED
      BY <1>3, <2>1, <3>1, <3>2
  <2>3. Sits(ms, id, x) /\ Sits(ms, id, y)
    BY <2>2, WinnerSits
  <2>4. x \in Players /\ y \in Players
    BY <1>1, <2>1, <2>3, SitsIn
  <2>5. \A j \in DOMAIN b : ms[j].outcome # None
    BY <1>1, <1>3
  <2>6. Standing(ms, Players) = {c}
    BY <1>1, <1>3, <2>5, OnlyChampion
  <2>7. y # c
    <3>1. y \notin Standing(ms, Players)
      BY <1>1, <2>1 DEF Standing
    <3> QED
      BY <2>6, <3>1
  <2> DEFINE At(z) == CHOOSE k \in Players : w[k] = z
  <2>8. Place(x) = At(x) /\ Place(y) = At(y)
    BY Zenon DEF Place
  <2> HIDE DEF x, y
  <2>9. At(x) \in 1 .. N /\ w[At(x)] = x /\ At(y) \in 1 .. N /\ w[At(y)] = y
    <3> HIDE DEF w
    <3> QED
      BY <1>p, <2>4
  <2> HIDE DEF At, w
  <2>10. At(x) # At(y)
    BY <2>2, <2>9
  <2>11. CASE x = c
    <3>1. w[1] = c /\ 1 \in 1 .. N
      BY <1>3, <1>p, <2>9
    <3>2. At(x) = 1
      BY <1>p, <2>9, <2>11, <3>1
    <3> QED
      BY <1>p, <2>8, <2>9, <2>10, <3>2 DEF x, y
  <2>12. CASE x # c
    <3>1. PICK j \in DOMAIN b : matchLoser(ms[j]) = x
      BY <1>1, <2>4, <2>6, <2>12 DEF Standing
    <3>2. j # id
      BY <2>2, <3>1 DEF y
    <3>3. b[id].round < b[j].round
      BY <1>1, <2>1, <2>2, <2>3, <3>1, <3>2, OutForGood
    <3>4. elimRound(tour, x) = b[j].round
      <4>1. Settled(b, tour.matches, log) /\ matchLoser(tour.matches[j]) = x /\ x # Nobody
        BY <1>1, <2>2, <3>1 DEF ms
      <4> QED
        BY <1>1, <4>1, OutIn
    <3>5. elimRound(tour, y) = b[id].round
      <4>1. Settled(b, tour.matches, log) /\ matchLoser(tour.matches[id]) = y /\ y # Nobody
        BY <1>1, <2>2 DEF ms, y
      <4> QED
        BY <1>1, <2>1, <4>1, OutIn
    <3>6. OutLater(tour, x, y)
      BY <1>r, <2>1, <3>3, <3>4, <3>5 DEF OutLater
    <3>7. ASSUME At(y) < At(x) PROVE FALSE
      BY <1>p, <2>7, <2>9, <2>12, <3>6, <3>7
    <3> QED
      BY <1>p, <2>8, <2>9, <2>10, <3>7 DEF x, y
  <2> QED
    BY <2>11, <2>12
<1> QED
  BY <1>2, <1>3 DEF BeatenBelow, ms, c
\* Recording a result changes neither the format nor the entrants.
LEMMA SameFormat ==
  ASSUME PlayInv, NEW id \in DOMAIN tour.matches, NEW o \in outcomes, Record(id, o)
  PROVE  SameEntrants(tour, tour') /\ (SingleElim' <=> SingleElim)
<1>1. IsTour(tour)
  BY DEF PlayInv, PlayTypes
<1> DEFINE u == [tour EXCEPT !.matches[id].outcome = o]
<1>2. tour' = advance(u)
  BY Zenon DEF Record, record
<1>3. SameEntrants(tour, u)
  <2> DEFINE ks == [tour.matches EXCEPT ![id].outcome = o]
  <2>1. u = [tour EXCEPT !.matches = ks]
    BY <1>1 DEF IsTour
  <2> HIDE DEF ks, u
  <2> QED
    BY <1>1, <2>1, MatchesKeep
<1> HIDE DEF u
<1>4. IsTour(u) /\ SameEntrants(u, advance(u))
  BY <1>3, AdvanceKeeps DEF SameEntrants
<1> QED
  BY <1>2, <1>3, <1>4 DEF SameEntrants, SingleElim

\* A recorded result takes the loser out; the final crowns the one who is left.
LEMMA ElimDrops ==
  ASSUME PlayInv, SingleElim, NEW id \in DOMAIN tour.matches, NEW o \in outcomes, Record(id, o)
  PROVE  \/ KO!Next
         \/ unbeaten' = unbeaten /\ champion(tour') = champion(tour)
<1> DEFINE b  == buildSingleElim(tour.seeds)
           r  == [id |-> id, outcome |-> o]
           ms == tour.matches
           ns == tour'.matches
           x  == matchLoser(ns[id])
<1>1. PICK n : /\ Bracket(b, Players) /\ Ends(b, n) /\ n \in DOMAIN b
               /\ Settled(b, ms, log) /\ DOMAIN ms = DOMAIN b
               /\ champion(tour) = matchWinner(ms[n])
               /\ tour.complete <=> ms[n].outcome # None
               /\ tour.complete => \A j \in DOMAIN b : ms[j].outcome # None
  BY ElimBracket, Zenon
<1>2. PlayInv'
  BY PlayStep DEF Next
<1>3. SingleElim' /\ tour'.seeds = tour.seeds /\ Players' = Players
  <2>1. SameEntrants(tour, tour')
    BY SameFormat
  <2> QED
    BY <2>1 DEF SameEntrants, SingleElim, Players
<1>4. log' = log \cup {r} /\ id \in pending(tour) /\ o \in Outcomes /\ o # "Draw"
  BY DEF Record, Recordable, SingleElim, PlayInv, PlayTypes
<1>5. PICK m : /\ Ends(b, m) /\ Settled(b, ns, log \cup {r}) /\ DOMAIN ns = DOMAIN b
               /\ champion(tour') = matchWinner(ns[m])
               /\ tour'.complete <=> ns[m].outcome # None
               /\ tour'.complete => \A j \in DOMAIN b : ns[j].outcome # None
  <2>1. /\ tour'.seeds \in Seq(Nat) /\ Len(tour'.seeds) >= 2
        /\ InPlay(tour', tour'.seeds, tour'.rounds, log')
    BY <1>2, <1>3 DEF PlayInv, PlayTypes, ElimPlay, IsTour
  <2>2. LET c == buildSingleElim(tour'.seeds) IN
         \E m : /\ Bracket(c, DOMAIN tour'.seeds) /\ Ends(c, m) /\ m \in DOMAIN c
                /\ Settled(c, tour'.matches, log')
                /\ DOMAIN tour'.matches = DOMAIN c
                /\ champion(tour') = matchWinner(tour'.matches[m])
                /\ tour'.complete <=> tour'.matches[m].outcome # None
                /\ tour'.complete => \A j \in DOMAIN c : tour'.matches[j].outcome # None
    BY <2>1, InBracket, Zenon
  <2> QED
    BY <1>3, <1>4, <2>2, Zenon
<1>6. m = n
  BY <1>1, <1>5 DEF Ends
<1>r. r.id = id /\ r.outcome = o
  OBVIOUS
<1> HIDE DEF b, r, ms, ns, x
<1>7. isReady(ms[id]) /\ id \in DOMAIN b
  BY <1>1, <1>4 DEF pending, ms
<1>8. Recording(b, ms, log, ns, r)
  BY <1>1, <1>4, <1>5, <1>7, <1>r DEF Recording, Outcomes, None
<1>9. /\ ns[id].outcome = o /\ ns[id].a = ms[id].a /\ ns[id].b = ms[id].b
      /\ \A j \in DOMAIN b : j # id => matchWinner(ns[j]) = matchWinner(ms[j])
      /\ Standing(ns, Players) = Standing(ms, Players) \ {x}
  BY <1>1, <1>8, <1>r, OutcomesKeep, Progress DEF x
<1>10. ~tour.complete /\ matchWinner(ms[n]) = Nobody
  BY <1>1, <1>7, SeatsOf DEF isReady
<1>11. unbeaten = Standing(ms, Players) /\ unbeaten' = Standing(ns, Players)
  <2>1. /\ \A i : (\A k \in ToSet(tour.matches) : matchLoser(k) # i) <=>
                  (\A j \in DOMAIN tour.matches : matchLoser(tour.matches[j]) # i)
        /\ \A i : (\A k \in ToSet(tour'.matches) : matchLoser(k) # i) <=>
                  (\A j \in DOMAIN tour'.matches : matchLoser(tour'.matches[j]) # i)
    BY Zenon DEF ToSet
  <2> QED
    BY <1>3, <2>1 DEF unbeaten, Standing, ms, ns
<1>12. CASE o = "Void"
  <2>1. matchWinner(ns[id]) = Nobody /\ x = Nobody
    BY <1>9, <1>12 DEF matchWinner, matchLoser, x
  <2>2. Nobody \notin Standing(ms, Players)
    BY <1>1 DEF Standing, Bracket, Seated
  <2>3. matchWinner(ns[n]) = matchWinner(ms[n])
    BY <1>1, <1>9, <1>10, <2>1
  <2> QED
    BY <1>1, <1>5, <1>6, <1>9, <1>11, <2>1, <2>2, <2>3
<1>13. CASE o \in {"A", "B"}
  <2>1. x \in Standing(ms, Players)
    <3>1. x = ms[id].a \/ x = ms[id].b
      BY <1>9, <1>13 DEF matchLoser, x
    <3>2. Sits(ms, id, ms[id].a) /\ Sits(ms, id, ms[id].b)
      <4>1. "A" \in Sides /\ "B" \in Sides /\ Seat(ms[id], "A") = ms[id].a /\ Seat(ms[id], "B") = ms[id].b
        BY DEF Sides, Seat
      <4> QED
        BY <1>7, <4>1 DEF isReady, Sits
    <3>3. ms[id].outcome = None
      BY <1>7 DEF isReady
    <3> QED
      BY <1>1, <1>7, <3>1, <3>2, <3>3, OpenStands
  <2>2. CASE matchWinner(ns[n]) = Nobody
    <3>1. PICK y \in Standing(ns, Players), z \in Standing(ns, Players) : y # z
      BY <1>1, <1>5, <1>6, <2>2, TwoStand
    <3>2. IsFiniteSet(Standing(ns, Players))
      <4>1. IsFiniteSet(Players)
        <5>1. Len(tour.seeds) \in Nat /\ Players = 1 .. Len(tour.seeds)
          BY DEF PlayInv, PlayTypes, IsTour, Players
        <5> QED
          BY <5>1, FS_Interval
      <4>2. Standing(ns, Players) \in SUBSET Players
        BY DEF Standing
      <4> QED
        BY <4>1, <4>2, FS_Subset
    <3>3. Cardinality(Standing(ns, Players)) > 1
      <4>1. {y, z} \in SUBSET Standing(ns, Players) /\ Cardinality({y, z}) = 2
        BY <3>1, PairOfTwo
      <4>2. Cardinality(Standing(ns, Players)) \in Nat
        BY <3>2, FS_CardinalityType
      <4>3. Cardinality({y, z}) <= Cardinality(Standing(ns, Players))
        BY <3>2, <4>1, FS_Subset
      <4> QED
        BY <4>1, <4>2, <4>3
    <3>4. KO!Drop(x)
      <4>1. champion(tour) = 0 /\ champion(tour') = 0
        BY <1>1, <1>5, <1>6, <1>10, <2>2 DEF Nobody
      <4>2. unbeaten' = unbeaten \ {x} /\ Cardinality(unbeaten') > 1
        BY <1>9, <1>11, <3>3
      <4>3. \A T : KO!Cardinality(T) = Cardinality(T)
        BY Zenon DEF KO!Cardinality, Cardinality
      <4> QED
        BY <1>3, <4>1, <4>2, <4>3 DEF KO!Drop
    <3> QED
      BY <1>11, <2>1, <3>4 DEF KO!Next
  <2>3. CASE matchWinner(ns[n]) # Nobody
    <3>1. tour'.complete
      BY <1>5, <1>6, <2>3, SeatsOf
    <3>2. Standing(ns, Players) = {matchWinner(ns[n])}
      BY <1>1, <1>5, <1>6, <2>3, <3>1, OnlyChampion
    <3>3. KO!Drop(x)
      <4>1. champion(tour) = 0
        BY <1>1, <1>10 DEF Nobody
      <4>2. unbeaten' = unbeaten \ {x} /\ unbeaten' = {champion(tour')}
        BY <1>5, <1>6, <1>9, <1>11, <3>2
      <4> QED
        BY <1>3, <4>1, <4>2 DEF KO!Drop
    <3> QED
      BY <1>11, <2>1, <3>3 DEF KO!Next
  <2> QED
    BY <2>2, <2>3
<1> QED
  BY <1>4, <1>12, <1>13 DEF Outcomes
-----------------------------------------------------------------------------
(***************************************************************************)
(* The theorems.                                                           *)
(***************************************************************************)

\* The invariant holds throughout the tournament.
LEMMA PlayAlways == Spec => []PlayInv
<1>1. Init => PlayInv
  BY PlayInit
<1>2. PlayInv /\ [Next]_playVars => PlayInv'
  BY PlayStep
<1> QED
  BY <1>1, <1>2, PTL DEF Spec

\* The relayer's derivation from the stored results (derive_single_elim_winners
\* in bracket.rs) answers exactly when the web engine has a champion, and with
\* the web engine's placements, for any number of entrants, any seeds and any
\* order in which the matches were played.
THEOREM RelayerFollows == Spec => []RelayerAgrees
<1>1. PlayInv => RelayerAgrees
  BY ElimDerives DEF RelayerAgrees
<1> QED
  BY <1>1, PlayAlways, PTL

\* Rebuilding a single elimination from its stored results in the order of the
\* match ids gives the tournament that was played, whatever the order of play:
\* reconstruct in tournament.ts and the relayer's port of it.
THEOREM BracketReplays == Spec => [](SingleElim => ReplayOrderFree)
<1>1. PlayInv => (SingleElim => ReplayOrderFree)
  BY ElimReplays
<1> QED
  BY <1>1, PlayAlways, PTL

\* A single elimination without a void match is never stuck: until the final
\* is decided, advanceSingleElim has brought two entrants to an open match.
THEOREM BracketPlayable == Spec => [](SingleElim => Playable)
<1>1. PlayInv => (SingleElim => Playable)
  BY ElimPlayable
<1> QED
  BY <1>1, PlayAlways, PTL

\* However winners are moved up by advanceSingleElim, no two entrants of a
\* single elimination meet twice and nobody has two matches in a round.
THEOREM BracketPairs == Spec => [](SingleElim => PairsOnce)
<1>1. PlayInv => (SingleElim => PairsOnce)
  BY ElimPairs
<1> QED
  BY <1>1, PlayAlways, PTL

\* singleElimOrder, the order prizes are paid in, lists every entrant once,
\* and in a finished bracket never the loser of a match above its winner.
THEOREM BracketOrder == Spec => [](SingleElim => BeatenBelow)
<1>1. PlayInv => (SingleElim => BeatenBelow)
  BY ElimBeaten
<1> QED
  BY <1>1, PlayAlways, PTL

\* A single elimination of any size implements Knockout: each recorded result
\* takes out one entrant for good (or, void, nobody), and the champion is
\* crowned by the result that leaves nobody else.
THEOREM BracketIsKnockout == Spec => ImplementsKnockout
<1>1. Init => KO!Init
  <2> SUFFICES ASSUME Init PROVE KO!Init
    OBVIOUS
  <2>1. PICK d \in Draws : /\ tour = newTournament(d.format, d.seeds, d.rounds)
                           /\ outcomes = d.outcomes /\ log = {}
    BY DEF Init
  <2>2. PlayInv
    BY PlayInit
  <2>3. tour.seeds = d.seeds
    BY <2>1, DrawsAssumption, NewTour DEF Formats
  <2>4. unbeaten \in SUBSET UNION {DOMAIN e.seeds : e \in Draws}
    BY <2>3 DEF unbeaten, Players
  <2>5. (IF SingleElim THEN champion(tour) ELSE Nobody) = 0
    <3>1. CASE ~SingleElim
      BY <3>1 DEF Nobody
    <3>2. CASE SingleElim
      <4> DEFINE b == buildSingleElim(tour.seeds)
      <4>1. PICK n : /\ Bracket(b, Players) /\ Ends(b, n) /\ n \in DOMAIN b
                     /\ Settled(b, tour.matches, log) /\ DOMAIN tour.matches = DOMAIN b
                     /\ champion(tour) = matchWinner(tour.matches[n])
                     /\ tour.complete <=> tour.matches[n].outcome # None
                     /\ tour.complete => \A id \in DOMAIN b : tour.matches[id].outcome # None
        BY <2>2, <3>2, ElimBracket, Zenon
      <4> HIDE DEF b
      <4>2. ASSUME champion(tour) # Nobody PROVE FALSE
        <5>1. matchWinner(tour.matches[n]) # Nobody
          BY <4>1, <4>2
        <5>2. \A id \in DOMAIN b : tour.matches[id].outcome # None
          BY <4>1, <5>1, SeatsOf
        <5>3. Standing(tour.matches, Players) = {matchWinner(tour.matches[n])}
          BY <4>1, <5>1, <5>2, OnlyChampion
        <5>4. ASSUME NEW id \in DOMAIN b PROVE matchLoser(tour.matches[id]) = Nobody
          <6>1. FirstBye(tour.matches[id])
            BY <2>1, <4>1, <5>2 DEF Settled, Recorded
          <6>2. tour.matches[id].outcome = ByeSide(tour.matches[id])
            BY <4>1, <6>1 DEF Settled
          <6> QED
            BY <6>1, <6>2 DEF FirstBye, isBye, ByeSide, matchLoser
        <5>5. Nobody \notin Players
          BY <4>1 DEF Bracket, Seated
        <5>6. Standing(tour.matches, Players) = Players
          BY <4>1, <5>4, <5>5 DEF Standing
        <5>7. 1 \in Players /\ 2 \in Players
          BY <2>2 DEF PlayInv, PlayTypes, IsTour, Players
        <5> QED
          BY <5>3, <5>6, <5>7
      <4> QED
        BY <3>2, <4>2 DEF Nobody
    <3> QED
      BY <3>1, <3>2
  <2> QED
    BY <2>4, <2>5 DEF KO!Init
<1>2. PlayInv /\ [Next]_playVars => [KO!Next]_<<unbeaten, IF SingleElim THEN champion(tour) ELSE Nobody>>
  <2> SUFFICES ASSUME PlayInv, [Next]_playVars
               PROVE  \/ KO!Next
                      \/ /\ unbeaten' = unbeaten
                         /\ (IF SingleElim THEN champion(tour) ELSE Nobody)'
                               = (IF SingleElim THEN champion(tour) ELSE Nobody)
    OBVIOUS
  <2>1. CASE UNCHANGED playVars
    BY <2>1 DEF playVars, unbeaten, SingleElim, Players
  <2>2. ASSUME NEW id \in DOMAIN tour.matches, NEW o \in outcomes, Record(id, o)
        PROVE  \/ KO!Next
               \/ /\ unbeaten' = unbeaten
                  /\ (IF SingleElim THEN champion(tour) ELSE Nobody)'
                        = (IF SingleElim THEN champion(tour) ELSE Nobody)
    <3>1. SingleElim' <=> SingleElim
      BY <2>2, SameFormat
    <3>2. CASE SingleElim
      BY <2>2, <3>1, <3>2, ElimDrops
    <3>3. CASE ~SingleElim
      BY <3>1, <3>3 DEF unbeaten
    <3> QED
      BY <3>2, <3>3
  <2> QED
    BY <2>1, <2>2 DEF Next
<1> QED
  BY <1>1, <1>2, PlayAlways, PTL DEF Spec, ImplementsKnockout, KO!Spec
=============================================================================
