----------------------- MODULE BracketConsole_proofs ------------------------
(***************************************************************************)
(* What a bracket document keeps, however its writers overwrite one        *)
(* another: for any entrants, reports, rulings, requests and crashes.      *)
(***************************************************************************)
EXTENDS BracketConsole, BracketEngine_proofs

-----------------------------------------------------------------------------
(***************************************************************************)
(* The engine: what recording a result keeps.                              *)
(***************************************************************************)
\* ns is a later stage of ms: nobody leaves a seat, no outcome changes.
Later(ms, ns) ==
  /\ DOMAIN ns = DOMAIN ms
  /\ AreMatches(ns)
  /\ \A id \in DOMAIN ms :
       /\ ms[id].a # Nobody => ns[id].a = ms[id].a
       /\ ms[id].b # Nobody => ns[id].b = ms[id].b
       /\ ms[id].outcome # None => ns[id].outcome = ms[id].outcome

\* Matches further on than ones further on are further on themselves.
LEMMA LaterStill ==
  ASSUME NEW ks, NEW ms, NEW ns, Later(ks, ms), Later(ms, ns)
  PROVE  Later(ks, ns)
BY DEF Later

\* Deciding the byes empties no seat and undoes no outcome.
LEMMA ByesKeep ==
  ASSUME NEW ms, AreMatches(ms)
  PROVE  Later(ms, CompleteByes(ms))
<1> SUFFICES ASSUME NEW id \in DOMAIN ms
             PROVE  LET n == CompleteByes(ms)[id] IN
                    /\ IsMatch(n) /\ n.a = ms[id].a /\ n.b = ms[id].b
                    /\ ms[id].outcome # None => n.outcome = ms[id].outcome
  BY DEF Later, AreMatches, CompleteByes
<1> DEFINE m == ms[id]
<1>1. IsMatch(m)
  BY DEF AreMatches
<1>2. CompleteByes(ms)[id] = IF m.round = 0 /\ m.outcome = None /\ isBye(m)
                             THEN [m EXCEPT !.outcome = IF m.a # Nobody THEN "A" ELSE "B"]
                             ELSE m
  BY DEF CompleteByes
<1> HIDE DEF m
<1>3. CASE m.outcome = None
  BY <1>1, <1>2, <1>3 DEF IsMatch, m
<1>4. CASE m.outcome # None
  BY <1>1, <1>2, <1>4 DEF m
<1> QED
  BY <1>3, <1>4

\* Neither does moving the winners up.
LEMMA WinnersKeep ==
  ASSUME NEW ms, AreMatches(ms)
  PROVE  Later(ms, PropagateWinners(ms))
<1> SUFFICES ASSUME NEW id \in DOMAIN ms
             PROVE  LET n == PropagateWinners(ms)[id] IN
                    /\ IsMatch(n) /\ n.outcome = ms[id].outcome
                    /\ ms[id].a # Nobody => n.a = ms[id].a
                    /\ ms[id].b # Nobody => n.b = ms[id].b
  BY DEF Later, AreMatches, PropagateWinners
<1> DEFINE m == ms[id]
<1>1. IsMatch(m)
  BY DEF AreMatches
<1>2. \E a, b : /\ PropagateWinners(ms)[id] = [m EXCEPT !.a = a, !.b = b]
                /\ m.a # Nobody => a = m.a
                /\ m.b # Nobody => b = m.b
  BY DEF PropagateWinners
<1> HIDE DEF m
<1>3. PICK a, b : /\ PropagateWinners(ms)[id] = [m EXCEPT !.a = a, !.b = b]
                  /\ m.a # Nobody => a = m.a
                  /\ m.b # Nobody => b = m.b
  BY <1>2
<1> QED
  BY <1>1, <1>3 DEF IsMatch, m

\* Nor does the whole loop of advanceSingleElim.
LEMMA AdvanceKeeps ==
  ASSUME NEW ms, AreMatches(ms), NEW n \in Nat
  PROVE  Later(ms, advanceSingleElim(ms, n))
<1> DEFINE f == CHOOSE g : Passes(ms, n, g)
<1>1. Passes(ms, n, f)
  BY PassesExist
<1>2. advanceSingleElim(ms, n) = f[n]
  BY DEF advanceSingleElim, Passes
<1> HIDE DEF f
<1> DEFINE T == {k \in Nat : k <= n => Later(ms, f[k])}
<1>3. 0 \in T
  <2>1. f[0] = ms
    BY <1>1 DEF Passes
  <2> QED
    BY <2>1 DEF Later
<1>4. ASSUME NEW k \in T PROVE k + 1 \in T
  <2> SUFFICES ASSUME k + 1 <= n PROVE Later(ms, f[k + 1])
    OBVIOUS
  <2>1. Later(ms, f[k])
    OBVIOUS
  <2>2. f[k + 1] = PropagateWinners(CompleteByes(f[k]))
    <3>1. k + 1 \in 0 .. n /\ k + 1 # 0 /\ k + 1 - 1 = k
      OBVIOUS
    <3> QED
      BY <1>1, <3>1 DEF Passes
  <2>3. Later(f[k], CompleteByes(f[k]))
    BY <2>1, ByesKeep DEF Later
  <2>4. Later(CompleteByes(f[k]), f[k + 1])
    BY <2>2, <2>3, WinnersKeep DEF Later
  <2> QED
    BY <2>1, <2>3, <2>4, LaterStill
<1>5. T = Nat
  <2>1. T \in SUBSET Nat
    OBVIOUS
  <2> HIDE DEF T
  <2>2. \A k \in T : k + 1 \in T
    BY <1>4
  <2> QED
    BY <1>3, <2>1, <2>2, AllNumbers, Zenon
<1> QED
  BY <1>2, <1>5

\* A single elimination of these entrants.
Playing(t) ==
  /\ t = [format |-> "single_elimination", seeds |-> Seeds, rounds |-> t.rounds,
          round |-> t.round, matches |-> t.matches, complete |-> t.complete,
          score2 |-> t.score2, played |-> t.played]
  /\ AreMatches(t.matches)

\* recomputeComplete leaves the matches alone.
LEMMA CompleteOnly ==
  ASSUME NEW t, Playing(t)
  PROVE  Playing(recomputeComplete(t)) /\ recomputeComplete(t).matches = t.matches
<1>1. \E c : recomputeComplete(t) = [t EXCEPT !.complete = c]
  BY Zenon DEF recomputeComplete
<1>2. PICK c : recomputeComplete(t) = [t EXCEPT !.complete = c]
  BY <1>1
<1> QED
  BY <1>2 DEF Playing

\* A single elimination with other matches is still one.
LEMMA WithMatches ==
  ASSUME NEW t, Playing(t), NEW ms, AreMatches(ms)
  PROVE  LET u == recomputeComplete([t EXCEPT !.matches = ms]) IN
         Playing(u) /\ u.matches = ms
<1>1. Playing([t EXCEPT !.matches = ms]) /\ [t EXCEPT !.matches = ms].matches = ms
  BY DEF Playing
<1> QED
  BY <1>1, CompleteOnly, Zenon

\* The tournament every reader starts from.
LEMMA NewTournament ==
  ASSUME Len(Seeds) \in Nat
  PROVE  Playing(newTournament("single_elimination", Seeds, 0))
<1> DEFINE n     == Len(Seeds)
           built == buildSingleElim(Seeds)
           blank == [format |-> "single_elimination", seeds |-> Seeds, rounds |-> 0,
                     round |-> 0, matches |-> <<>>, complete |-> FALSE,
                     score2 |-> [i \in 1 .. n |-> 0], played |-> [i \in 1 .. n |-> {}]]
<1>1. AreMatches(built)
  BY Zenon DEF AreMatches, IsMatch, buildSingleElim, Match
<1>2. newTournament("single_elimination", Seeds, 0)
        = recomputeComplete([blank EXCEPT !.matches = advanceSingleElim(built, n)])
  BY Zenon DEF newTournament
<1>3. Playing(blank)
  BY DEF Playing, AreMatches
<1>4. AreMatches(advanceSingleElim(built, n))
  BY <1>1, AdvanceKeeps DEF Later
<1> HIDE DEF blank, built, n
<1> QED
  BY <1>2, <1>3, <1>4, WithMatches, Zenon

\* A result is recorded, and whatever follows from it.
LEMMA RecordKeeps ==
  ASSUME Len(Seeds) \in Nat, NEW t, Playing(t), NEW id \in DOMAIN t.matches, NEW o, o # None,
         t.matches[id].outcome = None
  PROVE  LET u == record(t, id, o) IN
         /\ Playing(u) /\ Later(t.matches, u.matches)
         /\ u.matches[id].outcome = o
<1> DEFINE ms == [t.matches EXCEPT ![id] = [t.matches[id] EXCEPT !.outcome = o]]
           s  == [t EXCEPT !.matches = ms]
           ns == advanceSingleElim(ms, Len(Seeds))
<1>1. AreMatches(ms) /\ Later(t.matches, ms) /\ ms[id].outcome = o /\ id \in DOMAIN ms
  <2>1. \A m : IsMatch(m) => /\ IsMatch([m EXCEPT !.outcome = o])
                             /\ [m EXCEPT !.outcome = o].outcome = o
                             /\ [m EXCEPT !.outcome = o].a = m.a
                             /\ [m EXCEPT !.outcome = o].b = m.b
    BY DEF IsMatch
  <2>2. AreMatches(t.matches) /\ IsMatch(t.matches[id])
    BY DEF Playing, AreMatches
  <2>3. /\ DOMAIN ms = DOMAIN t.matches
        /\ ms[id] = [t.matches[id] EXCEPT !.outcome = o]
        /\ \A j \in DOMAIN ms \ {id} : ms[j] = t.matches[j]
    OBVIOUS
  <2> HIDE DEF ms
  <2>4. /\ IsMatch(ms[id]) /\ ms[id].outcome = o
        /\ ms[id].a = t.matches[id].a /\ ms[id].b = t.matches[id].b
    <3>1. LET m == [t.matches[id] EXCEPT !.outcome = o] IN
          /\ IsMatch(m) /\ m.outcome = o /\ m.a = t.matches[id].a /\ m.b = t.matches[id].b
      BY <2>1, <2>2, Zenon
    <3> QED
      BY <2>3, <3>1, Zenon
  <2>5. AreMatches(ms)
    BY <2>2, <2>3, <2>4, Zenon DEF AreMatches
  <2>6. \A j \in DOMAIN t.matches : /\ ms[j].a = t.matches[j].a /\ ms[j].b = t.matches[j].b
                                    /\ j # id => ms[j].outcome = t.matches[j].outcome
    BY <2>3, <2>4, Zenon
  <2>7. Later(t.matches, ms)
    BY <2>3, <2>5, <2>6, Zenon DEF Later
  <2> QED
    BY <2>3, <2>4, <2>5, <2>7
<1>2. record(t, id, o) = advance(s)
  BY DEF record
<1> HIDE DEF ms
<1>3. Playing(s) /\ s.matches = ms /\ s.format = "single_elimination" /\ s.seeds = Seeds
  BY <1>1 DEF Playing
<1> HIDE DEF s
<1>4. advance(s) = recomputeComplete([s EXCEPT !.matches = ns])
  BY <1>3, Zenon DEF advance
<1>5. Later(ms, ns)
  BY <1>1, AdvanceKeeps
<1>6. AreMatches(ns)
  BY <1>5 DEF Later
<1> HIDE DEF ns
<1>7. Playing(advance(s)) /\ advance(s).matches = ns
  BY <1>3, <1>4, <1>6, WithMatches, Zenon
<1>8. Later(t.matches, ns)
  BY <1>1, <1>5, LaterStill, Zenon
<1>9. ns[id].outcome = o
  BY <1>1, <1>5 DEF Later
<1> QED
  BY <1>2, <1>7, <1>8, <1>9

-----------------------------------------------------------------------------
(***************************************************************************)
(* Replaying a list of results, one after the other.                       *)
(***************************************************************************)
Started == [ok |-> TRUE, t |-> newTournament("single_elimination", Seeds, 0)]

\* The replay of a document's results is the engine's.
LEMMA ReplayIsRun ==
  ASSUME NEW rs \in Seq(Results)
  PROVE  replay[rs] = FoldLeft(Stepped, Started, rs)
BY Zenon DEF replay, reconstruct, Started

\* A document without results is a new tournament.
LEMMA ReplayNothing == replay[<<>>] = Started
<1>1. <<>> \in Seq(Results)
  OBVIOUS
<1> QED
  BY <1>1, ReplayIsRun, RunNothing

\* One more result is one more step.
LEMMA ReplayAppended ==
  ASSUME NEW rs \in Seq(Results), NEW r \in Results
  PROVE  replay[Append(rs, r)] = Stepped(replay[rs], r)
<1>1. Append(rs, r) \in Seq(Results)
  OBVIOUS
<1>2. replay[rs] = FoldLeft(Stepped, Started, rs)
  BY ReplayIsRun
<1>3. replay[Append(rs, r)] = FoldLeft(Stepped, Started, Append(rs, r))
  BY <1>1, ReplayIsRun
<1>4. FoldLeft(Stepped, Started, Append(rs, r)) = Stepped(FoldLeft(Stepped, Started, rs), r)
  BY RunAppended
<1> QED
  BY <1>2, <1>3, <1>4

-----------------------------------------------------------------------------
(***************************************************************************)
(* A document: what every copy of it satisfies, stored or not.  `given` is *)
(* what the organizer has ruled.                                           *)
(***************************************************************************)
Ids     == DOMAIN Started.t.matches
Scores  == {"A", "B", "Draw"}
Filed   == [match : Ids, side : {"A", "B"}, outcome : Scores]

IsDoc(d) ==
  /\ d = [results |-> d.results, reports |-> d.reports, disputes |-> d.disputes,
          finalized |-> d.finalized, computed |-> d.computed]
  /\ d.results \in Seq(Results) /\ d.reports \subseteq Filed

\* A replay that gets through has a tournament with the bracket's matches.
IsState(s) ==
  /\ s = [ok |-> s.ok, t |-> s.t] /\ s.ok \in BOOLEAN
  /\ Playing(s.t) /\ DOMAIN s.t.matches = Ids

\* The results were taken from where the replay is now: their matches are
\* decided, and who has reported sits in the match.
Current(d) ==
  Rebuild(d).ok =>
    /\ \A r \in ToSet(d.results) :
          r.id \in Ids /\ Rebuild(d).t.matches[r.id].outcome # None
    /\ \A x \in d.reports : Seat(Rebuild(d).t.matches[x.match], x.side) # Nobody

Backed(d, given) ==
  \A r \in ToSet(d.results) :
      \/ r \in given
      \/ \A side \in {"A", "B"} :
            [match |-> r.id, side |-> side, outcome |-> r.outcome] \in d.reports

Accounted(d) ==
  \A x, y \in d.reports :
      x.match = y.match /\ x.side # y.side =>
          \/ \E r \in ToSet(d.results) : r.id = x.match
          \/ x.outcome # y.outcome /\ x.match \in d.disputes

Sound(d, given) ==
  /\ IsDoc(d) /\ IsState(Rebuild(d))
  /\ Rebuild(d).ok \/ Drawn(d)
  /\ Current(d) /\ Backed(d, given) /\ Accounted(d)

\* Every reader rebuilds the tournament by that replay.
LEMMA RebuildIsReplay ==
  ASSUME NEW d
  PROVE  Rebuild(d) = replay[d.results]
BY DEF Rebuild, Replays

\* One more entry in a list is one more member of its set.
LEMMA AppendedSet ==
  ASSUME NEW S, NEW rs \in Seq(S), NEW r \in S
  PROVE  ToSet(Append(rs, r)) = ToSet(rs) \cup {r}
<1>1. \A k \in 1 .. Len(rs) : Append(rs, r)[k] = rs[k]
  OBVIOUS
<1>2. /\ Append(rs, r)[Len(rs) + 1] = r /\ Len(rs) \in Nat
      /\ DOMAIN Append(rs, r) = 1 .. Len(rs) + 1 /\ DOMAIN rs = 1 .. Len(rs)
  OBVIOUS
<1>3. DOMAIN Append(rs, r) = DOMAIN rs \cup {Len(rs) + 1}
  BY <1>2
<1> QED
  BY <1>1, <1>2, <1>3 DEF ToSet

\* The document nobody has written to.
LEMMA EmptySound == ASSUME ConsoleAssumption, NEW given PROVE Sound(EmptyDoc, given)
<1>0. Len(Seeds) \in Nat
  BY DEF ConsoleAssumption
<1>1. Rebuild(EmptyDoc) = Started
  BY RebuildIsReplay, ReplayNothing DEF EmptyDoc
<1>2. IsState(Started)
  BY <1>0, NewTournament DEF IsState, Started, Ids
<1>3. EmptyDoc.results = <<>> /\ EmptyDoc.reports = {} /\ ToSet(<<>>) = {}
  BY DEF EmptyDoc, ToSet
<1>4. IsDoc(EmptyDoc)
  BY DEF IsDoc, EmptyDoc
<1> QED
  BY <1>1, <1>2, <1>3, <1>4 DEF Sound, Current, Backed, Accounted, Started

\* What matters of a document are its results, reports and disputes.
LEMMA SameContent ==
  ASSUME NEW d, NEW e, NEW given, Sound(d, given), IsDoc(e), e.results = d.results,
         e.reports = d.reports, e.disputes = d.disputes
  PROVE  Sound(e, given)
<1>1. Rebuild(e) = Rebuild(d)
  BY RebuildIsReplay
<1> QED
  BY <1>1 DEF Sound, Current, Backed, Accounted, Drawn

\* A document stays backed when the organiser rules again.
LEMMA MoreGiven ==
  ASSUME NEW d, NEW given, NEW more, given \subseteq more, Sound(d, given)
  PROVE  Sound(d, more)
BY DEF Sound, Backed

\* One more result: the replay goes on from where it was, or stops for good.
LEMMA OneMore ==
  ASSUME ConsoleAssumption, NEW d, IsDoc(d), IsState(Rebuild(d)),
         NEW r \in Results, NEW e, e.results = Append(d.results, r)
  PROVE  LET s == Rebuild(d)
             u == Rebuild(e) IN
         /\ IsState(u)
         /\ u.ok <=> s.ok /\ Recordable(s.t, r.id, r.outcome)
         /\ u.ok => /\ Later(s.t.matches, u.t.matches)
                    /\ r.id \in Ids /\ u.t.matches[r.id].outcome # None
<1>0. Len(Seeds) \in Nat
  BY DEF ConsoleAssumption
<1> DEFINE s == Rebuild(d)
           u == Rebuild(e)
<1>1. u = Stepped(s, r)
  BY RebuildIsReplay, ReplayAppended DEF IsDoc
<1>2. IsState(s)
  OBVIOUS
<1>3. r.outcome # None
  BY DEF Results, Scores, None
<1> HIDE DEF s, u
<1>4. CASE s.ok /\ Recordable(s.t, r.id, r.outcome)
  <2> DEFINE t == s.t
             n == record(t, r.id, r.outcome)
  <2>1. r.id \in DOMAIN t.matches /\ t.matches[r.id].outcome = None
    BY <1>4 DEF Recordable, pending, isReady
  <2>2. Playing(n) /\ Later(t.matches, n.matches) /\ n.matches[r.id].outcome = r.outcome
    BY <1>0, <1>2, <1>3, <2>1, RecordKeeps DEF IsState
  <2>3. u = [s EXCEPT !.t = n]
    BY <1>1, <1>4 DEF Stepped
  <2> HIDE DEF n
  <2>4. u.ok = s.ok /\ u.t = n /\ u = [ok |-> u.ok, t |-> u.t]
    BY <1>2, <2>3 DEF IsState
  <2> QED
    BY <1>2, <1>3, <1>4, <2>1, <2>2, <2>4 DEF IsState, Later, u, s
<1>5. CASE ~(s.ok /\ Recordable(s.t, r.id, r.outcome))
  <2>1. u = [s EXCEPT !.ok = FALSE]
    BY <1>1, <1>5 DEF Stepped
  <2>2. u.ok = FALSE /\ u.t = s.t /\ u = [ok |-> u.ok, t |-> u.t]
    BY <1>2, <2>1 DEF IsState
  <2> QED
    BY <1>2, <1>5, <2>2 DEF IsState, u, s
<1> QED
  BY <1>4, <1>5

\* A report is filed for a seat its player sits in, in a match without an
\* outcome.
LEMMA FiledByPlayer ==
  ASSUME ConsoleAssumption, NEW d, NEW p \in Players, NEW m, ~ReportRefused(d, p, m)
  PROVE  LET t    == Rebuild(d).t
             side == SideIn(t, m, p) IN
         /\ Rebuild(d).ok /\ t.matches[m].outcome = None
         /\ side \in {"A", "B"} /\ Seat(t.matches[m], side) # Nobody
<1>1. p # Nobody
  BY DEF Players, ConsoleAssumption, Nobody
<1>2. /\ Rebuild(d).ok /\ Rebuild(d).t.matches[m].outcome = None
      /\ SideIn(Rebuild(d).t, m, p) # None
  BY DEF ReportRefused
<1>3. SideIn(Rebuild(d).t, m, p) \in {"A", "B", None}
  BY Zenon DEF SideIn
<1>4. CASE Rebuild(d).t.matches[m].a = p
  BY <1>1, <1>2, <1>4, Zenon DEF SideIn, Seat
<1>5. CASE Rebuild(d).t.matches[m].a # p /\ Rebuild(d).t.matches[m].b = p
  <2>1. SideIn(Rebuild(d).t, m, p) = "B"
    BY <1>5, Zenon DEF SideIn
  <2> QED
    BY <1>1, <1>2, <1>5, <2>1 DEF Seat
<1>6. CASE Rebuild(d).t.matches[m].a # p /\ Rebuild(d).t.matches[m].b # p
  <2>1. SideIn(Rebuild(d).t, m, p) = None
    BY <1>6, Zenon DEF SideIn
  <2> QED
    BY <1>2, <2>1
<1> QED
  BY <1>4, <1>5, <1>6

\* POST /report keeps a document sound.
LEMMA ReportSound ==
  ASSUME ConsoleAssumption, NEW d, NEW given, Sound(d, given),
         NEW p \in Players, NEW m \in MatchIds \cap Ids, NEW o \in Scores,
         ~ReportRefused(d, p, m)
  PROVE  Sound(WithReport(d, m, SideIn(Rebuild(d).t, m, p), o), given)
<1> DEFINE s       == Rebuild(d)
           side    == SideIn(s.t, m, p)
           e       == WithReport(d, m, side, o)
           u       == Rebuild(e)
           new     == [match |-> m, side |-> side, outcome |-> o]
           kept    == {r \in d.reports : r.match # m \/ r.side # side}
           reports == kept \cup {new}
           other   == {r \in reports : r.match = m /\ r.side # side}
           agreed  == \E r \in other : r.outcome = o
           result  == [id |-> m, outcome |-> o]
<1>1. /\ s.ok /\ s.t.matches[m].outcome = None
      /\ side \in {"A", "B"} /\ Seat(s.t.matches[m], side) # Nobody
  BY FiledByPlayer
<1>2. /\ e.reports = reports
      /\ e.results = IF agreed THEN Append(d.results, result) ELSE d.results
      /\ e.disputes = IF \E r \in other : r.outcome # o THEN d.disputes \cup {m}
                                                        ELSE d.disputes
      /\ e = [results |-> e.results, reports |-> e.reports, disputes |-> e.disputes,
              finalized |-> e.finalized, computed |-> e.computed]
  <2>1. /\ d = [results |-> d.results, reports |-> d.reports, disputes |-> d.disputes,
                finalized |-> d.finalized, computed |-> d.computed]
    BY DEF Sound, IsDoc
  <2>2. e = [d EXCEPT !.reports  = reports,
                      !.results  = IF agreed THEN Append(d.results, result) ELSE d.results,
                      !.disputes = IF \E r \in other : r.outcome # o
                                   THEN d.disputes \cup {m} ELSE d.disputes]
    BY Zenon DEF WithReport
  <2> HIDE DEF e, reports, agreed, result, other, s, side
  <2> QED
    BY <2>1, <2>2
<1>3. new \in Filed /\ result \in Results /\ new.match = m /\ new.side = side /\ new.outcome = o
      /\ result.id = m /\ result.outcome = o
  BY <1>1 DEF Filed, Results, Scores
<1>4. /\ IsDoc(d) /\ IsState(s) /\ Current(d) /\ Backed(d, given) /\ Accounted(d)
      /\ d.results \in Seq(Results) /\ d.reports \subseteq Filed
  BY DEF Sound, IsDoc
<1>5. other \subseteq kept /\ kept \subseteq d.reports
  BY <1>3
<1>6. \A r \in ToSet(d.results) : r.id # m
  BY <1>1, <1>4 DEF Current
<1>7. \A r \in ToSet(d.results) :
         r \in given \/ \A z \in {"A", "B"} :
                           [match |-> r.id, side |-> z, outcome |-> r.outcome] \in reports
  BY <1>4, <1>6 DEF Backed
<1>8. ASSUME NEW x \in reports, NEW y \in reports, x.match = y.match, x.side # y.side
      PROVE  \/ \E r \in ToSet(d.results) : r.id = x.match
             \/ agreed /\ m = x.match
             \/ x.outcome # y.outcome /\ x.match \in e.disputes
  <2>1. CASE x \in kept /\ y \in kept
    BY <1>2, <1>4, <1>5, <1>8, <2>1 DEF Accounted
  <2>2. CASE x = new /\ y \in kept
    <3>1. y \in other /\ x.match = m /\ x.outcome = o
      BY <1>3, <1>8, <2>2
    <3> QED
      BY <1>2, <3>1
  <2>3. CASE x \in kept /\ y = new
    <3>1. x \in other /\ x.match = m /\ y.outcome = o
      BY <1>3, <1>8, <2>3
    <3> QED
      BY <1>2, <3>1
  <2> QED
    BY <1>8, <2>1, <2>2, <2>3
<1>9. \A x \in reports : Seat(s.t.matches[x.match], x.side) # Nobody
  BY <1>1, <1>3, <1>4, <1>5 DEF Current
<1>a. reports \subseteq Filed
  BY <1>3, <1>4, <1>5
<1>u. u = replay[e.results] /\ s = replay[d.results]
  BY RebuildIsReplay
<1>b. CASE ~agreed
  <2>1. e.results = d.results /\ u = s
    BY <1>2, <1>b, <1>u
  <2>2. IsDoc(e)
    BY <1>2, <1>4, <1>a, <2>1 DEF IsDoc
  <2>3. Accounted(e)
    BY <1>2, <1>8, <1>b, <2>1 DEF Accounted
  <2>4. Current(e)
    BY <1>2, <1>4, <1>9, <2>1 DEF Current
  <2>5. Backed(e, given)
    BY <1>2, <1>7, <2>1 DEF Backed
  <2> QED
    BY <1>1, <1>4, <2>1, <2>2, <2>3, <2>4, <2>5 DEF Sound
<1>c. CASE agreed
  <2>1. e.results = Append(d.results, result)
    BY <1>2, <1>c
  <2>2. ToSet(e.results) = ToSet(d.results) \cup {result}
    <3> HIDE DEF result, e
    <3>1. ToSet(Append(d.results, result)) = ToSet(d.results) \cup {result}
      BY <1>3, <1>4, AppendedSet
    <3> QED
      BY <2>1, <3>1
  <2>3. IsDoc(e)
    BY <1>2, <1>3, <1>4, <1>a, <2>1 DEF IsDoc
  <2>4. /\ IsState(u)
        /\ u.ok <=> s.ok /\ Recordable(s.t, m, o)
        /\ u.ok => Later(s.t.matches, u.t.matches) /\ u.t.matches[m].outcome # None
    <3>1. /\ IsState(u)
          /\ u.ok <=> s.ok /\ Recordable(s.t, result.id, result.outcome)
          /\ u.ok => /\ Later(s.t.matches, u.t.matches)
                     /\ result.id \in Ids /\ u.t.matches[result.id].outcome # None
      <4>1. IsDoc(d) /\ IsState(Rebuild(d)) /\ result \in Results
        BY <1>3, <1>4
      <4> HIDE DEF result, e
      <4> QED
        BY <2>1, <4>1, OneMore
    <3> QED
      BY <1>3, <3>1
  <2>5. PICK y \in other : y.outcome = o
    BY <1>c
  <2>6. /\ y \in d.reports /\ y \in Filed /\ y.match = m /\ y.side # side
        /\ Seat(s.t.matches[m], y.side) # Nobody
        /\ y = [match |-> m, side |-> y.side, outcome |-> o] /\ y.side \in {"A", "B"}
    BY <1>1, <1>4, <1>5, <2>5 DEF Current, Filed
  <2>7. m \in pending(s.t)
    BY <1>1, <1>4, <2>6 DEF pending, isReady, Seat, IsState
  <2>8. u.ok \/ o = "Draw"
    BY <1>1, <2>4, <2>7 DEF Recordable
  <2>9. u.ok \/ Drawn(e)
    BY <1>3, <2>2, <2>8 DEF Drawn
  <2>10. Accounted(e)
    BY <1>2, <1>3, <1>8, <2>2 DEF Accounted
  <2>11. Backed(e, given)
    <3>1. \A z \in {"A", "B"} : [match |-> m, side |-> z, outcome |-> o] \in reports
      BY <1>1, <1>5, <2>5, <2>6
    <3> QED
      BY <1>2, <1>3, <1>7, <2>2, <3>1 DEF Backed
  <2>12. Current(e)
    <3> SUFFICES ASSUME u.ok PROVE /\ \A r \in ToSet(e.results) :
                                        r.id \in Ids /\ u.t.matches[r.id].outcome # None
                                   /\ \A x \in reports :
                                        Seat(u.t.matches[x.match], x.side) # Nobody
      BY <1>2 DEF Current
    <3>1. Later(s.t.matches, u.t.matches) /\ DOMAIN s.t.matches = Ids
      BY <1>4, <2>4 DEF IsState
    <3>2. \A x \in reports : Seat(u.t.matches[x.match], x.side) # Nobody
      <4>1. \A x \in reports : /\ x.match \in Ids
                               /\ Seat(s.t.matches[x.match], x.side) # Nobody
        BY <1>9, <1>a DEF Filed
      <4>2. \A i \in Ids : \A z :
                Seat(s.t.matches[i], z) # Nobody => Seat(u.t.matches[i], z) = Seat(s.t.matches[i], z)
        <5> HIDE DEF s, u
        <5> QED
          BY <3>1 DEF Later, Seat
      <4> HIDE DEF s, u, reports
      <4> QED
        BY <4>1, <4>2
    <3>3. \A r \in ToSet(d.results) : r.id \in Ids /\ u.t.matches[r.id].outcome # None
      BY <1>1, <1>4, <3>1 DEF Current, Later
    <3> QED
      BY <1>3, <2>2, <2>4, <3>2, <3>3
  <2> QED
    BY <2>3, <2>4, <2>9, <2>10, <2>11, <2>12 DEF Sound
<1> QED
  BY <1>b, <1>c

\* The organizer's "win" buttons keep a document sound, and replayable.
LEMMA RulingSound ==
  ASSUME ConsoleAssumption, NEW d, NEW given, Sound(d, given), Rebuild(d).ok,
         NEW r \in Results, r.id \in pending(Rebuild(d).t), r.outcome \in {"A", "B"},
         NEW e, IsDoc(e), e.results = Append(d.results, r), e.reports = d.reports,
         e.disputes = d.disputes
  PROVE  Sound(e, given \cup {r}) /\ Rebuild(e).ok
<1>1. IsDoc(d) /\ IsState(Rebuild(d))
  BY DEF Sound
<1>2. e.results = Append(d.results, r) /\ e.reports = d.reports /\ e.disputes = d.disputes
  OBVIOUS
<1>3. IsDoc(e)
  OBVIOUS
<1>4. ToSet(e.results) = ToSet(d.results) \cup {r}
  <2>1. d.results \in Seq(Results)
    BY <1>1 DEF IsDoc
  <2> QED
    BY <1>1, <1>2, <2>1, AppendedSet
<1>5. /\ IsState(Rebuild(e))
      /\ Rebuild(e).ok <=> Rebuild(d).ok /\ Recordable(Rebuild(d).t, r.id, r.outcome)
      /\ Rebuild(e).ok => /\ Later(Rebuild(d).t.matches, Rebuild(e).t.matches)
                          /\ r.id \in Ids /\ Rebuild(e).t.matches[r.id].outcome # None
  BY <1>1, OneMore
<1>6. Rebuild(e).ok
  BY <1>1, <1>5 DEF Recordable
<1>7. Current(e)
  <2>1. Later(Rebuild(d).t.matches, Rebuild(e).t.matches) /\ DOMAIN Rebuild(d).t.matches = Ids
    BY <1>1, <1>5, <1>6 DEF IsState
  <2>2. /\ \A x \in ToSet(d.results) : x.id \in Ids /\ Rebuild(d).t.matches[x.id].outcome # None
        /\ \A x \in d.reports : Seat(Rebuild(d).t.matches[x.match], x.side) # Nobody
        /\ d.reports \subseteq Filed
    BY DEF Sound, Current, IsDoc
  <2>3. \A x \in d.reports : Seat(Rebuild(e).t.matches[x.match], x.side) # Nobody
    BY <2>1, <2>2 DEF Later, Seat, Filed
  <2>4. \A x \in ToSet(d.results) : x.id \in Ids /\ Rebuild(e).t.matches[x.id].outcome # None
    BY <2>1, <2>2 DEF Later
  <2> QED
    BY <1>2, <1>4, <1>5, <1>6, <2>3, <2>4 DEF Current
<1>8. Backed(e, given \cup {r})
  BY <1>2, <1>4 DEF Backed, Sound
<1>9. Accounted(e)
  BY <1>2, <1>4 DEF Accounted, Sound
<1> QED
  BY <1>3, <1>5, <1>6, <1>7, <1>8, <1>9 DEF Sound

-----------------------------------------------------------------------------
(***************************************************************************)
(* The inductive invariant: every document there is is sound, wherever it  *)
(* is kept, and what a page holds it may act on.                           *)
(***************************************************************************)
Docs == {doc, page.doc} \cup puts \cup {req[p].doc : p \in DOMAIN req}
          \cup {route[r].doc : r \in DOMAIN route}

DocsInv == \A d \in Docs : Sound(d, ruled)

IsRequest(q) ==
  /\ q = [at |-> q.at, match |-> q.match, outcome |-> q.outcome, doc |-> q.doc]
  /\ q.at = "sent" => q.match \in MatchIds \cap Ids /\ q.outcome \in Scores

PageInv ==
  /\ DOMAIN req = Players /\ \A p \in Players : IsRequest(req[p])
  /\ page = [at |-> page.at, open |-> page.open, doc |-> page.doc, wait |-> page.wait]
  /\ page.open => Rebuild(page.doc).ok
  /\ \A r \in DOMAIN route : route[r] = [at |-> route[r].at, doc |-> route[r].doc]
  /\ offered \subseteq Players \X Ids

ConsoleInv == DocsInv /\ PageInv

\* A step that brings at most one new document, a sound one.
LEMMA OneNewDoc ==
  ASSUME DocsInv, ruled \subseteq ruled', NEW e, Sound(e, ruled'), Docs' \subseteq Docs \cup {e}
  PROVE  DocsInv'
<1> SUFFICES ASSUME NEW d \in Docs' PROVE Sound(d, ruled')
  BY DEF DocsInv
<1>1. d \in Docs => Sound(d, ruled)
  BY DEF DocsInv
<1>2. CASE d = e
  BY <1>2
<1>3. CASE d \in Docs
  BY <1>1, <1>3, MoreGiven
<1> QED
  BY <1>2, <1>3

\* A step that makes no document preserves what is said of all of them.
LEMMA NoNewDoc ==
  ASSUME DocsInv, ruled' = ruled, Docs' \subseteq Docs
  PROVE  DocsInv'
BY DEF DocsInv

\* A player is offered matches of the bracket, and only ones they sit in.
LEMMA OfferedSeats ==
  ASSUME NEW d, NEW given, Sound(d, given)
  PROVE  MyMatches(d) \subseteq Players \X Ids
<1> DEFINE t == Rebuild(d).t
           Mine(p)  == {m \in pending(t) : p \in {t.matches[m].a, t.matches[m].b}}
           First(p) == {m \in Mine(p) : \A k \in Mine(p) : m <= k}
<1>1. MyMatches(d) = IF Rebuild(d).ok THEN UNION {{p} \X First(p) : p \in Players} ELSE {}
  BY Zenon DEF MyMatches
<1>2. CASE Rebuild(d).ok
  <2>1. pending(t) \subseteq Ids
    BY <1>2 DEF Sound, IsState, pending
  <2>2. \A p \in Players : First(p) \subseteq Ids
    BY <2>1
  <2> HIDE DEF First
  <2> QED
    BY <1>1, <1>2, <2>2
<1> QED
  BY <1>1, <1>2

\* The first state satisfies the invariant.
LEMMA ConsoleStart == ASSUME ConsoleAssumption, Init PROVE ConsoleInv
<1>1. Sound(EmptyDoc, ruled)
  BY EmptySound
<1>2. Docs \subseteq {EmptyDoc}
  BY DEF Init, Docs, Idle, NoFinalize
<1>3. DocsInv
  BY <1>1, <1>2 DEF DocsInv
<1>4. offered \subseteq Players \X Ids
  BY <1>1, OfferedSeats DEF Init
<1>5. PageInv
  BY <1>4 DEF PageInv, Init, Idle, NoFinalize, IsRequest
<1> QED
  BY <1>3, <1>5 DEF ConsoleInv
-----------------------------------------------------------------------------
(***************************************************************************)
(* The steps, one lemma per action that writes a document.                 *)
(***************************************************************************)

\* A document in one of the places is sound.
LEMMA SoundDocs ==
  ASSUME DocsInv
  PROVE  /\ Sound(doc, ruled) /\ Sound(page.doc, ruled) /\ \A d \in puts : Sound(d, ruled)
         /\ \A p \in DOMAIN req : Sound(req[p].doc, ruled)
         /\ \A r \in DOMAIN route : Sound(route[r].doc, ruled)
<1>1. /\ doc \in Docs /\ page.doc \in Docs /\ puts \subseteq Docs
      /\ \A p \in DOMAIN req : req[p].doc \in Docs
      /\ \A r \in DOMAIN route : route[r].doc \in Docs
  BY DEF Docs
<1> QED
  BY <1>1 DEF DocsInv

\* saveBracket offers only matches of the bracket.
LEMMA SaveOffers ==
  ASSUME ConsoleInv, NEW d, Sound(d, ruled), saveBracket(d)
  PROVE  offered' \subseteq Players \X Ids
BY OfferedSeats DEF ConsoleInv, PageInv, saveBracket

\* A report request that moves on, with the document n holds.
LEMMA RequestDocs ==
  ASSUME NEW p, NEW n, req' = [req EXCEPT ![p] = n], UNCHANGED <<doc, page, puts, route>>
  PROVE  Docs' \subseteq Docs \cup {n.doc}
<1>1. \A x \in DOMAIN req' : x \in DOMAIN req /\ (req'[x] = n \/ req'[x] = req[x])
  OBVIOUS
<1> QED
  BY <1>1 DEF Docs

\* The fields of a report that was sent.
LEMMA RequestSent ==
  ASSUME NEW m, NEW o
  PROVE  [Idle EXCEPT !.at = "sent", !.match = m, !.outcome = o]
            = [at |-> "sent", match |-> m, outcome |-> o, doc |-> EmptyDoc]
<1> DEFINE x == [Idle EXCEPT !.at = "sent"]
           y == [x EXCEPT !.match = m]
           z == [y EXCEPT !.outcome = o]
<1>1. x = [at |-> "sent", match |-> 0, outcome |-> None, doc |-> EmptyDoc]
  BY DEF Idle
<1> HIDE DEF x
<1>2. y = [at |-> "sent", match |-> m, outcome |-> None, doc |-> EmptyDoc]
  BY <1>1
<1> HIDE DEF y
<1>3. z = [at |-> "sent", match |-> m, outcome |-> o, doc |-> EmptyDoc]
  BY <1>2
<1> QED
  BY <1>3, Zenon DEF x, y

\* The fields of a report whose document was read.
LEMMA RequestRead ==
  ASSUME NEW q, q = [at |-> q.at, match |-> q.match, outcome |-> q.outcome, doc |-> q.doc],
         NEW e
  PROVE  [q EXCEPT !.at = "save", !.doc = e]
            = [at |-> "save", match |-> q.match, outcome |-> q.outcome, doc |-> e]
<1> DEFINE x == [q EXCEPT !.at = "save"]
           y == [x EXCEPT !.doc = e]
<1>1. x = [at |-> "save", match |-> q.match, outcome |-> q.outcome, doc |-> q.doc]
  OBVIOUS
<1> HIDE DEF x
<1>2. y = [at |-> "save", match |-> q.match, outcome |-> q.outcome, doc |-> e]
  BY <1>1
<1> QED
  BY <1>2, Zenon DEF x

\* A player's report leaves the page.
LEMMA ReportStep ==
  ASSUME ConsoleInv, NEW p \in Players, NEW m \in MatchIds, NEW o \in PlayOutcomes,
         ConsoleAssumption, Report(p, m, o)
  PROVE  ConsoleInv'
<1> DEFINE q == [at |-> "sent", match |-> m, outcome |-> o, doc |-> EmptyDoc]
<1>1. req' = [req EXCEPT ![p] = q]
  BY RequestSent, Zenon DEF Report
<1>2. IsRequest(q)
  <2>1. <<p, m>> \in Players \X Ids
    BY DEF Report, MayReport, ConsoleInv, PageInv
  <2> QED
    BY <2>1 DEF IsRequest, ConsoleAssumption, Scores
<1>3. q.doc = EmptyDoc
  OBVIOUS
<1>4. Sound(EmptyDoc, ruled') /\ ruled' = ruled
  BY EmptySound DEF Report, historyVars
<1> HIDE DEF q
<1>5. Docs' \subseteq Docs \cup {EmptyDoc}
  <2>1. UNCHANGED <<doc, page, puts, route>>
    BY DEF Report, historyVars
  <2> QED
    BY <1>1, <1>3, <2>1, RequestDocs
<1>6. DocsInv'
  BY <1>4, <1>5, OneNewDoc DEF ConsoleInv
<1>7. PageInv'
  BY <1>1, <1>2 DEF ConsoleInv, PageInv, Report, historyVars, IsRequest
<1> QED
  BY <1>6, <1>7 DEF ConsoleInv

\* The report handler reads the document and adds the report to its copy.
LEMMA ReportReadStep ==
  ASSUME ConsoleInv, NEW p \in Players, ConsoleAssumption, ReportRead(p)
  PROVE  ConsoleInv'
<1> DEFINE q == req[p]
           e == WithReport(doc, q.match, SideIn(Rebuild(doc).t, q.match, p), q.outcome)
           f == IF ReportRefused(doc, p, q.match) THEN EmptyDoc ELSE e
           n == IF ReportRefused(doc, p, q.match) THEN Idle
                ELSE [at |-> "save", match |-> q.match, outcome |-> q.outcome, doc |-> e]
<1>1. q = [at |-> q.at, match |-> q.match, outcome |-> q.outcome, doc |-> q.doc]
      /\ q.match \in MatchIds \cap Ids /\ q.outcome \in Scores /\ q.at = "sent"
  BY DEF ConsoleInv, PageInv, IsRequest, ReportRead
<1>2. [req[p] EXCEPT !.at = "save", !.doc = e]
         = [at |-> "save", match |-> q.match, outcome |-> q.outcome, doc |-> e]
  <2> HIDE DEF e, q
  <2> QED
    BY <1>1, RequestRead DEF q
<1>3. req' = [req EXCEPT ![p] = n]
  <2>1. req' = [req EXCEPT ![p] = IF ReportRefused(doc, p, req[p].match) THEN Idle
                                  ELSE [req[p] EXCEPT !.at = "save", !.doc = e]]
    BY Zenon DEF ReportRead
  <2> HIDE DEF e
  <2> QED
    BY <1>2, <2>1
<1>4. IsRequest(n) /\ n.doc = f
  <2> HIDE DEF e
  <2> QED
    BY DEF IsRequest, Idle
<1>5. Sound(f, ruled)
  <2>1. Sound(doc, ruled)
    BY SoundDocs DEF ConsoleInv
  <2>2. CASE ReportRefused(doc, p, q.match)
    BY <2>2, EmptySound
  <2>3. CASE ~ReportRefused(doc, p, q.match)
    <3>1. Sound(e, ruled)
      BY <1>1, <2>1, <2>3, ReportSound
    <3> HIDE DEF e
    <3> QED
      BY <2>3, <3>1
  <2> QED
    BY <2>2, <2>3
<1>6. ruled' = ruled /\ Sound(f, ruled')
  BY <1>5 DEF ReportRead, historyVars
<1> HIDE DEF n, f
<1>7. Docs' \subseteq Docs \cup {f}
  <2>1. UNCHANGED <<doc, page, puts, route>>
    BY DEF ReportRead, historyVars
  <2> QED
    BY <1>3, <1>4, <2>1, RequestDocs
<1>8. DocsInv'
  BY <1>6, <1>7, OneNewDoc DEF ConsoleInv
<1>9. PageInv'
  BY <1>3, <1>4 DEF ConsoleInv, PageInv, ReportRead, historyVars, IsRequest
<1> QED
  BY <1>8, <1>9 DEF ConsoleInv

\* The report handler writes its copy back.
LEMMA ReportSaveStep ==
  ASSUME ConsoleInv, NEW p \in Players, ConsoleAssumption, ReportSave(p)
  PROVE  ConsoleInv'
<1>1. p \in DOMAIN req /\ Sound(req[p].doc, ruled) /\ saveBracket(req[p].doc)
  BY SoundDocs DEF ConsoleInv, PageInv, ReportSave
<1>2. Sound(EmptyDoc, ruled') /\ ruled' = ruled
  BY EmptySound DEF ReportSave
<1>3. Docs' \subseteq Docs \cup {EmptyDoc}
  BY <1>1 DEF ReportSave, saveBracket, Docs, Idle
<1>4. DocsInv'
  BY <1>2, <1>3, OneNewDoc DEF ConsoleInv
<1>5. offered' \subseteq Players \X Ids
  BY <1>1, SaveOffers
<1>6. PageInv'
  BY <1>5 DEF ConsoleInv, PageInv, ReportSave, IsRequest, Idle
<1> QED
  BY <1>4, <1>6 DEF ConsoleInv

\* The page keeps its document and whether it is open.
PageKeeps == /\ page' = [at |-> page'.at, open |-> page'.open, doc |-> page'.doc, wait |-> page'.wait]
             /\ page'.doc = page.doc /\ page'.open = page.open

\* The fields of an organiser's page that waits for an answer.
LEMMA PageMoved ==
  ASSUME ConsoleInv, NEW a, NEW w
  PROVE  [page EXCEPT !.at = a, !.wait = w]
            = [at |-> a, open |-> page.open, doc |-> page.doc, wait |-> w]
<1> DEFINE x == [page EXCEPT !.at = a]
           y == [x EXCEPT !.wait = w]
<1>1. page = [at |-> page.at, open |-> page.open, doc |-> page.doc, wait |-> page.wait]
  BY Zenon DEF ConsoleInv, PageInv
<1>2. x = [at |-> a, open |-> page.open, doc |-> page.doc, wait |-> page.wait]
  BY <1>1
<1> HIDE DEF x
<1>3. y = [at |-> a, open |-> page.open, doc |-> page.doc, wait |-> w]
  BY <1>2
<1> QED
  BY <1>3, Zenon DEF x

\* A page nobody touches keeps its document.
LEMMA PageStays == ASSUME ConsoleInv, page' = page PROVE PageKeeps
BY DEF ConsoleInv, PageInv, PageKeeps

\* The same for a finalize handler.
LEMMA RouteDocs ==
  ASSUME NEW r, NEW n, route' = [route EXCEPT ![r] = n], UNCHANGED <<doc, puts, req>>,
         PageKeeps
  PROVE  Docs' \subseteq Docs \cup {n.doc}
<1>1. \A x \in DOMAIN route' : x \in DOMAIN route /\ (route'[x] = n \/ route'[x] = route[x])
  OBVIOUS
<1> QED
  BY <1>1 DEF Docs, PageKeeps

\* A document with other results; with a mark and winners.
LEMMA DocWithResults ==
  ASSUME NEW d, NEW rs,
         d = [results |-> d.results, reports |-> d.reports, disputes |-> d.disputes,
              finalized |-> d.finalized, computed |-> d.computed]
  PROVE  [d EXCEPT !.results = rs]
            = [results |-> rs, reports |-> d.reports, disputes |-> d.disputes,
               finalized |-> d.finalized, computed |-> d.computed]
OBVIOUS

\* The fields of a finalized document.
LEMMA DocMarked ==
  ASSUME NEW d, NEW b,
         d = [results |-> d.results, reports |-> d.reports, disputes |-> d.disputes,
              finalized |-> d.finalized, computed |-> d.computed]
  PROVE  [d EXCEPT !.finalized = b]
            = [results |-> d.results, reports |-> d.reports, disputes |-> d.disputes,
               finalized |-> b, computed |-> d.computed]
OBVIOUS

\* The finalized mark and the computed winners leave a document as sound.
LEMMA MarkedSound ==
  ASSUME NEW d, NEW given, Sound(d, given), NEW w
  PROVE  /\ Sound([d EXCEPT !.finalized = TRUE], given)
         /\ Sound([d EXCEPT !.finalized = TRUE, !.computed = w], given)
         /\ Rebuild([d EXCEPT !.finalized = TRUE]) = Rebuild(d)
<1> DEFINE b == TRUE
           x == [d EXCEPT !.finalized = b]
           y == [x EXCEPT !.computed = w]
<1>1. IsDoc(d)
  BY DEF Sound
<1>2. d = [results |-> d.results, reports |-> d.reports, disputes |-> d.disputes,
           finalized |-> d.finalized, computed |-> d.computed]
  BY <1>1, Zenon DEF IsDoc
<1> HIDE DEF b
<1>3. x = [results |-> d.results, reports |-> d.reports, disputes |-> d.disputes,
           finalized |-> b, computed |-> d.computed]
  BY <1>2, DocMarked, Zenon
<1> HIDE DEF x
<1>4. y = [results |-> d.results, reports |-> d.reports, disputes |-> d.disputes,
            finalized |-> b, computed |-> w]
  BY <1>3
<1> HIDE DEF y
<1>5. /\ IsDoc(x) /\ x.results = d.results /\ x.reports = d.reports /\ x.disputes = d.disputes
      /\ IsDoc(y) /\ y.results = d.results /\ y.reports = d.reports /\ y.disputes = d.disputes
  BY <1>1, <1>3, <1>4 DEF IsDoc
<1>6. Sound(x, given) /\ Sound(y, given)
  BY <1>5, SameContent
<1>7. Rebuild(x) = Rebuild(d)
  BY <1>5, RebuildIsReplay
<1> QED
  BY <1>6, <1>7, Zenon DEF b, x, y

\* The organiser opens the page.
LEMMA LoadStep == ASSUME ConsoleInv, Load PROVE ConsoleInv'
<1>1. /\ page' = [at |-> "idle", open |-> Rebuild(doc).ok, doc |-> doc, wait |-> 0]
      /\ UNCHANGED <<doc, req, puts, route, ruled, offered>>
  BY DEF Load, historyVars
<1>2. page'.open = Rebuild(doc).ok /\ page'.doc = doc
  BY <1>1
<1>3. DocsInv'
  <2>1. Docs' \subseteq Docs
    BY <1>1, <1>2 DEF Docs
  <2> QED
    BY <1>1, <2>1, NoNewDoc DEF ConsoleInv
<1>4. Rebuild(page'.doc).ok <=> page'.open
  BY <1>2
<1>5. page' = [at |-> page'.at, open |-> page'.open, doc |-> page'.doc, wait |-> page'.wait]
  BY <1>1
<1>6. PageInv'
  BY <1>1, <1>4, <1>5 DEF ConsoleInv, PageInv
<1> QED
  BY <1>3, <1>6 DEF ConsoleInv

\* The organiser records a result on the page.
LEMMA RecordStep ==
  ASSUME ConsoleInv, NEW m \in MatchIds, NEW o \in {"A", "B"}, ConsoleAssumption,
         RecordResult(m, o)
  PROVE  ConsoleInv'
<1> DEFINE d == page.doc
           r == [id |-> m, outcome |-> o]
           e == [d EXCEPT !.results = Append(d.results, r)]
<1>1. /\ page.open /\ m \in pending(Rebuild(d).t)
      /\ puts' = puts \cup {e} /\ page' = [page EXCEPT !.doc = e] /\ ruled' = ruled \cup {r}
      /\ UNCHANGED <<doc, req, route, offered>>
  BY DEF RecordResult, CanRecord
<1>2. Sound(d, ruled) /\ Rebuild(d).ok
  BY <1>1, SoundDocs DEF ConsoleInv, PageInv
<1>3. r \in Results /\ r.id = m /\ r.outcome = o
  BY DEF Results, Scores
<1>4. /\ e = [results |-> Append(d.results, r), reports |-> d.reports,
              disputes |-> d.disputes, finalized |-> d.finalized, computed |-> d.computed]
      /\ IsDoc(d)
  <2>1. IsDoc(d)
    BY <1>2 DEF Sound
  <2>2. d = [results |-> d.results, reports |-> d.reports, disputes |-> d.disputes,
             finalized |-> d.finalized, computed |-> d.computed]
    BY <2>1, Zenon DEF IsDoc
  <2> HIDE DEF d, r
  <2> QED
    BY <2>1, <2>2, DocWithResults, Zenon
<1> HIDE DEF e, r
<1>5. /\ IsDoc(e) /\ e.results = Append(d.results, r) /\ e.reports = d.reports
      /\ e.disputes = d.disputes
  BY <1>3, <1>4 DEF IsDoc
<1>6. Sound(e, ruled \cup {r}) /\ Rebuild(e).ok
  BY <1>1, <1>2, <1>3, <1>5, RulingSound
<1>7. /\ page' = [at |-> page'.at, open |-> page'.open, doc |-> page'.doc, wait |-> page'.wait]
      /\ page'.doc = e
  BY <1>1 DEF ConsoleInv, PageInv
<1>8. DocsInv'
  <2>1. Docs' \subseteq Docs \cup {e}
    BY <1>1, <1>7 DEF Docs
  <2>2. Sound(e, ruled') /\ ruled \subseteq ruled'
    BY <1>1, <1>6
  <2> QED
    BY <2>1, <2>2, OneNewDoc DEF ConsoleInv
<1>9. PageInv'
  BY <1>1, <1>6, <1>7 DEF ConsoleInv, PageInv
<1> QED
  BY <1>8, <1>9 DEF ConsoleInv

\* A save of the page arrives.
LEMMA PutStep ==
  ASSUME ConsoleInv, NEW d \in puts, PutSave(d)
  PROVE  ConsoleInv'
<1>1. /\ Sound(d, ruled) /\ saveBracket(d) /\ doc' = d /\ puts' = puts \ {d}
      /\ UNCHANGED <<req, page, route, ruled>>
  BY SoundDocs DEF ConsoleInv, PutSave, saveBracket
<1>2. Docs' \subseteq Docs
  BY <1>1 DEF Docs
<1>3. DocsInv'
  BY <1>1, <1>2, NoNewDoc DEF ConsoleInv
<1>4. offered' \subseteq Players \X Ids
  BY <1>1, SaveOffers
<1>5. PageInv'
  BY <1>1, <1>4 DEF ConsoleInv, PageInv
<1> QED
  BY <1>3, <1>5 DEF ConsoleInv

\* The organiser asks for the tournament to be finalized.
LEMMA FinalizeRequestStep ==
  ASSUME ConsoleInv, NEW r \in DOMAIN route, FinalizeRequest(r)
  PROVE  ConsoleInv'
<1>1. /\ route' = [route EXCEPT ![r].at = "sent"]
      /\ page' = [page EXCEPT !.at = "waiting", !.wait = r]
      /\ UNCHANGED <<doc, req, puts, ruled, offered>>
  BY DEF FinalizeRequest, historyVars
<1>2. /\ DOMAIN route' = DOMAIN route
      /\ \A x \in DOMAIN route : /\ route[x] = [at |-> route[x].at, doc |-> route[x].doc]
                                 /\ route'[x] = [at |-> route'[x].at, doc |-> route'[x].doc]
                                 /\ route'[x].doc = route[x].doc
  <2>1. \A x \in DOMAIN route : route[x] = [at |-> route[x].at, doc |-> route[x].doc]
    BY DEF ConsoleInv, PageInv
  <2> QED
    BY <1>1, <2>1
<1>3. PageKeeps
  <2>1. [page EXCEPT !.at = "waiting", !.wait = r]
           = [at |-> "waiting", open |-> page.open, doc |-> page.doc, wait |-> r]
    BY PageMoved, Zenon
  <2>2. CASE page' = [page EXCEPT !.at = "waiting", !.wait = r]
    BY <2>1, <2>2 DEF PageKeeps
  <2> QED
    BY <2>2, PageStays, <1>1
<1>4. Docs' \subseteq Docs
  BY <1>1, <1>2, <1>3 DEF Docs, PageKeeps
<1>5. DocsInv'
  BY <1>1, <1>4, NoNewDoc DEF ConsoleInv
<1>6. PageInv'
  BY <1>1, <1>2, <1>3 DEF ConsoleInv, PageInv, PageKeeps
<1> QED
  BY <1>5, <1>6 DEF ConsoleInv

\* The finalize handler reads the document.
LEMMA FinalizeReadStep ==
  ASSUME ConsoleInv, NEW r \in DOMAIN route, ConsoleAssumption, FinalizeRead(r)
  PROVE  ConsoleInv'
<1> DEFINE e == [doc EXCEPT !.finalized = TRUE, !.computed = WinnersOf(doc)]
           n == IF FinalizeRefused(doc) THEN NoFinalize ELSE [at |-> "save", doc |-> e]
<1>1. /\ route' = [route EXCEPT ![r] = n] /\ (PageFails(r) \/ UNCHANGED page)
      /\ UNCHANGED <<doc, req, puts, ruled, offered>>
  BY Zenon DEF FinalizeRead, NotSaved
<1>2. Sound(n.doc, ruled) /\ n = [at |-> n.at, doc |-> n.doc]
  <2>1. Sound(e, ruled) /\ Sound(EmptyDoc, ruled)
    BY SoundDocs, MarkedSound, EmptySound DEF ConsoleInv
  <2> HIDE DEF e
  <2> QED
    BY <2>1 DEF NoFinalize
<1> HIDE DEF n
<1>3. PageKeeps
  <2>1. [page EXCEPT !.at = "idle", !.wait = 0]
           = [at |-> "idle", open |-> page.open, doc |-> page.doc, wait |-> 0]
    BY PageMoved, Zenon
  <2>2. CASE page' = [page EXCEPT !.at = "idle", !.wait = 0]
    BY <2>1, <2>2 DEF PageKeeps
  <2> QED
    BY <2>2, PageStays, <1>1 DEF PageFails
<1>4. Docs' \subseteq Docs \cup {n.doc}
  BY <1>1, <1>3, RouteDocs
<1>5. DocsInv'
  <2>1. Sound(n.doc, ruled') /\ ruled \subseteq ruled'
    BY <1>1, <1>2
  <2> QED
    BY <1>4, <2>1, OneNewDoc DEF ConsoleInv
<1>6. PageInv'
  BY <1>1, <1>2, <1>3 DEF ConsoleInv, PageInv, PageKeeps
<1> QED
  BY <1>5, <1>6 DEF ConsoleInv

\* The finalize handler writes its copy back.
LEMMA FinalizeSaveStep ==
  ASSUME ConsoleInv, NEW r \in DOMAIN route, ConsoleAssumption, FinalizeSave(r)
  PROVE  ConsoleInv'
<1> DEFINE n == [at |-> "enqueue", doc |-> EmptyDoc]
<1>1. /\ route' = [route EXCEPT ![r] = n] /\ doc' = route[r].doc /\ saveBracket(route[r].doc)
      /\ UNCHANGED <<req, page, puts, ruled>>
  BY DEF FinalizeSave, saveBracket
<1>2. n.doc = EmptyDoc /\ n = [at |-> n.at, doc |-> n.doc]
  OBVIOUS
<1>3. Sound(EmptyDoc, ruled') /\ Sound(route[r].doc, ruled)
  BY EmptySound, SoundDocs DEF ConsoleInv
<1> HIDE DEF n
<1>4. Docs' \subseteq Docs \cup {EmptyDoc}
  <2>1. \A x \in DOMAIN route' : x \in DOMAIN route /\ (route'[x] = n \/ route'[x] = route[x])
    BY <1>1
  <2> QED
    BY <1>1, <1>2, <2>1 DEF Docs
<1>5. DocsInv'
  BY <1>1, <1>3, <1>4, OneNewDoc DEF ConsoleInv
<1>6. offered' \subseteq Players \X Ids
  BY <1>1, <1>3, SaveOffers
<1>7. PageInv'
  BY <1>1, <1>2, <1>6 DEF ConsoleInv, PageInv
<1> QED
  BY <1>5, <1>7 DEF ConsoleInv

\* The finalize handler enqueues the relayer's job.
LEMMA FinalizeEnqueueStep ==
  ASSUME ConsoleInv, NEW r \in DOMAIN route, ConsoleAssumption, FinalizeEnqueue(r)
  PROVE  ConsoleInv'
<1>1. /\ route' = [route EXCEPT ![r] = NoFinalize]
      /\ page' = (IF page.at = "waiting" /\ page.wait = r
                  THEN [page EXCEPT !.at = "polling", !.wait = Len(jobs')] ELSE page)
      /\ UNCHANGED <<doc, req, puts, ruled, offered>>
  BY Zenon DEF FinalizeEnqueue, NotSaved
<1>2. NoFinalize.doc = EmptyDoc /\ NoFinalize = [at |-> NoFinalize.at, doc |-> NoFinalize.doc]
  BY DEF NoFinalize
<1>3. Sound(EmptyDoc, ruled')
  BY EmptySound
<1>4. PageKeeps
  <2>1. [page EXCEPT !.at = "polling", !.wait = Len(jobs')]
           = [at |-> "polling", open |-> page.open, doc |-> page.doc, wait |-> Len(jobs')]
    BY PageMoved, Zenon
  <2>2. CASE page' = [page EXCEPT !.at = "polling", !.wait = Len(jobs')]
    BY <2>1, <2>2 DEF PageKeeps
  <2> QED
    BY <2>2, PageStays, <1>1
<1>5. Docs' \subseteq Docs \cup {NoFinalize.doc}
  BY <1>1, <1>4, RouteDocs
<1>6. DocsInv'
  BY <1>1, <1>2, <1>3, <1>5, OneNewDoc DEF ConsoleInv
<1>7. PageInv'
  BY <1>1, <1>2, <1>4 DEF ConsoleInv, PageInv, PageKeeps
<1> QED
  BY <1>6, <1>7 DEF ConsoleInv

\* The page stores its own copy as finalized.
LEMMA PersistStep ==
  ASSUME ConsoleInv, Persist([page.doc EXCEPT !.finalized = TRUE], "idle"),
         UNCHANGED <<doc, req, route, ruled, offered>>
  PROVE  ConsoleInv'
<1> DEFINE e == [page.doc EXCEPT !.finalized = TRUE]
           x == [page EXCEPT !.doc = e]
           y == [x EXCEPT !.at = "idle"]
           z == [y EXCEPT !.wait = 0]
<1>1. Sound(e, ruled) /\ Rebuild(e) = Rebuild(page.doc)
  BY SoundDocs, MarkedSound DEF ConsoleInv
<1>2. page' = z /\ puts' = puts \cup {e}
  BY Zenon DEF Persist
<1> HIDE DEF e
<1>3. page = [at |-> page.at, open |-> page.open, doc |-> page.doc, wait |-> page.wait]
  BY Zenon DEF ConsoleInv, PageInv
<1>4. x = [at |-> page.at, open |-> page.open, doc |-> e, wait |-> page.wait]
  BY <1>3
<1> HIDE DEF x
<1>5. y = [at |-> "idle", open |-> page.open, doc |-> e, wait |-> page.wait]
  BY <1>4
<1> HIDE DEF y
<1>6. z = [at |-> "idle", open |-> page.open, doc |-> e, wait |-> 0]
  BY <1>5
<1> HIDE DEF z
<1>7. /\ page' = [at |-> page'.at, open |-> page'.open, doc |-> page'.doc, wait |-> page'.wait]
      /\ page'.doc = e /\ page'.open = page.open
  BY <1>2, <1>6
<1>8. DocsInv'
  <2>1. Docs' \subseteq Docs \cup {e}
    BY <1>2, <1>7 DEF Docs
  <2>2. ruled \subseteq ruled' /\ Sound(e, ruled')
    BY <1>1
  <2> QED
    BY <2>1, <2>2, OneNewDoc DEF ConsoleInv
<1>9. PageInv'
  BY <1>1, <1>7 DEF ConsoleInv, PageInv
<1> QED
  BY <1>8, <1>9 DEF ConsoleInv

\* No document is written, and the page at most closes.
LEMMA QuietStep ==
  ASSUME ConsoleInv, UNCHANGED <<doc, req, puts, route, ruled, offered>>,
         page' = [at |-> page'.at, open |-> page'.open, doc |-> page'.doc, wait |-> page'.wait],
         page'.doc = page.doc, page'.open => page.open
  PROVE  ConsoleInv'
<1>1. Docs' \subseteq Docs
  BY DEF Docs
<1>2. DocsInv'
  BY <1>1, NoNewDoc DEF ConsoleInv
<1>3. PageInv'
  BY DEF ConsoleInv, PageInv
<1> QED
  BY <1>2, <1>3 DEF ConsoleInv

\* A step of the relayer or the contract alone.
LEMMA StillStep ==
  ASSUME ConsoleInv, UNCHANGED <<doc, req, page, puts, route, ruled, offered>>
  PROVE  ConsoleInv'
<1>1. page = [at |-> page.at, open |-> page.open, doc |-> page.doc, wait |-> page.wait]
  BY Zenon DEF ConsoleInv, PageInv
<1> QED
  BY <1>1, QuietStep

\* The page polls the job.
LEMMA PollStep == ASSUME ConsoleInv, Poll PROVE ConsoleInv'
<1>1. UNCHANGED <<doc, req, route, ruled, offered>>
  BY DEF Poll, historyVars
<1>2. CASE Persist([page.doc EXCEPT !.finalized = TRUE], "idle")
  BY <1>1, <1>2, PersistStep
<1>3. CASE page' = [page EXCEPT !.at = "idle", !.wait = 0] /\ UNCHANGED puts
  <2>1. [page EXCEPT !.at = "idle", !.wait = 0]
           = [at |-> "idle", open |-> page.open, doc |-> page.doc, wait |-> 0]
    BY PageMoved, Zenon
  <2>2. page' = [at |-> "idle", open |-> page.open, doc |-> page.doc, wait |-> 0]
    BY <1>3, <2>1
  <2> QED
    BY <1>1, <1>3, <2>2, QuietStep
<1> QED
  BY <1>2, <1>3, Zenon DEF Poll

\* The organiser finalizes from their own wallet.
LEMMA WalletStep == ASSUME ConsoleInv, WalletFinalize PROVE ConsoleInv'
<1>1. UNCHANGED <<doc, req, route, ruled, offered>>
  BY DEF WalletFinalize, historyVars
<1>2. CASE Persist([page.doc EXCEPT !.finalized = TRUE], "idle")
  BY <1>1, <1>2, PersistStep
<1>3. CASE page' = [page EXCEPT !.open = FALSE] /\ UNCHANGED puts
  <2>1. page = [at |-> page.at, open |-> page.open, doc |-> page.doc, wait |-> page.wait]
    BY Zenon DEF ConsoleInv, PageInv
  <2>2. /\ page' = [at |-> page'.at, open |-> page'.open, doc |-> page'.doc, wait |-> page'.wait]
        /\ page'.doc = page.doc /\ ~page'.open
    BY <1>3, <2>1
  <2> QED
    BY <1>1, <1>3, <2>2, QuietStep
<1> QED
  BY <1>2, <1>3, Zenon DEF WalletFinalize

\* The server restarts.
LEMMA CrashStep == ASSUME ConsoleInv, ConsoleAssumption, Crash PROVE ConsoleInv'
<1>1. UNCHANGED <<doc, ruled, offered>> /\ Sound(EmptyDoc, ruled')
  BY EmptySound DEF Crash, historyVars
<1>2. ASSUME NEW p \in Players, req' = [req EXCEPT ![p] = Idle],
             UNCHANGED <<page, puts, route, relayer>>
      PROVE  ConsoleInv'
  <2>1. Docs' \subseteq Docs \cup {EmptyDoc}
    <3>1. Idle.doc = EmptyDoc
      BY DEF Idle
    <3> QED
      BY <1>1, <1>2, <3>1, RequestDocs
  <2>2. DocsInv'
    BY <1>1, <2>1, OneNewDoc DEF ConsoleInv
  <2>3. PageInv'
    BY <1>1, <1>2 DEF ConsoleInv, PageInv, IsRequest, Idle
  <2> QED
    BY <2>2, <2>3 DEF ConsoleInv
<1>3. ASSUME NEW d \in puts, puts' = puts \ {d}, UNCHANGED <<req, page, route, relayer>>
      PROVE  ConsoleInv'
  <2>1. Docs' \subseteq Docs
    BY <1>1, <1>3 DEF Docs
  <2>2. DocsInv'
    BY <1>1, <2>1, NoNewDoc DEF ConsoleInv
  <2>3. PageInv'
    BY <1>1, <1>3 DEF ConsoleInv, PageInv
  <2> QED
    BY <2>2, <2>3 DEF ConsoleInv
<1>4. ASSUME NEW r \in DOMAIN route, route' = [route EXCEPT ![r] = NoFinalize],
             PageFails(r), UNCHANGED <<req, puts, relayer>>
      PROVE  ConsoleInv'
  <2>1. PageKeeps
    <3>1. [page EXCEPT !.at = "idle", !.wait = 0]
             = [at |-> "idle", open |-> page.open, doc |-> page.doc, wait |-> 0]
      BY PageMoved, Zenon
    <3>2. CASE page' = [page EXCEPT !.at = "idle", !.wait = 0]
      BY <3>1, <3>2 DEF PageKeeps
    <3> QED
      BY <1>4, <3>2, PageStays DEF PageFails
  <2>2. NoFinalize.doc = EmptyDoc /\ NoFinalize = [at |-> NoFinalize.at, doc |-> NoFinalize.doc]
    BY DEF NoFinalize
  <2>3. Docs' \subseteq Docs \cup {EmptyDoc}
    BY <1>1, <1>4, <2>1, <2>2, RouteDocs
  <2>4. DocsInv'
    BY <1>1, <2>3, OneNewDoc DEF ConsoleInv
  <2>5. PageInv'
    BY <1>1, <1>4, <2>1, <2>2 DEF ConsoleInv, PageInv, PageKeeps
  <2> QED
    BY <2>4, <2>5 DEF ConsoleInv
<1>5. CASE relayer' = AtRest /\ UNCHANGED <<req, page, puts, route>>
  BY <1>1, <1>5, StillStep
<1> QED
  BY <1>2, <1>3, <1>4, <1>5, Zenon DEF Crash

\* Every step preserves the invariant.
LEMMA ConsoleStep ==
  ASSUME ConsoleAssumption, ConsoleInv, [Next]_consoleVars
  PROVE  ConsoleInv'
<1>1. ASSUME NEW p \in Players, NEW m \in MatchIds, NEW o \in PlayOutcomes, Report(p, m, o)
      PROVE  ConsoleInv'
  BY <1>1, ReportStep
<1>2. ASSUME NEW p \in Players, ReportRead(p) \/ ReportSave(p) PROVE ConsoleInv'
  BY <1>2, ReportReadStep, ReportSaveStep
<1>3. CASE Load
  BY <1>3, LoadStep
<1>4. ASSUME NEW m \in MatchIds, NEW o \in {"A", "B"}, RecordResult(m, o) PROVE ConsoleInv'
  BY <1>4, RecordStep
<1>5. ASSUME NEW d \in puts, PutSave(d) PROVE ConsoleInv'
  BY <1>5, PutStep
<1>6. ASSUME NEW r \in DOMAIN route, FinalizeRequest(r) \/ FinalizeRead(r) PROVE ConsoleInv'
  BY <1>6, FinalizeRequestStep, FinalizeReadStep
<1>7. ASSUME NEW r \in DOMAIN route, FinalizeSave(r) \/ FinalizeEnqueue(r) PROVE ConsoleInv'
  BY <1>7, FinalizeSaveStep, FinalizeEnqueueStep
<1>8. CASE Poll
  BY <1>8, PollStep
<1>9. ASSUME NEW j \in DOMAIN jobs, TakeJob(j) PROVE ConsoleInv'
  <2>1. UNCHANGED <<doc, req, page, puts, route, ruled, offered>>
    BY <1>9 DEF TakeJob, historyVars
  <2> QED
    BY <2>1, StillStep
<1>10. CASE RelayerSend \/ RelayerAnswer
  <2>1. UNCHANGED <<doc, req, page, puts, route, ruled, offered>>
    BY <1>10 DEF RelayerSend, RelayerAnswer, historyVars
  <2> QED
    BY <2>1, StillStep
<1>11. CASE WalletFinalize
  BY <1>11, WalletStep
<1>12. CASE PassDeadline \/ Cancel
  <2>1. UNCHANGED <<doc, req, page, puts, route, ruled, offered>>
    BY <1>12 DEF PassDeadline, Cancel, historyVars
  <2> QED
    BY <2>1, StillStep
<1>13. CASE Crash
  BY <1>13, CrashStep
<1>14. CASE UNCHANGED consoleVars
  <2>1. UNCHANGED <<doc, req, page, puts, route, ruled, offered>>
    BY <1>14 DEF consoleVars
  <2> QED
    BY <2>1, StillStep
<1> QED
  BY <1>1, <1>2, <1>3, <1>4, <1>5, <1>6, <1>7, <1>8, <1>9, <1>10, <1>11, <1>12, <1>13, <1>14,
     Zenon DEF Next

-----------------------------------------------------------------------------
(***************************************************************************)
(* Whom the contract pays.  The seeds are distinct, as the set-up page     *)
(* numbers them.                                                           *)
(***************************************************************************)
LEMMA SameLists ==
  ASSUME NEW d, NEW e, e.results = d.results
  PROVE  /\ CompleteLists(e) = CompleteLists(d) /\ WinnersOf(e) = WinnersOf(d)
         /\ Complete(e) <=> Complete(d)
<1>1. Rebuild(e) = Rebuild(d)
  BY RebuildIsReplay
<1>2. WinnersOf(e) = WinnersOf(d)
  BY <1>1 DEF WinnersOf
<1>3. Complete(e) <=> Complete(d)
  BY <1>1 DEF Complete
<1> QED
  BY <1>2, <1>3 DEF CompleteLists

\* Results are of numbered matches and decide them.
LEMMA ResultIds ==
  ASSUME ConsoleAssumption
  PROVE  \A r \in Results : r.id \in Nat /\ r.outcome # None
<1>1. Len(Seeds) \in Nat
  BY DEF ConsoleAssumption
<1>2. Power(nextPow2(Len(Seeds))) \in Nat
  BY <1>1, NextPow2, PowerAbove
<1>3. MatchIds = 1 .. Power(nextPow2(Len(Seeds))) - 1
  BY Zenon DEF MatchIds, Power
<1>4. MatchIds \subseteq Nat
  BY <1>2, <1>3
<1> QED
  BY <1>4 DEF Results, None

\* What the relayer is ready to pay for a document, its reader would show.
LEMMA RelayerPays ==
  ASSUME ConsoleAssumption, IsInjective(Seeds), NEW d, NEW given, Sound(d, given),
         NEW w \in RelayerAccepts(d)
  PROVE  Complete(d) /\ w = WinnersOf(d)
<1> DEFINE rs  == d.results
           run == reconstruct("single_elimination", Seeds, 0, rs)
<1>1. w \in RelayerLists(d)
  BY DEF RelayerAccepts
<1>2. rs \in Seq(Results) /\ (Rebuild(d).ok \/ Drawn(d))
  BY DEF Sound, IsDoc
<1>3. Rebuild(d) = run
  BY <1>2, RebuildIsReplay DEF replay
<1>4. ~Repeats(rs)
  BY <1>1, Zenon DEF RelayerLists
<1>5. PICK list \in RelayerWinners(Seeds, ToSet(rs)) : w = PaidPlaces(list)
  BY <1>1, <1>4 DEF RelayerLists
<1>6. Seeds \in Seq(Nat) /\ \A i, j \in DOMAIN rs : i < j => rs[i].id # rs[j].id
  BY <1>4 DEF Repeats, ConsoleAssumption
<1>7. /\ \A r \in ToSet(rs) : r.outcome # "Draw"
      /\ run.ok => run.t.complete /\ list = winners(run.t)
  <2>1. \A r \in Results : r.id \in Nat /\ r.outcome # None
    BY ResultIds
  <2> HIDE DEF rs, run
  <2> QED
    BY <1>2, <1>5, <1>6, <2>1, RelayerSame DEF run
<1>8. run.ok
  BY <1>2, <1>3, <1>7 DEF Drawn
<1>9. Complete(d)
  BY <1>3, <1>7, <1>8 DEF Complete
<1> QED
  BY <1>3, <1>5, <1>7, <1>8, <1>9 DEF WinnersOf

\* Owed to a list: a bracket played to the end has it, and the finalize route has
\* shown it, as long as nobody stored other results since.
Owed(w) == w \in won /\ (~overwritten => w \in announced)

DocsWon == CompleteLists(doc) \subseteq won /\ CompleteLists(page.doc) \subseteq won

Finalizing == {"save", "enqueue"}

Announcement ==
  /\ announced # {} /\ ~overwritten => Complete(doc) /\ announced = {WinnersOf(doc)}
  /\ DOMAIN jobs # {} => announced # {}
  /\ \A r \in DOMAIN route : route[r].at \in Finalizing => announced # {}

Payment ==
  /\ cup = [state |-> cup.state, winners |-> cup.winners]
  /\ relayer = [at |-> relayer.at, job |-> relayer.job, winners |-> relayer.winners]
  /\ relayer.at = "send" => Owed(relayer.winners)
  /\ cup.state = "FINALIZED" => cup.winners \in won /\ (custodial => Owed(cup.winners))

PayInv == DocsWon /\ Announcement /\ Payment

\* The first state satisfies the payment invariant.
LEMMA PayStart == ASSUME ConsoleAssumption, Init PROVE PayInv
<1>1. DocsWon
  BY DEF Init, DocsWon
<1>2. Announcement
  BY DEF Init, Announcement, NoFinalize, Finalizing
<1>3. Payment
  BY DEF Init, Payment, AtRest
<1> QED
  BY <1>1, <1>2, <1>3 DEF PayInv

\* The parts that most steps leave alone.
LEMMA DocsWonKept ==
  ASSUME DocsWon, UNCHANGED <<doc, won>>, page'.doc.results = page.doc.results
  PROVE  DocsWon'
<1>1. CompleteLists(page'.doc) = CompleteLists(page.doc)
  BY SameLists
<1> QED
  BY <1>1 DEF DocsWon

\* A step that keeps the announced winners and the document keeps what is
\* said of them.
LEMMA AnnouncementKept ==
  ASSUME Announcement, UNCHANGED <<doc, announced, overwritten>>,
         DOMAIN jobs' # {} => announced # {},
         \A r \in DOMAIN route' : route'[r].at \in Finalizing => announced # {}
  PROVE  Announcement'
BY DEF Announcement

\* A step that pays nobody keeps what is said of the payment.
LEMMA PaymentKept ==
  ASSUME Payment, UNCHANGED <<cup, relayer, custodial>>, won \subseteq won',
         announced \subseteq announced', overwritten => overwritten'
  PROVE  Payment'
BY DEF Payment, Owed

\* A step that moves no document and no money.
LEMMA PayIdle ==
  ASSUME PayInv, UNCHANGED <<cup, relayer, custodial, doc, won, announced, overwritten>>,
         page'.doc.results = page.doc.results,
         DOMAIN jobs' # {} => announced # {},
         \A r \in DOMAIN route' : route'[r].at \in Finalizing => announced # {}
  PROVE  PayInv'
<1>1. DocsWon'
  BY DocsWonKept DEF PayInv
<1>2. Announcement'
  BY AnnouncementKept DEF PayInv
<1>3. Payment'
  BY PaymentKept DEF PayInv
<1> QED
  BY <1>1, <1>2, <1>3 DEF PayInv

\* saveBracket.
LEMMA PaySave ==
  ASSUME PayInv, NEW d, saveBracket(d),
         UNCHANGED <<custodial, page, jobs, relayer, cup, announced>>,
         \A r \in DOMAIN route' : route'[r].at \in Finalizing => announced # {}
  PROVE  PayInv'
<1>1. /\ doc' = d /\ won' = won \cup CompleteLists(d)
      /\ overwritten' = (overwritten \/ (announced # {} /\ d.results # doc.results))
  BY DEF saveBracket
<1>2. DocsWon'
  <2>1. CompleteLists(page.doc) \subseteq won
    BY DEF PayInv, DocsWon
  <2> QED
    BY <1>1, <2>1 DEF DocsWon
<1>3. Announcement'
  <2>1. ASSUME announced # {}, ~overwritten' PROVE Complete(d) /\ announced = {WinnersOf(d)}
    <3>1. ~overwritten /\ d.results = doc.results
      BY <1>1, <2>1
    <3>2. Complete(doc) /\ announced = {WinnersOf(doc)}
      BY <2>1, <3>1 DEF PayInv, Announcement
    <3> QED
      BY <3>1, <3>2, SameLists
  <2>2. DOMAIN jobs' # {} => announced' # {}
    BY DEF PayInv, Announcement
  <2> QED
    BY <1>1, <2>1, <2>2 DEF Announcement
<1>4. Payment'
  <2>1. won \subseteq won' /\ announced \subseteq announced' /\ (overwritten => overwritten')
    BY <1>1
  <2> QED
    BY <2>1, PaymentKept DEF PayInv
<1> QED
  BY <1>2, <1>3, <1>4 DEF PayInv

\* A handler that moves on announces what it finalizes.
LEMMA RouteSet ==
  ASSUME PayInv, NEW r \in DOMAIN route, NEW n, route' = [route EXCEPT ![r] = n],
         n.at \in Finalizing => announced # {}
  PROVE  \A x \in DOMAIN route' : route'[x].at \in Finalizing => announced # {}
<1>1. \A x \in DOMAIN route' : x \in DOMAIN route /\ (route'[x] = n \/ route'[x] = route[x])
  OBVIOUS
<1> QED
  BY <1>1 DEF PayInv, Announcement

\* No handler moves.
LEMMA RouteKept ==
  ASSUME PayInv, UNCHANGED route
  PROVE  \A x \in DOMAIN route' : route'[x].at \in Finalizing => announced # {}
BY DEF PayInv, Announcement

\* No job is added.
LEMMA JobsKept ==
  ASSUME PayInv, DOMAIN jobs' = DOMAIN jobs
  PROVE  DOMAIN jobs' # {} => announced # {}
BY DEF PayInv, Announcement

\* Opening the page pays nobody.
LEMMA PayLoad ==
  ASSUME PayInv, Load
  PROVE  PayInv'
<1>1. /\ page'.doc = doc
      /\ UNCHANGED <<cup, relayer, custodial, doc, won, announced, overwritten, jobs, route>>
  BY DEF Load, chainVars, historyVars
<1>2. DocsWon'
  BY <1>1 DEF PayInv, DocsWon
<1>3. Announcement'
  BY <1>1, RouteKept, JobsKept, AnnouncementKept DEF PayInv
<1>4. Payment'
  BY <1>1, PaymentKept DEF PayInv
<1> QED
  BY <1>2, <1>3, <1>4 DEF PayInv

\* Neither does recording a result.
LEMMA PayRecord ==
  ASSUME ConsoleInv, PayInv, NEW m, NEW o, RecordResult(m, o)
  PROVE  PayInv'
<1> DEFINE d == [page.doc EXCEPT !.results = Append(@, [id |-> m, outcome |-> o])]
<1>1. /\ page' = [page EXCEPT !.doc = d] /\ won' = won \cup CompleteLists(d)
      /\ UNCHANGED <<cup, relayer, custodial, doc, announced, overwritten, jobs, route>>
  BY DEF RecordResult, chainVars
<1> HIDE DEF d
<1>2. page'.doc = d
  BY <1>1 DEF ConsoleInv, PageInv
<1>3. DocsWon'
  BY <1>1, <1>2 DEF PayInv, DocsWon
<1>4. Announcement'
  BY <1>1, RouteKept, JobsKept, AnnouncementKept DEF PayInv
<1>5. Payment'
  BY <1>1, PaymentKept DEF PayInv
<1> QED
  BY <1>3, <1>4, <1>5 DEF PayInv

\* The page's `at` and `wait` are none of the money's business.
LEMMA PageSame ==
  ASSUME ConsoleInv, NEW at, NEW wait,
         page' = [page EXCEPT !.at = at, !.wait = wait] \/ UNCHANGED page
  PROVE  page'.doc.results = page.doc.results
<1>1. page = [at |-> page.at, open |-> page.open, doc |-> page.doc, wait |-> page.wait]
  BY DEF ConsoleInv, PageInv
<1> DEFINE x == [page EXCEPT !.at = at]
<1>2. x = [at |-> at, open |-> page.open, doc |-> page.doc, wait |-> page.wait]
  BY <1>1
<1> HIDE DEF x
<1>3. [x EXCEPT !.wait = wait].doc = page.doc
  BY <1>2
<1>4. [page EXCEPT !.at = at, !.wait = wait] = [x EXCEPT !.wait = wait]
  BY DEF x
<1> QED
  BY <1>3, <1>4

\* Neither does asking for the finalization.
LEMMA PayFinalizeRequest ==
  ASSUME ConsoleInv, PayInv, NEW r \in DOMAIN route, FinalizeRequest(r)
  PROVE  PayInv'
<1>1. /\ route' = [route EXCEPT ![r].at = "sent"]
      /\ page' = [page EXCEPT !.at = "waiting", !.wait = r]
      /\ UNCHANGED <<cup, relayer, custodial, doc, won, announced, overwritten, jobs>>
  BY DEF FinalizeRequest, chainVars, historyVars
<1>2. \A x \in DOMAIN route' : route'[x].at \in Finalizing => announced # {}
  <2> DEFINE n == [route[r] EXCEPT !.at = "sent"]
  <2>1. route[r] = [at |-> route[r].at, doc |-> route[r].doc]
    BY DEF ConsoleInv, PageInv
  <2>2. n.at = "sent"
    BY <2>1
  <2>3. route' = [route EXCEPT ![r] = n]
    BY <1>1
  <2>4. n.at \notin Finalizing
    BY <2>2 DEF Finalizing
  <2> HIDE DEF n
  <2> QED
    BY <2>3, <2>4, RouteSet
<1>3. page'.doc.results = page.doc.results
  BY <1>1, PageSame
<1> QED
  BY <1>1, <1>2, <1>3, JobsKept, PayIdle

\* The handler that reads a complete document announces its winners.
LEMMA PayFinalizeRead ==
  ASSUME ConsoleInv, PayInv, NEW r \in DOMAIN route, FinalizeRead(r)
  PROVE  PayInv'
<1>1. /\ PageFails(r) \/ UNCHANGED page
      /\ UNCHANGED <<cup, relayer, custodial, doc, won, overwritten, jobs>>
  BY DEF FinalizeRead, NotSaved, chainVars
<1>2. page'.doc.results = page.doc.results
  BY <1>1, PageSame DEF PageFails
<1>3. CASE FinalizeRefused(doc)
  <2>1. route' = [route EXCEPT ![r] = NoFinalize] /\ announced' = announced
    BY <1>3 DEF FinalizeRead
  <2>2. NoFinalize.at \notin Finalizing
    BY DEF NoFinalize, Finalizing
  <2>3. \A x \in DOMAIN route' : route'[x].at \in Finalizing => announced # {}
    BY <2>1, <2>2, RouteSet
  <2> QED
    BY <1>1, <1>2, <2>1, <2>3, JobsKept, PayIdle
<1>4. CASE ~FinalizeRefused(doc)
  <2>1. announced' = announced \cup {WinnersOf(doc)} /\ Complete(doc)
    BY <1>4 DEF FinalizeRead, FinalizeRefused
  <2>2. DocsWon'
    BY <1>1, <1>2, DocsWonKept DEF PayInv
  <2>3. Announcement'
    BY <1>1, <2>1 DEF PayInv, Announcement
  <2>4. Payment'
    BY <1>1, <2>1, PaymentKept DEF PayInv
  <2> QED
    BY <2>2, <2>3, <2>4 DEF PayInv
<1> QED
  BY <1>3, <1>4

\* Writing the finalized document pays nobody.
LEMMA PayFinalizeSave ==
  ASSUME PayInv, NEW r \in DOMAIN route, FinalizeSave(r)
  PROVE  PayInv'
<1> DEFINE n == [at |-> "enqueue", doc |-> EmptyDoc]
<1>1. /\ route[r].at = "save" /\ saveBracket(route[r].doc) /\ route' = [route EXCEPT ![r] = n]
      /\ UNCHANGED <<custodial, page, jobs, relayer, cup, announced>>
  BY DEF FinalizeSave, chainVars
<1>2. announced # {}
  BY <1>1 DEF PayInv, Announcement, Finalizing
<1> QED
  BY <1>1, <1>2, PaySave

\* Neither does enqueuing the job.
LEMMA PayFinalizeEnqueue ==
  ASSUME ConsoleInv, PayInv, NEW r \in DOMAIN route, FinalizeEnqueue(r)
  PROVE  PayInv'
<1>1. /\ route[r].at = "enqueue"
      /\ page' = [page EXCEPT !.at = "polling", !.wait = Len(jobs')] \/ UNCHANGED page
      /\ UNCHANGED <<cup, relayer, custodial, doc, won, announced, overwritten>>
  BY DEF FinalizeEnqueue, NotSaved, chainVars
<1>2. announced # {}
  BY <1>1 DEF PayInv, Announcement, Finalizing
<1>3. page'.doc.results = page.doc.results
  BY <1>1, PageSame
<1> QED
  BY <1>1, <1>2, <1>3, PayIdle

\* Persist marks the page's copy, its results stay.
LEMMA PersistKept ==
  ASSUME ConsoleInv, Persist([page.doc EXCEPT !.finalized = TRUE], "idle")
  PROVE  page'.doc.results = page.doc.results
<1> DEFINE e == [page.doc EXCEPT !.finalized = TRUE]
           x == [page EXCEPT !.doc = e]
           y == [x EXCEPT !.at = "idle"]
           z == [y EXCEPT !.wait = 0]
<1>1. e.results = page.doc.results
  <2>1. IsDoc(page.doc)
    BY SoundDocs DEF ConsoleInv, Sound
  <2> QED
    BY <2>1 DEF IsDoc
<1>2. page' = z
  BY Zenon DEF Persist
<1> HIDE DEF e
<1>3. page = [at |-> page.at, open |-> page.open, doc |-> page.doc, wait |-> page.wait]
  BY Zenon DEF ConsoleInv, PageInv
<1>4. x = [at |-> page.at, open |-> page.open, doc |-> e, wait |-> page.wait]
  BY <1>3
<1> HIDE DEF x
<1>5. y = [at |-> "idle", open |-> page.open, doc |-> e, wait |-> page.wait]
  BY <1>4
<1> HIDE DEF y
<1>6. z = [at |-> "idle", open |-> page.open, doc |-> e, wait |-> 0]
  BY <1>5
<1> HIDE DEF z
<1> QED
  BY <1>1, <1>2, <1>6

\* Neither does polling it.
LEMMA PayPoll ==
  ASSUME ConsoleInv, PayInv, Poll
  PROVE  PayInv'
<1>1. UNCHANGED <<cup, relayer, custodial, doc, won, announced, overwritten, jobs, route>>
  BY DEF Poll, chainVars, historyVars
<1>2. \/ page' = [page EXCEPT !.at = "idle", !.wait = 0]
      \/ Persist([page.doc EXCEPT !.finalized = TRUE], "idle")
  BY DEF Poll
<1>3. page'.doc.results = page.doc.results
  BY <1>2, PersistKept, PageSame
<1> QED
  BY <1>1, <1>3, RouteKept, JobsKept, PayIdle

\* finalize_job: what the relayer takes on is what the document's winners are.
LEMMA PayTakeJob ==
  ASSUME ConsoleAssumption, IsInjective(Seeds), ConsoleInv, PayInv,
         NEW j \in DOMAIN jobs, TakeJob(j)
  PROVE  PayInv'
<1>1. /\ UNCHANGED <<custodial, doc, page, route, cup, won, announced, overwritten>>
      /\ DOMAIN jobs' = DOMAIN jobs
  BY DEF TakeJob, chainVars, historyVars
<1>2. DocsWon' /\ Announcement'
  BY <1>1, DocsWonKept, RouteKept, JobsKept, AnnouncementKept DEF PayInv
<1>3. CASE UNCHANGED relayer
  BY <1>1, <1>2, <1>3, PaymentKept DEF PayInv
<1>4. ASSUME NEW w \in RelayerAccepts(doc),
             relayer' = [at |-> "send", job |-> j, winners |-> w]
      PROVE  PayInv'
  <2>1. Complete(doc) /\ w = WinnersOf(doc)
    <3>1. Sound(doc, ruled)
      BY SoundDocs DEF ConsoleInv
    <3> QED
      BY <3>1, RelayerPays
  <2>2. w \in won
    BY <2>1 DEF PayInv, DocsWon, CompleteLists
  <2>3. announced # {}
    BY DEF PayInv, Announcement
  <2>4. Owed(w)
    BY <2>1, <2>2, <2>3 DEF Owed, PayInv, Announcement
  <2>5. Payment'
    BY <1>1, <1>4, <2>4 DEF PayInv, Payment, Owed
  <2> QED
    BY <1>2, <2>5 DEF PayInv
<1> QED
  BY <1>3, <1>4, Zenon DEF TakeJob

\* The money moves: the relayer's transaction, the wallet's, a cancellation.
LEMMA PayRelayerSend ==
  ASSUME PayInv, RelayerSend
  PROVE  PayInv'
<1>1. /\ UNCHANGED <<custodial, doc, page, route, jobs, won, announced, overwritten>>
      /\ relayer.at = "send" /\ relayer' = [relayer EXCEPT !.at = "mined"]
      /\ cup' = [state |-> "FINALIZED", winners |-> relayer.winners] \/ cup' = cup
  BY DEF RelayerSend, finalizeTournament, historyVars
<1>2. DocsWon' /\ Announcement'
  BY <1>1, DocsWonKept, RouteKept, JobsKept, AnnouncementKept DEF PayInv
<1>3. Owed(relayer.winners)
  BY <1>1 DEF PayInv, Payment
<1>4. relayer' = [at |-> "mined", job |-> relayer.job, winners |-> relayer.winners]
  BY <1>1 DEF PayInv, Payment
<1>5. Payment'
  BY <1>1, <1>3, <1>4 DEF PayInv, Payment, Owed
<1> QED
  BY <1>2, <1>5 DEF PayInv

\* The relayer pays the winners it derived from a document that was complete.
LEMMA PayRelayerAnswer ==
  ASSUME PayInv, RelayerAnswer
  PROVE  PayInv'
<1>1. /\ UNCHANGED <<custodial, doc, page, route, cup, won, announced, overwritten>>
      /\ DOMAIN jobs' = DOMAIN jobs /\ relayer' = AtRest
  BY DEF RelayerAnswer, chainVars, historyVars
<1>2. DocsWon' /\ Announcement'
  BY <1>1, DocsWonKept, RouteKept, JobsKept, AnnouncementKept DEF PayInv
<1>3. Payment'
  BY <1>1 DEF PayInv, Payment, Owed, AtRest
<1> QED
  BY <1>2, <1>3 DEF PayInv

\* The organiser's wallet pays the winners the page shows.
LEMMA PayWallet ==
  ASSUME ConsoleInv, PayInv, WalletFinalize
  PROVE  PayInv'
<1>1. /\ UNCHANGED <<custodial, doc, route, jobs, relayer, won, announced, overwritten>>
      /\ ~custodial /\ Complete(page.doc)
      /\ cup' = [state |-> "FINALIZED", winners |-> WinnersOf(page.doc)] \/ cup' = cup
  BY DEF WalletFinalize, CanFinalize, finalizeTournament, historyVars
<1>2. page'.doc.results = page.doc.results
  <2>1. CASE Persist([page.doc EXCEPT !.finalized = TRUE], "idle")
    BY <2>1, PersistKept
  <2>2. CASE page' = [page EXCEPT !.open = FALSE]
    BY <2>2 DEF ConsoleInv, PageInv
  <2> QED
    BY <2>1, <2>2, Zenon DEF WalletFinalize
<1>3. DocsWon' /\ Announcement'
  BY <1>1, <1>2, DocsWonKept, RouteKept, JobsKept, AnnouncementKept DEF PayInv
<1>4. WinnersOf(page.doc) \in won
  BY <1>1 DEF PayInv, DocsWon, CompleteLists
<1>5. Payment'
  BY <1>1, <1>4 DEF PayInv, Payment, Owed
<1> QED
  BY <1>3, <1>5 DEF PayInv

\* A cancelled cup pays nobody.
LEMMA PayCancel ==
  ASSUME PayInv, Cancel
  PROVE  PayInv'
<1>1. /\ UNCHANGED <<custodial, doc, page, route, jobs, relayer, won, announced, overwritten>>
      /\ cup' = [cup EXCEPT !.state = "CANCELLED"]
  BY DEF Cancel, historyVars
<1>2. DocsWon' /\ Announcement'
  BY <1>1, DocsWonKept, RouteKept, JobsKept, AnnouncementKept DEF PayInv
<1>3. Payment'
  BY <1>1 DEF PayInv, Payment, Owed
<1> QED
  BY <1>2, <1>3 DEF PayInv

\* A restart pays nobody.
LEMMA PayCrash ==
  ASSUME ConsoleInv, PayInv, Crash
  PROVE  PayInv'
<1>1. UNCHANGED <<custodial, doc, jobs, cup, won, announced, overwritten>>
  BY DEF Crash, chainVars, historyVars
<1>2. CASE UNCHANGED <<page, route, relayer>>
  BY <1>1, <1>2, RouteKept, JobsKept, PayIdle
<1>3. ASSUME NEW r \in DOMAIN route, route' = [route EXCEPT ![r] = NoFinalize],
             PageFails(r), UNCHANGED relayer
      PROVE  PayInv'
  <2>1. NoFinalize.at \notin Finalizing
    BY DEF NoFinalize, Finalizing
  <2>2. \A x \in DOMAIN route' : route'[x].at \in Finalizing => announced # {}
    BY <1>3, <2>1, RouteSet
  <2>3. page'.doc.results = page.doc.results
    BY <1>3, PageSame DEF PageFails
  <2> QED
    BY <1>1, <1>3, <2>2, <2>3, JobsKept, PayIdle
<1>4. CASE relayer' = AtRest /\ UNCHANGED <<page, route>>
  <2>1. DocsWon' /\ Announcement'
    BY <1>1, <1>4, DocsWonKept, RouteKept, JobsKept, AnnouncementKept DEF PayInv
  <2>2. Payment'
    BY <1>1, <1>4 DEF PayInv, Payment, Owed, AtRest
  <2> QED
    BY <2>1, <2>2 DEF PayInv
<1> QED
  BY <1>2, <1>3, <1>4, Zenon DEF Crash

\* Every step preserves the payment invariant.
LEMMA PayStep ==
  ASSUME ConsoleAssumption, IsInjective(Seeds), ConsoleInv, PayInv, [Next]_consoleVars
  PROVE  PayInv'
<1>1. ASSUME NEW p \in Players, NEW m \in MatchIds, NEW o \in PlayOutcomes, Report(p, m, o)
      PROVE  PayInv'
  <2>1. UNCHANGED <<cup, relayer, custodial, doc, won, announced, overwritten, page, jobs, route>>
    BY <1>1 DEF Report, chainVars, historyVars
  <2> QED
    BY <2>1, RouteKept, JobsKept, PayIdle
<1>2. ASSUME NEW p \in Players, ReportRead(p) PROVE PayInv'
  <2>1. UNCHANGED <<cup, relayer, custodial, doc, won, announced, overwritten, page, jobs, route>>
    BY <1>2 DEF ReportRead, chainVars, historyVars
  <2> QED
    BY <2>1, RouteKept, JobsKept, PayIdle
<1>3. ASSUME NEW p \in Players, ReportSave(p) PROVE PayInv'
  <2>1. /\ saveBracket(req[p].doc)
        /\ UNCHANGED <<custodial, page, jobs, relayer, cup, announced, route>>
    BY <1>3 DEF ReportSave, chainVars
  <2> QED
    BY <2>1, RouteKept, PaySave
<1>4. CASE Load
  BY <1>4, PayLoad
<1>5. ASSUME NEW m \in MatchIds, NEW o \in {"A", "B"}, RecordResult(m, o) PROVE PayInv'
  BY <1>5, PayRecord
<1>6. ASSUME NEW d \in puts, PutSave(d) PROVE PayInv'
  <2>1. /\ saveBracket(d)
        /\ UNCHANGED <<custodial, page, jobs, relayer, cup, announced, route>>
    BY <1>6 DEF PutSave, chainVars
  <2> QED
    BY <2>1, RouteKept, PaySave
<1>7. ASSUME NEW r \in DOMAIN route, FinalizeRequest(r) \/ FinalizeRead(r) PROVE PayInv'
  BY <1>7, PayFinalizeRequest, PayFinalizeRead
<1>8. ASSUME NEW r \in DOMAIN route, FinalizeSave(r) \/ FinalizeEnqueue(r) PROVE PayInv'
  BY <1>8, PayFinalizeSave, PayFinalizeEnqueue
<1>9. CASE Poll
  BY <1>9, PayPoll
<1>10. ASSUME NEW j \in DOMAIN jobs, TakeJob(j) PROVE PayInv'
  BY <1>10, PayTakeJob
<1>11. CASE RelayerSend
  BY <1>11, PayRelayerSend
<1>12. CASE RelayerAnswer
  BY <1>12, PayRelayerAnswer
<1>13. CASE WalletFinalize
  BY <1>13, PayWallet
<1>14. CASE PassDeadline
  <2>1. UNCHANGED <<cup, relayer, custodial, doc, won, announced, overwritten, page, jobs, route>>
    BY <1>14 DEF PassDeadline, historyVars
  <2> QED
    BY <2>1, RouteKept, JobsKept, PayIdle
<1>15. CASE Cancel
  BY <1>15, PayCancel
<1>16. CASE Crash
  BY <1>16, PayCrash
<1>17. CASE UNCHANGED consoleVars
  <2>1. UNCHANGED <<cup, relayer, custodial, doc, won, announced, overwritten, page, jobs, route>>
    BY <1>17 DEF consoleVars
  <2> QED
    BY <2>1, RouteKept, JobsKept, PayIdle
<1> QED
  BY <1>1, <1>2, <1>3, <1>4, <1>5, <1>6, <1>7, <1>8, <1>9, <1>10, <1>11, <1>12, <1>13, <1>14,
     <1>15, <1>16, <1>17, Zenon DEF Next


-----------------------------------------------------------------------------
(***************************************************************************)
(* The theorems.                                                           *)
(***************************************************************************)

\* However the players' pages, the report route, the organizer's page, its PUT
\* requests and the finalize route overwrite one another's copies of the bracket
\* (brackets.state), every copy there is stays sound.
THEOREM ConsoleInvariance == Spec => []ConsoleInv
<1>1. Init => ConsoleInv
  BY ConsoleAssumption, ConsoleStart
<1>2. ConsoleInv /\ [Next]_consoleVars => ConsoleInv'
  BY ConsoleAssumption, ConsoleStep
<1> QED
  BY <1>1, <1>2, PTL DEF Spec

\* For every number of entrants and any number of requests in flight: the stored
\* document is one the engine can replay (reconstruct), or holds a reported "Draw".
THEOREM StoredReplays == Spec => []DocumentReplays
<1>1. ConsoleInv => DocumentReplays
  BY SoundDocs DEF ConsoleInv, Sound, DocumentReplays
<1> QED
  BY <1>1, ConsoleInvariance, PTL

\* No result without its evidence: the organizer recorded it, or the reports of
\* both players are still in the document.
THEOREM StoredBacked == Spec => []ResultBacked
<1>1. ConsoleInv => ResultBacked
  BY SoundDocs DEF ConsoleInv, Sound, Backed, ResultBacked
<1> QED
  BY <1>1, ConsoleInvariance, PTL

\* Two players' reports of one match are never both ignored, whatever a stale
\* save puts back (the report route's confirm-or-dispute).
THEOREM StoredAccounted == Spec => []ReportsAccounted
<1>1. ConsoleInv => ReportsAccounted
  BY SoundDocs DEF ConsoleInv, Sound, Accounted, ReportsAccounted
<1> QED
  BY <1>1, ConsoleInvariance, PTL

\* Whoever the relayer or the wallet pays won a bracket that was played to the
\* end, and a custodial cup pays what the finalize route announced unless other
\* results were stored since: for every number of entrants, with seeds of their
\* own as the set-up page numbers them (entrants the relayer cannot tell apart
\* come out of its HashMap in any order).
THEOREM PaidPlaced ==
  ASSUME IsInjective(Seeds)
  PROVE  Spec => []PaidWasWon
<1>1. Init => PayInv
  BY ConsoleAssumption, PayStart
<1>2. ConsoleInv /\ PayInv /\ [Next]_consoleVars => PayInv'
  BY ConsoleAssumption, PayStep
<1>3. PayInv => PaidWasWon
  BY DEF PayInv, Payment, Owed, PaidWasWon
<1> QED
  BY <1>1, <1>2, <1>3, ConsoleInvariance, PTL DEF Spec
=============================================================================
