------------------------- MODULE CandidateRanking -------------------------
(***************************************************************************)
(* How a batch of games is chosen once the plan is accepted.  The profile  *)
(* generators (megaSena.ts, lotofacil.ts, diaDeSorte.ts) pick a fixed core *)
(* number by number, build a pool, walk its combinations through a bounded *)
(* heap (shared.ts), shorten each group to a diverse list and run a beam   *)
(* over the groups (portfolio.ts).  The payout generators (one a lottery)  *)
(* sample a pool of games and pick among its best with a cap on the        *)
(* numbers two games share (payoutSelection.ts).                           *)
(*                                                                         *)
(* All of it is synchronous: a step is one iteration of a loop.  A game is *)
(* the set of its numbers; the text keys that break ties are abstracted to *)
(* one fixed total order on games, Sooner.                                *)
(***************************************************************************)
EXTENDS Integers, FiniteSets, FiniteSetsExt, Functions, Sequences

CONSTANTS
    BallTop,            \* the numbers are 1 .. BallTop
    BallsDrawn,         \* numbers of a game
    GridWidth,          \* columns of the ticket (10 in the Mega-Sena)
    PreferredBalls,     \* GUILHERMINO_HIGH_FREQUENCY_GROUP
    CoreSizes,          \* FIXED_COUNTS of a lottery
    StratumLimit,       \* poolSize of the stratified pools (13 to 24)
    RulesPoolSize,      \* targetSize under the article's rules (18)
    ColumnLimit,        \* columns the pool represents for avoidSameColumn (6)
    UsualRepeats,       \* Lotofacil's 7 .. 11
    UsualOdds,          \* Dia de Sorte's 3 .. 4
    RepeatTargets, OddTargets,  \* the targets the groups rotate through
    SumTarget,          \* Dia de Sorte's 112
    PickWindow,         \* poolSize of a weighted draw (6, 8 or 24)
    ShortlistLimit,     \* 24
    ExplorationLimit,   \* 4096
    RankBeam,           \* beamWidth (96)
    WindowFactor,       \* 25 candidates a game
    LowCap, MidCap, HighCap,    \* the payout generators' initial caps: 2, 3, 12
    PayoutPool,         \* POOL_SIZE
    RankAsks            \* the requests that are tried

ASSUME RankingAssumption ==
    /\ BallTop \in Nat /\ BallsDrawn \in 1 .. BallTop /\ GridWidth \in Nat \ {0}
    /\ StratumLimit \in Nat /\ StratumLimit >= 3
    /\ {RankBeam, PickWindow, PayoutPool, ShortlistLimit} \subseteq Nat \ {0}
    /\ ExplorationLimit \in Nat /\ ExplorationLimit >= ShortlistLimit
    /\ {RulesPoolSize, ColumnLimit, WindowFactor, SumTarget, LowCap, MidCap, HighCap} \subseteq Nat
    /\ \A targets \in {RepeatTargets, OddTargets} : targets \in Seq(Int) /\ targets # <<>>
    /\ \A ask \in RankAsks :
        /\ ask.games \in 1 .. ShortlistLimit /\ ask.core \in Nat
        /\ \A n \in 1 .. BallTop :
            LET row == ask.rows[n]
            IN  row.score \in Nat /\ {row.year, row.blend, row.recent} \subseteq Int

VARIABLES
    rankAsk,        \* the request
    rankStage,      \* the loop the generator is in, or how it ended
    rankCore,       \* the fixed numbers picked so far
    rankPool,       \* candidatePool: the variable numbers
    offered,        \* combinations of the group the heap has been offered
    heap,           \* topRankedCandidates' heap, worst candidate first
    sifting,        \* the index being sifted
    groups,         \* candidateGroups
    beam,           \* the partial portfolios kept
    sampled,        \* the payout generators' pool of games
    rankCap,        \* the overlap allowed between two games
    rankBatch       \* the games chosen

rankVars == <<rankAsk, rankStage, rankCore, rankPool, offered, heap, sifting,
              groups, beam, sampled, rankCap, rankBatch>>

Balls == 1 .. BallTop
Ends == {"done", "refused", "no core", "no portfolio", "too few samples", "no cap"}

Shape(games) == [i \in 1 .. Len(games) |-> games[i].numbers]
Elements(s) == {s[i] : i \in DOMAIN s}
FirstOf(s, n) == SubSeq(s, 1, Min({n, Len(s)}))
Distance(a, b) == IF a < b THEN b - a ELSE a - b

\* The one order that breaks every tie: candidateKey and tieKey compared.
Sooner(g, h) == g # h /\ Min((g \ h) \cup (h \ g)) \in g

\* A finite set in the order of the strict total order Before.
InOrder(S, Before(_, _)) ==
    [i \in 1 .. Cardinality(S) |->
        CHOOSE x \in S : Cardinality({y \in S : Before(y, x)}) = i - 1]

-----------------------------------------------------------------------------
(* What is measured of a game. *)

OddIn(g) == Cardinality({n \in g : n % 2 = 1})
RepeatsIn(g) == Cardinality(g \cap rankAsk.last)
Total(S, Of(_)) == SumFunction([x \in S |-> Of(x)])
SumOf(g) ==
    LET Itself(n) == n
    IN  Total(g, Itself)
Shared(g, h) == Cardinality(g \cap h)

Column(n) == (n - 1) % GridWidth
GridRow(n) == (n - 1) \div GridWidth
Quadrant(n) == <<2 * GridRow(n) < BallTop \div GridWidth, 2 * Column(n) < GridWidth>>

GridPenalty(g) ==
    LET CountIn(Part(_), p) == Cardinality({n \in g : Part(n) = p})
        Cost(c) == IF c = 0 THEN 8 ELSE IF c > 4 THEN 15 * (c - 4) ELSE 0
        Rows(p) == Cost(CountIn(GridRow, p))
        Columns(p) == Cost(CountIn(Column, p))
    IN  Total(GridRow(1) .. GridRow(BallTop), Rows) + Total(0 .. GridWidth - 1, Columns)

MatchesRules(g) ==
    /\ "preferred" \in rankAsk.rules => Cardinality(g \cap PreferredBalls) >= 2
    /\ "consecutive" \in rankAsk.rules => \A n \in g : n + 1 \notin g
    /\ "columns" \in rankAsk.rules => Cardinality({Column(n) : n \in g}) = Cardinality(g)
    /\ "parity" \in rankAsk.rules => OddIn(g) = BallsDrawn \div 2
    /\ "quadrants" \in rankAsk.rules => Cardinality({Quadrant(n) : n \in g}) >= 3

\* withinGenerationRange: a constraint that was not given excludes nothing.
NotGiven == <<>>
Within(value, range) == range = NotGiven \/ (range[1] <= value /\ value <= range[2])

MeetsConstraints(g) ==
    /\ Within(OddIn(g), rankAsk.odd)
    /\ Within(RepeatsIn(g), rankAsk.repeated)
    /\ Within(SumOf(g), rankAsk.sum)

-----------------------------------------------------------------------------
(* The fixed core. *)

AskIsSound ==
    /\ Cardinality(rankAsk.manual) <= rankAsk.core
    /\ rankAsk.manual \cap rankAsk.excluded = {}
    /\ rankAsk.manual \cup rankAsk.excluded \subseteq Balls

RepeatLimit ==
    IF rankAsk.lottery = "dia-de-sorte" THEN Min({1, rankAsk.core}) ELSE rankAsk.core

CoreIsSound ==
    /\ rankAsk.core \in CoreSizes
    /\ rankAsk.core = 0 => rankAsk.manual = {}
    /\ RepeatsIn(rankAsk.manual) <= RepeatLimit

RefuseCore ==
    /\ rankStage = "core" /\ rankAsk.purpose = "profile"
    /\ ~(AskIsSound /\ CoreIsSound)
    /\ rankStage' = "refused"
    /\ UNCHANGED <<rankAsk, rankCore, rankPool, offered, heap, sifting, groups,
                   beam, sampled, rankCap, rankBatch>>

Selectable ==
    {n \in Balls \ (rankCore \cup rankAsk.excluded) :
        RepeatsIn(rankCore) < RepeatLimit \/ n \notin rankAsk.last}

\* What the next pick ranks by: the year, then the blend, then the recent
\* draws, then the score with a bonus for the last contest's numbers.
PickValue(n) ==
    LET row == rankAsk.rows[n]
        picked == Cardinality(rankCore) - Cardinality(rankAsk.manual)
    IN  CASE picked = 0 -> row.year
          [] picked = 1 -> row.blend
          [] picked = 2 -> row.recent
          [] OTHER -> row.score + (IF n \in rankAsk.last THEN 8 ELSE 0)

ScoreOf(n) == rankAsk.rows[n].score
HigherScore(m, n) == ScoreOf(m) > ScoreOf(n) \/ (ScoreOf(m) = ScoreOf(n) /\ m < n)
PickedBefore(m, n) ==
    PickValue(m) > PickValue(n) \/ (PickValue(m) = PickValue(n) /\ HigherScore(m, n))

PickOrder == InOrder(Selectable, PickedBefore)

\* A weighted draw may give any of the first ones; without a seed, the first.
Drawable(ranked, window) ==
    Elements(FirstOf(ranked, IF rankAsk.mode = "deterministic" THEN 1 ELSE window))

PickCore ==
    /\ rankStage = "core" /\ rankAsk.purpose = "profile"
    /\ AskIsSound /\ CoreIsSound
    /\ Cardinality(rankCore) < rankAsk.core
    /\ \E n \in Drawable(PickOrder, PickWindow) : rankCore' = rankCore \cup {n}
    /\ UNCHANGED <<rankAsk, rankStage, rankPool, offered, heap, sifting, groups,
                   beam, sampled, rankCap, rankBatch>>

CoreFails ==
    /\ rankStage = "core" /\ rankAsk.purpose = "profile"
    /\ AskIsSound /\ CoreIsSound
    /\ Cardinality(rankCore) < rankAsk.core /\ Selectable = {}
    /\ rankStage' = "no core"
    /\ UNCHANGED <<rankAsk, rankCore, rankPool, offered, heap, sifting, groups,
                   beam, sampled, rankCap, rankBatch>>

-----------------------------------------------------------------------------
(* The pool of variable numbers. *)

Available == Balls \ (rankCore \cup rankAsk.excluded)

ByScore(S) == InOrder(S, HigherScore)
TopScored(S, k) == Elements(FirstOf(ByScore(S), k))

\* kept, and then the numbers of ranked from the first, until size is
\* reached; at least `least` of them are taken.
FillUp(kept, ranked, size, least) ==
    LET With(k) == kept \cup Elements(SubSeq(ranked, 1, k))
        enough == {k \in Min({least, Len(ranked)}) .. Len(ranked) : Cardinality(With(k)) >= size}
    IN  With(IF enough = {} THEN Len(ranked) ELSE Min(enough))

Quota(tier) ==
    LET share == CASE tier = "strong" -> (StratumLimit * 50) \div 100
                   [] tier = "balanced" -> (StratumLimit * 35) \div 100
                   [] OTHER -> (StratumLimit * 15) \div 100
    IN  IF share = 0 THEN 1 ELSE share

StratifiedPool ==
    LET OfTier(tier) == {n \in Available : rankAsk.rows[n].tier = tier}
        kept == UNION {TopScored(OfTier(t), Quota(t)) : t \in {"strong", "balanced", "cold"}}
    IN  IF Cardinality(Available) <= StratumLimit
        THEN Available
        ELSE FillUp(kept, ByScore(Available), StratumLimit, 0)

\* Under the article's rules and with no core, the pool holds the best of
\* every part a rule asks for, and is then filled up: the loop adds a number
\* before it looks at the size.
RulesPool ==
    LET preferred == TopScored(Available \cap PreferredBalls, 2 + 3)
        quadrants == UNION {TopScored({n \in Available : Quadrant(n) = q}, 2) :
                              q \in {Quadrant(n) : n \in Balls}}
        parity == UNION {TopScored({n \in Available : n % 2 = p}, 4) : p \in {0, 1}}
        bestOfColumns == UNION {TopScored({n \in Available : Column(n) = c}, 1) :
                                  c \in 0 .. GridWidth - 1}
        columns == TopScored(bestOfColumns, ColumnLimit)
        kept == UNION {IF "preferred" \in rankAsk.rules THEN preferred ELSE {},
                       IF "quadrants" \in rankAsk.rules THEN quadrants ELSE {},
                       IF "parity" \in rankAsk.rules THEN parity ELSE {},
                       IF "columns" \in rankAsk.rules THEN columns ELSE {}}
    IN  FillUp(kept, ByScore(Available), Max({RulesPoolSize, Cardinality(kept)}), 1)

CandidatePool ==
    CASE rankAsk.lottery = "lotofacil" -> Available
      [] rankAsk.lottery = "mega-sena" /\ rankAsk.core = 0 /\ rankAsk.rules # {} -> RulesPool
      [] OTHER -> StratifiedPool

BuildPool ==
    /\ rankStage = "core" /\ rankAsk.purpose = "profile"
    /\ AskIsSound /\ CoreIsSound
    /\ Cardinality(rankCore) = rankAsk.core
    /\ rankPool' = CandidatePool
    /\ rankStage' = "offer"
    /\ UNCHANGED <<rankAsk, rankCore, offered, heap, sifting, groups, beam,
                   sampled, rankCap, rankBatch>>

\* What the plan announces of the pool before anything is generated.
PlannedPool ==
    LET left == Max({0, BallTop - Cardinality(rankAsk.excluded) - rankAsk.core})
        limit == IF rankAsk.lottery = "lotofacil" THEN BallTop ELSE StratumLimit
    IN  IF Cardinality(rankAsk.manual) > rankAsk.core THEN 0 ELSE Min({left, limit})

-----------------------------------------------------------------------------
(* The candidates of a group: what the generators yield, and its rank.  The *)
(* ranks of Dia de Sorte are four times the code's, whose sum penalty is a  *)
(* quarter.                                                                 *)

GroupOf == Len(groups) + 1
Target(targets) == targets[((GroupOf - 1) % Len(targets)) + 1]
TargetOdd ==
    IF "parity" \in rankAsk.rules THEN BallsDrawn \div 2 ELSE Target(OddTargets)
TargetRepeat == IF rankAsk.last = {} THEN 0 ELSE Target(RepeatTargets)

MegaSenaYields(g) == MatchesRules(g) /\ MeetsConstraints(g)
MegaSenaRank(g) ==
    Total(g \ rankCore, ScoreOf) - 20 * Distance(OddIn(g), TargetOdd)
                               - 30 * Max({0, RepeatsIn(g) - 2})

\* A constraint on the repeats that was given, whatever it is, replaces the usual
\* range.
LotofacilYields(g) ==
    /\ rankAsk.last = {} \/ rankAsk.repeated # NotGiven \/ RepeatsIn(g) \in UsualRepeats
    /\ MeetsConstraints(g)
LotofacilRank(g) ==
    Total(g \ rankCore, ScoreOf) - 35 * Distance(RepeatsIn(g), TargetRepeat)
                               - 22 * Distance(OddIn(g), TargetOdd) - GridPenalty(g)

DiaDeSorteYields(g) == OddIn(g) \in UsualOdds /\ MeetsConstraints(g)
DiaDeSorteRank(g) ==
    4 * Total(g \ rankCore, ScoreOf) - 140 * Distance(RepeatsIn(g), TargetRepeat)
        - 88 * Distance(OddIn(g), TargetOdd) - Distance(SumOf(g), SumTarget)

ReusePenalty ==
    CASE rankAsk.lottery = "mega-sena" -> 320
      [] rankAsk.lottery = "lotofacil" -> 28
      [] OTHER -> 180

\* Every game of the core and the pool.
Walk == {rankCore \cup v : v \in kSubset(BallsDrawn - Cardinality(rankCore), rankPool)}

Yields(g) ==
    CASE rankAsk.lottery = "mega-sena" -> MegaSenaYields(g)
      [] rankAsk.lottery = "lotofacil" -> LotofacilYields(g)
      [] OTHER -> DiaDeSorteYields(g)

RankOf(g) ==
    CASE rankAsk.lottery = "mega-sena" -> MegaSenaRank(g)
      [] rankAsk.lottery = "lotofacil" -> LotofacilRank(g)
      [] OTHER -> DiaDeSorteRank(g)

Yielded == {g \in Walk : Yields(g)}

\* In the order they are walked.
Offers ==
    LET games == InOrder(Yielded, Sooner)
    IN  [i \in DOMAIN games |-> [numbers |-> games[i], rank |-> RankOf(games[i])]]

-----------------------------------------------------------------------------
(* topRankedCandidates: a heap of at most HeapLimit, its worst at the root. *)

Better(c, d) == c.rank > d.rank \/ (c.rank = d.rank /\ Sooner(c.numbers, d.numbers))
Worse(c, d) == Better(d, c)
HeapLimit == IF rankAsk.games = 1 THEN ShortlistLimit ELSE ExplorationLimit

PushCandidate ==
    /\ rankStage = "offer" /\ offered < Len(Offers) /\ Len(heap) < HeapLimit
    /\ heap' = Append(heap, Offers[offered + 1])
    /\ offered' = offered + 1
    /\ sifting' = Len(heap) + 1
    /\ rankStage' = "up"
    /\ UNCHANGED <<rankAsk, rankCore, rankPool, groups, beam, sampled, rankCap, rankBatch>>

Swap(s, i, j) == [s EXCEPT ![i] = s[j], ![j] = s[i]]

SiftUp ==
    LET parent == sifting \div 2
        rises == sifting > 1 /\ Worse(heap[sifting], heap[parent])
    IN  /\ rankStage = "up"
        /\ heap' = IF rises THEN Swap(heap, sifting, parent) ELSE heap
        /\ sifting' = IF rises THEN parent ELSE 0
        /\ rankStage' = IF rises THEN "up" ELSE "offer"
        /\ UNCHANGED <<rankAsk, rankCore, rankPool, offered, groups, beam, sampled,
                       rankCap, rankBatch>>

\* A full heap takes only what beats its worst, in its place.
ReplaceWorst ==
    /\ rankStage = "offer" /\ offered < Len(Offers) /\ Len(heap) = HeapLimit
    /\ LET wins == Better(Offers[offered + 1], heap[1])
       IN  /\ heap' = IF wins THEN [heap EXCEPT ![1] = Offers[offered + 1]] ELSE heap
           /\ sifting' = IF wins THEN 1 ELSE 0
           /\ rankStage' = IF wins THEN "down" ELSE "offer"
    /\ offered' = offered + 1
    /\ UNCHANGED <<rankAsk, rankCore, rankPool, groups, beam, sampled, rankCap, rankBatch>>

\* The slip of a siftDown that looks at the left child only.
WorstLeft(i) ==
    IF 2 * i \in DOMAIN heap /\ Worse(heap[2 * i], heap[i]) THEN 2 * i ELSE i

WorstOf(i) ==
    CHOOSE w \in {i, 2 * i, 2 * i + 1} \cap DOMAIN heap :
        \A x \in {i, 2 * i, 2 * i + 1} \cap DOMAIN heap : x = w \/ Worse(heap[w], heap[x])

SiftDown ==
    LET worst == WorstOf(sifting)
        sinks == worst # sifting
    IN  /\ rankStage = "down"
        /\ heap' = IF sinks THEN Swap(heap, sifting, worst) ELSE heap
        /\ sifting' = IF sinks THEN worst ELSE 0
        /\ rankStage' = IF sinks THEN "down" ELSE "offer"
        /\ UNCHANGED <<rankAsk, rankCore, rankPool, offered, groups, beam, sampled,
                       rankCap, rankBatch>>

-----------------------------------------------------------------------------
(* The portfolio: a diverse shortlist for each group, and a beam over them. *)

Variable(c) == c.numbers \ rankCore
Overlapping(games, c) ==
    LET OfGame(i) == Shared(Variable(games[i]), Variable(c))
    IN  Total(DOMAIN games, OfGame)

Diverse(list, c) == c.rank - ReusePenalty * Overlapping(list, c)

Winner(list, left) ==
    CHOOSE c \in left : \A d \in left \ {c} :
        \/ Diverse(list, c) > Diverse(list, d)
        \/ Diverse(list, c) = Diverse(list, d) /\ Sooner(c.numbers, d.numbers)

Shortlist(explored) ==
    LET list[k \in 0 .. ShortlistLimit] ==
            IF k = 0 THEN <<>>
            ELSE Append(list[k - 1], Winner(list[k - 1], Elements(explored) \ Elements(list[k - 1])))
    IN  IF Len(explored) <= ShortlistLimit THEN explored ELSE list[ShortlistLimit]

FinishGroup ==
    /\ rankStage = "offer" /\ offered = Len(Offers)
    /\ LET sorted == InOrder(Elements(heap), Better)
       IN  groups' = Append(groups, IF rankAsk.games = 1 THEN sorted ELSE Shortlist(sorted))
    /\ rankStage' = IF Len(groups') < rankAsk.games THEN "offer" ELSE "beam"
    /\ heap' = <<>>
    /\ offered' = 0
    /\ beam' = <<[games |-> <<>>, score |-> 0]>>
    /\ UNCHANGED <<rankAsk, rankCore, rankPool, sifting, sampled, rankCap, rankBatch>>

Extended(state, group) ==
    {[games |-> Append(state.games, c),
      score |-> state.score + c.rank - ReusePenalty * Overlapping(state.games, c)] :
        c \in {c \in group : c.numbers \notin Elements(Shape(state.games))}}

BetterState(s, t) ==
    \/ s.score > t.score
    \/ /\ s.score = t.score
       /\ \E i \in DOMAIN s.games :
            /\ \A j \in 1 .. i - 1 : s.games[j].numbers = t.games[j].numbers
            /\ Sooner(s.games[i].numbers, t.games[i].numbers)

ExtendBeam ==
    /\ rankStage = "beam" /\ Len(beam[1].games) < rankAsk.games
    /\ LET group == Elements(groups[Len(beam[1].games) + 1])
           expanded == UNION {Extended(beam[i], group) : i \in DOMAIN beam}
       IN  IF expanded = {}
           THEN rankStage' = "no portfolio" /\ beam' = <<>>
           ELSE rankStage' = "beam" /\ beam' = FirstOf(InOrder(expanded, BetterState), RankBeam)
    /\ UNCHANGED <<rankAsk, rankCore, rankPool, offered, heap, sifting, groups,
                   sampled, rankCap, rankBatch>>

ChoosePortfolio ==
    /\ rankStage = "beam" /\ Len(beam[1].games) = rankAsk.games
    /\ \E state \in Drawable(beam, PickWindow) : rankBatch' = Shape(state.games)
    /\ rankStage' = "done"
    /\ UNCHANGED <<rankAsk, rankCore, rankPool, offered, heap, sifting, groups, beam,
                   sampled, rankCap>>

-----------------------------------------------------------------------------
(* The payout generators: one step of the seven for each loop they share.   *)

PayoutIsSound ==
    /\ AskIsSound
    /\ rankAsk.core <= BallsDrawn
    /\ BallTop - Cardinality(rankAsk.excluded) >= BallsDrawn
    /\ rankAsk.lottery = "timemania" => rankAsk.team

\* A core drawn by weight around the numbers the bettor fixed: any of the
\* open numbers may complete it.
SampleCoreFor ==
    {c \in kSubset(rankAsk.core, Balls \ rankAsk.excluded) : rankAsk.manual \subseteq c}

\* The games the sampler may find.  Its attempts are bounded, so it may
\* stop with any part of them.
Samplable == {g \in kSubset(BallsDrawn, Balls \ rankAsk.excluded) : rankCore \subseteq g /\ MeetsConstraints(g)}

\* The pool, best return first.
Return(g) == Total(g, ScoreOf)
MoreAppealing(g, h) == Return(g) > Return(h) \/ (Return(g) = Return(h) /\ Sooner(g, h))
Appeal == InOrder(sampled, MoreAppealing)

MaxCap == BallsDrawn - 1

\* What fits beside the games chosen: among the first of the pool, or, when
\* none does, in the whole of it.
Eligible ==
    LET Fits(g) == \A i \in DOMAIN rankBatch : g # rankBatch[i] /\ Shared(g, rankBatch[i]) <= rankCap
        window == Max({rankAsk.games * WindowFactor, (Cardinality(sampled) + 9) \div 10})
        near == {g \in Elements(FirstOf(Appeal, window)) : Fits(g)}
    IN  IF near # {} THEN near ELSE {g \in sampled : Fits(g)}

PayoutCore ==
    /\ rankStage = "core"
    /\ IF PayoutIsSound
       THEN rankCore' \in SampleCoreFor /\ rankStage' = "sample"
       ELSE rankCore' = rankCore /\ rankStage' = "refused"
    /\ UNCHANGED <<sampled, rankCap, rankBatch>>

\* The cap two games start from is the lottery's own, and the core they share.
SamplePool(initialCap) ==
    /\ rankStage = "sample"
    /\ \E pool \in SUBSET Samplable :
        /\ Cardinality(pool) <= PayoutPool
        /\ sampled' = pool
        /\ rankStage' = IF Cardinality(pool) < rankAsk.games THEN "too few samples" ELSE "batch"
    /\ rankCap' = Max({initialCap, Cardinality(rankCore)})
    /\ UNCHANGED <<rankCore, rankBatch>>

PickGame ==
    /\ rankStage = "batch" /\ Len(rankBatch) < rankAsk.games
    /\ \E g \in Eligible : rankBatch' = Append(rankBatch, g)
    /\ UNCHANGED <<rankCore, rankStage, sampled, rankCap>>

RaiseCap ==
    /\ rankStage = "batch" /\ Len(rankBatch) < rankAsk.games /\ Eligible = {}
    /\ rankCap' = IF rankCap < MaxCap THEN rankCap + 1 ELSE rankCap
    /\ rankStage' = IF rankCap < MaxCap THEN "batch" ELSE "no cap"
    /\ UNCHANGED <<rankCore, sampled, rankBatch>>

\* The number of clovers is looked at only now, once the numbers are chosen.
FinishBatch ==
    LET fits == rankAsk.lottery = "mais-milionaria" => rankAsk.clovers \in 2 .. 6
    IN  /\ rankStage = "batch" /\ Len(rankBatch) = rankAsk.games
        /\ rankStage' = IF fits THEN "done" ELSE "refused"
        /\ rankBatch' = IF fits THEN rankBatch ELSE <<>>
        /\ UNCHANGED <<rankCore, sampled, rankCap>>

Payout(lottery, initialCap) ==
    /\ rankAsk.purpose = "payout" /\ rankAsk.lottery = lottery
    /\ PayoutCore \/ SamplePool(initialCap) \/ PickGame \/ RaiseCap \/ FinishBatch
    /\ UNCHANGED <<rankAsk, rankPool, offered, heap, sifting, groups, beam>>

MegaSenaPayout == Payout("mega-sena", LowCap)
QuinaPayout == Payout("quina", LowCap)
DuplaSenaPayout == Payout("dupla-sena", LowCap)
MaisMilionariaPayout == Payout("mais-milionaria", LowCap)
TimemaniaPayout == Payout("timemania", MidCap)
DiaDeSortePayout == Payout("dia-de-sorte", MidCap)
LotofacilPayout == Payout("lotofacil", HighCap)

\* The core a saved game is filed under: a core the store has no size for
\* counts as variable numbers.
FiledCore == IF Cardinality(rankCore) \in CoreSizes THEN rankCore ELSE {}

-----------------------------------------------------------------------------
RankingInit ==
    /\ rankAsk \in RankAsks
    /\ rankStage = "core"
    /\ rankCore = rankAsk.manual
    /\ rankPool = {} /\ sampled = {}
    /\ offered = 0 /\ sifting = 0 /\ rankCap = 0
    /\ heap = <<>> /\ groups = <<>> /\ beam = <<>> /\ rankBatch = <<>>

RankingNext ==
    \/ RefuseCore \/ PickCore \/ CoreFails \/ BuildPool
    \/ PushCandidate \/ SiftUp \/ ReplaceWorst \/ SiftDown \/ FinishGroup
    \/ ExtendBeam \/ ChoosePortfolio
    \/ MegaSenaPayout \/ QuinaPayout \/ DuplaSenaPayout \/ MaisMilionariaPayout
    \/ TimemaniaPayout \/ DiaDeSortePayout \/ LotofacilPayout

RankingSpec == RankingInit /\ [][RankingNext]_rankVars

-----------------------------------------------------------------------------
(* Every variable keeps the shape the generators give it. *)
RankingTypeOK ==
    LET candidate == [numbers : SUBSET Balls, rank : Int]
    IN  /\ rankAsk \in RankAsks
        /\ rankStage \in {"core", "offer", "up", "down", "beam", "sample", "batch"} \cup Ends
        /\ rankCore \subseteq Balls \cup rankAsk.manual /\ rankPool \subseteq Balls
        /\ sampled \subseteq SUBSET Balls
        /\ offered \in Nat /\ rankCap \in 0 .. Max({LowCap, MidCap, HighCap, BallsDrawn})
        /\ Elements(heap) \subseteq candidate /\ sifting \in 0 .. Len(heap)
        /\ \A i \in DOMAIN groups : Elements(groups[i]) \subseteq candidate
        /\ \A i \in DOMAIN beam : Elements(beam[i].games) \subseteq candidate /\ beam[i].score \in Int
        /\ Elements(rankBatch) \subseteq SUBSET Balls

(* topRankedCandidates keeps the best HeapLimit of everything it has been   *)
(* offered: whenever no candidate is being sifted, a candidate is in the    *)
(* heap exactly when fewer than HeapLimit of those seen beat it.  A heap    *)
(* out of order drops a good candidate only several offers later.           *)
HeapKeepsBest ==
    rankStage = "offer" =>
        LET seen == {Offers[i] : i \in 1 .. offered}
        IN  \A c \in seen :
                c \in Elements(heap) <=> Cardinality({d \in seen : Better(d, c)}) < HeapLimit

(* The batch that comes out of the loops is the batch that was asked for:   *)
(* that many games, no two alike, each of BallsDrawn numbers around the     *)
(* core, with none of the excluded ones and within the constraints; a core  *)
(* that respects the numbers fixed and the repeat limit; two payout games   *)
(* share at most the cap, and what is filed as fixed is in every game.      *)
BatchIsAsked ==
    rankStage = "done" =>
        /\ Len(rankBatch) = rankAsk.games
        /\ Cardinality(rankCore) = rankAsk.core /\ rankAsk.manual \subseteq rankCore
        /\ rankAsk.purpose = "profile" => RepeatsIn(rankCore) <= RepeatLimit
        /\ \A i \in DOMAIN rankBatch :
            /\ Cardinality(rankBatch[i]) = BallsDrawn
            /\ FiledCore \subseteq rankBatch[i]
            /\ rankCore \subseteq rankBatch[i] /\ rankBatch[i] \cap rankAsk.excluded = {}
            /\ MeetsConstraints(rankBatch[i])
            /\ \A j \in DOMAIN rankBatch \ {i} :
                /\ rankBatch[i] # rankBatch[j]
                /\ rankAsk.purpose = "payout" => Shared(rankBatch[i], rankBatch[j]) <= rankCap

(* And a batch is given up only when there is none: the portfolio fails     *)
(* when fewer games than asked fit the pool, never because the shortlists   *)
(* or the beam lost them, and a payout batch never runs out of caps, so the *)
(* error the generators throw for that is unreachable.                      *)
GivenUpForNothingLeft ==
    /\ rankStage = "no portfolio" => Len(Offers) < rankAsk.games
    /\ rankStage # "no cap"

(* The pool the plan announces is the pool the generator builds.            *)
PoolIsPlanned ==
    rankStage \in {"offer", "up", "down", "beam"} /\ ~(rankAsk.core = 0 /\ rankAsk.rules # {})
        => Cardinality(rankPool) = PlannedPool

(* The promises of the loops together: the heap, the batch, the reasons to  *)
(* give up and the pool that was announced.                                 *)
RankingSafe == HeapKeepsBest /\ BatchIsAsked /\ GivenUpForNothingLeft /\ PoolIsPlanned

=============================================================================
