---------------------------- MODULE GamePlanning ----------------------------
(***************************************************************************)
(* The plan of a batch and the three samplers that fill it without a       *)
(* strategy (src/generator/planning.ts, planningSpace.ts,                  *)
(* planningConstraints.ts, generationPurpose.ts, coveringDesign.ts).       *)
(*                                                                         *)
(* A game is a set of numbers of a small universe.  The plan COUNTS the    *)
(* games the request allows, by dynamic programming over (picked, odd,     *)
(* repeated, sum), and describes their averages by formulas; the samplers  *)
(* then draw games one by one.  Counting and drawing share no code: this   *)
(* module checks the one against the other.  A random draw is any of its   *)
(* outcomes; a bounded number of attempts may run out at any time.         *)
(***************************************************************************)
EXTENDS Integers, FiniteSets, FiniteSetsExt, Functions, Sequences

CONSTANTS
    TopNumber,    \* the universe is 1..TopNumber
    DrawSize,     \* numbers of a draw
    PlanAsks,     \* the requests explored
    TicketPrice,  \* cents of one bet
    PoolTarget    \* distinct games the portfolio gathers before it chooses, never
                  \* fewer than it delivers

NoRange == <<>>
NoReference == {}
NoBudget == -1

ASSUME PlanningAssumption ==
    /\ TopNumber \in Nat /\ DrawSize \in 1..TopNumber
    /\ TicketPrice \in Nat /\ PoolTarget \in Nat
    /\ \A q \in PlanAsks :
          /\ q.count \in 1..PoolTarget
          /\ {q.odd, q.repeated, q.sum} \subseteq {NoRange} \cup (Int \X Int)
          /\ {q.betSize, q.fixedCount, q.target} \subseteq Int
          /\ q.budget \in Nat \cup {NoBudget}

VARIABLES
    asked,     \* the request
    phase,     \* how far it got
    eligible,  \* plan.space.eligibleCombinations
    core,      \* the numbers every game shares
    drawn,     \* the portfolio's pool of distinct games
    batch,     \* the games chosen, in order
    uncovered  \* the target subsets no chosen ticket holds yet

planningVars == <<asked, phase, eligible, core, drawn, batch, uncovered>>

Numbers == 1..TopNumber
Odd(s) == {v \in s : v % 2 = 1}
Sum(s) == SumFunction([v \in s |-> v])

WithinRange(v, range) == range = NoRange \/ (range[1] <= v /\ v <= range[2])
BelowMax(v, range) == range = NoRange \/ v <= range[2]

\* matchesGenerationConstraints(), on the metadata of buildMetadata().
Matches(game, q) ==
    /\ WithinRange(Cardinality(Odd(game)), q.odd)
    /\ WithinRange(Cardinality(game \cap q.reference), q.repeated)
    /\ WithinRange(Sum(game), q.sum)

-----------------------------------------------------------------------------
(* Validation                                                              *)

RangeFits(range, low, high) ==
    range = NoRange \/ (low <= range[1] /\ range[1] <= range[2] /\ range[2] <= high)

SelectionIsValid(q) ==
    /\ q.fixed \subseteq Numbers /\ q.excluded \subseteq Numbers
    /\ Cardinality(q.fixed) <= DrawSize
    /\ q.fixed \cap q.excluded = {}
    /\ Cardinality(Numbers \ q.excluded) >= DrawSize

ConstraintsAreValid(q) ==
    /\ RangeFits(q.odd, 0, DrawSize)
    /\ RangeFits(q.repeated, 0, DrawSize)
    /\ RangeFits(q.sum, Sum(1..DrawSize), Sum((TopNumber - DrawSize + 1)..TopNumber))

\* validateSelection() of the samplers.
SamplingIsValid(q) ==
    /\ q.betSize \in DrawSize..TopNumber
    /\ q.fixedCount \in Cardinality(q.fixed)..q.betSize
    /\ Cardinality(Numbers \ q.excluded) >= q.betSize

\* validateOptions() of the covering design.
CoverageIsValid(q) ==
    /\ q.pool \subseteq Numbers
    /\ q.betSize \in DrawSize..Cardinality(q.pool)
    /\ q.target \in 1..q.betSize

-----------------------------------------------------------------------------
(* The plan                                                                *)

\* combinationCount()
Choose[n \in 0..TopNumber] ==
    [k \in 0..TopNumber |->
        IF k > n THEN 0
        ELSE IF k = 0 \/ n = 0 THEN 1
        ELSE (Choose[n - 1][k - 1] * n) \div k]

Candidates(q) == Numbers \ (q.fixed \cup q.excluded)
Needed(q) == q.betSize - Cardinality(q.fixed)

\* The state of the count after the candidate v is taken.
Take(t, v, q) == <<t[1] + 1, t[2] + (v % 2),
                   t[3] + (IF v \in q.reference THEN 1 ELSE 0), t[4] + v>>

Prune(t, q) == BelowMax(t[2], q.odd) /\ BelowMax(t[3], q.repeated) /\ BelowMax(t[4], q.sum)

\* A count in which the latest way to a state replaces the ways found before.
CountLatestWay(counts, v, q) ==
    LET taken == {t \in DOMAIN counts : t[1] < Needed(q) /\ Prune(Take(t, v, q), q)}
    IN [t \in DOMAIN counts \cup {Take(u, v, q) : u \in taken} |->
            IF \E u \in taken : Take(u, v, q) = t
            THEN SumFunction([u \in {w \in taken : Take(w, v, q) = t} |-> counts[u]])
            ELSE counts[t]]

\* Each candidate is left out or taken.
CountCandidate(counts, v, q) ==
    LET taken == {t \in DOMAIN counts : t[1] < Needed(q) /\ Prune(Take(t, v, q), q)}
        after == DOMAIN counts \cup {Take(t, v, q) : t \in taken}
        held(t) == IF t \in DOMAIN counts THEN counts[t] ELSE 0
    IN [t \in after |-> held(t) +
            SumFunction([u \in {w \in taken : Take(w, v, q) = t} |-> counts[u]])]

FirstState(q) == <<0, Cardinality(Odd(q.fixed)), Cardinality(q.fixed \cap q.reference), Sum(q.fixed)>>

CountEligible(q) ==
    LET counts[n \in 0..TopNumber] ==
            IF n = 0 THEN [t \in {FirstState(q)} |-> 1]
            ELSE IF n \in Candidates(q) THEN CountCandidate(counts[n - 1], n, q)
            ELSE counts[n - 1]
        final == {t \in DOMAIN counts[TopNumber] :
                     /\ t[1] = Needed(q)
                     /\ WithinRange(t[2], q.odd)
                     /\ WithinRange(t[3], q.repeated)
                     /\ WithinRange(t[4], q.sum)}
    IN IF q.odd = NoRange /\ q.repeated = NoRange /\ q.sum = NoRange
       THEN LET n == Cardinality(Candidates(q))
            IN IF Needed(q) \in 0..n THEN Choose[n][Needed(q)] ELSE 0
       ELSE IF ~Prune(FirstState(q), q) THEN 0
       ELSE SumFunction([t \in final |-> counts[TopNumber][t]])

\* buildConditionalBaseline(), each average over the same denominator: the
\* number n of candidates (n * n * (n - 1) for the variance of the sum).
Baseline(q) ==
    LET rest == Candidates(q)
        n == Cardinality(rest)
        squares == SumFunction([v \in rest |-> v * v])
    IN [odd      |-> Cardinality(Odd(q.fixed)) * n + Needed(q) * Cardinality(Odd(rest)),
        repeated |-> Cardinality(q.fixed \cap q.reference) * n
                       + Needed(q) * Cardinality(rest \cap q.reference),
        sum      |-> Sum(q.fixed) * n + Needed(q) * Sum(rest),
        variance |-> Needed(q) * (n * squares - Sum(rest) * Sum(rest)) * (n - Needed(q))]

MakePlan ==
    /\ phase = "asked"
    /\ IF ~SelectionIsValid(asked) \/ ~ConstraintsAreValid(asked)
       THEN phase' = "refused" /\ UNCHANGED eligible
       ELSE LET unknown == asked.repeated # NoRange /\ asked.reference = NoReference
                count == IF unknown THEN 0 ELSE CountEligible(asked)
            IN /\ eligible' = count
               /\ phase' = IF count < 1 THEN "refused" ELSE "planned"
    /\ UNCHANGED <<asked, core, drawn, batch, uncovered>>

-----------------------------------------------------------------------------
(* Uniform games and portfolios                                            *)

Fail == phase' = "failed" /\ UNCHANGED <<asked, eligible, core, drawn, batch, uncovered>>

Sampled == asked.purpose \in {"uniform", "portfolio"}

SampleCore ==
    /\ phase = "planned" /\ Sampled
    /\ SamplingIsValid(asked)
    /\ \E more \in kSubset(asked.fixedCount - Cardinality(asked.fixed), Candidates(asked)) :
          core' = IF asked.fixedCount = 0 THEN {} ELSE asked.fixed \cup more
    /\ phase' = "sampling"
    /\ UNCHANGED <<asked, eligible, drawn, batch, uncovered>>

RefuseSampling == phase = "planned" /\ Sampled /\ ~SamplingIsValid(asked) /\ Fail

\* The games sampleCandidate() may return and validCandidate() accepts.
Samples ==
    {game \in {core \cup more : more \in kSubset(asked.betSize - Cardinality(core),
                                                 Numbers \ (asked.excluded \cup core))} :
        Matches(game, asked)}

InBatch == {batch[i] : i \in DOMAIN batch}

\* buildGenerationBatchAudit(): what it says every game has in common.
SharedCore == {v \in Numbers : \A game \in InBatch : v \in game}

New(game) == game \notin InBatch \cup drawn

SampleGame ==
    /\ phase = "sampling"
    /\ \E game \in Samples :
          /\ New(game)
          /\ IF asked.purpose = "uniform"
             THEN /\ batch' = Append(batch, game)
                  /\ phase' = IF Len(batch') = asked.count THEN "done" ELSE phase
                  /\ UNCHANGED drawn
             ELSE /\ drawn' = drawn \cup {game}
                  /\ phase' = IF Cardinality(drawn') = PoolTarget THEN "choosing" ELSE phase
                  /\ UNCHANGED batch
    /\ UNCHANGED <<asked, eligible, core, uncovered>>

\* validCandidate() finds no game in its attempts, or the outer loop finds no
\* new one: a portfolio then goes on with the pool it has, when that suffices.
SamplerGivesUp == phase = "sampling" /\ Fail

PoolStaysShort ==
    /\ phase = "sampling" /\ asked.purpose = "portfolio"
    /\ Cardinality(drawn) >= asked.count
    /\ phase' = "choosing"
    /\ UNCHANGED <<asked, eligible, core, drawn, batch, uncovered>>

Overlaps(game) == [i \in DOMAIN batch |-> Cardinality(batch[i] \cap game)]
Spread(game) ==
    LET o == Overlaps(game)
    IN <<Max({o[i] : i \in DOMAIN o}), SumFunction(o)>>
Below(a, b) == a[1] < b[1] \/ (a[1] = b[1] /\ a[2] < b[2])

\* The pool is in the order of the draws, any order: ties go to any game.
Closest ==
    IF batch = <<>> THEN drawn
    ELSE {game \in drawn : \A other \in drawn : ~Below(Spread(other), Spread(game))}

ChooseApart ==
    /\ phase = "choosing"
    /\ \E game \in Closest :
          /\ batch' = Append(batch, game)
          /\ drawn' = drawn \ {game}
    /\ phase' = IF Len(batch') = asked.count THEN "done" ELSE phase
    /\ UNCHANGED <<asked, eligible, core, uncovered>>

-----------------------------------------------------------------------------
(* Covering design                                                         *)

Tickets(q) == {game \in kSubset(q.betSize, q.pool) : Matches(game, q)}
TargetSets(q) == kSubset(q.target, q.pool)

TicketLimit(q) ==
    IF q.budget = NoBudget \/ TicketPrice = 0 THEN q.count
    ELSE Min({q.count, q.budget \div TicketPrice})

StartCoverage ==
    /\ phase = "planned" /\ asked.purpose = "coverage"
    /\ IF ~CoverageIsValid(asked) \/ Tickets(asked) = {} \/ TicketLimit(asked) < 1
       THEN Fail
       ELSE /\ phase' = "covering"
            /\ uncovered' = TargetSets(asked)
            /\ UNCHANGED <<asked, eligible, core, drawn, batch>>

Gain(ticket) == Cardinality({t \in uncovered : t \subseteq ticket})

\* combinations() lists the tickets in this order; the first of the best wins.
Earlier(a, b) == a # b /\ Min(a \ b) < Min(b \ a)
Best ==
    {t \in Tickets(asked) \ InBatch :
        \A u \in Tickets(asked) \ InBatch :
            Gain(u) < Gain(t) \/ (Gain(u) = Gain(t) /\ ~Earlier(u, t))}

CrossOut(ticket) == {t \in uncovered : ~(t \subseteq ticket)}

ChooseTicket ==
    /\ phase = "covering"
    /\ IF Len(batch) < TicketLimit(asked) /\ \E t \in Best : Gain(t) > 0
       THEN \E ticket \in Best :
               /\ batch' = Append(batch, ticket)
               /\ uncovered' = CrossOut(ticket)
               /\ UNCHANGED phase
       ELSE phase' = "done" /\ UNCHANGED <<batch, uncovered>>
    /\ UNCHANGED <<asked, eligible, core, drawn>>

-----------------------------------------------------------------------------

PlanningInit ==
    /\ asked \in PlanAsks
    /\ phase = "asked"
    /\ eligible = 0
    /\ core = {}
    /\ drawn = {}
    /\ batch = <<>>
    /\ uncovered = {}

PlanningNext ==
    \/ MakePlan
    \/ SampleCore
    \/ RefuseSampling
    \/ SampleGame
    \/ SamplerGivesUp
    \/ PoolStaysShort
    \/ ChooseApart
    \/ StartCoverage
    \/ ChooseTicket

PlanningSpec == PlanningInit /\ [][PlanningNext]_planningVars

-----------------------------------------------------------------------------
(* Properties                                                              *)

\* Every state has a request, a stage of its work and games of the universe.
PlanningTypeOK ==
    /\ asked \in PlanAsks
    /\ phase \in {"asked", "refused", "planned", "sampling", "choosing", "covering",
                  "failed", "done"}
    /\ eligible \in Nat
    /\ InBatch \cup drawn \subseteq SUBSET Numbers
    /\ core \subseteq Numbers
    /\ uncovered \subseteq SUBSET Numbers

\* The reference: every game the selection allows, listed.
Space(q) == {q.fixed \cup more : more \in kSubset(Needed(q), Candidates(q))}
Fitting(q) == {game \in Space(q) : Matches(game, q)}

\* A plan announces exactly the number of games that can be drawn under the
\* request, and averages that are those of the listed space.
PlanIsExact ==
    phase = "planned" =>
        LET space == Space(asked)
            m == Cardinality(space)
            n == Cardinality(Candidates(asked))
            base == Baseline(asked)
            total == SumFunction([g \in space |-> Sum(g)])
        IN /\ eligible = Cardinality(Fitting(asked))
           /\ base.odd * m = n * SumFunction([g \in space |-> Cardinality(Odd(g))])
           /\ base.repeated * m
                = n * SumFunction([g \in space |-> Cardinality(g \cap asked.reference)])
           /\ base.sum * m = n * total
           /\ base.variance * m * m
                = n * n * (n - 1) * (m * SumFunction([g \in space |-> Sum(g) * Sum(g)])
                                       - total * total)

\* The games delivered are distinct, fit the request and share the core; there
\* are as many as asked for, never more than the plan announced.
GamesFitRequest ==
    Sampled =>
        /\ Cardinality(InBatch) = Len(batch)
        /\ InBatch \cup drawn \subseteq Fitting(asked)
        /\ core \subseteq SharedCore
        /\ Len(batch) <= eligible
        /\ phase = "done" => Len(batch) = asked.count

\* A covering design reports the subsets its tickets really hold, stays within
\* its budget, buys no ticket that adds nothing and stops short of its limit only
\* when no ticket could add anything.
CoverageIsTrue ==
    phase \in {"covering", "done"} /\ asked.purpose = "coverage" =>
        /\ TargetSets(asked) \ uncovered
              = {t \in TargetSets(asked) : \E game \in InBatch : t \subseteq game}
        /\ asked.budget = NoBudget \/ Len(batch) * TicketPrice <= asked.budget
        /\ \A i \in DOMAIN batch : \E t \in TargetSets(asked) :
              t \subseteq batch[i] /\ \A j \in 1..(i - 1) : ~(t \subseteq batch[j])
        /\ phase = "done" =>
              \/ Len(batch) = TicketLimit(asked)
              \/ \A ticket \in Tickets(asked) : Gain(ticket) = 0

\* The plan counts the games the batch is drawn from, and the batch keeps what
\* the plan and its audit say of it.
PlanningSafe == PlanIsExact /\ GamesFitRequest /\ CoverageIsTrue
=============================================================================
