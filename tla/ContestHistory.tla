--------------------------- MODULE ContestHistory ---------------------------
(***************************************************************************)
(* What backtests, the strategy lab and the analyses see of a history of   *)
(* contests that is incomplete and still changing                          *)
(* (src/analysis/contestEligibility.ts, continuity.ts, rankQuality.ts,     *)
(* walkForward.ts, src/backtest/, src/lab/, src/application/               *)
(* runBacktest.ts and runStrategyLab.ts).                                  *)
(*                                                                         *)
(* Contests are stored in any order and may be amended.  A run reads the   *)
(* history once, computes later and keeps a signature of the history up to *)
(* its last target.  A round is described by everything it depends on: its *)
(* target and the rows handed to the generator.                            *)
(***************************************************************************)
EXTENDS Integers, FiniteSets, FiniteSetsExt, Sequences, SequencesExt

CONSTANTS
    LastContest,  \* contests are numbered 1..LastContest
    DualDraws,    \* the analysed lottery draws twice per contest (dupla-sena)
    Testers,      \* clients that ask for runs
    RunAsks,      \* the requests explored
    MaxResults,   \* bound on the results compared
    MaxAmends,    \* bound on the contests amended after they were stored
    PricedFrom,   \* the first contest with a known ticket price
    RandomRuns,   \* the random controls a lab draws
    QualityCap,   \* the rounds a ranking quality looks at, at most
    MaxRounds,    \* the rounds a backtest may ask for
    MaxWork       \* the work units a lab may ask for

NoContest == 0
AtRest == <<>>

ASSUME HistoryAssumption ==
    /\ LastContest \in Nat \ {0} /\ DualDraws \in BOOLEAN
    /\ {MaxAmends, MaxResults, PricedFrom, RandomRuns, QualityCap, MaxRounds, MaxWork} \subseteq Nat
    /\ RunAsks \subseteq [experiment : STRING, warmup : Nat, start : Nat, end : Nat,
                           lookback : Nat, bucket : Nat \ {0}]

VARIABLES
    stored,   \* contest |-> version: 0 as first stored, 1 with its payout table
    amends,   \* contests amended so far
    reading,  \* per tester: AtRest, or the request and the history it has read
    results   \* the results delivered

historyVars == <<stored, amends, reading, results>>

-----------------------------------------------------------------------------
(* Rows and continuity                                                     *)

\* A set of numbers in its order.
Ascending(set) == [i \in 1..Cardinality(set) |->
                      CHOOSE n \in set : Cardinality({m \in set : m <= n}) = i]

\* The sum of the first n values of f.
SumTo(f, n) ==
    LET upTo[k \in 0..n] == IF k = 0 THEN 0 ELSE upTo[k - 1] + f[k]
    IN upTo[n]

\* contests.list(): one row per contest, in the order of the numbers.
Rows(h) == LET numbers == Ascending(DOMAIN h)
           IN [i \in DOMAIN numbers |->
                  [number |-> numbers[i], version |-> h[numbers[i]], draw |-> 1]]

\* listAnalysisHistory(): a contest of dupla-sena gives two rows.
AnalysisRows(h) ==
    LET rows == Rows(h)
    IN IF ~DualDraws THEN rows
       ELSE [i \in 1..(2 * Len(rows)) |->
                [rows[(i + 1) \div 2] EXCEPT !.draw = IF i % 2 = 1 THEN 1 ELSE 2]]

Follows(rows, i) == i > 1 /\ rows[i - 1].number = rows[i].number - 1

\* continuousSuffix()
ContinuousSuffix(rows) ==
    IF rows = <<>> THEN rows
    ELSE SubSeq(rows, Max({i \in DOMAIN rows : ~Follows(rows, i)}), Len(rows))

\* splitContinuousSegments() and latestContinuousSegment(): a row goes on with the
\* last segment or begins another.
WithRow(segments, rows, k) ==
    IF Follows(rows, k) THEN [segments EXCEPT ![Len(segments)] = Append(@, rows[k])]
    ELSE Append(segments, <<rows[k]>>)
Segments(rows) ==
    LET upTo[k \in 0..Len(rows)] == IF k = 0 THEN <<>> ELSE WithRow(upTo[k - 1], rows, k)
    IN upTo[Len(rows)]
LatestSegment(rows) == IF rows = <<>> THEN <<>> ELSE Last(Segments(rows))

\* buildDataQuality(): the contests missing between the rows.
Gap(rows, i) == IF i = 1 THEN 0
                ELSE LET missing == rows[i].number - rows[i - 1].number - 1
                     IN IF missing > 0 THEN missing ELSE 0
MissingCount(rows) == SumTo([i \in DOMAIN rows |-> Gap(rows, i)], Len(rows))

-----------------------------------------------------------------------------
(* Rounds                                                                  *)

InPeriod(row, start, end) ==
    /\ start = NoContest \/ row.number >= start
    /\ end = NoContest \/ row.number <= end

\* eligibleTargetIndexes() with hasImmediatePredecessor(); the last `most` of
\* them when `most` is positive.
EligibleTargets(rows, warmup, start, end, most) ==
    LET all == {i \in (Max({1, warmup}) + 1)..Len(rows) :
                   InPeriod(rows[i], start, end) /\ Follows(rows, i)}
    IN IF most <= 0 THEN all
       ELSE {i \in all : Cardinality({j \in all : j >= i}) <= most}

\* A backtest that trains on the whole history but the target.
HistoryWithoutTarget(rows, i) == RemoveAt(rows, i)
\* scoped.slice(0, index)
HistoryOf(rows, i) == SubSeq(rows, 1, i - 1)

Round(rows, i) == [target |-> rows[i], known |-> HistoryOf(rows, i)]

\* backtestMegaSena(), backtestLotofacil() and backtestDiaDeSorte()
Rounds(rows, warmup, start, end, most) ==
    LET targets == Ascending(EligibleTargets(rows, warmup, start, end, most))
    IN [k \in DOMAIN targets |-> Round(rows, targets[k])]

\* backtestRandomControl(): the games depend on the target and on the row before.
ControlRounds(rows, warmup, start, end) ==
    LET rounds == Rounds(rows, warmup, start, end, 0)
    IN [k \in DOMAIN rounds |-> [rounds[k] EXCEPT !.known = <<Last(@)>>]]

\* evaluateRankingQuality()
QualityRounds(rows, warmup, start, end) == Rounds(rows, warmup, start, end, QualityCap)

\* What summarizeBacktestRounds() counts: a round is priced when its contest has
\* a price, and financial when its payout table is known too.
Summarize(rounds) ==
    [tested    |-> Len(rounds),
     priced    |-> Cardinality({k \in DOMAIN rounds : rounds[k].target.number >= PricedFrom}),
     financial |-> Cardinality({k \in DOMAIN rounds :
                       rounds[k].target.number >= PricedFrom /\ rounds[k].target.version = 1})]

\* buildStrategyLabSeries()
Buckets(rounds, size) ==
    [b \in 1..((Len(rounds) + size - 1) \div size) |->
        Summarize(SubSeq(rounds, (b - 1) * size + 1, Min({b * size, Len(rounds)})))]

\* evaluateWalkForwardWeights(): each fold freezes the profile chosen on what
\* precedes its block.  A fold is described by the rounds that chose the profile
\* and the rounds that test it.
FirstAtLeast(rows, n) == Min({i \in DOMAIN rows : rows[i].number >= n} \cup {Len(rows) + 1})

FirstTested(rows, warmup, window, start) ==
    Max({Min({Len(rows), warmup + window}) + 1,
         IF start = NoContest THEN 1 ELSE FirstAtLeast(rows, start)})
Beyond(rows, end) == IF end = NoContest THEN Len(rows) + 1 ELSE FirstAtLeast(rows, end + 1)

Fold(rows, warmup, window, block, past, i) ==
    LET last == Min({past, i + block}) - 1
    IN [train |-> Rounds(SubSeq(rows, 1, i - 1), warmup, NoContest, NoContest, window),
        test  |-> Rounds(SubSeq(rows, 1, last), warmup, rows[i].number, rows[last].number, 0)]

Folds(rows, warmup, window, block, start, end) ==
    LET first == FirstTested(rows, warmup, window, start)
        past == Beyond(rows, end)
        fold(i) == Fold(rows, warmup, window, block, past, i)
        starts == {i \in first..(past - 1) : (i - first) % block = 0}
    IN {fold(i) : i \in {j \in starts : fold(j).test # <<>>}}

\* getDataStatus()
MissingInRange(h) == Max(DOMAIN h) - Min(DOMAIN h) + 1 - Cardinality(DOMAIN h)

-----------------------------------------------------------------------------
(* Requests                                                                *)

Newest(h) == Max(DOMAIN h)

\* resolveStrategyLabPeriod() and the effective contests of runBacktest().
EndOf(q, h) == IF q.end = NoContest THEN Newest(h) ELSE q.end
StartOf(q, end) ==
    IF q.start # NoContest \/ q.experiment = "backtest" THEN q.start
    ELSE Max({1, end - q.lookback + 1})

\* backtestHistorySignature(): every contest up to the last target.
Signature(h, end) == [n \in {m \in DOMAIN h : m <= end} |-> h[n]]

IsLab(q) == q.experiment # "backtest"

\* The strategies an experiment compares.
Variants(q) == CASE q.experiment = "external-rules" -> 9
                 [] q.experiment \in {"fixed-core", "score-model"} -> 3
                 [] OTHER -> 1

\* estimateStrategyLabWorkUnits() for one game per contest
WorkUnits(q, targets) ==
    targets * (RandomRuns + Variants(q) + 2) + (IF q.experiment = "score-model" THEN targets * 40 ELSE 0)

\* A backtest counts the contests of its period, whether eligible or not.
BacktestFits(q, h) ==
    LET rows == Rows(h)
    IN Cardinality({i \in (q.warmup + 1)..Len(rows) : InPeriod(rows[i], q.start, q.end)}) <= MaxRounds

\* validateStrategyLabExecution()
LabFits(q, h) ==
    LET targets == EligibleTargets(Rows(h), q.warmup, StartOf(q, EndOf(q, h)), EndOf(q, h), 0)
    IN /\ Cardinality(DOMAIN h) > q.warmup
       /\ targets # {}
       /\ WorkUnits(q, Cardinality(targets)) <= MaxWork

Accepts(q, h) == DOMAIN h # {} /\ IF IsLab(q) THEN LabFits(q, h) ELSE BacktestFits(q, h)

\* compareStrategyLab(): every variant plays the same rounds.
LabParts(q, rows, end) ==
    LET scores == q.experiment = "score-model"
        start == StartOf(q, end)
        control == ControlRounds(rows, q.warmup, start, end)
    IN [control |-> control,
        quality |-> IF scores THEN QualityRounds(rows, q.warmup, start, end) ELSE <<>>,
        series  |-> Buckets(control, q.bucket),
        folds   |-> IF scores THEN Folds(rows, q.warmup, 1, q.bucket, start, end) ELSE {}]

\* What is computed from the rows alone.
Outcome(q, rows, end, signature) ==
    LET rounds == Rounds(rows, q.warmup, StartOf(q, end), IF IsLab(q) THEN end ELSE q.end, 0)
    IN [ask       |-> q,
        end       |-> end,
        signature |-> signature,
        rounds    |-> rounds,
        summary   |-> Summarize(rounds),
        lab       |-> IF IsLab(q) THEN LabParts(q, rows, end) ELSE <<>>]

Result(q, h) == Outcome(q, Rows(h), EndOf(q, h), Signature(h, EndOf(q, h)))

-----------------------------------------------------------------------------
(* Actions                                                                 *)

\* upsertMany(): synchronization stores contests in any order, and completes one
\* stored earlier.
StoreContest(n) ==
    /\ n \notin DOMAIN stored
    /\ \E version \in 0..1 :
          stored' = [m \in DOMAIN stored \cup {n} |-> IF m = n THEN version ELSE stored[m]]
    /\ UNCHANGED <<amends, reading, results>>

AmendContest(n) ==
    /\ n \in DOMAIN stored /\ stored[n] = 0
    /\ amends < MaxAmends
    /\ stored' = [stored EXCEPT ![n] = 1]
    /\ amends' = amends + 1
    /\ UNCHANGED <<reading, results>>

\* execute() awaits history.list() and validates what it read.
ReadHistory(c) ==
    /\ reading[c] = AtRest
    /\ \E q \in RunAsks :
          /\ Accepts(q, stored)
          /\ reading' = [reading EXCEPT ![c] = <<q, stored>>]
    /\ UNCHANGED <<stored, amends, results>>

\* The computation works on the history read, however old by now.
DeliverResult(c) ==
    /\ reading[c] # AtRest
    /\ Cardinality(results) < MaxResults
    /\ results' = results \cup {Result(reading[c][1], reading[c][2])}
    /\ reading' = [reading EXCEPT ![c] = AtRest]
    /\ UNCHANGED <<stored, amends>>

HistoryInit ==
    /\ stored = <<>>
    /\ amends = 0
    /\ reading = [c \in Testers |-> AtRest]
    /\ results = {}

HistoryNext ==
    \/ \E n \in 1..LastContest : StoreContest(n) \/ AmendContest(n)
    \/ \E c \in Testers : ReadHistory(c) \/ DeliverResult(c)

HistorySpec == HistoryInit /\ [][HistoryNext]_historyVars

-----------------------------------------------------------------------------
(* Properties                                                              *)

\* The store is a partial history, and every tester is idle or at work.
HistoryTypeOK ==
    /\ DOMAIN stored \subseteq 1..LastContest
    /\ \A n \in DOMAIN stored : stored[n] \in 0..1
    /\ amends \in 0..MaxAmends
    /\ \A c \in Testers : reading[c] = AtRest \/ reading[c][1] \in RunAsks

\* Two results of one request with one signature and one last contest are the
\* same in every round, bucket and fold, whatever was stored between the two: the
\* signature covers all a result depends on.
SignatureReproduces ==
    \A a, b \in results : a.ask = b.ask /\ a.end = b.end /\ a.signature = b.signature => a = b

\* The buckets of a lab add up to its summary, its quality is about the last of the
\* same rounds, and no fold tests a contest its profile was chosen on.
LabAddsUp ==
    \A a \in results :
       IsLab(a.ask) =>
          /\ \A f \in {"tested", "priced", "financial"} :
                a.summary[f] = SumTo([b \in DOMAIN a.lab.series |-> a.lab.series[b][f]],
                                     Len(a.lab.series))
          /\ IsSuffix([k \in DOMAIN a.lab.quality |-> a.lab.quality[k].target],
                      [k \in DOMAIN a.rounds |-> a.rounds[k].target])
          /\ \A x \in a.lab.folds : \A i \in DOMAIN x.train, j \in DOMAIN x.test :
                x.train[i].target.number < x.test[j].target.number

\* The recent windows of the score and the segments of the explanations, computed
\* apart, are the same rows, and the gaps between the segments are the contests the
\* store is said to miss.
WindowsAgree ==
    LET rows == Rows(stored)
    IN /\ ContinuousSuffix(rows) = LatestSegment(rows)
       /\ FlattenSeq(Segments(rows)) = rows
       /\ rows # <<>> =>
             MissingCount(rows) = MissingInRange(stored)

\* What is computed twice from one history, in two places or at two times, agrees.
HistorySafe == SignatureReproduces /\ LabAddsUp /\ WindowsAgree

\* "Returns only the latest contiguous suffix of a contest series ... until enough
\* draws accumulate" (contestEligibility.ts:20-24): a window of the analysed rows
\* misses no draw of the run of contests that ends the history.
WindowKeepsEveryDraw ==
    LET rows == AnalysisRows(stored)
    IN MissingCount(rows) = 0 => ContinuousSuffix(rows) = rows
=============================================================================
