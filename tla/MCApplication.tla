--------------------------- MODULE MCApplication ---------------------------
(***************************************************************************)
(* The components of the application that share no state, on small         *)
(* instances and in one run.  The initial state picks the component that   *)
(* moves, the scene, and the others stay in one of their initial states:   *)
(* the states reached are those of the components one by one and never     *)
(* their product, so an invariant says here of its component what it would *)
(* say in a run of the component alone.                                    *)
(***************************************************************************)
EXTENDS PrizeTables, Generation, Strategies, Hypotheses, AiInsights, Bootstrap,
        Migrations, GamePlanning, ContestHistory, ContestData, ContestFile,
        CandidateRanking, TLC

VARIABLE scene

-----------------------------------------------------------------------------
(* The requests and tables that are tried. *)

MCRunLottery == (1 :> "quina" @@ 2 :> "mega-sena")

MCPlanAsks ==
    [purpose : {"uniform", "portfolio"}, fixed : {{}, {2}, {6}}, excluded : {{6}},
     odd : {<<>>, <<1, 2>>}, repeated : {<<>>, <<0, 1>>}, sum : {<<>>, <<8, 12>>},
     reference : {{}, {2, 3, 5}}, betSize : {3, 4}, fixedCount : {1}, count : {2},
     pool : {{}}, target : {1}, budget : {-1}]
    \cup
    [purpose : {"coverage"}, fixed : {{}}, excluded : {{}},
     odd : {<<>>, <<1, 2>>}, repeated : {<<>>}, sum : {<<>>, <<8, 12>>},
     reference : {{}}, betSize : {3, 4}, fixedCount : {0}, count : {1, 3},
     pool : {1 .. 5, 2 .. 6, {1, 2}}, target : {1, 2}, budget : {-1, 0, 5}]

MCRunAsks ==
    {[experiment |-> "score-model", warmup |-> 1, start |-> 0, end |-> 0, lookback |-> 4, bucket |-> 1],
     [experiment |-> "external-rules", warmup |-> 1, start |-> 0, end |-> 3, lookback |-> 2, bucket |-> 2],
     [experiment |-> "backtest", warmup |-> 1, start |-> 0, end |-> 0, lookback |-> 0, bucket |-> 1]}

MCOddTargets == <<2, 3>>
MCRepeatTargets == <<2, 1>>

\* Two analyses of the numbers, by score and by year.
Analysis(score, year) ==
    [n \in Balls |->
        [score |-> score[n], year |-> year[n], blend |-> (score[n] + year[n]) \div 2,
         recent |-> year[BallTop + 1 - n],
         tier |-> IF score[n] >= 60 THEN "strong" ELSE IF score[n] >= 40 THEN "balanced" ELSE "cold"]]
Scattered == Analysis(<<50, 80, 30, 70, 60, 20, 90>>, <<10, 60, 60, 30, 90, 20, 40>>)
Tied == Analysis(<<90, 90, 85, 80, 70, 30, 10>>, <<50, 50, 50, 50, 50, 50, 50>>)

OneGame ==
    [lottery |-> "mega-sena", purpose |-> "profile", games |-> 1, core |-> 1, manual |-> {},
     excluded |-> {}, mode |-> "deterministic", odd |-> <<>>, repeated |-> <<>>, sum |-> <<>>,
     last |-> {1, 2, 3, 4}, rows |-> Scattered, rules |-> {}, team |-> TRUE, clovers |-> 2]
OnePayout == [OneGame EXCEPT !.purpose = "payout"]

MCRankAsks ==
    {OneGame,
     [OneGame EXCEPT !.games = 2, !.mode = "diversified", !.core = 0, !.rows = Tied],
     [OneGame EXCEPT !.core = 0, !.rules = {"preferred", "quadrants", "consecutive"}],
     [OneGame EXCEPT !.core = 0, !.games = 2, !.rules = {"parity", "columns"}],
     [OneGame EXCEPT !.core = 0, !.rules = {"columns"}],
     [OneGame EXCEPT !.core = 2, !.games = 3, !.odd = <<0, 1>>],
     [OneGame EXCEPT !.core = 2, !.games = 2, !.sum = <<14, 17>>, !.rows = Tied],
     [OneGame EXCEPT !.core = 2, !.manual = {1, 5}, !.excluded = {5}],
     [OneGame EXCEPT !.lottery = "lotofacil", !.core = 2, !.games = 2, !.mode = "diversified"],
     [OneGame EXCEPT !.lottery = "lotofacil", !.core = 3, !.games = 3, !.repeated = <<0, 1>>, !.manual = {6}],
     [OneGame EXCEPT !.lottery = "lotofacil", !.core = 2, !.repeated = <<0, 4>>, !.last = {1, 2}],
     [OneGame EXCEPT !.lottery = "lotofacil", !.core = 1, !.last = {}, !.rows = Tied],
     [OneGame EXCEPT !.lottery = "dia-de-sorte", !.core = 2, !.games = 2, !.mode = "diversified", !.rows = Tied],
     [OneGame EXCEPT !.lottery = "dia-de-sorte", !.core = 2, !.manual = {1, 2}],
     [OneGame EXCEPT !.lottery = "dia-de-sorte", !.core = 3, !.excluded = {5, 6}],
     [OnePayout EXCEPT !.games = 2, !.core = 2, !.manual = {7}],
     [OnePayout EXCEPT !.lottery = "quina", !.games = 3, !.core = 2, !.manual = {7}, !.excluded = {1}],
     [OnePayout EXCEPT !.lottery = "quina", !.games = 2, !.core = 1, !.sum = <<15, 16>>],
     [OnePayout EXCEPT !.lottery = "dupla-sena", !.core = 5],
     [OnePayout EXCEPT !.lottery = "timemania", !.team = FALSE],
     [OnePayout EXCEPT !.lottery = "timemania", !.excluded = {1, 2}, !.games = 2],
     [OnePayout EXCEPT !.lottery = "dia-de-sorte", !.core = 3, !.games = 2],
     [OnePayout EXCEPT !.lottery = "lotofacil", !.core = 4],
     [OnePayout EXCEPT !.lottery = "mais-milionaria", !.core = 3, !.manual = {2, 3}, !.clovers = 7]}

-----------------------------------------------------------------------------
\* A component that starts in several states starts in all of them in its own
\* scene, and in one of them in the scenes of the others.
StillUnless(name, startsThere) == scene = name \/ startsThere

ApplicationInit ==
    /\ scene \in {"prizes", "generation", "strategies", "research", "ai", "bootstrap",
                  "migrations", "planning", "history", "data", "file", "ranking"}
    /\ StillUnless("prizes", lottery = "quina" /\ month = TRUE /\ table = CHOOSE t \in Snapshots("quina") : TRUE)
    /\ StillUnless("generation", previews = [s \in Seeds |-> None])
    /\ StillUnless("bootstrap", published = 1 /\ storedNumbers = {})
    /\ StillUnless("migrations", /\ effects = <<>> /\ ledger = [f \in Files |-> NotApplied]
                                 /\ deploys = [d \in Deploys |-> [at |-> "down", next |-> 1,
                                                             release |-> [files |-> 1, edited |-> 0]]])
    /\ StillUnless("planning", asked = CHOOSE q \in PlanAsks : TRUE)
    /\ StillUnless("data", kind = CHOOSE k \in Kinds : TRUE)
    /\ StillUnless("ranking", rankAsk = CHOOSE q \in RankAsks : TRUE)
    /\ Init /\ GenInit /\ StrategiesInit /\ ResearchInit /\ AiInit /\ BootInit
    /\ MigrationsInit /\ PlanningInit /\ HistoryInit /\ DataInit /\ FileInit /\ RankingInit

ApplicationNext ==
    \/ /\ scene = "prizes" /\ Upsert
       /\ UNCHANGED <<scene, genVars, strategyVars, researchVars, aiVars, bootVars,
                      migrationVars, planningVars, historyVars, dataVars, fileVars, rankVars>>
    \/ /\ scene = "generation" /\ GenNext
       /\ UNCHANGED <<scene, vars, strategyVars, researchVars, aiVars, bootVars,
                      migrationVars, planningVars, historyVars, dataVars, fileVars, rankVars>>
    \/ /\ scene = "strategies" /\ StrategiesNext
       /\ UNCHANGED <<scene, vars, genVars, researchVars, aiVars, bootVars,
                      migrationVars, planningVars, historyVars, dataVars, fileVars, rankVars>>
    \/ /\ scene = "research" /\ ResearchNext
       /\ UNCHANGED <<scene, vars, genVars, strategyVars, aiVars, bootVars,
                      migrationVars, planningVars, historyVars, dataVars, fileVars, rankVars>>
    \/ /\ scene = "ai" /\ AiNext
       /\ UNCHANGED <<scene, vars, genVars, strategyVars, researchVars, bootVars,
                      migrationVars, planningVars, historyVars, dataVars, fileVars, rankVars>>
    \/ /\ scene = "bootstrap" /\ BootNext
       /\ UNCHANGED <<scene, vars, genVars, strategyVars, researchVars, aiVars,
                      migrationVars, planningVars, historyVars, dataVars, fileVars, rankVars>>
    \/ /\ scene = "migrations" /\ MigrationsNext
       /\ UNCHANGED <<scene, vars, genVars, strategyVars, researchVars, aiVars,
                      bootVars, planningVars, historyVars, dataVars, fileVars, rankVars>>
    \/ /\ scene = "planning" /\ PlanningNext
       /\ UNCHANGED <<scene, vars, genVars, strategyVars, researchVars, aiVars,
                      bootVars, migrationVars, historyVars, dataVars, fileVars, rankVars>>
    \/ /\ scene = "history" /\ HistoryNext
       /\ UNCHANGED <<scene, vars, genVars, strategyVars, researchVars, aiVars,
                      bootVars, migrationVars, planningVars, dataVars, fileVars, rankVars>>
    \/ /\ scene = "data" /\ DataNext
       /\ UNCHANGED <<scene, vars, genVars, strategyVars, researchVars, aiVars,
                      bootVars, migrationVars, planningVars, historyVars, fileVars, rankVars>>
    \/ /\ scene = "file" /\ FileNext
       /\ UNCHANGED <<scene, vars, genVars, strategyVars, researchVars, aiVars,
                      bootVars, migrationVars, planningVars, historyVars, dataVars, rankVars>>
    \/ /\ scene = "ranking" /\ RankingNext
       /\ UNCHANGED <<scene, vars, genVars, strategyVars, researchVars, aiVars,
                      bootVars, migrationVars, planningVars, historyVars, dataVars, fileVars>>

ApplicationVars == <<scene, vars, genVars, strategyVars, researchVars, aiVars, bootVars, migrationVars,
                     planningVars, historyVars, dataVars, fileVars, rankVars>>

ApplicationSpec == ApplicationInit /\ [][ApplicationNext]_ApplicationVars

-----------------------------------------------------------------------------
(* The component that moves keeps its types: the code behaviour is the     *)
(* shapes its types and its tables declare.                                *)
ApplicationTypeOK ==
    /\ scene = "prizes" => TypeOK
    /\ scene = "generation" => GenTypeOK
    /\ scene = "strategies" => StrategiesTypeOK
    /\ scene = "research" => ResearchTypeOK
    /\ scene = "ai" => AiTypeOK
    /\ scene = "bootstrap" => BootTypeOK
    /\ scene = "migrations" => MigrationsTypeOK
    /\ scene = "planning" => PlanningTypeOK
    /\ scene = "history" => HistoryTypeOK
    /\ scene = "data" => DataTypeOK
    /\ scene = "file" => FileTypeOK
    /\ scene = "ranking" => RankingTypeOK

=============================================================================
