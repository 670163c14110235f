------------------------- MODULE ApplicationProofs -------------------------
(***************************************************************************)
(* The types of the application: whichever component is on the scene, its  *)
(* invariant holds at first, each of its steps keeps it, and nothing else  *)
(* moves.  What the components' own proofs say of their specifications     *)
(* therefore holds in the composition, from its own initial states.        *)
(***************************************************************************)
EXTENDS MCApplication, ContestProofs, PlanningProofs, RecordsProofs

\* The component on the scene has its invariant.
ApplicationInv ==
    /\ scene = "prizes" => TypeOK
    /\ scene = "generation" => GenInv
    /\ scene = "strategies" => StrategiesInv
    /\ scene = "research" => ResearchInv
    /\ scene = "ai" => AiTyped
    /\ scene = "bootstrap" => BootInv
    /\ scene = "migrations" => MigrationsInv
    /\ scene = "planning" => PlanningInv
    /\ scene = "history" => HistoryTyped
    /\ scene = "data" => DataShape
    /\ scene = "file" => FileInv
    /\ scene = "ranking" => RankingInv

\* Every component starts in its own initial states, on the scene or not.
LEMMA ApplicationStarts == ApplicationInit => ApplicationInv
<1> SUFFICES ASSUME ApplicationInit PROVE ApplicationInv
    OBVIOUS
<1>1. /\ Init /\ GenInit /\ StrategiesInit /\ ResearchInit /\ AiInit /\ BootInit
      /\ MigrationsInit /\ PlanningInit /\ HistoryInit /\ DataInit /\ FileInit /\ RankingInit
    BY DEF ApplicationInit
<1>2. TypeOK /\ GenInv /\ StrategiesInv /\ ResearchInv
    BY <1>1, TypeStarts, InitInv, StrategiesStart, ResearchStart
<1>3. AiTyped /\ BootInv /\ MigrationsInv
    BY <1>1, AiTypedInit, BootStarts, MigrationsStarts
<1>4. PlanningInv /\ HistoryTyped /\ DataShape /\ FileInv /\ RankingInv
    BY <1>1, PlanningInitial, HistoryTypedInit, DataShapeInit, FileInvInit, RankingInvInit
<1> QED
    BY <1>2, <1>3, <1>4 DEF ApplicationInv

\* The scene stays, and only the component on it moves.
LEMMA OneScene ==
    ASSUME [ApplicationNext]_ApplicationVars
    PROVE  /\ scene' = scene
           /\ scene = "prizes" => [Upsert]_vars
           /\ scene = "generation" => [GenNext]_genVars
           /\ scene = "strategies" => [StrategiesNext]_strategyVars
           /\ scene = "research" => [ResearchNext]_researchVars
           /\ scene = "ai" => [AiNext]_aiVars
           /\ scene = "bootstrap" => [BootNext]_bootVars
           /\ scene = "migrations" => [MigrationsNext]_migrationVars
           /\ scene = "planning" => [PlanningNext]_planningVars
           /\ scene = "history" => [HistoryNext]_historyVars
           /\ scene = "data" => [DataNext]_dataVars
           /\ scene = "file" => [FileNext]_fileVars
           /\ scene = "ranking" => [RankingNext]_rankVars
BY DEF ApplicationNext, ApplicationVars

LEMMA ApplicationKeeps ==
    ApplicationInv /\ [ApplicationNext]_ApplicationVars => ApplicationInv'
<1> SUFFICES ASSUME ApplicationInv, [ApplicationNext]_ApplicationVars PROVE ApplicationInv'
    OBVIOUS
<1>1. scene' = scene
    BY OneScene
<1>2. /\ scene = "prizes" => TypeOK'
      /\ scene = "generation" => GenInv'
      /\ scene = "strategies" => StrategiesInv'
      /\ scene = "research" => ResearchInv'
    BY OneScene, TypeKeeps, GenStep, StrategiesStep, ResearchStep DEF ApplicationInv
<1>3. /\ scene = "ai" => AiTyped'
      /\ scene = "bootstrap" => BootInv'
      /\ scene = "migrations" => MigrationsInv'
    BY OneScene, AiTypedStep, BootKeeps, MigrationsKeep DEF ApplicationInv
<1>4. /\ scene = "planning" => PlanningInv'
      /\ scene = "history" => HistoryTyped'
      /\ scene = "data" => DataShape'
      /\ scene = "file" => FileInv'
      /\ scene = "ranking" => RankingInv'
    BY OneScene, PlanningStep, HistoryTypedStep, DataShapeStep, FileInvStep,
       RankingInvStep DEF ApplicationInv
<1> QED
    BY <1>1, <1>2, <1>3, <1>4 DEF ApplicationInv

\* The types are in the invariants.
LEMMA ApplicationInvType == ApplicationInv => ApplicationTypeOK
<1>1. StrategiesInv => StrategiesTypeOK
    BY DEF StrategiesInv, StrategiesTypeOK, EditOk, NoEdit
<1>2. ResearchInv => ResearchTypeOK
    BY DEF ResearchInv, ResearchTypeOK, RowOk, AskOk, NoRow, NoRequest, Decisions
<1>3. BootInv => BootTypeOK
    BY DEF BootInv, BootOK, BootTypeOK
<1>4. MigrationsInv => MigrationsTypeOK
    BY DEF MigrationsInv
<1>5. PlanningInv => PlanningTypeOK
    BY DEF PlanningInv, PlanningShape, PlanningTypeOK, InBatch
<1> QED
    BY <1>1, <1>2, <1>3, <1>4, <1>5, GenInvType, AiTypedType, HistoryTypedType, DataShapeType,
       FileInvType, RankingInvType DEF ApplicationInv, ApplicationTypeOK

\* The component that moves keeps its types, for every number of requests, rows and
\* processes and every bound: the shapes its types and its tables declare.
THEOREM ApplicationIsTyped == ApplicationSpec => []ApplicationTypeOK
BY ApplicationStarts, ApplicationKeeps, ApplicationInvType, PTL DEF ApplicationSpec

=============================================================================
