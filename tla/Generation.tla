----------------------------- MODULE Generation -----------------------------
(***************************************************************************)
(* The generator: plans computed by worker threads and kept in a cache,    *)
(* previews that expire, batches saved once for each preview, the older    *)
(* generator that saves at once, and hiding of batches.                    *)
(* src/application/generationV2.ts, src/generator/planningWorkerClient.ts, *)
(* src/persistence/gameRepository.ts, src/application/generateGames.ts.    *)
(*                                                                         *)
(* One lottery.  A step is the code between two awaits of a request, or    *)
(* one statement or transaction.  A signature is what it hashes.  Games    *)
(* are what they are computed from: the configuration, the seed and, when  *)
(* the purpose looks at it, the history.                                   *)
(***************************************************************************)
EXTENDS Naturals, Sequences, FiniteSets, Functions, SequencesExt

CONSTANTS
    Callers,        \* requests that may be served at the same time
    Seeds,
    Selections,     \* bet size, fixed and excluded numbers, constraints
    Targets,        \* target contests a request may ask for
    Latest,         \* the request names no target
    MaxContest,     \* bound: contests that may be drawn
    MaxCalls,       \* bound: requests
    MinHistory,     \* MIN_GENERATION_HISTORY
    MaxPlans,       \* MAX_CONCURRENT_PLANS
    PlanCacheLimit  \* planCacheLimit

ASSUME GenerationAssumption ==
    /\ Latest \notin Nat
    /\ Targets \subseteq Nat \cup {Latest}
    /\ {MaxCalls, MinHistory, MaxPlans, PlanCacheLimit} \subseteq Nat
    /\ MaxContest \in Nat \ {0}

VARIABLES
    contests,       \* the stored history: content of each contest number
    previews,       \* rows of generation_previews, by seed
    batches,        \* rows of generated_game_batches, by id
    planCache,      \* planCache, oldest first
    flights,        \* planInFlight: the plan each key will resolve to
    activePlans,    \* activePlans of planningWorkerClient.ts
    settledWorkers, \* workers whose promise is settled and that still run
    call,           \* the state of each request
    calls           \* how many requests there have been

genVars == <<contests, previews, batches, planCache, flights, activePlans,
             settledWorkers, call, calls>>

None == [none |-> TRUE]
Idle == [pc |-> "idle"]
NoKey == <<>>

Purposes == {"uniform", "experimental"}
Configs == [selection : Selections, purpose : Purposes]
LegacyConfig == [selection |-> "default", purpose |-> "legacy"]

-----------------------------------------------------------------------------
(* What is computed from a history                                         *)

LatestNumber(h) == Len(h)

\* scopeGenerationHistory(): the contest aimed at and the contests before it.
TargetOf(h, target) == IF target = Latest THEN LatestNumber(h) + 1 ELSE target
Scoped(h, target) == Restrict(h, {n \in DOMAIN h : n < TargetOf(h, target)})

PlanOf(h, target, selection) ==
    [history |-> Scoped(h, target), target |-> TargetOf(h, target), selection |-> selection]

\* planCacheKey() without the target.
UntargetedKey(h, target, selection) == <<Scoped(h, target), Latest, selection>>

\* planCacheKey(): the signature of the history and the input as it came.
PlanKey(h, target, selection) == <<Scoped(h, target), target, selection>>

\* Uniform games look at no history, the others rank numbers by it.
GamesOf(history, config, seed) ==
    [config |-> config, seed |-> seed,
     history |-> IF config.purpose = "uniform" THEN <<>> ELSE history]

\* previewId(), with the target in the signature of the configuration.
PreviewRow(ask, snap, plan) ==
    LET games == GamesOf(plan.history, ask.config, ask.seed)
    IN  [id |-> [seed |-> ask.seed, history |-> Scoped(snap, ask.target),
                 config |-> ask.config, target |-> TargetOf(snap, ask.target),
                 games |-> games],
         target |-> TargetOf(snap, ask.target),
         games |-> games,
         alive |-> TRUE]

-----------------------------------------------------------------------------
(* Requests                                                                *)

\* The previews that a process finds when it starts: those of the one before, which
\* had the history that this one starts with.
LeftBehind(s) ==
    {PreviewRow([seed |-> s, config |-> g, target |-> Latest], <<0>>,
                PlanOf(<<0>>, Latest, g.selection)) :
        g \in {g \in Configs : g.purpose = "uniform"}}

GenInit ==
    /\ contests = <<0>>
    /\ previews \in {f \in [Seeds -> {None} \cup UNION {LeftBehind(s) : s \in Seeds}] :
                        \A s \in Seeds : f[s] = None \/ f[s].id.seed = s}
    /\ batches = <<>>
    /\ planCache = <<>>
    /\ flights = <<>>
    /\ activePlans = 0
    /\ settledWorkers = 0
    /\ call = [c \in Callers |-> Idle]
    /\ calls = 0

tables == <<contests, previews, batches>>
memory == <<planCache, flights, activePlans, settledWorkers>>

Goto(c, pc) == call' = [call EXCEPT ![c].pc = pc]
Answer(c) == call' = [call EXCEPT ![c] = Idle]

\* What a request asks for goes with it from await to await.
Reading(c, ask) == call' = [call EXCEPT ![c] = [pc |-> "history", ask |-> ask]]

\* A request whose input the parser lets through.
Arrive(c) ==
    /\ call[c].pc = "idle"
    /\ calls < MaxCalls
    /\ calls' = calls + 1
    /\ \/ \E kind \in {"plan", "preview", "save"}, t \in Targets, g \in Configs, s \in Seeds :
              /\ kind = "plan" => s = CHOOSE x \in Seeds : TRUE
              /\ Reading(c, [kind |-> kind, target |-> t, config |-> g, seed |-> s])
       \/ \E t \in Targets : Reading(c, [kind |-> "legacy", target |-> t])
       \/ \E b \in DOMAIN batches, hidden \in BOOLEAN :
              call' = [call EXCEPT ![c] = [pc |-> "find", batch |-> b, hidden |-> hidden]]
    /\ UNCHANGED <<tables, memory>>

Asks(c, kinds) == call[c].pc = "history" /\ call[c].ask.kind \in kinds

EnoughHistory(h, target, purpose) ==
    purpose = "uniform" \/ Cardinality(DOMAIN Scoped(h, target)) >= MinHistory

\* execute() with too little history for the ranking of numbers.
TooLittleHistory(c) ==
    /\ \/ /\ Asks(c, {"preview", "save"})
          /\ ~EnoughHistory(contests, call[c].ask.target, call[c].ask.config.purpose)
       \/ /\ Asks(c, {"legacy"})
          /\ ~EnoughHistory(contests, call[c].ask.target, "legacy")
    /\ Answer(c)
    /\ UNCHANGED <<tables, memory, calls>>

\* listGenerationHistory() of a save, which goes on to look for its preview.
ReadHistoryToSave(c) ==
    /\ Asks(c, {"save"})
    /\ EnoughHistory(contests, call[c].ask.target, call[c].ask.config.purpose)
    /\ call' = [call EXCEPT ![c] = [pc |-> "preview", ask |-> @.ask, snap |-> contests]]
    /\ UNCHANGED <<tables, memory, calls>>

-----------------------------------------------------------------------------
(* Plans                                                                   *)

KeyOf(c, h) == PlanKey(h, call[c].ask.target, call[c].ask.config.selection)
Cached(key) == {i \in DOMAIN planCache : planCache[i].key = key}

AsksPlan(c) ==
    /\ Asks(c, {"plan", "preview"})
    /\ call[c].ask.kind = "preview" =>
          EnoughHistory(contests, call[c].ask.target, call[c].ask.config.purpose)

\* What becomes of a request once it has its plan.
WithPlan(ask, snap, plan) ==
    IF ask.kind = "plan" THEN Idle
    ELSE [pc |-> "generate", ask |-> ask, snap |-> snap, plan |-> plan]

\* planFromSnapshot() finds the plan in the cache.
PlanCached(c) ==
    /\ AsksPlan(c)
    /\ \E i \in Cached(KeyOf(c, contests)) :
          call' = [call EXCEPT ![c] = WithPlan(@.ask, contests, planCache[i].plan)]
    /\ UNCHANGED <<tables, memory, calls>>

Waiting(c) == call' = [call EXCEPT ![c] = [pc |-> "plan", ask |-> @.ask, snap |-> contests,
                                           key |-> KeyOf(c, contests)]]

\* planFromSnapshot() finds the plan in flight and awaits it too.
PlanJoined(c) ==
    /\ AsksPlan(c)
    /\ Cached(KeyOf(c, contests)) = {}
    /\ KeyOf(c, contests) \in DOMAIN flights
    /\ Waiting(c)
    /\ UNCHANGED <<tables, memory, calls>>

\* runGenerationPlanInWorker() has a place and starts a worker.
PlanStarted(c) ==
    /\ AsksPlan(c)
    /\ Cached(KeyOf(c, contests)) = {}
    /\ KeyOf(c, contests) \notin DOMAIN flights
    /\ activePlans < MaxPlans
    /\ activePlans' = activePlans + 1
    /\ flights' = [k \in DOMAIN flights \cup {KeyOf(c, contests)} |->
                     IF k \in DOMAIN flights THEN flights[k]
                     ELSE PlanOf(contests, call[c].ask.target, call[c].ask.config.selection)]
    /\ Waiting(c)
    /\ UNCHANGED <<tables, planCache, settledWorkers, calls>>

\* It has none, or the worker cannot be created: the place is given back.
PlanRefused(c) ==
    /\ AsksPlan(c)
    /\ Cached(KeyOf(c, contests)) = {}
    /\ KeyOf(c, contests) \notin DOMAIN flights
    /\ Answer(c)
    /\ UNCHANGED <<tables, memory, calls>>

\* putPlanCache(): the oldest entry goes first, a hit does not renew one.
PutPlanCache(key, plan) ==
    LET others == IF Cached(key) = {} THEN planCache
                  ELSE RemoveAt(planCache, CHOOSE i \in Cached(key) : TRUE)
        all == Append(others, [key |-> key, plan |-> plan])
    IN  IF Len(all) > PlanCacheLimit THEN Tail(all) ELSE all

WaitsFor(c, key) == call[c].pc = "plan" /\ call[c].key = key

\* finish(): the first event of a worker gives its place back and goes to
\* every request that awaits its promise.
PlanSettles(key, outcome) ==
    /\ key \in DOMAIN flights
    /\ activePlans' = IF activePlans > 0 THEN activePlans - 1 ELSE 0
    /\ settledWorkers' = settledWorkers + 1
    /\ planCache' = IF outcome = "plan" THEN PutPlanCache(key, flights[key]) ELSE planCache
    /\ flights' = Restrict(flights, DOMAIN flights \ {key})
    /\ call' = [c \in Callers |->
                  IF ~WaitsFor(c, key) THEN call[c]
                  ELSE IF outcome = "plan" THEN WithPlan(call[c].ask, call[c].snap, flights[key]) ELSE Idle]
    /\ UNCHANGED <<tables, calls>>

\* A later event of a settled worker: its message after the time limit, or its
\* exit.  finish() returns at once.
PlaceAfterSettled == activePlans

LateEvent ==
    /\ settledWorkers > 0
    /\ \E gone \in BOOLEAN :
          settledWorkers' = IF gone THEN settledWorkers - 1 ELSE settledWorkers
    /\ activePlans' = PlaceAfterSettled
    /\ UNCHANGED <<tables, planCache, flights, call, calls>>

-----------------------------------------------------------------------------
(* Previews                                                                *)

\* No game satisfies the plan: the 422 answers of execute().
GenerationFails(c) ==
    /\ call[c].pc = "generate"
    /\ Answer(c)
    /\ UNCHANGED <<tables, memory, calls>>

\* The games are chosen; deleteExpiredGenerationPreviews().
PruneExpired(c) ==
    /\ call[c].pc = "generate"
    /\ previews' = [s \in Seeds |->
                      IF previews[s] # None /\ ~previews[s].alive THEN None ELSE previews[s]]
    /\ Goto(c, "store")
    /\ UNCHANGED <<contests, batches, memory, calls>>

\* saveGenerationPreview(): one row for a seed, the latest.
StorePreview(c) ==
    /\ call[c].pc = "store"
    /\ previews' = [previews EXCEPT ![call[c].ask.seed] = PreviewRow(call[c].ask, call[c].snap, call[c].plan)]
    /\ Answer(c)
    /\ UNCHANGED <<contests, batches, memory, calls>>

\* findGenerationPreview() and the checks of execute() on what it returns.
StillShows(row, c) ==
    /\ row # None
    /\ row.alive
    /\ row.id.config = call[c].ask.config
    /\ row.id.history = Scoped(call[c].snap, call[c].ask.target)
    /\ row.id.target = TargetOf(call[c].snap, call[c].ask.target)

FindPreview(c) ==
    /\ call[c].pc = "preview"
    /\ IF StillShows(previews[call[c].ask.seed], c)
       THEN call' = [call EXCEPT ![c] = [pc |-> "save", found |-> previews[@.ask.seed]]]
       ELSE Answer(c)
    /\ UNCHANGED <<tables, memory, calls>>

-----------------------------------------------------------------------------
(* Batches                                                                 *)

BatchRow(key, target, games) ==
    [key |-> key, target |-> target, games |-> games, hidden |-> FALSE]

Taken(key) == \E b \in DOMAIN batches : batches[b].key = key

\* What saveBatchIdempotent() is given to store.
SavedRow(c) == BatchRow(call[c].found.id, call[c].found.target, call[c].found.games)

\* saveBatchIdempotent(): the unique key of the preview, or the batch it has.
SaveBatch(c) ==
    /\ call[c].pc = "save"
    /\ batches' = IF Taken(call[c].found.id) THEN batches ELSE Append(batches, SavedRow(c))
    /\ Answer(c)
    /\ UNCHANGED <<contests, previews, memory, calls>>

\* GenerateGamesUseCase: listRecent() and the search for a seed whose games no
\* visible batch for the target has.
ReadRecent(c) ==
    /\ Asks(c, {"legacy"})
    /\ EnoughHistory(contests, call[c].ask.target, "legacy")
    /\ LET target == TargetOf(contests, call[c].ask.target)
           recent == {batches[b].games : b \in {i \in DOMAIN batches :
                        ~batches[i].hidden /\ batches[i].target = target}}
           options == {GamesOf(Scoped(contests, call[c].ask.target), LegacyConfig, s) : s \in Seeds}
       IN  IF options \subseteq recent THEN Answer(c)
           ELSE \E games \in options \ recent :
                   call' = [call EXCEPT ![c] = [pc |-> "insert", target |-> target,
                                                games |-> games]]
    /\ UNCHANGED <<tables, memory, calls>>

\* saveBatch()
InsertBatch(c) ==
    /\ call[c].pc = "insert"
    /\ batches' = Append(batches, BatchRow(NoKey, call[c].target, call[c].games))
    /\ Answer(c)
    /\ UNCHANGED <<contests, previews, memory, calls>>

\* setArchived(): the batch as it is, and nothing to do if it is so already.
FindBatch(c) ==
    /\ call[c].pc = "find"
    /\ IF batches[call[c].batch].hidden = call[c].hidden THEN Answer(c) ELSE Goto(c, "hide")
    /\ UNCHANGED <<tables, memory, calls>>

HideBatch(c) ==
    /\ call[c].pc = "hide"
    /\ batches' = [batches EXCEPT ![call[c].batch].hidden = call[c].hidden]
    /\ Answer(c)
    /\ UNCHANGED <<contests, previews, memory, calls>>

-----------------------------------------------------------------------------
(* Around the requests                                                     *)

\* A synchronization stores the next contest or corrects one.
HistoryChanges ==
    /\ \/ /\ LatestNumber(contests) < MaxContest
          /\ contests' = Append(contests, 0)
       \/ \E n \in DOMAIN contests :
             /\ contests[n] = 0
             /\ contests' = [contests EXCEPT ![n] = 1]
    /\ UNCHANGED <<previews, batches, memory, call, calls>>

\* 24 hours pass.
PreviewExpires ==
    /\ \E s \in Seeds :
          /\ previews[s] # None
          /\ previews[s].alive
          /\ previews' = [previews EXCEPT ![s].alive = FALSE]
    /\ UNCHANGED <<contests, batches, memory, call, calls>>

\* A statement of a request fails: an error answer, nothing changed.
StatementFails(c) ==
    /\ call[c].pc \notin {"idle", "plan"}
    /\ Answer(c)
    /\ UNCHANGED <<tables, memory, calls>>

\* The process ends and starts again with nothing in memory.
ProcessRestarts ==
    /\ planCache' = <<>>
    /\ flights' = <<>>
    /\ activePlans' = 0
    /\ settledWorkers' = 0
    /\ call' = [c \in Callers |-> Idle]
    /\ UNCHANGED <<tables, calls>>

Serve(c) ==
    \/ TooLittleHistory(c) \/ ReadHistoryToSave(c)
    \/ PlanCached(c) \/ PlanJoined(c) \/ PlanStarted(c) \/ PlanRefused(c)
    \/ GenerationFails(c) \/ PruneExpired(c) \/ StorePreview(c)
    \/ FindPreview(c) \/ SaveBatch(c)
    \/ ReadRecent(c) \/ InsertBatch(c)
    \/ FindBatch(c) \/ HideBatch(c)

Outcomes == {"plan", "error"}
WorkerSettles == \E key \in DOMAIN flights, outcome \in Outcomes : PlanSettles(key, outcome)

GenNext ==
    \/ \E c \in Callers : Arrive(c) \/ Serve(c) \/ StatementFails(c)
    \/ WorkerSettles \/ LateEvent
    \/ HistoryChanges \/ PreviewExpires
    \/ ProcessRestarts

GenSpec == GenInit /\ [][GenNext]_genVars

-----------------------------------------------------------------------------
(* Properties                                                              *)

\* Types. The code behaviour: rows of both tables, and the state of a request at
\* each await of GenerationV2UseCase and GenerateGamesUseCase.
GenTypeOK ==
    /\ Len(contests) <= MaxContest
    /\ \A s \in Seeds : previews[s] = None \/ previews[s].alive \in BOOLEAN
    /\ \A b \in DOMAIN batches : batches[b].hidden \in BOOLEAN
    /\ Len(planCache) <= PlanCacheLimit
    /\ activePlans \in 0..MaxPlans
    /\ settledWorkers \in Nat
    /\ \A c \in Callers : call[c].pc \in {"idle", "history", "plan", "generate", "store",
                             "preview", "save", "insert", "find", "hide"}
    /\ calls \in 0..MaxCalls

\* A plan that a request works with, be it cached, joined or computed for it, is
\* the plan of the history, target and selection of that very request
\* (planCacheKey() and planFromSnapshot()).
PlansAreTheirs ==
    \A c \in Callers : call[c].pc \in {"generate", "store"} =>
        call[c].plan = PlanOf(call[c].snap, call[c].ask.target, call[c].ask.config.selection)

\* The places of the planner are given back exactly once: as many are taken as
\* plans are in flight, never more than the limit, and whoever waits, waits for a
\* plan in flight (runGenerationPlanInWorker() and its finish()).
PlacesInBalance ==
    /\ activePlans = Cardinality(DOMAIN flights)
    /\ activePlans <= MaxPlans
    /\ \A c \in Callers : call[c].pc = "plan" => call[c].key \in DOMAIN flights

\* A preview becomes at most one batch, and the batch has the games and the target
\* its preview was shown with, whatever was previewed under that seed since
\* (saveBatchIdempotent() with the id of the preview as its key).
SavedAsShown ==
    \A b \in DOMAIN batches : batches[b].key # NoKey =>
        /\ batches[b].games = batches[b].key.games
        /\ batches[b].target = batches[b].key.target
        /\ \A d \in DOMAIN batches : batches[d].key = batches[b].key => d = b

\* From the history to the batch a request works with what is its own, whatever the
\* other requests cache, join, time out, overwrite and save meanwhile.
GenerationSafe == PlansAreTheirs /\ PlacesInBalance /\ SavedAsShown
=============================================================================
