# A TLA+ verification of Loto Lab

Loto Lab is a TypeScript server over PostgreSQL. It keeps the history of nine Brazilian
lotteries, generates and evaluates games, runs backtests in worker threads, registers real
bets and follows their prizes as CAIXA publishes them. This project models the parts of it
whose correctness depends on interleavings, failures and restarts, model-checks them with
TLC on small instances, and proves the most important safety properties with TLAPS for
every value of the constants.

File paths below are relative to the root of the repository; `src/x` of the text is
`src/src/x` in PROJECT.json, where the repository itself lives in `src/`.

## 1. Inventory

### 1.1 The parts

| Part | State it keeps | Operations | Status |
| --- | --- | --- | --- |
| Analysis job queue: `analysis/jobManager.ts`, `persistence/analysisJobRepository.ts`, migration 008 | rows of `analysis_jobs`; in memory the promise of `drain()`, a rerun flag, a retry timer, controllers, explicit cancellations | enqueue, cancel, kick, drain, start, stop, recovery | modelled |
| Worker client and work gate: `api/workerClient.ts`, `api/workGate.ts` | the one place of `expensiveAnalysisGate`; a worker thread and its time limit | run, abort, settle, save a persisted backtest | partly |
| Contest store and prize evaluation: `persistence/contestRepository.ts`, `finance/prizes.ts`, `checker/evaluate.ts`, `data/caixa.ts` | `contests`, `contest_prize_tiers` | upsert of a snapshot, total and tiers of a game, listings | partly |
| Real bets: `realBets/service.ts`, `persistence/realBetRepository.ts`, migration 011 | `real_bets`, `real_bet_financial_revisions` | register, reconcile, revise | modelled |
| Operational synchronization: `operations/sync.ts`, `operations/scheduler.ts`, `persistence/operationRepository.ts` | `operation_runs`, the sync advisory lock, the timer | one synchronization, its failures, recovery of interrupted runs | modelled |
| Startup, shutdown, runtime lock: `cli/apiStart.ts`, `operations/runtimeLock.ts`, `db/advisoryLock.ts` | the runtime advisory lock, the state of a process | start, recover, listen, drain with a deadline, end of the pool | partly |
| Notifications and agenda: `notifications/service.ts`, `persistence/notificationRepository.ts`, `application/agenda.ts` | `notifications` | refresh at every look and after every synchronization, mark read | partly |
| Generation, previews, plan cache: `application/generationV2.ts`, `persistence/gameRepository.ts`, `generator/planningWorkerClient.ts`, migration 009 | `generation_previews`, `generated_game_batches`, a cache, the plans in flight and the places of the workers | plan, preview, save once, expire, hide | modelled |
| Strategies: `persistence/strategyRepository.ts` | a row for a slug and its versions | upsert in one transaction | modelled |
| Research hypotheses: `application/researchHypotheses.ts`, migrations 013 to 015 | a status, its evidence, the bets that apply it | create, attach evidence, decide, apply | modelled |
| AI insights: `application/aiInsights.ts`, `persistence/aiInsightRepository.ts`, `ai/openai.ts` | `ai_insights`, the calls in flight | generate once for one evidence, force | modelled |
| CAIXA client and sources: `data/caixaHttpClient.ts`, `data/bootstrap.ts`, `data/sync.ts`, `application/reconcileContestData.ts` | attempts and a deadline; waves; a file; a second source | get with retries, bootstrap, sync into a file, reconcile two sources | partly |
| Migrations: `db/migrations.ts` | `schema_migrations`, an advisory lock | apply each file once, refuse a drift | partly |
| Lottery products: `application/syncLotteryProducts.ts`, `persistence/lotteryProductResultRepository.ts` | `lottery_product_results` | synchronize, upsert | partly |
| Backtests, lab, analyses: `backtest/`, `lab/`, `analysis/`, `application/runBacktest.ts`, `runStrategyLab.ts` | runs and their signatures | select targets and histories, folds, windows | partly: what is selected, not the statistics |
| Generators and planning: `generator/` | none, functions of a request and a history | count a space, sample, cover, rank, choose | partly: the search, not the scores |
| HTTP API: `api/` | calls in progress, buckets of the limiters, counters | route, limit, answer | partly |
| Web client: `web/src/features/` | a form, its plan and preview; a page and its loads | edit, load, poll, leave, return | partly |
| Domain rules, observability, commands | none that is read back | | partly, see section 8 |

### 1.2 How they interact

* A request, a timer and a command all reach the same tables. Every statement is its own
  transaction unless the code opens one, and nothing is held from one statement to the
  next but what a process remembers. The modules therefore interleave whole statements,
  or whole transactions where the code takes one, and keep what was read as state of the
  reader.
* `drain()` and the requests that run an analysis themselves share the work gate; the row
  of a job, its controller and its worker are changed by three callers (the client, the
  manager, the process that stops).
* A synchronization stores contests, refreshes payout tables, reconciles bets, finishes
  its row of `operation_runs` and refreshes notifications; a look at the agenda refreshes
  them too, and a server that starts changes the rows of runs that others left.
* Two PostgreSQL advisory locks exclude processes: 1515016 among servers, 1515015 among
  synchronizations; a third, named, excludes deploys that migrate. All belong to a
  session, which may end while the process goes on.
* The components that choose games and analyse contests read the history once and compute
  afterwards, mostly in worker threads; a signature of what was read travels with the
  result and is what a later request compares.
* The web client reaches all of it by HTTP calls that may be answered in any order, or
  after the user has changed what they were for.

### 1.3 What is hard here

An answer that is lost after its commit; a cancellation between two statements of the job
it cancels; a drain that exceeds its deadline and a successor that recovers what is still
being worked on; a stale reader that writes late; a payout table that comes in parts and
is corrected; totals that are doubles compared with NUMERIC(18,2); a notification that is
written before the fact it tells of; a timer that is armed only by the end of what it
started. PROJECT.json lists each of these hazards at its line, with the property that
would show it going wrong or the reason none does yet.

## 2. Modules

| Module | What it is |
| --- | --- |
| `JobTable` | The statements on a row of `analysis_jobs` as functions from row to row, with its CHECK constraint |
| `JobLifecycle` | What the queue promises of a job: the abstract specification |
| `AnalysisJobs` | The manager, its drain, the gate, requests, crashes and stops, over `JobTable` |
| `AnalysisJobsProofs` | Theorems about `AnalysisJobs`, the refinement of `JobLifecycle` among them |
| `PrizeTables`, `ContestProofs` | One contest's payout table under snapshots, and the total and tiers of every result; its theorems with those of `ContestData`, `ContestFile` and `ContestHistory` |
| `RealBets`, `MCRealBets`, `RealBetsProofs` | Registration and reconciliation of bets by concurrent actors; the constants and symmetry TLC needs; theorems |
| `OperationalSync`, `OperationalSyncProofs` | Servers, commands, both locks, synchronizations, recovery and their warnings; theorems |
| `Generation` | Plans of worker threads and their cache, previews, batches, hiding |
| `Strategies` | The transaction that saves a version of a strategy |
| `Hypotheses` | Evidence, decisions and bets of research hypotheses |
| `AiInsights` | Interpretations asked for, joined, stored and reused |
| `Bootstrap` | The waves that fill the history of a lottery |
| `Migrations` | Deploys that apply the files of the schema |
| `RecordsProofs` | Theorems about the six modules above: what is read before it is written |
| `GamePlanning`, `PlanningProofs` | The plan of a batch, uniform and portfolio samples, covering designs; theorems about it and `CandidateRanking` |
| `CandidateRanking` | Cores, pools, the heap, the shortlists, the beam and the payout selection |
| `ContestHistory` | Which rows an analysis, a backtest and a lab see, and the signature of what they saw |
| `ContestData` | The tables a payload of CAIXA ends up in, and the second source |
| `ContestFile` | The JSON file of contests and the commands that synchronize into it |
| `Notifications` | What users are told of their bets |
| `CaixaClient` | Attempts, pauses and the deadline of a call to CAIXA |
| `HttpServer` | A call through the handlers and limiters |
| `WebGenerator`, `WebPages` | The form of the generator and the pages that load data |
| `MCApplication`, `MCPlatform` | Two collections of the modules above, for TLC |
| `ApplicationProofs` | The types of the components in `MCApplication`, from their invariants |
| `PlatformProofs` | Theorems about `CaixaClient`, `HttpServer`, `Notifications`, `WebGenerator` and `WebPages`, and the types of `MCPlatform` |

The modules compose in layers. `JobTable` is extended by `AnalysisJobs`, which implements
`JobLifecycle`. `PrizeTables` justifies what `RealBets` takes for granted of a table: its
`CompleteIsEnough` says that a whole table gives every game a total, which is the shape of
`Tables` in `RealBets`, and its `NeverDowngraded` is `Upserted` there. A lottery that
`OperationalSync` synchronizes in one step (success, partial or failed) is what `Sync` of
`RealBets` does in detail. What `Generation` takes for the value of a plan is what
`GamePlanning` computes, and what it takes for games is chosen in `CandidateRanking` or
drawn in `GamePlanning`; `ContestHistory` takes the rows that `ContestData` stores. What
`WebGenerator` sees of synchronizations is the status of `OperationalSync`, and the work
that `WebPages` follows is that of `AnalysisJobs`.

### 2.1 AnalysisJobs

A step is the code between two awaits of `drain()`, or one SQL statement; `pc` names the
await. `kick()` is `TryAcquire` and the rerun flag; `claimNext()`, `findById()`,
`complete()`, `fail()`, `markCancelled()` and `recoverRunning()` act on rows through
`JobTable`. A request is split at its commit: `creating` and `cancelling` are the requests
whose answer has not arrived, because something else may run between. A statement may fail
or be answered with an error after it committed; both cost one of `MaxFaults`. `asked`
records when a cancellation reached the table: early, before the last read of the row by
`drain()`, or late. A crash loses everything in memory; a stop aborts the job and leaves
the row to the next start. The order of `claimNext()` is the order of the ids.

Abstracted: payloads, progress texts, which of the analyses runs; the worker is its
outcome (a result, an error, an abort), and a persisted backtest saves its run before the
outcome, as `workerClient.ts` does.

### 2.2 PrizeTables

A table is a function from tiers to values, so a missing tier is a missing key and never a
zero: this is the rule "Ausência de dado não é equivalente a zero." of README.md:47.
`Snapshots` are the tables CAIXA may publish, with at most `MaxMissing` tiers left out;
`StoredTable` is the decision of `upsertMany()`. `Results` are the outcomes of a game for
each lottery as `evaluateGame()` counts them (multi-number bets count a single tier, as
the code does), `Resolve` is `resolvePrizeValue()`, and `NamedTiers` are the tiers that
`evaluateGame()` names to the user. A total is the set of its addends, so that a property
can tell a missing prize from a zero. With `MonthIsLate` a Dia de Sorte contest may be
stored without its month, a hazard that is listed and not assumed away silently: both runs
(`application` and `prize_tables_dupla`) set it to FALSE.

### 2.3 RealBets

One lottery. `official` is what CAIXA has published, `stored` what the database holds.
`Create` is split where `RealBetService.create()` awaits: the question for an existing
bet, the look at the contest, the insertion under the unique index. `Reconcile` is split
between the read of the contest and the transaction of `markChecked()`, and is shared by
the sync, db:sync and API requests, each with its list of bets `todo` and what it has read
in `view`. `Revises` is the test for an official revision and `Refused` the CHECK
constraint of migration 011. `total` stands for the pair of doubles (totalPrizeValue,
netResult); `Noisy` are totals that do not survive NUMERIC(18,2). `Sync` follows
`operations/sync.ts` for one lottery: discovery of the latest contest, the filling of
gaps, the refresh of the 20 most recent contests (`Window`), pending bets, end or failure.

### 2.4 OperationalSync

`phase` is where `main()` and `shutdown()` of a server stand; `sync` holds the call of
`runOperationalSync` of every runner (the timer and a request of each server, the main of
each command). The lotteries of a run are counted in `done` and folded into a status. Every
statement may fail, for its own reason or because the pool has been ended; `create()` and
`finish()` may also commit and lose their answer. `Refresh` warns before `FinishRun`
stores, as the code does; `Reread` and `Rewarn` are the refresh of the catch, in two steps
because it reads the latest run first, and so are `OverviewReads` and `OverviewWarns` for
the agenda. `lost` counts sessions that ended with the sync lock, `excused` are servers
past their deadline or without their runtime session. The branch of the catch in
`sync.ts:267` for a run interrupted before its lotteries is unreachable and left out: an
error of a lottery never leaves its turn of the loop.

### 2.5 Generation

A step is the code between two awaits of a request, or one statement. A request reads the
history, gets its plan (from the cache, by joining the same plan in flight, or from a new
worker that takes one of `MaxPlans` places) and, for a preview, computes games and stores
them under their seed. `WorkerSettles` and `LateEvent` are the events of a worker: only the
first settles the promise, and a timeout gives the place back before the thread has ended.
Saving reads the preview again, compares the signature and inserts the batch under a unique
key. A signature is what it hashes, and games are what they are computed from, so a plan of
another history or the games of another preview are told apart. The initial states include
a preview that an earlier process left behind.

### 2.6 Strategies, Hypotheses, AiInsights

`Strategies` steps through the statements of the READ COMMITTED transaction of `upsert()`:
`SELECT ... FOR UPDATE`, which locks nothing when there is no row, the insertions with their
unique violations, the update, the commit. `Hypotheses` reads the status and writes in later
statements, as the code does, and its guards on a write are those of the WHERE clauses and
of the trigger of migration 014. `AiInsights` has the evidence change between requests; the
provider may fail, time out or answer under another name than the model asked for. The cache
is looked up by the one and written under the other, so such an answer is never found
again: the model shows it, and shows that what is displayed is still right. The lookup by
evidence and what the request does with its answer (use it, join a run in flight or begin
one) are two steps, so that a run may store its interpretation in between.

### 2.7 Bootstrap, Migrations, ContestData, ContestFile

`Bootstrap` has two overlapping calls with retries, waves and failing statements while CAIXA
publishes. `Migrations` starts from any earlier state of the schema, with deploys of any
release, edited files included; a deploy waits for the lock, may time out, may die in any
statement and may lose the answer of a COMMIT. `ContestData` follows a payload that lacks
parts into two tables with two policies (contests keep what the payload lacks, products
refuse it), and compares the last contests with a second source that is late, wrong or
absent. It assumes, as the code does, that a source asked for a contest answers with that
contest.

`ContestFile` is the third store, the JSON file of the commands `sync` and `refresh`. They
are processes of their own and lock nothing, so everything that takes time is a step of its
own: each contest that is fetched, the second read of the file (`LoadFile`), its opening,
which empties it (`OpenFile`), and its writing (`WriteFile`); a command may fail or be killed
at any of them. `outdated` are the commands whose last read or opening another command's
opening has overtaken, and `spoiled` records that one of them wrote nevertheless, or that
one was killed while it wrote. In those histories the code does lose contests, and no
property says otherwise: `ReportedIsStored` is what it promises in all the others, where
commands overlap as they fetch, which takes minutes, but not between the read of the file
and its rewriting.

### 2.8 GamePlanning and CandidateRanking

`GamePlanning` counts a space with `CountEligible`, the dynamic program of
`planningSpace.ts` with its pruning, and draws games with the samplers, which share no code
with it; the property compares both with the listed space. A random draw is any of its
outcomes, and a bounded number of attempts may run out at any time.

`CandidateRanking` makes one step of each iteration: the fixed core, the stratified pools,
every offer to the heap with its `siftUp` and `siftDown`, the shortlists, the beam, and the
pick among payout candidates with its caps. Scores are a table of the instance, so no
property depends on their values. The text keys that break ties are one fixed total order.
The instance respects what the code's numbers guarantee: the strata hold at least three
numbers, and no more games are asked than a shortlist keeps. A request carries its ranges of
odd numbers, of repeated ones and of the sum, and says whether it names the range of repeated
numbers or leaves the profile of the lottery to decide (`NotGiven`); `ColumnLimit` is how
many columns the pool of the rules represents.

### 2.9 ContestHistory

Contests are stored in any order, with gaps, and may be amended; a run reads the history,
computes later and keeps its signature. A round is described by what it depends on: its
target and the rows handed to the generator. Folds, buckets, periods, the sample of the
ranking quality, continuous suffixes and segments are sequences of rows. `DualDraws` gives
each contest the two rows that dupla-sena has.

### 2.10 Notifications, CaixaClient, HttpServer

`Notifications` splits a refresh where the service awaits: the recent bets, their results,
each upsert. `CaixaClient` counts time in ticks for each call; a timer fires when it is due
or up to `MaxLate` ticks later. In `HttpServer` a handler is a record of the paths it takes,
its routes, those with a quota, the errors its routes raise and those it maps to a status;
`ServedBy` picks the first handler that takes a call. Some handlers throw a 404 or 405
outside their own `try`; the server then answers 500, and so does the model. Health and the
operational metrics come before the features: the metrics answer what their query returns,
or 500 when it fails. A bucket belongs to a limiter, a scope and a peer: a limiter's map is
pruned by its own calls only, the generation routes have one limiter but for the plan, and
those that name one scope (preview and save, `generator-v2`) spend one quota. The limits and windows of the limiters
are one pair of constants, `Quota` and `Window`. In `CaixaClient` an answer of 5xx or 429
("unavailable") is tried again like an error of the network, and any other status is not.

### 2.11 WebGenerator and WebPages

`WebGenerator` has the form, the timer and sequence of plan requests, the revision that
guards a preview, the watch over a synchronization by polling, and the page that is hidden
and shown. `WebPages` describes each page by the tests it makes when an answer arrives (a
token, the choice, the view) and by what a change of its selector does. An event of a
synchronization that ends while the form is mounting is missed, and a poll of the jobs that
fails is not repeated (`jobs.ts:242-244`): the code shows an error instead, and so do the
models.

### 2.12 MCApplication and MCPlatform

Most of these components share no state at this level of detail. Each of the two modules
collects several of them: the initial state picks one component, the scene, and only that
one moves. The states are then those of the components one by one and not their product, and
a property says of its component what it would say in a run of its own. In `MCPlatform` the
fairness of the components is merged in the same way: weak fairness of a choice between
steps of different scenes is, in each scene, weak fairness of its own step.

## 3. Runs and bounds

| Run | What it asks |
| --- | --- |
| `analysis_jobs` | All safety of the queue and the refinement of `JobLifecycle`: 2 jobs, one of them persisting, 2 faults, 1 restart |
| `analysis_jobs_live` | No queued job is forgotten with 1 fault and 1 restart; every submitted job settles while nothing fails |
| `real_bets` | 2 users and 1 batch, sync, db:sync and one API request; 1 correction, 1 import, 1 fault, one noisy total |
| `real_bets_live` | 2 contests with a window of 1, 1 correction, 1 fault: prizes settle and corrections propagate |
| `operational_sync` | 2 servers and 1 command, 2 starts, 2 synchronizations of 2 lotteries, 1 fault anywhere |
| `application` | Twelve components without liveness; bounds below |
| `platform` | Five components, safety and liveness; bounds below |
| `prize_tables_dupla` | The total of dupla-sena with an incomplete table; violated |
| `real_bets_early` | Bets are registered before their result; violated |
| `real_bets_rounding` | Corrections propagate when totals are noisy; violated |
| `operational_sync_abandoned` | A warning of an interrupted run is about one; violated |
| `history_dupla` | The recent window of dupla-sena misses no draw; violated |

What the properties of `application` and `platform` say:

| Property | Component | What it says |
| --- | --- | --- |
| `SettlesWhatIsOwed`, `NeverDowngraded` | `PrizeTables` | Whole tables settle every game, totals are what the tiers owe, no table is replaced by a poorer one |
| `GenerationSafe` | `Generation` | A request works with the plan of its own history and selection; places are given back once; a preview becomes one batch, as it was shown |
| `CatalogueAgrees` | `Strategies` | The row shows its latest version, versions differ, neither exists without the other |
| `DecisionsAreFinal` | `Hypotheses` | A decision and the evidence it was taken on never change; a bet applies only what was decided |
| `InsightsFitEvidence` | `AiInsights` | What is shown interprets the evidence of the request; nobody waits for a run that is gone |
| `HolesAreReported` | `Bootstrap` | Stored or reported as failed: every contest, and the counts add up |
| `AppliedOnce` | `Migrations` | Each file once, in order, recorded exactly when applied; a server runs on its own schema |
| `PlanningSafe` | `GamePlanning` | The count and the averages are those of the listed space; games fit the request; coverage is what the tickets cover |
| `RankingSafe` | `CandidateRanking` | The heap keeps the best; the batch is the one asked for; giving up means there was none; the pool is the one announced |
| `HistorySafe` | `ContestHistory` | One signature, one result; folds and buckets partition; windows and segments agree |
| `DataSafe` | `ContestData` | Nothing the tables know is forgotten; a reconciliation reports each contest once and truly |
| `ReportedIsStored` | `ContestFile` | What commands reported as stored is what the file holds, unless two of them rewrote it together or one was killed as it wrote |
| `GivesUpForAReason` | `CaixaClient` | The last error, the attempts and the time agree |
| `QuotaHolds` | `HttpServer` | No key gets more than its limit in a window |
| `PreviewFitsForm` | `WebGenerator` | The games on screen are those of the form on screen |
| `PagesSafe` | `WebPages` | A page shows its selection, and goes on polling while it shows work |
| `NewsReachUsers` | `Notifications` | In the end the notifications tell what is so |
| `PlatformSettles` | the last four | Calls end, requests are answered, "calculating", "synchronizing" and "loading" end |

Why these bounds are enough to make the cases happen:

* Two jobs are the least for one to be queued while `drain()` is on its way out with the
  other. Two faults are the least for `complete()` and the `fail()` of the catch to fail
  one after the other. One restart is the least for a saved run to be saved again.
* Two missing tiers are the least for a hit and a second hit (or the month, the team, the
  second draw) to be unknown at once. One value is enough because a total keeps its
  addends apart.
* Two users are the least for a race to register a batch; a second contest is the least
  for one to leave the window while the other is refreshed.
* Two servers are the least for a successor, two synchronizations the least for a
  competitor, and two lotteries the least for a partial run.
* One fault in `operational_sync` reaches every single failure. What two faults do to the
  invariants that are proved (section 5) does not depend on a bound.
* Generation: two requests, one place and a cache of one plan make requests join, be refused
  and evict; a named target and the latest one share a history and must not share a plan.
* Strategies, hypotheses and insights: two requests at once, and enough of them (four, four,
  three) for a third to find what a race left behind.
* Bootstrap: two calls, waves of two over three contests (the last wave is short), one retry
  and two failures. Migrations: two files, two deploys, one crash or failed statement.
* Planning: six numbers, draws of three, bets of three and four, each filter on and off, a
  number fixed and one excluded; covering designs within, without and beyond a budget.
* File: two commands, two lotteries of two contests in two versions, three downloads: a
  command rewrites the file between the two reads of another, of the same contest or of
  another one, and a third finds what they left.
* Real bets, liveness: one synchronization fails half way and the next begins again. An import
  of db:sync as well takes the run beyond five minutes; `real_bets` has both.
* Ranking: seven numbers in a grid of five columns, four of them represented, and draws of
  four, with heap, shortlist and beam smaller than what they are offered; two dozen requests go through every generator and every rule.
* History: four contests, so that gaps, warm-up, two folds and a bucket of two exist; one
  amended contest and two results to compare.
* Notifications: one bet, two readers, a failing statement. The notifications of two bets are
  independent rows, apart from the window of recent bets.
* CAIXA: a budget of three ticks, two attempts and pauses of one and two ticks, so that a
  pause may fit exactly, by one, or not at all, and a timer may be one tick late.
* Server: a quota of one in a window of one tick and prunes from two buckets on; two routes
  that share a scope, one of another scope of their limiter and one of another limiter; a
  preflight, a method that is not offered, the metrics, health and a page.
* Form and pages: one edit, one mount more, one synchronization and one failed request; two
  choices, two loads, one change of selection and of view, for each of ten pages.

Deadlock is checked for the jobs and for the prize table of `prize_tables_dupla`. It is off
for the others, which stop when their bounded inputs are used up. Symmetry is used only for
the users of `real_bets`, a run without liveness.

Every property of a passing run was also checked against a mutated definition of the code,
in which TLC finds it violated; the mutated forms are defined next to what they mutate
(`KickForgets`, `LatestTable`, `PauseAlways` and the like) and used by no specification.

## 4. Fairness

* Jobs: weak fairness of `drain()`, of the retry timer, of the end of a request's own
  analysis, of the start of the process and of the answers of requests. The worker has a
  time limit. That PostgreSQL answers a statement or its connection breaks, and that a
  supervisor starts the process again, are assumed of the surroundings: `db/client.ts`
  limits the time of connecting, not of a statement. Nothing makes a request arrive or a
  statement fail. The properties also assume that requests do not hold the gate for ever,
  one after another: the code has no queue for them, and a retry timer that always finds
  the gate taken would starve.
* Bets: weak fairness of the sync, which the scheduler repeats, and of every actor that
  has begun. Strong fairness of an answer of CAIXA that holds all it has published: an
  external party that always answered in part could not be followed.
* Synchronizations: weak fairness of every step of a call and of a start or shutdown that
  has begun. Nothing forces a start, a signal or an attempt.
* Notifications: a user who has the application open asks for the agenda again and again
  (the page does so whenever it is opened), and a refresh that has begun goes on or fails.
* CAIXA: the clock advances, and a timer that is due fires. Nothing makes an answer arrive:
  calls end because the signal of an attempt is armed with what is left of the budget.
* Server: the code of a handler that has begun runs to its end; a route whose work never
  ends is bounded by the limits of the workers and of the CAIXA client.
* Web client: requests are answered or fail (the browser ends them), timers fire, and a
  synchronization that runs on the server ends, which `LockIsFreed` and the steps of
  `OperationalSync` justify. Nothing makes a user act, return or show a tab again.

## 5. What is proved

Each theorem holds for all values of the constants under the named assumptions of its
module (finite sets of jobs, bounds in Nat, a nobody that is nobody, servers and commands
apart), which TLC evaluates on the instances. Nearly every invariant below is stronger than
what the runs check: a property of rows and answers is inductive only together with what
each request, call or process has read and not yet acted on.

**AnalysisJobs.** `TimestampsHold` and the rest are not inductive alone: whether a late
statement may touch a row depends on what the process remembers of it. The inductive
invariant is `ControlInv`: `TypeOK`, `MemoryInv` (what `pc`, `job`, the gate and the
controller say together), `OwnershipInv` (the row drain() works on is running, and no other
is unless a fault, a stop or a crash left it) and `AskedInv` (the flag of the row, the
cancellations in flight and the history agree). From it follow `GateIsExclusive`,
`TimestampsHold` and `NoLostWakeup`; `EarlyInv` adds that `complete()` is never on its way
for a job whose cancellation was early; `SavedInv` counts the lives a run was saved in;
`StrayInv` budgets, with cardinalities, the rows left running. `LifecycleCorrect` proves
that every step is one of `JobLifecycle` or a stutter, for any set of jobs.

**PrizeTables.** The invariant is the type: every stored table is one that CAIXA may have
published. `CompleteSettles` and `OwedTotal` go through the schedules lottery by lottery,
from lemmas on what each schedule holds; `OwedTotal` assumes that dupla-sena is not among
the lotteries and the month is always known, which is exactly where the code fails.

**RealBets.** `BetsInv` is the type and `Owned`: a request that was told its bet is created
is the one whose insertion took the place of the batch. `NoPrizeLost` is an action
property; the lemmas show each of the three ways to write a bet to keep it.

**OperationalSync.** The type invariant is proved in three parts (tables, calls, counters)
with one lemma for each statement. `NoLostTimer` is inductive with it. For
`RecoverySparesServers` the invariant is `RuntimeInv`: a server that is not excused holds
the runtime lock from its acquisition to its release; a runner is at work only in a server
that is up, draining or was cut short; timers are those of servers that are up. For
`OneSync` it is `LockInv`: the holder of the lock is inside, and the others inside are at
most as many as the sessions lost. For `WarningsMatch` it is `ClaimsInv`: whatever the
notifications say, or somebody has read and is about to say, of a run that ended badly is
what the history shows; of a run in hand only its runner has warned, with the status it is
going to write; and no run is in two hands. `OrphansArePaidFor` is a statement of amounts,
and its invariant, `LedgerInv`, is a ledger: a row that nobody is to finish counts 2, and so
does a call that has lost its lock while it still owes a row, and a server past its deadline
with a call inside; a call that is rescuing itself from a failed statement counts 1. The sum
of these, with the statements that failed for nothing, is at most twice the faults. Every
step moves an amount from one column to another, or is paid by a fault.

**Generation.** `GenInv` has three parts. `CallsInv` says what a request holds at each await:
its plan is that of its own history, selection and target, and the preview it saves has the
signature it compared. `RowsInv` is about rows: a seed names one preview, a batch has the
games and the target its preview was shown with, and no two batches share a key.
`PlansInv` is about the planner: the places taken are as many as the plans in flight, and who
waits for a plan waits for one that is in flight, under the key it asked for. The last
worker event of a plan is told from a late one by the flight it belongs to, and the proof
goes through the cardinality of the flights.

**Strategies, Hypotheses, AiInsights.** `CatalogueAgrees` needs what each transaction holds
from its look at the row to its commit: the row is locked (`OneHolder`: by one editor), so
the version it is about to insert is the next one; an editor that found no row holds
nothing and is stopped by the unique index. `VersionsAreKept` states that no step rewrites
a version. The research requests hold no lock, and the invariant says so: what a request
knows of a hypothesis (`AskOk`) is only what cannot be undone, since a row goes from nothing
to open to decided and never back. For the insights it is `FlightsOk`: an entry of the map
of runs in flight lives exactly as long as its run, and whoever waits for it asked about the
evidence it interprets.

**Migrations, Bootstrap.** Between the statements of a deploy the invariant is what the
holder of the lock knows (`HolderOK`): the files it looked at are recorded as it saw them,
because only the holder writes. The ledger and the effects are equally long but for the
file of a transaction that is not committed. For the bootstrap, `WaveOK` counts what a wave
fetched, and a hole is either still to be fetched (`left`) or a failure; the other bootstrap
only adds contests, so a hole that it fills is no harm.

**CaixaClient, HttpServer.** `TimerFits` says that the timer of an attempt or a pause is
within the budget when it is armed, `GaveUp` what the last error says of attempts and time.
`LimiterInv` says that a key whose window is open has its bucket, with the count of the
calls that were let in: `prune()` removes only what is over, whichever keys it meets.

**WebGenerator, WebPages.** `RequestOK` says that a request under the present revision is
for the form on screen or for the form that it was before a plan switched its filter off
(`LeftOf`). `LoadsOK` says of each page which of its loads may still be applied: those with
the present token are for the selection on screen, or are caught by the other tests of the
page (`CurrentFits`); what each test needs is in `Traits`.

**ContestData.** `StoresOk` and `CheckOk` relate the two tables to what CAIXA published, and
a check in progress to the rows it read. That a reconciliation reports each contest once
needs `Descending`, the order of the rows, to be one to one; the lemma is proved without
induction, by counting ranks: the ranks of N numbers are N different numbers of 1..N.

**ContestFile.** That the file holds what was reported (`FileHoldsReported`) is not inductive:
a command writes what it read, so the invariant must say what it knows. `WriterKnows`: a
command that writes does so alone, over rows that are what was reported, and every other
read is outdated.
`ReaderKnows`: a command that has read the file and is not outdated holds what was reported.
The two hold only while `spoiled` is false, and opening the file is the step that matters: it
makes every other reader outdated, and spoils the history when its own read was.

**ContestHistory.** `HistoryInv` is small: the store is a history, each tester reads one, and
every result is `Result` of one. The rest are facts about the operators. `ResultIsSigned`
says that a result is computed as well from its signature: the rows of the signature are the
first rows of the history (their ranks are the same, since what lies beyond does not count),
the other rows lie beyond the period, and so targets, rounds, samples and folds are the same
ones. Buckets add up because a figure of a summary is a number of rounds, and the figure of
a bucket a difference of two ranks; the quality is the end of an ascending order of which
the rounds are the whole; a fold trains below its first row and tests from it. For the
windows, `Cut` says where the segments begin and end after each row, and the sums of gaps
telescope. What goes on over rows is proved by a least counterexample (`UpToByInduction`).

**GamePlanning.** Most of the proof is about numbers. A sum of the model is turned into a
cardinality, the number of cells under it (`SumIsWeight`), so that sums over sets are
compared by counting, with induction over finite sets from a least counterexample
(`SetInduction`). Counting the sets of k candidates by set and by member (`DoubleCount`)
says in how many of them a member is, and two members are; from that follow the recurrence
of combinationCount() (`ChooseCounts`), the averages (`AveragesAreExact`) and, with the
algebra of `VarianceAlgebra`, the variance (`VarianceIsExact`). For the dynamic program the
reference is the table of the sets themselves, `Tally`: `CountingStep` shows that taking in
one candidate turns the table of the sets of the candidates before it into that of the sets
with it, those that are pruned excepted, and `RangesPrune` that a set which fits was never
pruned. The order of the tickets of a covering design is strict (`PrecedesOrders`), so it
has a best one. `PlanningInv` is then short: the plan counts the games of the request, the
batch and the pool hold different games that fit around the core, and what is uncovered is
what no ticket holds. The assumption of the module says what a request is made of (bets and
ranges of integers, a count that the pool can hold).

**CandidateRanking.** The games are compared by orders that break every tie, so a sort has
one result; each order is shown strict and total (`SoonerOrders`, `BetterOrders`,
`StatesOrder`), and a sorted set to hold each member once in its place (`OrderedHas`).
`RankingInv` follows the loops. For the heap it is `UpFrom` and `DownFrom`: every candidate is
better than its parent, but at the place that is being sifted, where its children are better
than its parent; and `BestOf`: what is kept is everything seen, or as many as the limit and
all better than what was dropped. Replacing the root is right only because the root of an
ordered heap is its worst (`RootIsWorst`). For the portfolio it is a count: a group holds
candidates of the pool, and as many as games are asked whenever there are so many
(`GroupFits`), so that a state of k games finds in the next group one that is new
(`SomeExtends`), and the beam is empty only if the pool is too small (`NoneFollows`), however
few states it keeps. For the payout batch, two different games of one size share at most one
number less than they have, so that a game which is left fits under the widest cap
(`SomeGameLeft`), and the error for having no cap left is unreachable. The quotas of the tiers
fit in the pool (`QuotasFit`) because it has three numbers at least, which the assumption of
the module requires. The shortlist is a recursive function, whose lists are shown to exist
and to grow by one member each (`ListExists`, `ListsAre`).

**The compositions.** `MCApplication` and `MCPlatform` put components that share no state in
one run; the scene says which of them moves. `ApplicationIsTyped` and `PlatformIsTyped` take
the invariant of the component on the scene (`ApplicationInv`, `PlatformInv`): every
component starts in its own initial states on the scene or not, the scene stays, and a step
of the composition is a step of that component, whose own lemma keeps its invariant.
Most of the types were in those invariants; the rest needed facts of their own. For
`AiInsights` it is `AiCounts`: the outcomes counted and the requests that are still to be
counted are together no more than the requests, since a request is counted when its provider
answers or fails and never again, and those that joined its run are not. For `ContestData` it
is `DataShape`: the tables and the answers on their way are payloads of contests that were
drawn. For the client it is that no timer is armed where
nobody waits (`TimerFits`), for the metrics that an answer is in one class at most, for
`Notifications` that what is unread tells of a bet that is there (`NotesInv`), for the form
that its revision is not ahead of its changes (`WebTypes`), for the pages what each load
holds at each of its places (`PagesTypes`). Four assumptions were added for it, on bounds of
the models only: `MaxEvidence` and `MaxLatest` are positive (there is some evidence, and a
latest contest, at first), `MaxTick` and `MaxServed` are in Nat.

Proved though no run lists them: `GateIsExclusive` and `TimestampsHold` of the jobs,
`OneSync` of the synchronizations, `VersionsAreKept` of the strategies and the types of the
components, which the runs have as conjuncts of `ApplicationTypeOK` and `PlatformTypeOK`.

Every invariant and every action property that a passing run checks has a theorem. Only
model-checked are the liveness properties (`QueuedIsServed`, `EveryJobSettles`,
`PrizesSettle`, `CorrectionsPropagate`, `LockIsFreed`, `NewsReachUsers` and
`PlatformSettles`), since the prover has neither fairness nor ENABLED.

## 6. Disagreements between the code and what it says

* `prize_tables_dupla`: a game of dupla-sena is reported with the total of the first draw
  when the prize of the second is unknown.
* `real_bets_early`: a real bet may be registered after its result is stored.
* `real_bets_rounding`: a total that NUMERIC(18,2) rounds is taken for a correction at
  every refresh; the CHECK constraint refuses the empty revision and the sync of the
  lottery fails from then on, before the bets of later contests are reconciled.
* `operational_sync_abandoned`: a server that starts during ops:sync marks its run
  abandoned; the warning stays after the run has finished.
* `history_dupla`: the analysed history of dupla-sena has two rows for each contest, and the
  search for the latest contiguous suffix stops between them, so that the "recent 10" and
  "recent 20" windows always hold one row.

PROJECT.json quotes the lines.

One behaviour of the form came to light with its invariant: when a plan switches the filter
of repeated numbers off, it does not begin a new revision, and with two synchronizations this
can happen under a preview that is being made, so that the games on screen may be those of
the form with the filter that the plan has just removed. The run has one synchronization and
does not reach it; `PreviewFitsForm` allows exactly this (`LeftOf`), and its theorem covers it
for any number of synchronizations. Smaller disagreements that no run is about:

* docs/CAIXA_SOURCES.md:50 and 53 say that timeouts are retried within the budget; a deadline
  that fires while the body is read is caught as an invalid response
  (`data/caixaHttpClient.ts:143-149`) and not retried. `BodyFails` of `CaixaClient` has it.
* `generator/maisMilionariaPayout.ts:109` speaks of distinct pairs of clovers; the code draws
  the pair of each game independently.
* The API accepts constraints up to the size of the bet, while the planner validates them
  against the size of a draw (`generator/planningConstraints.ts:51-66`).

## 7. Plan

Done: sections 2 to 5. Next, most important first:

1. `Instances`: two servers on one `analysis_jobs` after a drain past its deadline, over
   `JobTable`, reusing the runtime lock of `OperationalSync`.
2. Abstract specifications of `Generation` (a preview that is shown and saved at most once)
   and of `AiInsights` (one answer for one evidence), with their refinements, from the
   invariants that are proved.

The induction theorems of the library take an operator as parameter and cannot be cited.
Induction over a recursive function can still be done by a least counterexample, from the
definition of the function and the order of Nat, as `ContestProofs` does for sums and
segments; it is long, and worth it where a definition is used by many properties.

## 8. Not modelled, and why

Parsing of requests and payloads, prices, the validation of a game, the evaluation of a
ticket and rendering are functions of one input, and the repository tests them as such.
Histograms and the log are read by nobody. Floating-point statistics and scores are outside
what TLC can enumerate; the models have the selection they are computed from and what is
done with their order. The pool of the database client is left out but for its end. The
notifications of coming contests are rows of their own, written by the same loop as those
that are modelled. Two servers that share `analysis_jobs` after a deadline are not covered
by anything said here.

Three behaviours that the code has and no property forbids, because nothing in the
repository promises otherwise: two commands that rewrite the same JSON file at once lose the
contests of one of them, and one that is killed while it writes loses all (`ContestFile` has
both, and `ReportedIsStored` leaves out the histories it marks as `spoiled`; two texts
written together are taken to be the one written last, or not to parse at all); an
interpretation stored under another
model's name is asked for again each time; and the retry of a page whose features do not
load gives up after 120 frames (`web/src/core/featureLoader.ts`).
