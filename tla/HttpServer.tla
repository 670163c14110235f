------------------------------ MODULE HttpServer ------------------------------
(***************************************************************************)
(* The HTTP server (src/src/api/): every call goes through the origin      *)
(* check, the metrics page, the feature handlers in their order, the web   *)
(* assets and the last handler, and whatever escapes is answered by the    *)
(* server's own catch.  A handler is a record: the paths it takes, the     *)
(* routes it has, the routes with a quota, the errors its routes raise and *)
(* those it turns into a status.  A path stands for its family of URLs.    *)
(* The quotas are the fixed-window limiters of rateLimit.ts.               *)
(***************************************************************************)
EXTENDS Integers, Sequences, SequencesExt, FiniteSets

CONSTANTS
    Slots,        \* calls in progress at the same time
    Peers,        \* remote addresses (requestClientKey)
    Asks,         \* the <<method, path>> pairs that are asked
    Quota,        \* the limit of a limiter
    Window,       \* its window, in ticks
    PruneAt,      \* buckets of a limiter from which prune() looks for expired ones (500)
    MaxTick,      \* bound on the clock
    MaxServed     \* bound on the calls

ASSUME QuotaAssumption ==
    Quota \in Nat \ {0} /\ Window \in Nat \ {0} /\ MaxTick \in Nat /\ MaxServed \in Nat

VARIABLES
    call,         \* per slot: the call being served
    buckets,      \* limiter key -> [count, resetAt]
    tick,         \* the clock
    tally,        \* httpMetrics: answers by class
    admitted,     \* history: key -> calls let in since the first of their window
    served        \* calls so far

httpVars == <<call, buckets, tick, tally, admitted, served>>

Get(path) == <<"GET", path>>
Post(path) == <<"POST", path>>
NoQuota == {}

(***************************************************************************)
(* The handlers.  limited: routes whose limiter is asked first; metered:   *)
(* routes whose limiter is asked once the body was read; raises: errors of *)
(* the routes; mapped: errors answered with their own status, the others   *)
(* being answered 500 ("guarded") or thrown to the server.                 *)
(***************************************************************************)
Handler(takes, routes, limited, raises, mapped, guarded) ==
    [takes |-> takes, routes |-> routes, limited |-> limited, metered |-> NoQuota,
     raises |-> raises, mapped |-> mapped, guarded |-> guarded]

AnalysisRoutes ==
    Handler({"analysis/:lottery", "analysis/:lottery/advanced"},
            {Get("analysis/:lottery"), Get("analysis/:lottery/advanced")},
            NoQuota, {"invalid"}, {"invalid", "absent"}, TRUE)

ContestRoutes ==
    LET paths == {"contests/:lottery", "contests/:lottery/latest", "contests/:lottery/:number"}
    IN Handler(paths \cup {"contests"}, {Get(p) : p \in paths},
               NoQuota, {"invalid", "absent"}, {"invalid", "absent"}, FALSE)

DataStatusRoutes == Handler({}, {Get("data/status")}, NoQuota, {}, {}, FALSE)

ReconciliationRoutes ==
    Handler({"data/reconciliation"}, {Get("data/reconciliation")},
            NoQuota, {"invalid"}, {}, FALSE)

GenerationRoutes ==
    Handler({"games/generate"}, {Post("games/generate")}, {Post("games/generate")},
            {"invalid", "conflict"}, {"invalid", "absent", "conflict"}, TRUE)

GenerationV2Routes ==
    LET paths == {"generation/plan", "generation/preview", "generation/save"}
    IN Handler(paths, {Post(p) : p \in paths}, {Post(p) : p \in paths},
               {"invalid", "conflict", "unprocessable", "busy", "planTimeout"},
               {"invalid", "absent", "conflict", "unprocessable", "busy", "planTimeout"}, TRUE)

BacktestRoutes ==
    [Handler({"backtests/run", "backtests/:lottery", "backtest-runs/:id"},
             {Post("backtests/run"), Get("backtests/:lottery"), Get("backtest-runs/:id")},
             NoQuota, {"invalid", "absent", "unprocessable", "busy", "timeout", "cancelled"},
             {"invalid", "absent", "unprocessable", "busy", "timeout"}, FALSE)
     EXCEPT !.metered = {Post("backtests/run")}]

StrategyRoutes ==
    Handler({"strategies", "strategies/:slug/versions", "strategy-versions/:id"},
            {Get("strategies"), Post("strategies"), Get("strategies/:slug/versions"),
             Get("strategy-versions/:id")},
            NoQuota, {"invalid", "absent", "conflict"}, {"invalid", "absent", "conflict"}, FALSE)

AnalysisJobRoutes ==
    Handler({"analysis-jobs", "analysis-jobs/:id", "analysis-jobs/:id/cancel"},
            {Get("analysis-jobs"), Post("analysis-jobs"), Get("analysis-jobs/:id"),
             Post("analysis-jobs/:id/cancel")},
            {Post("analysis-jobs")},
            {"invalid", "absent", "conflict"}, {"invalid", "absent", "conflict"}, FALSE)

StrategyLabRoutes ==
    Handler({}, {Post("lab/compare")}, {Post("lab/compare")},
            {"invalid", "conflict", "busy", "timeout", "cancelled"},
            {"invalid", "conflict", "busy", "timeout"}, FALSE)

RealBetRoutes ==
    Handler({"real-bets", "real-bets/reconcile", "real-bets/:id/check", "real-bets/:id/revisions",
             "real-bets/:lottery"},
            {Post("real-bets"), Post("real-bets/reconcile"), Post("real-bets/:id/check"),
             Get("real-bets/:id/revisions"), Get("real-bets/:lottery")},
            NoQuota, {"invalid", "absent", "conflict"}, {"invalid", "absent", "conflict"}, FALSE)

GameBatchRoutes ==
    Handler({"game-batches/:lottery", "game-batches/id/:id", "games/check"},
            {Get("game-batches/:lottery"), Get("game-batches/id/:id"), Post("games/check")},
            NoQuota, {"invalid", "absent"}, {"invalid", "absent"}, TRUE)

GameCoverageRoutes ==
    Handler({"game-batches/:id/coverage"}, {Get("game-batches/:id/coverage")},
            NoQuota, {"invalid", "absent"}, {}, FALSE)

BatchManagementRoutes ==
    Handler({}, {Get("game-batches/manage/:lottery"), Post("game-batches/:id/hide"),
                 Post("game-batches/:id/show")},
            NoQuota, {"invalid", "absent"}, {}, FALSE)

GameComparisonRoutes ==
    Handler({"game-batches/:id/comparison"}, {Get("game-batches/:id/comparison")},
            NoQuota, {"invalid", "absent"}, {}, FALSE)

AiRoutes ==
    Handler({"ai/status", "ai/insights", "ai/insights/:lottery"},
            {Get("ai/status"), Post("ai/insights"), Get("ai/insights/:lottery")},
            {Post("ai/insights")},
            {"invalid", "unconfigured", "timeout", "upstream"},
            {"invalid", "absent", "unconfigured", "timeout", "upstream"}, TRUE)

HypothesisRoutes ==
    LET item == "research/hypotheses/:id"
        evidence == "research/hypotheses/:id/evidence/backtests"
    IN Handler({"research/hypotheses", item, "research/hypotheses/:id/decision", evidence,
                "research/hypotheses/:id/applications/real-bets"},
               {Get("research/hypotheses"), Post("research/hypotheses"), Get(item),
                Post("research/hypotheses/:id/decision"), Get(evidence), Post(evidence),
                Get("research/hypotheses/:id/applications/real-bets")},
               NoQuota, {"invalid", "absent", "conflict"}, {"invalid", "absent", "conflict"}, FALSE)

OperationRoutes ==
    Handler({}, {Get("operations/status"), Post("operations/sync")}, {Post("operations/sync")},
            {"conflict"}, {"conflict"}, FALSE)

AgendaRoutes ==
    Handler({}, {Get("agenda"), Post("notifications/:id/read"), Post("notifications/read-all")},
            NoQuota, {"absent"}, {"absent"}, FALSE)

\* featureRoutes of routes.ts, in the order they are tried.
FeatureRoutes ==
    << AnalysisRoutes, ContestRoutes, DataStatusRoutes, ReconciliationRoutes, GenerationRoutes,
       GenerationV2Routes, BacktestRoutes, StrategyRoutes, AnalysisJobRoutes, StrategyLabRoutes,
       RealBetRoutes, GameBatchRoutes, GameCoverageRoutes, BatchManagementRoutes,
       GameComparisonRoutes, AiRoutes, HypothesisRoutes, OperationRoutes, AgendaRoutes >>

\* The handlers whose own "method !== GET" branch throws a 405 no catch of theirs sees, and those
\* that have no OPTIONS branch.
ThrowsMethods == {ReconciliationRoutes, GameCoverageRoutes, GameComparisonRoutes}
NoPreflight == {AiRoutes}

StatusOf ==
    [ok |-> 200, invalid |-> 400, absent |-> 404, conflict |-> 409, unprocessable |-> 422,
     busy |-> 429, upstream |-> 502, unconfigured |-> 503, planTimeout |-> 503,
     timeout |-> 504]

(***************************************************************************)
(* The limiters.  A bucket's key is the limiter that holds it, the scope   *)
(* and the peer: the generator's calls share a limiter, and a preview and  *)
(* its save a scope too.  prune() only runs when a bucket is opened, and   *)
(* only drops expired ones of its own limiter.                             *)
(***************************************************************************)
LimiterOf(ask) ==
    IF ask[2] \in {"games/generate", "generation/preview", "generation/save"}
    THEN "generationLimiter" ELSE ask[2]
Scope(ask) ==
    IF ask[2] \in {"generation/preview", "generation/save"} THEN "generator-v2" ELSE ask[2]

Others(b, k) == {x \in DOMAIN b : x[1] # k[1]}
HasRoom(b, k) == Cardinality(DOMAIN b \ Others(b, k)) < PruneAt

\* A plausible slip (used by a mutant): at the limit all buckets are dropped.
KeepNone(b, k, t) == IF HasRoom(b, k) THEN b ELSE [x \in Others(b, k) |-> b[x]]

Keep(b, k, t) ==
    IF HasRoom(b, k) THEN b
    ELSE [x \in Others(b, k) \cup {x \in DOMAIN b : b[x].resetAt > t} |-> b[x]]

Opened(k) == [x \in DOMAIN buckets \cup {k} |->
                 IF x = k THEN [count |-> 1, resetAt |-> tick + Window] ELSE buckets[x]]

HasBucket(k) == k \in DOMAIN buckets /\ buckets[k].resetAt > tick

\* A plausible slip (used by a mutant): one call more than the limit.
AdmitsOneMore(k) == ~HasBucket(k) \/ buckets[k].count <= Quota

Admits(k) == ~HasBucket(k) \/ buckets[k].count < Quota

\* The calls of a key let in since the first of them, until its window is over.
Counted(k) ==
    IF k \in DOMAIN admitted /\ admitted[k].since + Window > tick
    THEN [since |-> admitted[k].since, calls |-> admitted[k].calls + 1]
    ELSE [since |-> tick, calls |-> 1]

Consume(k) ==
    /\ buckets' = IF ~HasBucket(k) THEN Keep(Opened(k), k, tick)
                  ELSE IF Admits(k)
                  THEN [buckets EXCEPT ![k] = [count |-> @.count + 1, resetAt |-> @.resetAt]]
                  ELSE buckets
    /\ admitted' = IF Admits(k)
                   THEN [x \in DOMAIN admitted \cup {k} |->
                            IF x # k THEN admitted[x] ELSE Counted(k)]
                   ELSE admitted

NoLimiter == UNCHANGED <<buckets, admitted>>

(***************************************************************************)
(* One call.                                                               *)
(***************************************************************************)
NoCall == [at |-> "none", ask |-> <<>>, peer |-> "", by |-> 0, status |-> 0]

HttpInit ==
    /\ call = [s \in Slots |-> NoCall]
    /\ buckets = <<>>
    /\ admitted = <<>>
    /\ tick = 0
    /\ tally = [answers |-> 0, clientErrors |-> 0, serverErrors |-> 0]
    /\ served = 0

\* recordHttpRequest runs when the answer was sent, whoever sent it.
Answer(s, status) ==
    /\ call' = [call EXCEPT ![s] = [NoCall EXCEPT !.at = "answered", !.status = status]]
    /\ tally' = [answers |-> tally.answers + 1,
                 clientErrors |-> tally.clientErrors + (IF status \in 400..499 THEN 1 ELSE 0),
                 serverErrors |-> tally.serverErrors + (IF status >= 500 THEN 1 ELSE 0)]

Method(s) == call[s].ask[1]
Path(s) == call[s].ask[2]
Key(s) == <<LimiterOf(call[s].ask), Scope(call[s].ask), call[s].peer>>
At(s, where) == call[s].at = where /\ UNCHANGED <<tick, served>>

HealthPages == {"health/live", "health/ready"}

\* requireSameOriginMutation, before everything else but the health pages.
CallArrives(s, ask, peer, foreign) ==
    /\ call[s].at = "none" /\ served < MaxServed
    /\ served' = served + 1
    /\ foreign => ask[1] = "POST" /\ ask[2] \notin HealthPages
    /\ call' = [call EXCEPT ![s] = [NoCall EXCEPT !.at = IF foreign THEN "foreign" ELSE "routing",
                                                  !.ask = ask, !.peer = peer]]
    /\ UNCHANGED <<buckets, admitted, tick, tally>>

ForeignRefused(s) == At(s, "foreign") /\ Answer(s, 403) /\ NoLimiter

Takes(handler, ask) == ask[2] \in handler.takes \/ ask \in handler.routes

\* The first handler that takes the call; 0 when all of them pass it on.
ServedBy == [ask \in Asks |-> SelectInSeq(FeatureRoutes, LAMBDA handler : Takes(handler, ask))]

Feature(s) == FeatureRoutes[ServedBy[call[s].ask]]

\* The operations page is served before any handler; what it queries may fail.
Metrics == Get("ops/metrics")

ServeMetrics(s) ==
    /\ At(s, "routing") /\ call[s].ask = Metrics
    /\ \/ Answer(s, 200)
       \/ call' = [call EXCEPT ![s].at = "thrown"] /\ UNCHANGED tally
    /\ NoLimiter

\* A feature handler takes the call: preflight, unknown method, quota, work.
RouteFeature(s) ==
    /\ At(s, "routing") /\ call[s].ask # Metrics /\ ServedBy[call[s].ask] # 0
    /\ LET ask == call[s].ask
           known == ask \in Feature(s).routes
           begin(where) == call' = [call EXCEPT ![s].at = where, ![s].by = ServedBy[ask]]
       IN \/ /\ ~known /\ Method(s) = "OPTIONS" /\ Feature(s) \notin NoPreflight
             /\ Answer(s, 204) /\ NoLimiter
          \/ /\ ~known /\ (Method(s) # "OPTIONS" \/ Feature(s) \in NoPreflight)
             /\ IF Feature(s) \in ThrowsMethods
                THEN begin("thrown") /\ UNCHANGED tally
                ELSE Answer(s, 404)
             /\ NoLimiter
          \/ /\ known /\ ask \in Feature(s).limited
             /\ Consume(Key(s))
             /\ IF Admits(Key(s)) THEN begin("working") /\ UNCHANGED tally
                                  ELSE Answer(s, 429)
          \/ /\ known /\ ask \notin Feature(s).limited
             /\ begin(IF ask \in Feature(s).metered THEN "reading" ELSE "working")
             /\ NoLimiter /\ UNCHANGED tally

\* backtests.ts reads and checks the body before it asks its limiter.
BodyRead(s) ==
    /\ At(s, "reading")
    /\ \/ Answer(s, StatusOf["invalid"]) /\ NoLimiter
       \/ /\ Consume(Key(s))
          /\ IF Admits(Key(s)) THEN call' = [call EXCEPT ![s].at = "working"] /\ UNCHANGED tally
                               ELSE Answer(s, 429)

WorkDone(s) == At(s, "working") /\ Answer(s, StatusOf["ok"]) /\ NoLimiter

\* The error of a route is answered with its status, with a 500, or thrown to the server.
WorkRaises(s, why) ==
    /\ At(s, "working") /\ why \in {"unexpected"} \cup (Feature(s).raises \ {"cancelled"})
    /\ IF why \in Feature(s).mapped THEN Answer(s, StatusOf[why])
       ELSE IF Feature(s).guarded THEN Answer(s, 500)
       ELSE call' = [call EXCEPT ![s].at = "thrown"] /\ UNCHANGED tally
    /\ NoLimiter

\* The client leaves: an analysis is aborted and nobody is answered; the others go on.
ClientLeaves(s) ==
    /\ At(s, "working") /\ "cancelled" \in Feature(s).raises /\ Method(s) = "POST"
    /\ call' = [call EXCEPT ![s] = [NoCall EXCEPT !.at = "left"]]
    /\ NoLimiter /\ UNCHANGED tally

\* The catch of createLotoLabServer: whatever was thrown is a 500.
ServerCatches(s) == At(s, "thrown") /\ Answer(s, 500) /\ NoLimiter

WebFiles == {"page", "asset", "legacy"}

\* serveWebAsset: redirects of old pages, assets, or a file that is not there.
ServeAsset(s) ==
    /\ At(s, "routing") /\ ServedBy[call[s].ask] = 0
    /\ Method(s) \in {"GET", "HEAD"} /\ Path(s) \in WebFiles
    /\ \/ Answer(s, IF Path(s) = "legacy" THEN 308 ELSE 200)
       \/ Path(s) # "legacy" /\ Answer(s, 404)
       \/ /\ Path(s) # "legacy"
          /\ call' = [call EXCEPT ![s].at = "thrown"] /\ UNCHANGED tally
    /\ NoLimiter

\* createApiRequestHandler: preflight, health, lotteries, or nothing by that name.
ServeLast(s) ==
    /\ At(s, "routing") /\ ServedBy[call[s].ask] = 0
    /\ call[s].ask # Metrics /\ ~(Method(s) \in {"GET", "HEAD"} /\ Path(s) \in WebFiles)
    /\ IF Method(s) = "OPTIONS" THEN Answer(s, 204)
       ELSE IF Method(s) = "GET" /\ Path(s) \in {"lotteries", "health/live"}
       THEN Answer(s, 200)
       ELSE IF Method(s) = "GET" /\ Path(s) = "health/ready"
       THEN Answer(s, 200) \/ Answer(s, 500)
       ELSE Answer(s, 404)
    /\ NoLimiter

CallForgotten(s) ==
    /\ call[s].at \in {"answered", "left"}
    /\ call' = [call EXCEPT ![s] = NoCall]
    /\ UNCHANGED <<buckets, admitted, tick, tally, served>>

ClockTicks == tick < MaxTick /\ tick' = tick + 1 /\ UNCHANGED <<call, buckets, admitted, tally, served>>

Refusals == {"invalid", "absent", "conflict", "unprocessable", "busy", "timeout", "upstream",
           "unconfigured", "planTimeout", "unexpected"}

Served(s) ==
    \/ ForeignRefused(s) \/ ServeMetrics(s) \/ RouteFeature(s) \/ BodyRead(s) \/ WorkDone(s) \/ ServerCatches(s)
    \/ ServeAsset(s) \/ ServeLast(s)
    \/ \E why \in Refusals : WorkRaises(s, why)

HttpNext ==
    \/ ClockTicks
    \/ \E s \in Slots :
          \/ \E ask \in Asks, peer \in Peers, foreign \in BOOLEAN : CallArrives(s, ask, peer, foreign)
          \/ Served(s) \/ ClientLeaves(s) \/ CallForgotten(s)

HttpFairness == \A s \in Slots : WF_httpVars(Served(s))

HttpSpec == HttpInit /\ [][HttpNext]_httpVars /\ HttpFairness
-----------------------------------------------------------------------------
HttpTypeOK ==
    /\ \A s \in Slots :
          call[s].at \in {"none", "foreign", "routing", "reading", "working", "thrown",
                          "answered", "left"}
    /\ \A k \in DOMAIN buckets : buckets[k].count \in 1..Quota /\ buckets[k].resetAt \in Nat
    /\ tick \in 0..MaxTick /\ served \in 0..MaxServed
    /\ tally.answers >= tally.clientErrors + tally.serverErrors

\* A limiter lets at most its limit through in the window that the first of these calls opened,
\* whatever the calls of other keys made prune() drop meanwhile (FixedWindowRateLimiter.consume
\* and prune).
QuotaHolds == \A k \in DOMAIN admitted : admitted[k].calls =< Quota

\* Every call that was let in is answered or its client has left: no handler keeps it, and
\* nothing that a handler throws is lost.
CallsAreAnswered ==
    \A s \in Slots : call[s].at # "none" ~> call[s].at \in {"answered", "left", "none"}
=============================================================================
