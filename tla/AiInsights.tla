----------------------------- MODULE AiInsights -----------------------------
(***************************************************************************)
(* Interpretations of evidence by a language model: asked for once for     *)
(* the same evidence, stored, and reused.  src/application/aiInsights.ts,  *)
(* src/persistence/aiInsightRepository.ts, src/ai/openai.ts,               *)
(* src/ai/context.ts, src/api/aiInsights.ts,                               *)
(* src/observability/openAiMetrics.ts.                                     *)
(*                                                                         *)
(* One lottery and focus.  A step is the code between two awaits.  The     *)
(* hash of evidence is the evidence: it leaves out when it was gathered.   *)
(***************************************************************************)
EXTENDS Naturals, Sequences, Functions

CONSTANTS
    Readers,        \* requests served at the same time
    Configured,     \* the model asked for
    Named,          \* models the provider may say it answered with
    MaxEvidence,    \* bound: changes of what is in the database
    MaxAsked        \* bound: requests

ASSUME AiInsightsAssumption ==
    /\ Configured \in Named
    /\ MaxEvidence \in Nat \ {0} /\ MaxAsked \in Nat

VARIABLES
    facts,          \* what evidence is gathered from, a version of it
    insights,       \* rows of ai_insights
    inFlight,       \* inFlight: the request whose run each key stands for
    reader,         \* the state of each request
    outcomes,       \* the counters of openAiMetrics.ts
    askedFor        \* requests so far

aiVars == <<facts, insights, inFlight, reader, outcomes, askedFor>>

NotReading == [at |-> "none"]
NoHash == 0
Counters == {"success", "error", "timeout"}

AiInit ==
    /\ facts = 1
    /\ insights = <<>>
    /\ inFlight = <<>>
    /\ reader = [p \in Readers |-> NotReading]
    /\ outcomes = [o \in Counters |-> 0]
    /\ askedFor = 0

ReaderAt(p, at) == reader[p].at = at
Stored(model, hash) == \E i \in DOMAIN insights : insights[i].model = model /\ insights[i].hash = hash

\* Contests, backtests, bets or lab runs change.
FactsChange ==
    /\ facts < MaxEvidence
    /\ facts' = facts + 1
    /\ UNCHANGED <<insights, inFlight, reader, outcomes, askedFor>>

\* POST /api/v1/ai/insights of a configured provider.
AskInsight(p) ==
    /\ ReaderAt(p, "none")
    /\ askedFor < MaxAsked
    /\ askedFor' = askedFor + 1
    /\ \E force \in BOOLEAN : reader' = [reader EXCEPT ![p] = [at |-> "load", force |-> force]]
    /\ UNCHANGED <<facts, insights, inFlight, outcomes>>

\* buildAiEvidenceContext()
LoadEvidence(p) ==
    /\ ReaderAt(p, "load")
    /\ reader' = [reader EXCEPT ![p] = [at |-> IF @.force THEN "run" ELSE "lookup",
                                        force |-> @.force, hash |-> facts]]
    /\ UNCHANGED <<facts, insights, inFlight, outcomes, askedFor>>

\* The key without the hash of the evidence.
FocusKey(hash) == <<Configured>>

\* The key of inFlight.
FlightKey(hash) == <<Configured, hash>>

Answered(p, hash) == [at |-> "answered", hash |-> reader[p].hash, shows |-> hash]

\* findByEvidenceHash() with the configured model: what it finds is the answer, and
\* what it did not find may be stored, and its run over, before the request goes on.
LookUp(p) ==
    /\ ReaderAt(p, "lookup")
    /\ reader' = [reader EXCEPT ![p] = IF Stored(Configured, reader[p].hash) THEN Answered(p, @.hash)
                                       ELSE [@ EXCEPT !.at = "run"]]
    /\ UNCHANGED <<facts, insights, inFlight, outcomes, askedFor>>

\* What follows the lookup, up to the next await: a request of the same key is
\* joined, or this one asks the provider.  A forced request goes past the lookup,
\* and no other request joins it.
JoinOrRun(p) ==
    LET key == FlightKey(reader[p].hash)
        joins == ~reader[p].force /\ key \in DOMAIN inFlight
    IN  /\ ReaderAt(p, "run")
        /\ reader' = [reader EXCEPT ![p] =
              IF joins THEN [at |-> "join", hash |-> @.hash, owner |-> inFlight[key]]
              ELSE [@ EXCEPT !.at = "interpret"]]
        /\ inFlight' = IF joins \/ reader[p].force THEN inFlight
                       ELSE [k \in DOMAIN inFlight \cup {key} |->
                                IF k = key THEN p ELSE inFlight[k]]
        /\ UNCHANGED <<facts, insights, outcomes, askedFor>>

Joined(p) == {q \in Readers : ReaderAt(q, "join") /\ reader[q].owner = p}

\* A run that leaves its promise behind when it fails.
KeepsEntry(p, answer) == IF answer.at = "none" THEN inFlight
                         ELSE Restrict(inFlight, {k \in DOMAIN inFlight : inFlight[k] # p})

\* The finally of generate().
ForgetsEntry(p, answer) == Restrict(inFlight, {k \in DOMAIN inFlight : inFlight[k] # p})

\* The promise of a run settles: its own request and those that joined it.
RunSettles(p, answer) ==
    /\ reader' = [q \in Readers |->
          IF q = p THEN answer
          ELSE IF q \notin Joined(p) THEN reader[q]
          ELSE IF answer.at = "none" THEN NotReading ELSE Answered(q, answer.shows)]
    /\ inFlight' = ForgetsEntry(p, answer)

Count(outcome) == outcomes' = [outcomes EXCEPT ![outcome] = @ + 1]

\* interpret(): no answer in time, none at all, an error status, or an answer
\* whose text is missing or not an insight.
ProviderFails(p) ==
    /\ ReaderAt(p, "interpret")
    /\ \E o \in {"error", "timeout"} : Count(o)
    /\ RunSettles(p, NotReading)
    /\ UNCHANGED <<facts, insights, askedFor>>

\* interpret(): an insight, and the model that the provider says it is from.
ProviderAnswers(p) ==
    /\ ReaderAt(p, "interpret")
    /\ Count("success")
    /\ \E m \in Named : reader' = [reader EXCEPT ![p] =
          [at |-> "save", force |-> @.force, hash |-> @.hash, model |-> m]]
    /\ UNCHANGED <<facts, insights, inFlight, askedFor>>

\* save(): forced insights have no hash; one row for a model and a hash.  What it
\* cannot store because it is there is found in a statement of its own.
SaveInsight(p) ==
    /\ ReaderAt(p, "save")
    /\ LET r == reader[p]
           taken == ~r.force /\ Stored(r.model, r.hash)
       IN  IF taken
           THEN /\ reader' = [reader EXCEPT ![p].at = "found"]
                /\ UNCHANGED <<insights, inFlight>>
           ELSE /\ insights' = Append(insights, [model |-> r.model, shows |-> r.hash,
                                                 hash |-> IF r.force THEN NoHash ELSE r.hash])
                /\ RunSettles(p, Answered(p, r.hash))
    /\ UNCHANGED <<facts, outcomes, askedFor>>

FindConcurrent(p) ==
    /\ ReaderAt(p, "found")
    /\ \E i \in DOMAIN insights :
          /\ insights[i].model = reader[p].model
          /\ insights[i].hash = reader[p].hash
          /\ RunSettles(p, Answered(p, insights[i].shows))
    /\ UNCHANGED <<facts, insights, outcomes, askedFor>>

\* A statement fails.  The run of a request that had started one fails with it.
StatementBreaks(p) ==
    /\ reader[p].at \in {"load", "lookup", "save", "found"}
    /\ RunSettles(p, NotReading)
    /\ UNCHANGED <<facts, insights, outcomes, askedFor>>

SendInsight(p) ==
    /\ ReaderAt(p, "answered")
    /\ reader' = [reader EXCEPT ![p] = NotReading]
    /\ UNCHANGED <<facts, insights, inFlight, outcomes, askedFor>>

AiNext ==
    \/ FactsChange
    \/ \E p \in Readers :
          \/ AskInsight(p) \/ LoadEvidence(p) \/ LookUp(p) \/ JoinOrRun(p)
          \/ ProviderFails(p) \/ ProviderAnswers(p) \/ SaveInsight(p) \/ FindConcurrent(p)
          \/ StatementBreaks(p) \/ SendInsight(p)

AiSpec == AiInit /\ [][AiNext]_aiVars

-----------------------------------------------------------------------------
(* Properties                                                              *)

\* Types. The code behaviour: a request is at one await of generate().
AiTypeOK ==
    /\ facts \in 1..MaxEvidence
    /\ \A i \in DOMAIN insights : insights[i].model \in Named /\ insights[i].hash \in 0..MaxEvidence
    /\ \A p \in Readers : reader[p].at \in {"none", "load", "lookup", "run", "join", "interpret",
                                            "save", "found", "answered"}
    /\ \A o \in Counters : outcomes[o] \in 0..MaxAsked
    /\ askedFor \in 0..MaxAsked

\* A request is answered with an interpretation of the very evidence it gathered,
\* one is stored once for a model and evidence, and whoever waits for a run waits
\* for one that still goes on (the key of inFlight, its finally and the unique
\* index of ai_insights).
InsightsFitEvidence ==
    /\ \A p \in Readers : ReaderAt(p, "answered") => reader[p].shows = reader[p].hash
    /\ \A i, j \in DOMAIN insights :
          /\ insights[i].hash # NoHash
          /\ insights[i].hash = insights[j].hash
          /\ insights[i].model = insights[j].model
          => i = j
    /\ \A k \in DOMAIN inFlight : reader[inFlight[k]].at \in {"interpret", "save", "found"}
    /\ \A p \in Readers : ReaderAt(p, "join") => p \in Joined(inFlight[FlightKey(reader[p].hash)])
=============================================================================
