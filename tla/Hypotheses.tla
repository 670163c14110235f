----------------------------- MODULE Hypotheses -----------------------------
(***************************************************************************)
(* Research hypotheses: backtests are attached to an open hypothesis as    *)
(* evidence, a hypothesis with evidence is decided once, and real bets may *)
(* apply it when the decision says so.                                     *)
(* src/application/researchHypotheses.ts,                                  *)
(* src/persistence/researchHypothesisRepository.ts,                        *)
(* src/api/researchHypotheses.ts, src/realBets/service.ts and the trigger  *)
(* of db/migrations/014.                                                   *)
(*                                                                         *)
(* A step is one statement of a request, with the triggers it fires.       *)
(***************************************************************************)
EXTENDS Naturals, FiniteSets

CONSTANTS
    Researchers,    \* requests served at the same time
    Hypotheses,
    Runs,           \* rows of backtest_runs
    RunLottery,     \* the lottery of each run
    Scopes,
    AnyLottery,     \* a hypothesis that names no lottery
    MaxRequests     \* bound: requests

ASSUME HypothesesAssumption ==
    /\ RunLottery \in [Runs -> Scopes]
    /\ AnyLottery \notin Scopes
    /\ MaxRequests \in Nat

VARIABLES
    hypothesis,     \* rows of research_hypotheses
    runs,           \* rows of backtest_runs there are
    evidence,       \* rows of research_hypothesis_backtest_evidence
    applied,        \* lotteries of the real bets that apply each hypothesis
    asking,          \* the state of each request
    requests        \* how many there have been

researchVars == <<hypothesis, runs, evidence, applied, asking, requests>>

NoRow == [status |-> "none"]
NoRequest == [at |-> "none"]
Decisions == {"rejected", "applied-experimentally"}
OpenRow(l) == [status |-> "open", lottery |-> l, decision |-> "none"]
EvidenceOf(h) == {r \in Runs : <<h, r>> \in evidence}
InScope(h, lottery) == hypothesis[h].lottery \in {AnyLottery, lottery}

ResearchInit ==
    /\ hypothesis = [h \in Hypotheses |-> NoRow]
    /\ runs = {}
    /\ evidence = {}
    /\ applied = [h \in Hypotheses |-> {}]
    /\ asking = [p \in Researchers |-> NoRequest]
    /\ requests = 0

Proceed(p, at) == asking' = [asking EXCEPT ![p].at = at]
Close(p) == asking' = [asking EXCEPT ![p] = NoRequest]
At(p, at) == asking[p].at = at

\* A request whose fields the parsers let through; the hypothesis it names need
\* not exist, nor the run.
Ask(p) ==
    /\ At(p, "none")
    /\ requests < MaxRequests
    /\ requests' = requests + 1
    /\ \E h \in Hypotheses :
         \/ \E d \in Decisions :
               asking' = [asking EXCEPT ![p] = [at |-> "decide:find", h |-> h, decision |-> d]]
         \/ \E r \in Runs :
               asking' = [asking EXCEPT ![p] = [at |-> "link:find", h |-> h, run |-> r]]
         \/ \E l \in Scopes :
               asking' = [asking EXCEPT ![p] = [at |-> "bet:find", h |-> h, lottery |-> l]]
    /\ UNCHANGED <<hypothesis, runs, evidence, applied>>

\* create(), in its one statement.
CreateHypothesis ==
    /\ \E h \in Hypotheses, l \in Scopes \cup {AnyLottery} :
          /\ hypothesis[h] = NoRow
          /\ hypothesis' = [hypothesis EXCEPT ![h] = OpenRow(l)]
    /\ UNCHANGED <<runs, evidence, applied, asking, requests>>

\* A backtest is saved.  Nothing deletes one.
BacktestSaved ==
    /\ \E r \in Runs \ runs : runs' = runs \cup {r}
    /\ UNCHANGED <<hypothesis, evidence, applied, asking, requests>>

\* findById() of decide() and linkBacktestEvidence(): 404, or 409 if not open.
FindOpen(p, from, to) ==
    /\ At(p, from)
    /\ IF hypothesis[asking[p].h].status = "open" THEN Proceed(p, to) ELSE Close(p)
    /\ UNCHANGED <<hypothesis, runs, evidence, applied, requests>>

\* listBacktests(): EvidenceRequired without any.
RequireEvidence(p) ==
    /\ At(p, "decide:evidence")
    /\ IF EvidenceOf(asking[p].h) # {} THEN Proceed(p, "decide:update") ELSE Close(p)
    /\ UNCHANGED <<hypothesis, runs, evidence, applied, requests>>

\* An UPDATE that does not look at the status again.
DecidesAny(h) == TRUE

\* UPDATE ... WHERE status = 'open'
DecidesOpen(h) == hypothesis[h].status = "open"

Decide(p) ==
    /\ At(p, "decide:update")
    /\ hypothesis' = IF DecidesOpen(asking[p].h)
                     THEN [hypothesis EXCEPT ![asking[p].h].status = "decided",
                                             ![asking[p].h].decision = asking[p].decision]
                     ELSE hypothesis
    /\ Close(p)
    /\ UNCHANGED <<runs, evidence, applied, requests>>

\* backtests.findById() and the lottery of the run.
FindRun(p) ==
    /\ At(p, "link:run")
    /\ IF asking[p].run \in runs /\ InScope(asking[p].h, RunLottery[asking[p].run])
       THEN Proceed(p, "link:insert") ELSE Close(p)
    /\ UNCHANGED <<hypothesis, runs, evidence, applied, requests>>

\* A trigger that leaves the status to the application.
AttachesAny(h) == TRUE

\* loto_lab_validate_research_backtest_evidence(): the row is read FOR SHARE.
AttachesToOpen(h) == hypothesis[h].status = "open"

\* INSERT ... ON CONFLICT DO NOTHING, its trigger and its foreign keys.
LinkBacktest(p) ==
    /\ At(p, "link:insert")
    /\ evidence' = IF AttachesToOpen(asking[p].h) /\ asking[p].run \in runs
                   THEN evidence \cup {<<asking[p].h, asking[p].run>>} ELSE evidence
    /\ Close(p)
    /\ UNCHANGED <<hypothesis, runs, applied, requests>>

\* RealBetService.create(): only a decision to apply, and of the bet's lottery.
FindApplicable(p) ==
    /\ At(p, "bet:find")
    /\ IF /\ hypothesis[asking[p].h].status = "decided"
          /\ hypothesis[asking[p].h].decision = "applied-experimentally"
          /\ InScope(asking[p].h, asking[p].lottery)
       THEN Proceed(p, "bet:insert") ELSE Close(p)
    /\ UNCHANGED <<hypothesis, runs, evidence, applied, requests>>

\* The real bet is stored, some statements later.
Apply(p) ==
    /\ At(p, "bet:insert")
    /\ applied' = [applied EXCEPT ![asking[p].h] = @ \cup {asking[p].lottery}]
    /\ Close(p)
    /\ UNCHANGED <<hypothesis, runs, evidence, requests>>

\* A statement fails or the process ends: an error, nothing stored.
RequestFails(p) ==
    /\ asking[p].at # "none"
    /\ Close(p)
    /\ UNCHANGED <<hypothesis, runs, evidence, applied, requests>>

ResearchNext ==
    \/ CreateHypothesis \/ BacktestSaved
    \/ \E p \in Researchers :
          \/ Ask(p)
          \/ FindOpen(p, "decide:find", "decide:evidence") \/ RequireEvidence(p) \/ Decide(p)
          \/ FindOpen(p, "link:find", "link:run") \/ FindRun(p) \/ LinkBacktest(p)
          \/ FindApplicable(p) \/ Apply(p) \/ RequestFails(p)

ResearchSpec == ResearchInit /\ [][ResearchNext]_researchVars

-----------------------------------------------------------------------------
(* Properties                                                              *)

\* Types. The code behaviour: the check constraints of db/migrations/013, and a
\* request at one of its statements.
ResearchTypeOK ==
    /\ \A h \in Hypotheses :
          \/ hypothesis[h] = NoRow
          \/ /\ hypothesis[h].status \in {"open", "decided"}
             /\ hypothesis[h].decision \in Decisions <=> hypothesis[h].status = "decided"
    /\ evidence \subseteq Hypotheses \X runs
    /\ \A p \in Researchers : asking[p].at \in {"none", "decide:find", "decide:evidence",
          "decide:update", "link:find", "link:run", "link:insert", "bet:find", "bet:insert"}
    /\ requests \in 0..MaxRequests

\* What a decision was taken on stays as it was: a decided hypothesis has evidence
\* of its lottery, and neither its decision nor its evidence ever changes, whatever
\* was read before it was decided (decide(), linkBacktest() and its trigger).  A
\* bet that applies a hypothesis, read statements earlier, finds it so decided.
DecisionsAreFinal ==
    [][\A h \in Hypotheses :
        /\ hypothesis[h].status = "decided" =>
              /\ EvidenceOf(h) # {}
              /\ \A r \in EvidenceOf(h) : InScope(h, RunLottery[r])
              /\ hypothesis'[h] = hypothesis[h]
              /\ \A r \in Runs : <<h, r>> \in evidence' <=> <<h, r>> \in evidence
        /\ \A l \in applied'[h] \ applied[h] :
              hypothesis[h].decision = "applied-experimentally" /\ InScope(h, l)]_researchVars
=============================================================================
