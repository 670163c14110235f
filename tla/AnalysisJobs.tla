---------------------------- MODULE AnalysisJobs ----------------------------
(***************************************************************************)
(* The analysis queue of one server process: AnalysisJobManager            *)
(* (src/analysis/jobManager.ts) draining the analysis_jobs table, the      *)
(* worker it runs a job in (src/api/workerClient.ts), the gate it shares   *)
(* with the analyses HTTP requests run themselves (src/api/workGate.ts)    *)
(* and the part of the process life cycle that starts and stops it         *)
(* (src/cli/apiStart.ts).                                                  *)
(*                                                                         *)
(* A step is the code between two awaits, or one SQL statement.  A         *)
(* statement in flight is a state of its own wherever something else may   *)
(* run between its commit and the code that receives its answer.  The only *)
(* other server process is an earlier or a later one; two at once, after a *)
(* drain past its deadline, are not modelled here.                         *)
(***************************************************************************)
EXTENDS JobTable, Integers, FiniteSets

CONSTANTS
    Jobs,         \* ids of analysis_jobs, in the order claimNext() takes them
    Persisting,   \* the jobs that are backtests with persist = true
    NoJob,        \* the undefined of drain()'s variable job
    MaxFaults,    \* bound on failed or unanswered statements
    MaxRestarts   \* bound on crashes and graceful stops

ASSUME JobsAssumption == Jobs \subseteq Nat /\ IsFiniteSet(Jobs)
ASSUME PersistingAssumption == Persisting \subseteq Jobs
ASSUME NoJobAssumption == NoJob \notin Jobs
ASSUME BoundsAssumption == MaxFaults \in Nat /\ MaxRestarts \in Nat

VARIABLES
    (* PostgreSQL *)
    jobs,        \* the rows of analysis_jobs
    saved,       \* how many backtest_runs rows each job has left
    (* the process *)
    life,        \* "down", "recovering" (start() runs) or "up"
    stopped,     \* the manager's field of that name
    retryTimer,  \* is retryTimer set?
    rerun,       \* rerunRequested
    explicit,    \* explicitCancels
    gate,        \* who holds expensiveAnalysisGate: "free", "drain" or "http"
    pc,          \* where drain() stands; "idle" is running = undefined
    job,         \* drain()'s local variable
    aborted,     \* has the controller of job been aborted?
    creating,    \* inserted jobs whose create() has not been answered
    cancelling,  \* jobs whose cancel() found them running, answer in flight
    (* history *)
    asked,       \* when a user's cancellation reached the table, if it did
    lost,        \* inserted jobs whose create() was answered with an error
    faults,      \* failed or unanswered statements so far
    restarts     \* crashes and graceful stops so far

table   == <<jobs, saved>>
manager == <<stopped, retryTimer, rerun, explicit, gate, pc, job, aborted>>
client  == <<creating, cancelling>>
history == <<asked, lost, faults, restarts>>
vars == <<table, life, manager, client, history>>

\* drain() between the answer to claimNext() and the answer to findById().
BeforeCheck == {"claimed", "reading", "working", "saving", "checking"}

\* drain() waiting for the last statement of a job.
Closing == {"completing", "marking", "cancelling", "failing"}

\* drain() holds the gate.
Holding == {"claiming", "finishing"} \cup BeforeCheck \cup Closing

Phases == {"idle", "yielding"} \cup Holding

\* A controller is registered in activeControllers.
Controlled == (Holding \ {"claiming", "claimed"})

TableTypes ==
    /\ jobs \in [Jobs -> Row]
    /\ saved \in [Jobs -> Nat]

ManagerTypes ==
    /\ life \in {"down", "recovering", "up"}
    /\ stopped \in BOOLEAN
    /\ retryTimer \in BOOLEAN
    /\ rerun \in BOOLEAN
    /\ explicit \subseteq Jobs
    /\ gate \in {"free", "drain", "http"}

DrainTypes ==
    /\ pc \in Phases
    /\ job \in Jobs \cup {NoJob}
    /\ aborted \in BOOLEAN

HistoryTypes ==
    /\ creating \subseteq Jobs
    /\ cancelling \subseteq Jobs
    /\ asked \in [Jobs -> {"no", "early", "late"}]
    /\ lost \subseteq Jobs
    /\ faults \in Nat
    /\ restarts \in Nat

\* Every variable has its type.
TypeOK == TableTypes /\ ManagerTypes /\ DrainTypes /\ HistoryTypes

Init ==
    /\ jobs = [j \in Jobs |-> AbsentRow]
    /\ saved = [j \in Jobs |-> 0]
    /\ life = "down"
    /\ stopped = FALSE
    /\ retryTimer = FALSE
    /\ rerun = FALSE
    /\ explicit = {}
    /\ gate = "free"
    /\ pc = "idle"
    /\ job = NoJob
    /\ aborted = FALSE
    /\ creating = {}
    /\ cancelling = {}
    /\ asked = [j \in Jobs |-> "no"]
    /\ lost = {}
    /\ faults = 0
    /\ restarts = 0

Fault == faults < MaxFaults /\ faults' = faults + 1

-----------------------------------------------------------------------------
(* kick() and the promise chain around drain()                             *)

\* The head of drain()'s loop, entered with the gate in state g and the retry
\* timer in state t.  A busy gate makes drain() schedule a retry and return.
TryAcquire(g, t) ==
    \/ /\ g = "free"
       /\ gate' = "drain"
       /\ pc' = "claiming"
       /\ retryTimer' = t
    \/ /\ g # "free"
       /\ gate' = g
       /\ pc' = "idle"
       /\ retryTimer' = TRUE

\* kick() that forgets a request made while drain() is running.
KickForgets(t) ==
    \/ /\ stopped \/ pc # "idle"
       /\ retryTimer' = t
       /\ UNCHANGED <<rerun, gate, pc>>
    \/ /\ ~stopped /\ pc = "idle"
       /\ rerun' = FALSE
       /\ TryAcquire(gate, t)

\* kick(), called with the retry timer in state t.
Kick(t) ==
    \/ /\ stopped
       /\ retryTimer' = t
       /\ UNCHANGED <<rerun, gate, pc>>
    \/ /\ ~stopped /\ pc # "idle"
       /\ rerun' = TRUE
       /\ retryTimer' = t
       /\ UNCHANGED <<gate, pc>>
    \/ /\ ~stopped /\ pc = "idle"
       /\ rerun' = FALSE
       /\ TryAcquire(gate, t)

\* The finally of kick() without the retry after a failed drain().
DrainEndsNoRetry(failed) ==
    \/ /\ ~stopped /\ rerun
       /\ rerun' = FALSE
       /\ TryAcquire("free", retryTimer)
    \/ /\ stopped \/ ~rerun
       /\ gate' = "free"
       /\ pc' = "idle"
       /\ UNCHANGED <<retryTimer, rerun>>

\* drain() releases the gate and settles, then the finally of kick() runs; no
\* other code can run between the two.
DrainEnds(failed) ==
    \/ /\ ~stopped /\ rerun
       /\ rerun' = FALSE
       /\ TryAcquire("free", retryTimer)
    \/ /\ stopped \/ ~rerun
       /\ gate' = "free"
       /\ pc' = "idle"
       /\ retryTimer' = (retryTimer \/ (failed /\ ~stopped))
       /\ UNCHANGED rerun

-----------------------------------------------------------------------------
(* HTTP requests: enqueue(), cancel(), and the analyses run in a request   *)

\* The INSERT of create() commits.
Submit(j) ==
    /\ life = "up"
    /\ jobs[j] = AbsentRow
    /\ jobs' = [jobs EXCEPT ![j] = InsertedRow]
    /\ creating' = creating \cup {j}
    /\ UNCHANGED <<saved, life, manager, cancelling, history>>

\* create() is answered: enqueue() kicks the manager.
SubmitReturns(j) ==
    /\ j \in creating
    /\ creating' = creating \ {j}
    /\ Kick(retryTimer)
    /\ UNCHANGED <<table, life, stopped, explicit, job, aborted, cancelling,
                   history>>

\* The INSERT committed but the connection broke: enqueue() throws, unkicked.
SubmitUnanswered(j) ==
    /\ j \in creating
    /\ creating' = creating \ {j}
    /\ lost' = lost \cup {j}
    /\ Fault
    /\ UNCHANGED <<table, life, manager, cancelling, asked, restarts>>

\* The UPDATE of cancel() commits.  A cancellation is late once drain() has
\* read the row it decides the outcome of the job from.  A closing server only
\* serves the requests it had accepted: one cancellation of a job.
Cancel(j) ==
    /\ life = "up"
    /\ stopped => asked[j] = "no"
    /\ Cancellable(jobs[j])
    /\ jobs' = [jobs EXCEPT ![j] = CancelledRow(@)]
    /\ cancelling' = IF jobs[j].status = "running"
                     THEN cancelling \cup {j} ELSE cancelling
    /\ asked' = [asked EXCEPT ![j] =
                    IF @ # "no" THEN @
                    ELSE IF job = j /\ pc \notin BeforeCheck THEN "late"
                    ELSE "early"]
    /\ UNCHANGED <<saved, life, manager, creating, lost, faults, restarts>>

\* The catch of an AnalysisCancelledError that never marks the row.
LeaveOnAbort(exp, stop) == "finishing"

\* Where the catch of an AnalysisCancelledError goes: the row is marked only
\* when a user, not the shutdown, aborted the job.
CatchCancelled(exp, stop) ==
    IF ~stop \/ job \in exp THEN "cancelling" ELSE "finishing"

\* controller.abort(): a running worker is terminated and drain() resumes in
\* its catch; a job that has not reached its worker is refused there; a job
\* past its worker takes no notice.
Abort(exp, stop) ==
    /\ aborted' = TRUE
    /\ pc' = IF pc = "working" THEN CatchCancelled(exp, stop) ELSE pc

\* cancel() that registers the job drain() has at hand, not the one cancelled.
CancelRegistersCurrent(j) ==
    /\ j \in cancelling
    /\ cancelling' = cancelling \ {j}
    /\ explicit' = explicit \cup {job}
    /\ \/ job = j /\ pc \in Controlled /\ Abort(explicit', stopped)
       \/ ~(job = j /\ pc \in Controlled) /\ UNCHANGED <<aborted, pc>>
    /\ UNCHANGED <<table, life, stopped, retryTimer, rerun, gate, job,
                   creating, history>>

\* cancel() is answered with a running row.
CancelReturns(j) ==
    /\ j \in cancelling
    /\ cancelling' = cancelling \ {j}
    /\ explicit' = explicit \cup {j}
    /\ \/ job = j /\ pc \in Controlled /\ Abort(explicit', stopped)
       \/ ~(job = j /\ pc \in Controlled) /\ UNCHANGED <<aborted, pc>>
    /\ UNCHANGED <<table, life, stopped, retryTimer, rerun, gate, job,
                   creating, history>>

\* The UPDATE of cancel() committed but its answer is lost: nothing is aborted.
CancelUnanswered(j) ==
    /\ j \in cancelling
    /\ cancelling' = cancelling \ {j}
    /\ Fault
    /\ UNCHANGED <<table, life, manager, creating, asked, lost, restarts>>

\* A request runs a backtest, the Strategy Lab or the advanced analysis itself.
HttpAnalysisStarts ==
    /\ life = "up"
    /\ gate = "free"
    /\ gate' = "http"
    /\ UNCHANGED <<table, life, stopped, retryTimer, rerun, explicit, pc, job,
                   aborted, client, history>>

HttpAnalysisEnds ==
    /\ gate = "http"
    /\ gate' = "free"
    /\ UNCHANGED <<table, life, stopped, retryTimer, rerun, explicit, pc, job,
                   aborted, client, history>>

-----------------------------------------------------------------------------
(* drain(): claim a job, execute it, write its outcome                      *)

\* The UPDATE of claimNext() commits: the first claimable row, or none.
Claim ==
    /\ pc = "claiming"
    /\ pc' = "claimed"
    /\ \/ \E j \in Jobs :
             /\ Claimable(jobs[j])
             /\ \A k \in Jobs : Claimable(jobs[k]) => j <= k
             /\ jobs' = [jobs EXCEPT ![j] = ClaimedRow(@)]
             /\ job' = j
       \/ /\ \A k \in Jobs : ~Claimable(jobs[k])
          /\ job' = NoJob
          /\ UNCHANGED jobs
    /\ UNCHANGED <<saved, life, stopped, retryTimer, rerun, explicit, gate,
                   aborted, client, history>>

\* claimNext() is answered: no job ends drain(), a job gets its controller.
ClaimReturns ==
    /\ pc = "claimed"
    /\ \/ /\ job = NoJob
          /\ DrainEnds(FALSE)
       \/ /\ job # NoJob
          /\ pc' = "reading"
          /\ UNCHANGED <<retryTimer, rerun, gate>>
    /\ UNCHANGED <<table, life, stopped, explicit, job, aborted, client,
                   history>>

\* claimNext() fails, before its UPDATE or after it committed: drain() fails,
\* and in the second case the claimed row is left running.
ClaimFails ==
    /\ pc \in {"claiming", "claimed"}
    /\ Fault
    /\ job' = NoJob
    /\ DrainEnds(TRUE)
    /\ UNCHANGED <<table, life, stopped, explicit, aborted, client, asked,
                   lost, restarts>>

\* The contests are listed.  A history that cannot be read, has too many
\* rounds, or whose worker cannot be built fails the job.
ReadContests ==
    /\ pc = "reading"
    /\ \/ pc' = "failing"
       \/ aborted  /\ pc' = CatchCancelled(explicit, stopped)
       \/ ~aborted /\ pc' = "working"
    /\ UNCHANGED <<table, life, stopped, retryTimer, rerun, explicit, gate,
                   job, aborted, client, history>>

\* A worker whose answer is never persisted.
WorkerUnsaved ==
    /\ pc = "working"
    /\ pc' \in {"failing", "checking"}
    /\ UNCHANGED <<table, life, stopped, retryTimer, rerun, explicit, gate,
                   job, aborted, client, history>>

\* The worker answers, or fails, exits or exceeds its time limit.
WorkerSettles ==
    /\ pc = "working"
    /\ pc' \in {"failing", IF job \in Persisting THEN "saving" ELSE "checking"}
    /\ UNCHANGED <<table, life, stopped, retryTimer, rerun, explicit, gate,
                   job, aborted, client, history>>

\* backtests.save(): a transaction that commits or not, answered or not.
SaveRun ==
    /\ pc = "saving"
    /\ \/ /\ saved' = [saved EXCEPT ![job] = @ + 1]
          /\ pc' = "checking"
          /\ UNCHANGED faults
       \/ /\ saved' \in {saved, [saved EXCEPT ![job] = @ + 1]}
          /\ pc' = "failing"
          /\ Fault
    /\ UNCHANGED <<jobs, life, stopped, retryTimer, rerun, explicit, gate,
                   job, aborted, client, asked, lost, restarts>>

\* drain() that takes the answer of findById() for granted.
CheckNothing ==
    /\ pc = "checking"
    /\ pc' = "completing"
    /\ UNCHANGED <<table, life, stopped, retryTimer, rerun, explicit, gate,
                   job, aborted, client, history>>

\* findById() decides between complete() and markCancelled().
CheckCancelled ==
    /\ pc = "checking"
    /\ \/ /\ pc' = IF jobs[job].cancelRequested THEN "marking" ELSE "completing"
          /\ UNCHANGED faults
       \/ pc' = "failing" /\ Fault
    /\ UNCHANGED <<table, life, stopped, retryTimer, rerun, explicit, gate,
                   job, aborted, client, asked, lost, restarts>>

\* complete(), or the markCancelled() in the same try block: row becomes
\* outcome.  Either one throws into the catch that fails the job when it is
\* rejected, unanswered, or finds the row no longer running.
WriteOutcome(outcome) ==
    /\ \/ /\ jobs' = [jobs EXCEPT ![job] = outcome]
          /\ pc' = IF jobs[job].status = "running"
                   THEN "finishing" ELSE "failing"
          /\ UNCHANGED faults
       \/ /\ jobs' \in {jobs, [jobs EXCEPT ![job] = outcome]}
          /\ pc' = "failing"
          /\ Fault
    /\ UNCHANGED <<saved, life, stopped, retryTimer, rerun, explicit, gate,
                   job, aborted, client, asked, lost, restarts>>

Complete ==
    pc = "completing" /\ WriteOutcome(CompletedRow(jobs[job]))

MarkCancelled ==
    pc = "marking" /\ WriteOutcome(MarkedCancelledRow(jobs[job]))

\* The statements of the catch block, whose own errors are swallowed.
WriteCaught(outcome) ==
    /\ pc' = "finishing"
    /\ \/ jobs' = [jobs EXCEPT ![job] = outcome] /\ UNCHANGED faults
       \/ UNCHANGED jobs /\ Fault
    /\ UNCHANGED <<saved, life, stopped, retryTimer, rerun, explicit, gate,
                   job, aborted, client, asked, lost, restarts>>

MarkAborted ==
    pc = "cancelling" /\ WriteCaught(MarkedCancelledRow(jobs[job]))

Fail ==
    pc = "failing" /\ WriteCaught(FailedRow(jobs[job]))

\* The two finally blocks, then delay(0).
FinishJob ==
    /\ pc = "finishing"
    /\ explicit' = explicit \ {job}
    /\ job' = NoJob
    /\ aborted' = FALSE
    /\ gate' = "free"
    /\ pc' = "yielding"
    /\ UNCHANGED <<table, life, stopped, retryTimer, rerun, client, history>>

\* delay(0) is over: drain() goes round its loop, or returns because the
\* manager was stopped or the gate was taken meanwhile.
LoopAgain ==
    /\ pc = "yielding"
    /\ \/ stopped /\ pc' = "idle" /\ UNCHANGED <<retryTimer, rerun, gate>>
       \/ /\ ~stopped
          /\ TryAcquire(gate, retryTimer)
          /\ rerun' = (rerun /\ gate = "free")
    /\ UNCHANGED <<table, life, stopped, explicit, job, aborted, client,
                   history>>

RetryFires ==
    /\ retryTimer
    /\ Kick(FALSE)
    /\ UNCHANGED <<table, life, stopped, explicit, job, aborted, client,
                   history>>

-----------------------------------------------------------------------------
(* The process                                                             *)

\* What the end of the process leaves of its memory.
Forget ==
    /\ life' = "down"
    /\ stopped' = FALSE
    /\ retryTimer' = FALSE
    /\ rerun' = FALSE
    /\ explicit' = {}
    /\ gate' = "free"
    /\ pc' = "idle"
    /\ job' = NoJob
    /\ aborted' = FALSE
    /\ creating' = {}
    /\ cancelling' = {}

\* main() holds the runtime lock and calls start().
Boot ==
    /\ life = "down"
    /\ life' = "recovering"
    /\ UNCHANGED <<table, manager, client, history>>

\* recoverRunning() is answered: start() kicks the manager, then main()
\* listens.
Recover ==
    /\ life = "recovering"
    /\ life' = "up"
    /\ jobs' = [j \in Jobs |-> RecoveredRow(jobs[j])]
    /\ lost' = {}
    /\ Kick(retryTimer)
    /\ UNCHANGED <<saved, stopped, explicit, job, aborted, client, asked,
                   faults, restarts>>

\* recoverRunning() fails, committed or not: main() cleans up and exits.
RecoverFails ==
    /\ life = "recovering"
    /\ jobs' \in {jobs, [j \in Jobs |-> RecoveredRow(jobs[j])]}
    /\ Fault
    /\ Forget
    /\ UNCHANGED <<saved, asked, lost, restarts>>

\* stopAndDrain(), called by shutdown() on SIGINT or SIGTERM.
Stop ==
    /\ life = "up"
    /\ ~stopped
    /\ restarts < MaxRestarts
    /\ restarts' = restarts + 1
    /\ stopped' = TRUE
    /\ rerun' = FALSE
    /\ retryTimer' = FALSE
    /\ \/ pc \in Controlled    /\ Abort(explicit, TRUE)
       \/ pc \notin Controlled /\ UNCHANGED <<aborted, pc>>
    /\ UNCHANGED <<table, life, explicit, gate, job, client, asked, lost,
                   faults>>

\* The server has answered its requests and drain() has returned.
Exit ==
    /\ life = "up"
    /\ stopped
    /\ pc = "idle"
    /\ gate # "http"
    /\ creating = {} /\ cancelling = {}
    /\ Forget
    /\ UNCHANGED <<table, history>>

\* The process dies.
Crash ==
    /\ life # "down"
    /\ restarts < MaxRestarts
    /\ restarts' = restarts + 1
    /\ Forget
    /\ UNCHANGED <<table, asked, lost, faults>>

-----------------------------------------------------------------------------
Request(j) ==
    \/ Submit(j)
    \/ SubmitReturns(j)
    \/ SubmitUnanswered(j)
    \/ Cancel(j)
    \/ CancelReturns(j)
    \/ CancelUnanswered(j)

Drain ==
    \/ Claim
    \/ ClaimReturns
    \/ ClaimFails
    \/ ReadContests
    \/ WorkerSettles
    \/ SaveRun
    \/ CheckCancelled
    \/ Complete
    \/ MarkCancelled
    \/ MarkAborted
    \/ Fail
    \/ FinishJob
    \/ LoopAgain

Process ==
    \/ RetryFires
    \/ HttpAnalysisStarts
    \/ HttpAnalysisEnds
    \/ Boot
    \/ Recover
    \/ RecoverFails
    \/ Stop
    \/ Exit
    \/ Crash

Next == (\E j \in Jobs : Request(j)) \/ Drain \/ Process

Spec == Init /\ [][Next]_vars

\* What Node.js, the worker's time limit and PostgreSQL guarantee: a statement
\* is answered, a worker settles, a timer fires, a request that holds the gate
\* ends, and the process is started again.  Nothing makes a request arrive, a
\* statement fail or the process stop.
Fairness ==
    /\ WF_vars(Drain)
    /\ WF_vars(RetryFires)
    /\ WF_vars(HttpAnalysisEnds)
    /\ WF_vars(Boot \/ Recover)
    /\ WF_vars(Exit)
    /\ \A j \in Jobs : WF_vars(SubmitReturns(j)) /\ WF_vars(CancelReturns(j))

FairSpec == Spec /\ Fairness

-----------------------------------------------------------------------------
(* Safety                                                                  *)

\* No statement of the repository leaves a row that the CHECK constraint of
\* migration 008 refuses, whatever the order the statements arrive in.
TimestampsHold == \A j \in Jobs : TimestampsCheck(jobs[j])

\* The gate is taken exactly while drain() needs it: a job and a request's own
\* analysis never run together, and no path of drain() keeps the gate.
GateIsExclusive == (gate = "drain") <=> (pc \in Holding)

\* The manager never sleeps on work.  While it is up and not stopped, a job
\* that can be claimed and whose enqueue() was answered finds drain() on its
\* way to another claim, a rerun requested, or the retry timer set.
WakeupPending ==
    \/ retryTimer
    \/ pc \notin {"idle", "claimed"}
    \/ pc = "claimed" /\ (job # NoJob \/ rerun)

NoLostWakeup ==
    (life = "up" /\ ~stopped
        /\ \E j \in Jobs \ (creating \cup lost) : Claimable(jobs[j]))
    => WakeupPending

\* Rows that say running and that drain() is not working on.
Orphans == {j \in Jobs : jobs[j].status = "running" /\ job # j}

\* Every row the manager leaves running behind its back was paid for by a
\* statement that failed, or by the shutdown that interrupted its job: a
\* running row is otherwise one the user is actually waiting for.
OrphansArePaidFor ==
    life = "up" =>
        Cardinality(Orphans) <= faults + (IF stopped THEN 1 ELSE 0)

\* A cancellation that reaches the table before drain() reads the row for the
\* last time is never overtaken by complete().
EarlyCancelWins ==
    \A j \in Jobs : asked[j] = "early" => jobs[j].status # "completed"

\* A job runs again only after a restart: the rows it leaves in backtest_runs
\* are at most one per life of the process it was started in.
RunsBoundedByRestarts == \A j \in Jobs : saved[j] <= restarts + 1

\* A completed backtest that was to be persisted has its run.
CompletedIsSaved ==
    \A j \in Persisting : jobs[j].status = "completed" => saved[j] >= 1

\* What a job leaves in backtest_runs: the run its completion promises, and no
\* more of them than lives of the process worked on it (save() of the worker
\* client and complete() are two statements).
SavedInBounds == RunsBoundedByRestarts /\ CompletedIsSaved

\* What the user of the API sees of a job is what the abstract queue promises.
JL == INSTANCE JobLifecycle
        WITH status <- [j \in Jobs |-> jobs[j].status],
             asked  <- {j \in Jobs : asked[j] # "no"}

LifecycleKept == JL!Spec

-----------------------------------------------------------------------------
(* Liveness                                                                *)

\* Requests do not hold the gate for ever, one after the other.
GateComesFree == <>[](gate # "http")

\* A queued job is claimed or cancelled in the end, even when claims fail: the
\* retry timer, rerun flag and restart recovery lose no job.
QueuedIsServed ==
    GateComesFree =>
        \A j \in Jobs : jobs[j].status = "queued" ~>
                            (jobs[j].status # "queued" \/ j \in lost)

NothingFails == [](faults = 0)

\* When no statement fails every submitted job reaches a terminal status, also
\* across a crash or a graceful stop; a granted cancellation ends it as well.
EveryJobSettles ==
    GateComesFree /\ NothingFails =>
        \A j \in Jobs : jobs[j].status = "queued" ~>
                            jobs[j].status \in Terminal
=============================================================================
