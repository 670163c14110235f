------------------------- MODULE AnalysisJobsProofs -------------------------
(***************************************************************************)
(* Theorems about the analysis queue of one server process, for every set  *)
(* of jobs and every bound on faults and restarts.                         *)
(***************************************************************************)
EXTENDS AnalysisJobs, FiniteSetTheorems, TLAPS

-----------------------------------------------------------------------------
(* The inductive invariant, in parts: ControlInv carries the others         *)

\* A process that is not up remembers nothing, the gate and the local variable
\* of drain() follow its program counter, and a controller is aborted only
\* while it exists.
MemoryInv ==
    /\ life # "up" =>
          /\ pc = "idle" /\ gate = "free"
          /\ ~stopped /\ ~retryTimer /\ ~rerun
          /\ creating = {} /\ cancelling = {} /\ explicit = {}
    /\ GateIsExclusive
    /\ pc \in {"idle", "yielding", "claiming"} => job = NoJob
    /\ pc \in Controlled => job \in Jobs
    /\ aborted => pc \in Controlled
    /\ pc = "working" => ~aborted

\* The row in drain()'s hands is running until its last statement.
OwnershipInv ==
    /\ job \in Jobs /\ pc \notin {"failing", "finishing"} =>
          jobs[job].status = "running"
    /\ job \in Jobs => jobs[job].status \notin {"absent", "queued"}

\* cancel_requested is set by users only: what drain() and recoverRunning()
\* decide from it, and from an aborted controller, is what a user asked for.
AskedInv ==
    /\ \A j \in Jobs : jobs[j].cancelRequested <=> asked[j] # "no"
    /\ \A j \in Jobs : jobs[j].status \in {"absent", "queued"} => asked[j] = "no"
    /\ \A j \in cancelling \cup explicit : asked[j] # "no"
    /\ aborted /\ ~stopped => asked[job] # "no"
    /\ pc \in {"marking", "cancelling"} => asked[job] # "no"

\* complete() is never on its way for a job cancelled early.
EarlyInv ==
    /\ EarlyCancelWins
    /\ pc = "completing" => asked[job] # "early"

\* The lives the process has begun; a graceful stop is counted when it begins.
Lives == restarts + (IF stopped THEN 0 ELSE 1)

\* Each life of the process saves at most one run of a job, and saves it before
\* the job can complete.
SavedInv ==
    /\ \A j \in Jobs :
          /\ saved[j] <= Lives
          /\ jobs[j].status \in {"absent", "queued"} => saved[j] < Lives
          /\ life # "up" /\ jobs[j].status = "running" => saved[j] < Lives
    /\ pc \in {"claimed", "reading", "working", "saving"} /\ job \in Jobs =>
          saved[job] < Lives
    /\ pc \in {"checking", "completing"} /\ job \in Persisting =>
          saved[job] >= 1
    /\ CompletedIsSaved

\* Running rows nobody will write the outcome of.
Stray == {j \in Jobs : jobs[j].status = "running"
                       /\ ~(job = j /\ pc # "finishing")}

\* The orphan a shutdown may leave appears when drain() is done with its job.
StrayBudget ==
    faults + (IF stopped /\ pc \in {"finishing", "yielding", "idle"}
              THEN 1 ELSE 0)

StrayInv == life = "up" => Cardinality(Stray) <= StrayBudget

ControlInv == TypeOK /\ MemoryInv /\ OwnershipInv /\ AskedInv

-----------------------------------------------------------------------------
(* The statements on a row                                                 *)

\* What each statement makes of a row: it stays a row, and only the columns
\* named change.
LEMMA Statements ==
    ASSUME NEW r \in Row
    PROVE  /\ AbsentRow \in Row /\ InsertedRow \in Row
           /\ ClaimedRow(r) \in Row
           /\ CompletedRow(r) \in Row
           /\ FailedRow(r) \in Row
           /\ MarkedCancelledRow(r) \in Row
           /\ CancelledRow(r) \in Row
           /\ RecoveredRow(r) \in Row
BY DEF Row, Status, AbsentRow, InsertedRow, ClaimedRow, CompletedRow,
       FailedRow, MarkedCancelledRow, CancelledRow, RecoveredRow

\* What each statement does to the status and to the cancel flag.
LEMMA StatementEffects ==
    ASSUME NEW r \in Row
    PROVE  /\ ClaimedRow(r).status = "running"
           /\ ClaimedRow(r).cancelRequested = r.cancelRequested
           /\ CompletedRow(r).status \in {r.status, "completed"}
           /\ CompletedRow(r).cancelRequested = r.cancelRequested
           /\ FailedRow(r).status \in {r.status, "failed"}
           /\ FailedRow(r).cancelRequested = r.cancelRequested
           /\ MarkedCancelledRow(r).status \in {r.status, "cancelled"}
           /\ r.cancelRequested => MarkedCancelledRow(r).cancelRequested
           /\ CancelledRow(r).cancelRequested
           /\ CancelledRow(r).status =
                 (IF r.status = "queued" THEN "cancelled" ELSE r.status)
           /\ RecoveredRow(r).cancelRequested = r.cancelRequested
           /\ RecoveredRow(r).status =
                 (IF r.status # "running" THEN r.status
                  ELSE IF r.cancelRequested THEN "cancelled" ELSE "queued")
BY DEF Row, Status, ClaimedRow, CompletedRow, FailedRow, MarkedCancelledRow,
       CancelledRow, RecoveredRow

\* No statement turns a row that satisfies the CHECK constraint into one that
\* does not.
LEMMA StatementsKeepTimestamps ==
    ASSUME NEW r \in Row, TimestampsCheck(r)
    PROVE  /\ TimestampsCheck(AbsentRow) /\ TimestampsCheck(InsertedRow)
           /\ Claimable(r) => TimestampsCheck(ClaimedRow(r))
           /\ TimestampsCheck(CompletedRow(r))
           /\ TimestampsCheck(FailedRow(r))
           /\ TimestampsCheck(MarkedCancelledRow(r))
           /\ Cancellable(r) => TimestampsCheck(CancelledRow(r))
           /\ TimestampsCheck(RecoveredRow(r))
BY DEF Row, Status, Terminal, TimestampsCheck, AbsentRow, InsertedRow,
       Claimable, Cancellable, ClaimedRow, CompletedRow, FailedRow,
       MarkedCancelledRow, CancelledRow, RecoveredRow

-----------------------------------------------------------------------------
(* Types                                                                   *)

\* The first state is typed.
LEMMA InitTypeOK == Init => TypeOK
<1> SUFFICES ASSUME Init PROVE TypeOK
  OBVIOUS
<1> USE DEF Init
<1>1. AbsentRow \in Row
  BY DEF AbsentRow, Row, Status
<1>2. TableTypes /\ ManagerTypes
  BY <1>1 DEF TableTypes, ManagerTypes
<1>3. DrainTypes /\ HistoryTypes
  BY DEF DrainTypes, HistoryTypes, Phases
<1> QED
  BY <1>2, <1>3 DEF TypeOK

\* kick() keeps the state typed.
LEMMA KickTypes ==
    ASSUME TypeOK, NEW t \in BOOLEAN, Kick(t)
    PROVE  /\ pc' \in Phases /\ gate' \in {"free", "drain", "http"}
           /\ retryTimer' \in BOOLEAN /\ rerun' \in BOOLEAN
BY DEF TypeOK, ManagerTypes, DrainTypes, Kick, TryAcquire, Phases, Holding

\* The end of drain() keeps the state typed.
LEMMA DrainEndsTypes ==
    ASSUME TypeOK, NEW f \in BOOLEAN, DrainEnds(f)
    PROVE  /\ pc' \in Phases /\ gate' \in {"free", "drain", "http"}
           /\ retryTimer' \in BOOLEAN /\ rerun' \in BOOLEAN
BY DEF TypeOK, ManagerTypes, DrainTypes, DrainEnds, TryAcquire, Phases, Holding

\* Every step keeps the state typed.
LEMMA NextTypeOK == TypeOK /\ [Next]_vars => TypeOK'
<1> SUFFICES ASSUME TypeOK, [Next]_vars PROVE TypeOK'
  OBVIOUS
<1> USE DEF TypeOK, TableTypes, ManagerTypes, DrainTypes, HistoryTypes,
            Phases, Holding, BeforeCheck, Closing
<1>1. ASSUME NEW j \in Jobs, Request(j) PROVE TypeOK'
  <2>1. CASE Submit(j)
    BY <2>1, Statements DEF Submit, manager, history
  <2>2. CASE SubmitReturns(j)
    BY <2>2, KickTypes DEF SubmitReturns, table, history
  <2>3. CASE SubmitUnanswered(j)
    BY <2>3 DEF SubmitUnanswered, Fault, table, manager
  <2>4. CASE Cancel(j)
    BY <2>4, Statements DEF Cancel, manager
  <2>5. CASE CancelReturns(j)
    <3>1. TableTypes'
      BY <2>5 DEF CancelReturns, Abort, CatchCancelled, table, history
    <3>2. ManagerTypes'
      BY <2>5 DEF CancelReturns, Abort, CatchCancelled, table, history
    <3>3. DrainTypes'
      BY <2>5 DEF CancelReturns, Abort, CatchCancelled, table, history
    <3>4. HistoryTypes'
      BY <2>5 DEF CancelReturns, Abort, CatchCancelled, table, history
    <3> QED BY <3>1, <3>2, <3>3, <3>4
  <2>6. CASE CancelUnanswered(j)
    BY <2>6 DEF CancelUnanswered, Fault, table, manager
  <2> QED BY <1>1, <2>1, <2>2, <2>3, <2>4, <2>5, <2>6 DEF Request
<1>2. CASE Drain
  <2>1. CASE Claim
    BY <2>1, Statements DEF Claim, client, history
  <2>2. CASE ClaimReturns
    BY <2>2, DrainEndsTypes DEF ClaimReturns, table, client, history
  <2>3. CASE ClaimFails
    <3>1. TableTypes'
      BY <2>3, DrainEndsTypes DEF ClaimFails, Fault, table, client
    <3>2. ManagerTypes'
      BY <2>3, DrainEndsTypes DEF ClaimFails, Fault, table, client
    <3>3. DrainTypes'
      BY <2>3, DrainEndsTypes DEF ClaimFails, Fault, table, client
    <3>4. HistoryTypes'
      BY <2>3, DrainEndsTypes DEF ClaimFails, Fault, table, client
    <3> QED BY <3>1, <3>2, <3>3, <3>4
  <2>4. CASE ReadContests
    BY <2>4 DEF ReadContests, CatchCancelled, table, client, history
  <2>5. CASE WorkerSettles
    BY <2>5 DEF WorkerSettles, table, client, history
  <2>6. CASE SaveRun
    BY <2>6 DEF SaveRun, Fault, client
  <2>7. CASE CheckCancelled
    BY <2>7 DEF CheckCancelled, Fault, table, client
  <2>8. CASE Complete
    BY <2>8, Statements DEF Complete, WriteOutcome, Fault, client
  <2>9. CASE MarkCancelled
    BY <2>9, Statements DEF MarkCancelled, WriteOutcome, Fault, client
  <2>10. CASE MarkAborted
    BY <2>10, Statements DEF MarkAborted, WriteCaught, Fault, client
  <2>11. CASE Fail
    BY <2>11, Statements DEF Fail, WriteCaught, Fault, client
  <2>12. CASE FinishJob
    BY <2>12 DEF FinishJob, table, client, history
  <2>13. CASE LoopAgain
    BY <2>13 DEF LoopAgain, TryAcquire, table, client, history
  <2> QED
    BY <1>2, <2>1, <2>2, <2>3, <2>4, <2>5, <2>6, <2>7, <2>8, <2>9, <2>10,
       <2>11, <2>12, <2>13 DEF Drain
<1>3. CASE Process
  <2>1. CASE RetryFires
    BY <2>1, KickTypes DEF RetryFires, table, client, history
  <2>2. CASE HttpAnalysisStarts \/ HttpAnalysisEnds
    BY <2>2 DEF HttpAnalysisStarts, HttpAnalysisEnds, table, client, history
  <2>3. CASE Boot
    BY <2>3 DEF Boot, table, manager, client, history
  <2>4. CASE Recover
    BY <2>4, KickTypes, Statements DEF Recover, client
  <2>5. CASE RecoverFails
    <3>1. TableTypes'
      BY <2>5, Statements DEF RecoverFails, Forget, Fault
    <3>2. ManagerTypes'
      BY <2>5, Statements DEF RecoverFails, Forget, Fault
    <3>3. DrainTypes'
      BY <2>5, Statements DEF RecoverFails, Forget, Fault
    <3>4. HistoryTypes'
      BY <2>5, Statements DEF RecoverFails, Forget, Fault
    <3> QED BY <3>1, <3>2, <3>3, <3>4
  <2>6. CASE Stop
    <3>1. TableTypes'
      BY <2>6 DEF Stop, Abort, CatchCancelled, table, client
    <3>2. ManagerTypes'
      BY <2>6 DEF Stop, Abort, CatchCancelled, table, client
    <3>3. DrainTypes'
      BY <2>6 DEF Stop, Abort, CatchCancelled, table, client
    <3>4. HistoryTypes'
      BY <2>6 DEF Stop, Abort, CatchCancelled, table, client
    <3> QED BY <3>1, <3>2, <3>3, <3>4
  <2>7. CASE Exit
    BY <2>7 DEF Exit, Forget, table, history
  <2>8. CASE Crash
    <3>1. TableTypes'
      BY <2>8 DEF Crash, Forget, table
    <3>2. ManagerTypes'
      BY <2>8 DEF Crash, Forget, table
    <3>3. DrainTypes'
      BY <2>8 DEF Crash, Forget, table
    <3>4. HistoryTypes'
      BY <2>8 DEF Crash, Forget, table
    <3> QED BY <3>1, <3>2, <3>3, <3>4
  <2> QED
    BY <1>3, <2>1, <2>2, <2>3, <2>4, <2>5, <2>6, <2>7, <2>8 DEF Process
<1>4. CASE UNCHANGED vars
  BY <1>4 DEF vars, table, manager, client, history
<1> QED BY <1>1, <1>2, <1>3, <1>4 DEF Next

\* Every variable keeps its type.
THEOREM TypeCorrect == Spec => []TypeOK
BY InitTypeOK, NextTypeOK, PTL DEF Spec

-----------------------------------------------------------------------------
(* What the process remembers                                              *)

\* Nothing is held in memory at first.
LEMMA InitMemory == Init => MemoryInv
BY NoJobAssumption
   DEF Init, MemoryInv, GateIsExclusive, Holding, BeforeCheck, Closing,
       Controlled

\* Every step keeps what the process remembers consistent.
LEMMA NextMemory == TypeOK /\ MemoryInv /\ [Next]_vars => MemoryInv'
<1> SUFFICES ASSUME TypeOK, MemoryInv, [Next]_vars PROVE MemoryInv'
  OBVIOUS
<1> USE NoJobAssumption
    DEF TypeOK, ManagerTypes, DrainTypes, MemoryInv, GateIsExclusive, Phases,
        Holding, BeforeCheck, Closing, Controlled,
        table, manager, client, history
<1>1. ASSUME NEW j \in Jobs, Request(j) PROVE MemoryInv'
  <2>1. CASE Submit(j)
    BY <2>1 DEF Submit
  <2>2. CASE SubmitReturns(j)
    BY <2>2 DEF SubmitReturns, Kick, TryAcquire
  <2>3. CASE SubmitUnanswered(j)
    BY <2>3 DEF SubmitUnanswered, Fault
  <2>4. CASE Cancel(j)
    BY <2>4 DEF Cancel
  <2>5. CASE CancelReturns(j)
    BY <2>5 DEF CancelReturns, Abort, CatchCancelled
  <2>6. CASE CancelUnanswered(j)
    BY <2>6 DEF CancelUnanswered, Fault
  <2> QED
    BY <1>1, <2>1, <2>2, <2>3, <2>4, <2>5, <2>6 DEF Request
<1>2. CASE Drain
  <2>1. CASE Claim
    BY <2>1 DEF Claim
  <2>2. CASE ClaimReturns
    BY <2>2 DEF ClaimReturns, DrainEnds, TryAcquire
  <2>3. CASE ClaimFails
    BY <2>3 DEF ClaimFails, Fault, DrainEnds, TryAcquire
  <2>4. CASE ReadContests
    BY <2>4 DEF ReadContests, CatchCancelled
  <2>5. CASE WorkerSettles
    BY <2>5 DEF WorkerSettles
  <2>6. CASE SaveRun
    BY <2>6 DEF SaveRun, Fault
  <2>7. CASE CheckCancelled
    BY <2>7 DEF CheckCancelled, Fault
  <2>8. CASE Complete
    BY <2>8 DEF Complete, WriteOutcome, Fault
  <2>9. CASE MarkCancelled
    BY <2>9 DEF MarkCancelled, WriteOutcome, Fault
  <2>10. CASE MarkAborted
    BY <2>10 DEF MarkAborted, WriteCaught, Fault
  <2>11. CASE Fail
    BY <2>11 DEF Fail, WriteCaught, Fault
  <2>12. CASE FinishJob
    BY <2>12 DEF FinishJob
  <2>13. CASE LoopAgain
    BY <2>13 DEF LoopAgain, TryAcquire
  <2> QED
    BY <1>2, <2>1, <2>2, <2>3, <2>4, <2>5, <2>6, <2>7, <2>8, <2>9,
       <2>10, <2>11, <2>12, <2>13 DEF Drain
<1>3. CASE Process
  <2>1. CASE RetryFires
    BY <2>1 DEF RetryFires, Kick, TryAcquire
  <2>2. CASE HttpAnalysisStarts
    BY <2>2 DEF HttpAnalysisStarts
  <2>3. CASE HttpAnalysisEnds
    BY <2>3 DEF HttpAnalysisEnds
  <2>4. CASE Boot
    BY <2>4 DEF Boot
  <2>5. CASE Recover
    BY <2>5 DEF Recover, Kick, TryAcquire
  <2>6. CASE RecoverFails
    BY <2>6 DEF RecoverFails, Forget, Fault
  <2>7. CASE Stop
    BY <2>7 DEF Stop, Abort, CatchCancelled
  <2>8. CASE Exit
    BY <2>8 DEF Exit, Forget
  <2>9. CASE Crash
    BY <2>9 DEF Crash, Forget
  <2> QED
    BY <1>3, <2>1, <2>2, <2>3, <2>4, <2>5, <2>6, <2>7, <2>8, <2>9 DEF
       Process
<1>4. CASE UNCHANGED vars
  BY <1>4 DEF vars
<1> QED BY <1>1, <1>2, <1>3, <1>4 DEF Next

-----------------------------------------------------------------------------
(* Rows in drain()'s hands, and what users asked for                       *)

\* Nobody owns a row at first.
LEMMA InitOwnership == Init => OwnershipInv /\ AskedInv
BY NoJobAssumption DEF Init, OwnershipInv, AskedInv, AbsentRow

\* Every step keeps one owner to a row.
LEMMA NextOwnership ==
    TypeOK /\ MemoryInv /\ OwnershipInv /\ [Next]_vars => OwnershipInv'
<1> SUFFICES ASSUME TypeOK, MemoryInv, OwnershipInv, [Next]_vars
             PROVE  OwnershipInv'
  OBVIOUS
<1> USE NoJobAssumption
    DEF TypeOK, TableTypes, DrainTypes, MemoryInv, OwnershipInv, Phases,
        Holding, BeforeCheck, Closing, Controlled, Row, Status,
        table, manager, client, history
<1>1. ASSUME NEW j \in Jobs, Request(j) PROVE OwnershipInv'
  <2>1. CASE Submit(j)
    BY <2>1 DEF Submit, AbsentRow
  <2>2. CASE SubmitReturns(j)
    BY <2>2 DEF SubmitReturns, Kick, TryAcquire
  <2>3. CASE SubmitUnanswered(j)
    BY <2>3 DEF SubmitUnanswered, Fault
  <2>4. CASE Cancel(j)
    BY <2>4 DEF Cancel, Cancellable, CancelledRow
  <2>5. CASE CancelReturns(j)
    BY <2>5 DEF CancelReturns, Abort, CatchCancelled
  <2>6. CASE CancelUnanswered(j)
    BY <2>6 DEF CancelUnanswered, Fault
  <2> QED
    BY <1>1, <2>1, <2>2, <2>3, <2>4, <2>5, <2>6 DEF Request
<1>2. CASE Drain
  <2>1. CASE Claim
    <3>1. PICK j \in Jobs \cup {NoJob} :
             /\ job' = j
             /\ j \in Jobs => jobs' = [jobs EXCEPT ![j] = ClaimedRow(jobs[j])]
      BY <2>1 DEF Claim
    <3>2. job' \in Jobs => jobs'[job'].status = "running"
      BY <3>1, StatementEffects
    <3> QED
      BY <2>1, <3>2 DEF Claim
  <2>2. CASE ClaimReturns
    BY <2>2 DEF ClaimReturns, DrainEnds, TryAcquire
  <2>3. CASE ClaimFails
    BY <2>3 DEF ClaimFails, Fault, DrainEnds, TryAcquire
  <2>4. CASE ReadContests
    BY <2>4 DEF ReadContests, CatchCancelled
  <2>5. CASE WorkerSettles
    BY <2>5 DEF WorkerSettles
  <2>6. CASE SaveRun
    BY <2>6 DEF SaveRun, Fault
  <2>7. CASE CheckCancelled
    BY <2>7 DEF CheckCancelled, Fault
  <2>8. CASE Complete
    <3>1. job \in Jobs /\ job' = job /\ pc' \in {"finishing", "failing"}
      BY <2>8 DEF Complete, WriteOutcome
    <3>2. jobs'[job] \in {jobs[job], CompletedRow(jobs[job])}
      BY <2>8, <3>1 DEF Complete, WriteOutcome
    <3>3. CompletedRow(jobs[job]).status \notin {"absent", "queued"}
      BY <3>1, StatementEffects
    <3> QED
      BY <3>1, <3>2, <3>3
  <2>9. CASE MarkCancelled
    <3>1. job \in Jobs /\ job' = job /\ pc' \in {"finishing", "failing"}
      BY <2>9 DEF MarkCancelled, WriteOutcome
    <3>2. jobs'[job] \in {jobs[job], MarkedCancelledRow(jobs[job])}
      BY <2>9, <3>1 DEF MarkCancelled, WriteOutcome
    <3>3. MarkedCancelledRow(jobs[job]).status \notin {"absent", "queued"}
      BY <3>1, StatementEffects
    <3> QED
      BY <3>1, <3>2, <3>3
  <2>10. CASE MarkAborted
    <3>1. job \in Jobs /\ job' = job /\ pc' \in {"finishing", "failing"}
      BY <2>10 DEF MarkAborted, WriteCaught
    <3>2. jobs'[job] \in {jobs[job], MarkedCancelledRow(jobs[job])}
      BY <2>10, <3>1 DEF MarkAborted, WriteCaught
    <3>3. MarkedCancelledRow(jobs[job]).status \notin {"absent", "queued"}
      BY <3>1, StatementEffects
    <3> QED
      BY <3>1, <3>2, <3>3
  <2>11. CASE Fail
    <3>1. job \in Jobs /\ job' = job /\ pc' \in {"finishing", "failing"}
      BY <2>11 DEF Fail, WriteCaught
    <3>2. jobs'[job] \in {jobs[job], FailedRow(jobs[job])}
      BY <2>11, <3>1 DEF Fail, WriteCaught
    <3>3. FailedRow(jobs[job]).status \notin {"absent", "queued"}
      BY <3>1, StatementEffects
    <3> QED
      BY <3>1, <3>2, <3>3
  <2>12. CASE FinishJob
    BY <2>12 DEF FinishJob
  <2>13. CASE LoopAgain
    BY <2>13 DEF LoopAgain, TryAcquire
  <2> QED
    BY <1>2, <2>1, <2>2, <2>3, <2>4, <2>5, <2>6, <2>7, <2>8, <2>9,
       <2>10, <2>11, <2>12, <2>13 DEF Drain
<1>3. CASE Process
  <2>1. CASE RetryFires
    BY <2>1 DEF RetryFires, Kick, TryAcquire
  <2>2. CASE HttpAnalysisStarts
    BY <2>2 DEF HttpAnalysisStarts
  <2>3. CASE HttpAnalysisEnds
    BY <2>3 DEF HttpAnalysisEnds
  <2>4. CASE Boot
    BY <2>4 DEF Boot
  <2>5. CASE Recover
    BY <2>5 DEF Recover, Kick, TryAcquire
  <2>6. CASE RecoverFails
    BY <2>6 DEF RecoverFails, Forget, Fault
  <2>7. CASE Stop
    BY <2>7 DEF Stop, Abort, CatchCancelled
  <2>8. CASE Exit
    BY <2>8 DEF Exit, Forget
  <2>9. CASE Crash
    BY <2>9 DEF Crash, Forget
  <2> QED
    BY <1>3, <2>1, <2>2, <2>3, <2>4, <2>5, <2>6, <2>7, <2>8, <2>9 DEF
       Process
<1>4. CASE UNCHANGED vars
  BY <1>4 DEF vars
<1> QED BY <1>1, <1>2, <1>3, <1>4 DEF Next

\* Every step keeps the cancellations asked for and those marked the same.
LEMMA NextAsked ==
    TypeOK /\ MemoryInv /\ OwnershipInv /\ AskedInv /\ [Next]_vars
    => AskedInv'
<1> SUFFICES ASSUME TypeOK, MemoryInv, OwnershipInv, AskedInv, [Next]_vars
             PROVE  AskedInv'
  OBVIOUS
<1> USE NoJobAssumption
    DEF TypeOK, TableTypes, DrainTypes, HistoryTypes, MemoryInv, OwnershipInv,
        AskedInv, Phases, Holding, BeforeCheck, Closing, Controlled,
        table, manager, client, history
<1>1. ASSUME NEW j \in Jobs, Request(j) PROVE AskedInv'
  <2>1. CASE Submit(j)
    BY <2>1 DEF Submit, AbsentRow, InsertedRow
  <2>2. CASE SubmitReturns(j)
    BY <2>2 DEF SubmitReturns, Kick, TryAcquire
  <2>3. CASE SubmitUnanswered(j)
    BY <2>3 DEF SubmitUnanswered, Fault
  <2>4. CASE Cancel(j)
    BY <2>4, StatementEffects DEF Cancel, Cancellable
  <2>5. CASE CancelReturns(j)
    BY <2>5 DEF CancelReturns, Abort, CatchCancelled
  <2>6. CASE CancelUnanswered(j)
    BY <2>6 DEF CancelUnanswered, Fault
  <2> QED
    BY <1>1, <2>1, <2>2, <2>3, <2>4, <2>5, <2>6 DEF Request
<1>2. CASE Drain
  <2>1. CASE Claim
    <3>1. CASE job' = NoJob
      BY <2>1, <3>1 DEF Claim
    <3>2. CASE job' # NoJob
      <4>1. PICK j \in Jobs : /\ jobs[j].status = "queued"
                              /\ jobs' = [jobs EXCEPT ![j] = ClaimedRow(jobs[j])]
        BY <2>1, <3>2 DEF Claim, Claimable
      <4>2. \A k \in Jobs : jobs'[k].cancelRequested = jobs[k].cancelRequested
        BY <4>1, StatementEffects
      <4>3. \A k \in Jobs : jobs'[k].status \in {jobs[k].status, "running"}
        BY <4>1, StatementEffects
      <4>4. ~aborted /\ pc' = "claimed" /\ UNCHANGED <<asked, aborted>>
        BY <2>1 DEF Claim
      <4>5. UNCHANGED <<cancelling, explicit>>
        BY <2>1 DEF Claim
      <4> QED
        BY <4>2, <4>3, <4>4, <4>5
    <3> QED
      BY <3>1, <3>2
  <2>2. CASE ClaimReturns
    BY <2>2 DEF ClaimReturns, DrainEnds, TryAcquire
  <2>3. CASE ClaimFails
    BY <2>3 DEF ClaimFails, Fault, DrainEnds, TryAcquire
  <2>4. CASE ReadContests
    BY <2>4 DEF ReadContests, CatchCancelled
  <2>5. CASE WorkerSettles
    BY <2>5 DEF WorkerSettles
  <2>6. CASE SaveRun
    BY <2>6 DEF SaveRun, Fault
  <2>7. CASE CheckCancelled
    BY <2>7 DEF CheckCancelled, Fault
  <2>8. CASE Complete
    BY <2>8, StatementEffects, SMTT(40) DEF Complete, WriteOutcome, Fault
  <2>9. CASE MarkCancelled
    <3>1. /\ job \in Jobs /\ pc' \in {"finishing", "failing"}
          /\ UNCHANGED <<job, asked, cancelling, explicit, aborted, stopped>>
      BY <2>9 DEF MarkCancelled, WriteOutcome
    <3>2. jobs' \in {jobs, [jobs EXCEPT ![job] = MarkedCancelledRow(jobs[job])]}
      BY <2>9 DEF MarkCancelled, WriteOutcome
    <3>3. MarkedCancelledRow(jobs[job]).cancelRequested <=> asked[job] # "no"
      BY <2>9, <3>1, StatementEffects DEF MarkCancelled
    <3>4. MarkedCancelledRow(jobs[job]).status \notin {"absent", "queued"}
      BY <3>1, StatementEffects
    <3>5. \A j \in Jobs : jobs'[j].cancelRequested <=> asked[j] # "no"
      BY <3>1, <3>2, <3>3
    <3>6. \A j \in Jobs :
             jobs'[j].status \in {"absent", "queued"} => asked[j] = "no"
      BY <3>1, <3>2, <3>4
    <3> QED
      BY <3>1, <3>5, <3>6
  <2>10. CASE MarkAborted
    <3>1. /\ job \in Jobs /\ pc' \in {"finishing", "failing"}
          /\ UNCHANGED <<job, asked, cancelling, explicit, aborted, stopped>>
      BY <2>10 DEF MarkAborted, WriteCaught
    <3>2. jobs' \in {jobs, [jobs EXCEPT ![job] = MarkedCancelledRow(jobs[job])]}
      BY <2>10 DEF MarkAborted, WriteCaught
    <3>3. MarkedCancelledRow(jobs[job]).cancelRequested <=> asked[job] # "no"
      BY <2>10, <3>1, StatementEffects DEF MarkAborted
    <3>4. MarkedCancelledRow(jobs[job]).status \notin {"absent", "queued"}
      BY <3>1, StatementEffects
    <3>5. \A j \in Jobs : jobs'[j].cancelRequested <=> asked[j] # "no"
      BY <3>1, <3>2, <3>3
    <3>6. \A j \in Jobs :
             jobs'[j].status \in {"absent", "queued"} => asked[j] = "no"
      BY <3>1, <3>2, <3>4
    <3> QED
      BY <3>1, <3>5, <3>6
  <2>11. CASE Fail
    <3>1. /\ job \in Jobs /\ pc' \in {"finishing", "failing"}
          /\ UNCHANGED <<job, asked, cancelling, explicit, aborted, stopped>>
      BY <2>11 DEF Fail, WriteCaught
    <3>2. jobs' \in {jobs, [jobs EXCEPT ![job] = FailedRow(jobs[job])]}
      BY <2>11 DEF Fail, WriteCaught
    <3>3. FailedRow(jobs[job]).cancelRequested <=> asked[job] # "no"
      BY <2>11, <3>1, StatementEffects DEF Fail
    <3>4. FailedRow(jobs[job]).status \notin {"absent", "queued"}
      BY <3>1, StatementEffects
    <3>5. \A j \in Jobs : jobs'[j].cancelRequested <=> asked[j] # "no"
      BY <3>1, <3>2, <3>3
    <3>6. \A j \in Jobs :
             jobs'[j].status \in {"absent", "queued"} => asked[j] = "no"
      BY <3>1, <3>2, <3>4
    <3> QED
      BY <3>1, <3>5, <3>6
  <2>12. CASE FinishJob
    BY <2>12 DEF FinishJob
  <2>13. CASE LoopAgain
    BY <2>13 DEF LoopAgain, TryAcquire
  <2> QED
    BY <1>2, <2>1, <2>2, <2>3, <2>4, <2>5, <2>6, <2>7, <2>8, <2>9,
       <2>10, <2>11, <2>12, <2>13 DEF Drain
<1>3. CASE Process
  <2>1. CASE RetryFires
    BY <2>1 DEF RetryFires, Kick, TryAcquire
  <2>2. CASE HttpAnalysisStarts
    BY <2>2 DEF HttpAnalysisStarts
  <2>3. CASE HttpAnalysisEnds
    BY <2>3 DEF HttpAnalysisEnds
  <2>4. CASE Boot
    BY <2>4 DEF Boot
  <2>5. CASE Recover
    BY <2>5, StatementEffects DEF Recover, Kick, TryAcquire
  <2>6. CASE RecoverFails
    BY <2>6, StatementEffects DEF RecoverFails, Forget, Fault
  <2>7. CASE Stop
    BY <2>7 DEF Stop, Abort, CatchCancelled
  <2>8. CASE Exit
    BY <2>8 DEF Exit, Forget
  <2>9. CASE Crash
    BY <2>9 DEF Crash, Forget
  <2> QED
    BY <1>3, <2>1, <2>2, <2>3, <2>4, <2>5, <2>6, <2>7, <2>8, <2>9 DEF
       Process
<1>4. CASE UNCHANGED vars
  BY <1>4 DEF vars
<1> QED BY <1>1, <1>2, <1>3, <1>4 DEF Next

\* Every reachable state satisfies the control invariant the other theorems rest on.
THEOREM ControlCorrect == Spec => []ControlInv
<1>1. Init => ControlInv
  BY InitTypeOK, InitMemory, InitOwnership DEF ControlInv
<1>2. ControlInv /\ [Next]_vars => ControlInv'
  BY NextTypeOK, NextMemory, NextOwnership, NextAsked DEF ControlInv
<1> QED
  BY <1>1, <1>2, PTL DEF Spec

\* The gate is held exactly while drain() needs it.
THEOREM GateCorrect == Spec => []GateIsExclusive
<1>1. ControlInv => GateIsExclusive
  BY DEF ControlInv, MemoryInv
<1> QED
  BY <1>1, ControlCorrect, PTL

-----------------------------------------------------------------------------
(* The CHECK constraint                                                    *)

\* Every step keeps the timestamps ordered.
LEMMA NextTimestamps ==
    ControlInv /\ TimestampsHold /\ [Next]_vars => TimestampsHold'
<1> SUFFICES ASSUME ControlInv, TimestampsHold, [Next]_vars
             PROVE  TimestampsHold'
  OBVIOUS
<1> USE DEF ControlInv, TypeOK, TableTypes, DrainTypes, MemoryInv, Controlled,
        Holding, BeforeCheck, Closing, TimestampsHold,
        table, manager, client, history
<1>1. ASSUME NEW j \in Jobs, Request(j) PROVE TimestampsHold'
  <2>1. CASE Submit(j)
    BY <2>1, StatementsKeepTimestamps DEF Submit
  <2>2. CASE SubmitReturns(j)
    BY <2>2 DEF SubmitReturns
  <2>3. CASE SubmitUnanswered(j)
    BY <2>3 DEF SubmitUnanswered, Fault
  <2>4. CASE Cancel(j)
    BY <2>4, StatementsKeepTimestamps DEF Cancel
  <2>5. CASE CancelReturns(j)
    BY <2>5 DEF CancelReturns
  <2>6. CASE CancelUnanswered(j)
    BY <2>6 DEF CancelUnanswered, Fault
  <2> QED
    BY <1>1, <2>1, <2>2, <2>3, <2>4, <2>5, <2>6 DEF Request
<1>2. CASE Drain
  <2>1. CASE Claim
    BY <2>1, StatementsKeepTimestamps DEF Claim
  <2>2. CASE ClaimReturns
    BY <2>2 DEF ClaimReturns
  <2>3. CASE ClaimFails
    BY <2>3 DEF ClaimFails, Fault
  <2>4. CASE ReadContests
    BY <2>4 DEF ReadContests
  <2>5. CASE WorkerSettles
    BY <2>5 DEF WorkerSettles
  <2>6. CASE SaveRun
    BY <2>6 DEF SaveRun, Fault
  <2>7. CASE CheckCancelled
    BY <2>7 DEF CheckCancelled, Fault
  <2>8. CASE Complete
    BY <2>8, StatementsKeepTimestamps DEF Complete, WriteOutcome, Fault
  <2>9. CASE MarkCancelled
    BY <2>9, StatementsKeepTimestamps DEF MarkCancelled, WriteOutcome, Fault
  <2>10. CASE MarkAborted
    BY <2>10, StatementsKeepTimestamps DEF MarkAborted, WriteCaught, Fault
  <2>11. CASE Fail
    BY <2>11, StatementsKeepTimestamps DEF Fail, WriteCaught, Fault
  <2>12. CASE FinishJob
    BY <2>12 DEF FinishJob
  <2>13. CASE LoopAgain
    BY <2>13 DEF LoopAgain
  <2> QED
    BY <1>2, <2>1, <2>2, <2>3, <2>4, <2>5, <2>6, <2>7, <2>8, <2>9,
       <2>10, <2>11, <2>12, <2>13 DEF Drain
<1>3. CASE Process
  <2>1. CASE RetryFires
    BY <2>1 DEF RetryFires
  <2>2. CASE HttpAnalysisStarts
    BY <2>2 DEF HttpAnalysisStarts
  <2>3. CASE HttpAnalysisEnds
    BY <2>3 DEF HttpAnalysisEnds
  <2>4. CASE Boot
    BY <2>4 DEF Boot
  <2>5. CASE Recover
    BY <2>5, StatementsKeepTimestamps DEF Recover
  <2>6. CASE RecoverFails
    BY <2>6, StatementsKeepTimestamps DEF RecoverFails, Forget, Fault
  <2>7. CASE Stop
    BY <2>7 DEF Stop
  <2>8. CASE Exit
    BY <2>8 DEF Exit, Forget
  <2>9. CASE Crash
    BY <2>9 DEF Crash, Forget
  <2> QED
    BY <1>3, <2>1, <2>2, <2>3, <2>4, <2>5, <2>6, <2>7, <2>8, <2>9 DEF
       Process
<1>4. CASE UNCHANGED vars
  BY <1>4 DEF vars
<1> QED BY <1>1, <1>2, <1>3, <1>4 DEF Next

\* No statement of the repository violates analysis_jobs_timestamps_check.
THEOREM TimestampsCorrect == Spec => []TimestampsHold
<1>1. Init => TimestampsHold
  BY DEF Init, TimestampsHold, TimestampsCheck, AbsentRow
<1> QED
  BY <1>1, ControlCorrect, NextTimestamps, PTL DEF Spec

-----------------------------------------------------------------------------
(* Early cancellations                                                     *)

\* No step past the check completes a job whose cancellation was early.
LEMMA NextEarly == ControlInv /\ EarlyInv /\ [Next]_vars => EarlyInv'
<1> SUFFICES ASSUME ControlInv, EarlyInv, [Next]_vars PROVE EarlyInv'
  OBVIOUS
<1> USE NoJobAssumption
    DEF ControlInv, TypeOK, TableTypes, DrainTypes, HistoryTypes, MemoryInv,
        OwnershipInv, AskedInv, EarlyInv, EarlyCancelWins, Controlled, Phases,
        Holding, BeforeCheck, Closing, table, manager, client, history
<1>1. ASSUME NEW j \in Jobs, Request(j) PROVE EarlyInv'
  <2>1. CASE Submit(j)
    BY <2>1, StatementEffects DEF Submit, AbsentRow, InsertedRow
  <2>2. CASE SubmitReturns(j)
    BY <2>2 DEF SubmitReturns, Kick, TryAcquire
  <2>3. CASE SubmitUnanswered(j)
    BY <2>3 DEF SubmitUnanswered, Fault
  <2>4. CASE Cancel(j)
    BY <2>4, StatementEffects DEF Cancel, Cancellable
  <2>5. CASE CancelReturns(j)
    BY <2>5 DEF CancelReturns, Abort, CatchCancelled
  <2>6. CASE CancelUnanswered(j)
    BY <2>6 DEF CancelUnanswered, Fault
  <2> QED
    BY <1>1, <2>1, <2>2, <2>3, <2>4, <2>5, <2>6 DEF Request
<1>2. CASE Drain
  <2>1. CASE Claim
    BY <2>1, StatementEffects DEF Claim, Claimable
  <2>2. CASE ClaimReturns
    BY <2>2 DEF ClaimReturns, DrainEnds, TryAcquire
  <2>3. CASE ClaimFails
    BY <2>3 DEF ClaimFails, Fault, DrainEnds, TryAcquire
  <2>4. CASE ReadContests
    BY <2>4 DEF ReadContests, CatchCancelled
  <2>5. CASE WorkerSettles
    BY <2>5 DEF WorkerSettles
  <2>6. CASE SaveRun
    BY <2>6 DEF SaveRun, Fault
  <2>7. CASE CheckCancelled
    BY <2>7 DEF CheckCancelled, Fault
  <2>8. CASE Complete
    BY <2>8, StatementEffects DEF Complete, WriteOutcome, Fault
  <2>9. CASE MarkCancelled
    BY <2>9, StatementEffects, SMTT(40) DEF MarkCancelled, WriteOutcome, Fault
  <2>10. CASE MarkAborted
    BY <2>10, StatementEffects DEF MarkAborted, WriteCaught, Fault
  <2>11. CASE Fail
    BY <2>11, StatementEffects DEF Fail, WriteCaught, Fault
  <2>12. CASE FinishJob
    BY <2>12 DEF FinishJob
  <2>13. CASE LoopAgain
    BY <2>13 DEF LoopAgain, TryAcquire
  <2> QED
    BY <1>2, <2>1, <2>2, <2>3, <2>4, <2>5, <2>6, <2>7, <2>8, <2>9,
       <2>10, <2>11, <2>12, <2>13 DEF Drain
<1>3. CASE Process
  <2>1. CASE RetryFires
    BY <2>1 DEF RetryFires, Kick, TryAcquire
  <2>2. CASE HttpAnalysisStarts
    BY <2>2 DEF HttpAnalysisStarts
  <2>3. CASE HttpAnalysisEnds
    BY <2>3 DEF HttpAnalysisEnds
  <2>4. CASE Boot
    BY <2>4 DEF Boot
  <2>5. CASE Recover
    BY <2>5, StatementEffects DEF Recover, Kick, TryAcquire
  <2>6. CASE RecoverFails
    BY <2>6, StatementEffects DEF RecoverFails, Forget, Fault
  <2>7. CASE Stop
    BY <2>7 DEF Stop, Abort, CatchCancelled
  <2>8. CASE Exit
    BY <2>8 DEF Exit, Forget
  <2>9. CASE Crash
    BY <2>9 DEF Crash, Forget
  <2> QED
    BY <1>3, <2>1, <2>2, <2>3, <2>4, <2>5, <2>6, <2>7, <2>8, <2>9 DEF
       Process
<1>4. CASE UNCHANGED vars
  BY <1>4 DEF vars
<1> QED BY <1>1, <1>2, <1>3, <1>4 DEF Next

\* A cancellation that reaches the table before findById() is answered is never
\* overtaken by complete().
THEOREM EarlyCancelCorrect == Spec => []EarlyCancelWins
<1>1. Init => EarlyInv
  BY DEF Init, EarlyInv, EarlyCancelWins, AbsentRow
<1>2. EarlyInv => EarlyCancelWins
  BY DEF EarlyInv
<1> QED
  BY <1>1, <1>2, ControlCorrect, NextEarly, PTL DEF Spec

-----------------------------------------------------------------------------
(* Wakeups                                                                 *)

\* Every step keeps a wakeup for a queued row.
LEMMA NextWakeup == ControlInv /\ NoLostWakeup /\ [Next]_vars => NoLostWakeup'
<1> SUFFICES ASSUME ControlInv, NoLostWakeup, [Next]_vars PROVE NoLostWakeup'
  OBVIOUS
<1> USE NoJobAssumption
    DEF ControlInv, TypeOK, TableTypes, DrainTypes, HistoryTypes, MemoryInv,
        NoLostWakeup, WakeupPending, Claimable, Controlled, Phases, Holding,
        BeforeCheck, Closing, table, manager, client, history
<1>1. ASSUME NEW j \in Jobs, Request(j) PROVE NoLostWakeup'
  <2>1. CASE Submit(j)
    BY <2>1, StatementEffects DEF Submit, InsertedRow, AbsentRow
  <2>2. CASE SubmitReturns(j)
    BY <2>2 DEF SubmitReturns, Kick, TryAcquire
  <2>3. CASE SubmitUnanswered(j)
    BY <2>3 DEF SubmitUnanswered, Fault
  <2>4. CASE Cancel(j)
    BY <2>4, StatementEffects DEF Cancel, Cancellable
  <2>5. CASE CancelReturns(j)
    BY <2>5 DEF CancelReturns, Abort, CatchCancelled
  <2>6. CASE CancelUnanswered(j)
    BY <2>6 DEF CancelUnanswered, Fault
  <2> QED
    BY <1>1, <2>1, <2>2, <2>3, <2>4, <2>5, <2>6 DEF Request
<1>2. CASE Drain
  <2>1. CASE Claim
    BY <2>1, StatementEffects DEF Claim, Claimable
  <2>2. CASE ClaimReturns
    BY <2>2 DEF ClaimReturns, DrainEnds, TryAcquire
  <2>3. CASE ClaimFails
    BY <2>3 DEF ClaimFails, Fault, DrainEnds, TryAcquire
  <2>4. CASE ReadContests
    BY <2>4 DEF ReadContests, CatchCancelled
  <2>5. CASE WorkerSettles
    BY <2>5 DEF WorkerSettles
  <2>6. CASE SaveRun
    BY <2>6 DEF SaveRun, Fault
  <2>7. CASE CheckCancelled
    BY <2>7 DEF CheckCancelled, Fault
  <2>8. CASE Complete
    BY <2>8, StatementEffects DEF Complete, WriteOutcome, Fault
  <2>9. CASE MarkCancelled
    BY <2>9, StatementEffects DEF MarkCancelled, WriteOutcome, Fault
  <2>10. CASE MarkAborted
    BY <2>10, StatementEffects DEF MarkAborted, WriteCaught, Fault
  <2>11. CASE Fail
    BY <2>11, StatementEffects DEF Fail, WriteCaught, Fault
  <2>12. CASE FinishJob
    BY <2>12 DEF FinishJob
  <2>13. CASE LoopAgain
    BY <2>13 DEF LoopAgain, TryAcquire
  <2> QED
    BY <1>2, <2>1, <2>2, <2>3, <2>4, <2>5, <2>6, <2>7, <2>8, <2>9,
       <2>10, <2>11, <2>12, <2>13 DEF Drain
<1>3. CASE Process
  <2>1. CASE RetryFires
    BY <2>1 DEF RetryFires, Kick, TryAcquire
  <2>2. CASE HttpAnalysisStarts
    BY <2>2 DEF HttpAnalysisStarts
  <2>3. CASE HttpAnalysisEnds
    BY <2>3 DEF HttpAnalysisEnds
  <2>4. CASE Boot
    BY <2>4 DEF Boot
  <2>5. CASE Recover
    BY <2>5, StatementEffects DEF Recover, Kick, TryAcquire
  <2>6. CASE RecoverFails
    BY <2>6, StatementEffects DEF RecoverFails, Forget, Fault
  <2>7. CASE Stop
    BY <2>7 DEF Stop, Abort, CatchCancelled
  <2>8. CASE Exit
    BY <2>8 DEF Exit, Forget
  <2>9. CASE Crash
    BY <2>9 DEF Crash, Forget
  <2> QED
    BY <1>3, <2>1, <2>2, <2>3, <2>4, <2>5, <2>6, <2>7, <2>8, <2>9 DEF
       Process
<1>4. CASE UNCHANGED vars
  BY <1>4 DEF vars
<1> QED BY <1>1, <1>2, <1>3, <1>4 DEF Next

\* The manager never sleeps on a job it was told of.
THEOREM WakeupCorrect == Spec => []NoLostWakeup
<1>1. Init => NoLostWakeup
  BY DEF Init, NoLostWakeup
<1> QED
  BY <1>1, ControlCorrect, NextWakeup, PTL DEF Spec


-----------------------------------------------------------------------------
(* Saved runs                                                              *)

\* Every step keeps a result saved at most once in a life of the process.
LEMMA NextSaved == ControlInv /\ SavedInv /\ [Next]_vars => SavedInv'
<1> SUFFICES ASSUME ControlInv, SavedInv, [Next]_vars PROVE SavedInv'
  OBVIOUS
<1> USE NoJobAssumption, PersistingAssumption
    DEF ControlInv, TypeOK, TableTypes, DrainTypes, HistoryTypes, MemoryInv,
        OwnershipInv, SavedInv, Lives, CompletedIsSaved, Controlled, Phases,
        Holding, BeforeCheck, Closing, table, manager, client, history
<1>1. ASSUME NEW j \in Jobs, Request(j) PROVE SavedInv'
  <2>1. CASE Submit(j)
    BY <2>1, StatementEffects DEF Submit, AbsentRow, InsertedRow
  <2>2. CASE SubmitReturns(j)
    BY <2>2 DEF SubmitReturns, Kick, TryAcquire
  <2>3. CASE SubmitUnanswered(j)
    BY <2>3 DEF SubmitUnanswered, Fault
  <2>4. CASE Cancel(j)
    BY <2>4, StatementEffects DEF Cancel, Cancellable
  <2>5. CASE CancelReturns(j)
    BY <2>5 DEF CancelReturns, Abort, CatchCancelled
  <2>6. CASE CancelUnanswered(j)
    BY <2>6 DEF CancelUnanswered, Fault
  <2> QED
    BY <1>1, <2>1, <2>2, <2>3, <2>4, <2>5, <2>6 DEF Request
<1>2. CASE Drain
  <2>1. CASE Claim
    BY <2>1, StatementEffects DEF Claim, Claimable
  <2>2. CASE ClaimReturns
    BY <2>2 DEF ClaimReturns, DrainEnds, TryAcquire
  <2>3. CASE ClaimFails
    BY <2>3 DEF ClaimFails, Fault, DrainEnds, TryAcquire
  <2>4. CASE ReadContests
    BY <2>4 DEF ReadContests, CatchCancelled
  <2>5. CASE WorkerSettles
    BY <2>5 DEF WorkerSettles
  <2>6. CASE SaveRun
    BY <2>6 DEF SaveRun, Fault
  <2>7. CASE CheckCancelled
    BY <2>7 DEF CheckCancelled, Fault
  <2>8. CASE Complete
    <3>1. /\ job \in Jobs /\ life = "up" /\ pc' \in {"finishing", "failing"}
          /\ UNCHANGED <<job, life, saved, restarts, stopped>>
      BY <2>8 DEF Complete, WriteOutcome
    <3>2. jobs' \in {jobs, [jobs EXCEPT ![job] = CompletedRow(jobs[job])]}
      BY <2>8 DEF Complete, WriteOutcome
    <3>3. CompletedRow(jobs[job]).status \notin {"absent", "queued"}
      BY <3>1, StatementEffects
    <3>4. \A j \in Jobs : jobs'[j].status \in {"absent", "queued"} =>
                           jobs[j].status \in {"absent", "queued"}
      BY <3>3, <3>1, <3>2
    <3>5. \A j \in Jobs : jobs'[j].status = "completed" =>
                           jobs[j].status = "completed" \/ j = job
      BY <3>1, <3>2, StatementEffects
    <3> QED
      BY <3>1, <3>4, <3>5, <2>8 DEF Complete
  <2>9. CASE MarkCancelled
    <3>1. /\ job \in Jobs /\ life = "up" /\ pc' \in {"finishing", "failing"}
          /\ UNCHANGED <<job, life, saved, restarts, stopped>>
      BY <2>9 DEF MarkCancelled, WriteOutcome
    <3>2. jobs' \in {jobs, [jobs EXCEPT ![job] = MarkedCancelledRow(jobs[job])]}
      BY <2>9 DEF MarkCancelled, WriteOutcome
    <3>3. MarkedCancelledRow(jobs[job]).status \notin {"absent", "queued"}
      BY <3>1, StatementEffects
    <3>4. \A j \in Jobs : jobs'[j].status \in {"absent", "queued"} =>
                           jobs[j].status \in {"absent", "queued"}
      BY <3>3, <3>1, <3>2
    <3>5. \A j \in Jobs : jobs'[j].status = "completed" =>
                           jobs[j].status = "completed"
      BY <3>1, <3>2, StatementEffects
    <3> QED
      BY <3>1, <3>4, <3>5
  <2>10. CASE MarkAborted
    <3>1. /\ job \in Jobs /\ life = "up" /\ pc' \in {"finishing", "failing"}
          /\ UNCHANGED <<job, life, saved, restarts, stopped>>
      BY <2>10 DEF MarkAborted, WriteCaught
    <3>2. jobs' \in {jobs, [jobs EXCEPT ![job] = MarkedCancelledRow(jobs[job])]}
      BY <2>10 DEF MarkAborted, WriteCaught
    <3>3. MarkedCancelledRow(jobs[job]).status \notin {"absent", "queued"}
      BY <3>1, StatementEffects
    <3>4. \A j \in Jobs : jobs'[j].status \in {"absent", "queued"} =>
                           jobs[j].status \in {"absent", "queued"}
      BY <3>3, <3>1, <3>2
    <3>5. \A j \in Jobs : jobs'[j].status = "completed" =>
                           jobs[j].status = "completed"
      BY <3>1, <3>2, StatementEffects
    <3> QED
      BY <3>1, <3>4, <3>5
  <2>11. CASE Fail
    <3>1. /\ job \in Jobs /\ life = "up" /\ pc' \in {"finishing", "failing"}
          /\ UNCHANGED <<job, life, saved, restarts, stopped>>
      BY <2>11 DEF Fail, WriteCaught
    <3>2. jobs' \in {jobs, [jobs EXCEPT ![job] = FailedRow(jobs[job])]}
      BY <2>11 DEF Fail, WriteCaught
    <3>3. FailedRow(jobs[job]).status \notin {"absent", "queued"}
      BY <3>1, StatementEffects
    <3>4. \A j \in Jobs : jobs'[j].status \in {"absent", "queued"} =>
                           jobs[j].status \in {"absent", "queued"}
      BY <3>3, <3>1, <3>2
    <3>5. \A j \in Jobs : jobs'[j].status = "completed" =>
                           jobs[j].status = "completed"
      BY <3>1, <3>2, StatementEffects
    <3> QED
      BY <3>1, <3>4, <3>5
  <2>12. CASE FinishJob
    BY <2>12 DEF FinishJob
  <2>13. CASE LoopAgain
    BY <2>13 DEF LoopAgain, TryAcquire
  <2> QED
    BY <1>2, <2>1, <2>2, <2>3, <2>4, <2>5, <2>6, <2>7, <2>8, <2>9,
       <2>10, <2>11, <2>12, <2>13 DEF Drain
<1>3. CASE Process
  <2>1. CASE RetryFires
    BY <2>1 DEF RetryFires, Kick, TryAcquire
  <2>2. CASE HttpAnalysisStarts
    BY <2>2 DEF HttpAnalysisStarts
  <2>3. CASE HttpAnalysisEnds
    BY <2>3 DEF HttpAnalysisEnds
  <2>4. CASE Boot
    BY <2>4 DEF Boot
  <2>5. CASE Recover
    BY <2>5, StatementEffects DEF Recover, Kick, TryAcquire
  <2>6. CASE RecoverFails
    BY <2>6, StatementEffects DEF RecoverFails, Forget, Fault
  <2>7. CASE Stop
    BY <2>7 DEF Stop, Abort, CatchCancelled
  <2>8. CASE Exit
    BY <2>8 DEF Exit, Forget
  <2>9. CASE Crash
    BY <2>9 DEF Crash, Forget
  <2> QED
    BY <1>3, <2>1, <2>2, <2>3, <2>4, <2>5, <2>6, <2>7, <2>8, <2>9 DEF
       Process
<1>4. CASE UNCHANGED vars
  BY <1>4 DEF vars
<1> QED BY <1>1, <1>2, <1>3, <1>4 DEF Next

\* A job leaves at most one saved run per life of the process, and a completed
\* one that was to be persisted has left one.
THEOREM SavedCorrect == Spec => []SavedInBounds
<1>1. Init => SavedInv
  BY PersistingAssumption, NoJobAssumption
     DEF Init, SavedInv, Lives, CompletedIsSaved, AbsentRow
<1>2. ControlInv /\ SavedInv => SavedInBounds
  BY DEF ControlInv, TypeOK, TableTypes, HistoryTypes, SavedInv, Lives,
         SavedInBounds, RunsBoundedByRestarts
<1> QED
  BY <1>1, <1>2, ControlCorrect, NextSaved, PTL DEF Spec


-----------------------------------------------------------------------------
(* Refinement of the abstract queue                                        *)

\* A step that changes no status and grants no cancellation is a stutter.
LEMMA Stutter == UNCHANGED <<jobs, asked>> => UNCHANGED JL!vars
BY DEF JL!vars

\* drain()'s last statement, written or not, is an abstract step of the job.
LEMMA OutcomeMaps ==
    ASSUME TypeOK, job \in Jobs, UNCHANGED asked, NEW row \in Row,
           jobs' \in {jobs, [jobs EXCEPT ![job] = row]},
           \/ row.status = jobs[job].status
           \/ /\ jobs[job].status = "running"
              /\ \/ row.status \in {"completed", "failed"}
                 \/ row.status = "cancelled" /\ asked[job] # "no"
    PROVE  [JL!Next]_(JL!vars)
<1> USE DEF TypeOK, TableTypes, HistoryTypes, Row
<1>1. CASE jobs' = jobs
  BY <1>1, Stutter
<1>2. CASE jobs' = [jobs EXCEPT ![job] = row] /\ row.status = jobs[job].status
  <2>1. [j \in Jobs |-> jobs'[j].status] = [j \in Jobs |-> jobs[j].status]
    BY <1>2
  <2> QED
    BY <2>1 DEF JL!vars
<1>3. CASE /\ jobs' = [jobs EXCEPT ![job] = row]
           /\ jobs[job].status = "running"
           /\ row.status \in {"completed", "failed"}
  <2>1. PICK j \in Jobs : j = job
    OBVIOUS
  <2>2. JL!Finish(j)
    BY <1>3, <2>1 DEF JL!Finish, JL!Move
  <2> QED
    BY <2>2 DEF JL!Next
<1>4. CASE /\ jobs' = [jobs EXCEPT ![job] = row]
           /\ jobs[job].status = "running"
           /\ row.status = "cancelled" /\ asked[job] # "no"
  <2>1. PICK j \in Jobs : j = job
    OBVIOUS
  <2>2. JL!Stop(j)
    BY <1>4, <2>1 DEF JL!Stop, JL!Move
  <2> QED
    BY <2>2 DEF JL!Next
<1> QED
  BY <1>1, <1>2, <1>3, <1>4

\* Recovery is a step of the abstract lifecycle.
LEMMA RecoverMaps ==
    ASSUME ControlInv, UNCHANGED asked,
           jobs' = [j \in Jobs |-> RecoveredRow(jobs[j])]
    PROVE  JL!Next
<1>1. \A j \in Jobs : jobs'[j].status =
         (IF jobs[j].status # "running" THEN jobs[j].status
          ELSE IF asked[j] # "no" THEN "cancelled" ELSE "queued")
  BY StatementEffects DEF ControlInv, TypeOK, TableTypes, AskedInv
<1>2. JL!Recover
  BY <1>1 DEF JL!Recover
<1> QED
  BY <1>2 DEF JL!Next

\* Every step is a step of the abstract lifecycle or a stutter.
LEMMA NextMaps == ControlInv /\ [Next]_vars => [JL!Next]_(JL!vars)
<1> SUFFICES ASSUME ControlInv, [Next]_vars PROVE [JL!Next]_(JL!vars)
  OBVIOUS
<1> USE NoJobAssumption
    DEF ControlInv, TypeOK, TableTypes, HistoryTypes
<1>1. ASSUME NEW j \in Jobs, Request(j) PROVE [JL!Next]_(JL!vars)
  <2>1. CASE Submit(j)
    <3>1. /\ jobs[j].status = "absent"
          /\ jobs' = [jobs EXCEPT ![j] = InsertedRow]
          /\ InsertedRow.status = "queued"
          /\ UNCHANGED asked
      BY <2>1 DEF Submit, history, AbsentRow, InsertedRow
    <3>2. [k \in Jobs |-> jobs'[k].status] =
             [[k \in Jobs |-> jobs[k].status] EXCEPT ![j] = "queued"]
      BY <3>1
    <3>3. JL!Submit(j)
      BY <3>1, <3>2 DEF JL!Submit, JL!Move
    <3> QED
      BY <3>3 DEF JL!Next
  <2>2. CASE Cancel(j)
    <3>1. jobs' = [jobs EXCEPT ![j] = CancelledRow(jobs[j])]
      BY <2>2 DEF Cancel
    <3>2. jobs[j].status = "queued" =>
             [k \in Jobs |-> jobs'[k].status] =
             [[k \in Jobs |-> jobs[k].status] EXCEPT ![j] = "cancelled"]
      BY <3>1, StatementEffects
    <3>3. jobs[j].status = "running" =>
             [k \in Jobs |-> jobs'[k].status] = [k \in Jobs |-> jobs[k].status]
      BY <3>1, StatementEffects
    <3>4. {k \in Jobs : asked'[k] # "no"} = {k \in Jobs : asked[k] # "no"} \cup {j}
      BY <2>2 DEF Cancel
    <3>5. jobs[j].status \in {"queued", "running"}
      BY <2>2 DEF Cancel, Cancellable
    <3>6. JL!Cancel(j)
      BY <3>2, <3>3, <3>4, <3>5 DEF JL!Cancel, JL!Move
    <3> QED
      BY <3>6 DEF JL!Next
  <2>3. CASE \/ SubmitReturns(j) \/ SubmitUnanswered(j)
             \/ CancelReturns(j) \/ CancelUnanswered(j)
    BY <2>3, Stutter
       DEF SubmitReturns, SubmitUnanswered, CancelReturns, CancelUnanswered,
           table, history
  <2> QED
    BY <1>1, <2>1, <2>2, <2>3 DEF Request
<1>2. CASE Drain
  <2>1. CASE Claim
    <3>1. CASE job' = NoJob
      BY <2>1, <3>1, Stutter DEF Claim, history
    <3>2. CASE job' # NoJob
      <4>1. PICK j \in Jobs : /\ jobs[j].status = "queued"
                              /\ jobs' = [jobs EXCEPT ![j] = ClaimedRow(jobs[j])]
        BY <2>1, <3>2 DEF Claim, Claimable
      <4>2. [k \in Jobs |-> jobs'[k].status] =
               [[k \in Jobs |-> jobs[k].status] EXCEPT ![j] = "running"]
        <5>1. jobs \in [Jobs -> Row] /\ ClaimedRow(jobs[j]).status = "running"
          BY <4>1, StatementEffects DEF ControlInv, TypeOK, TableTypes
        <5>2. \A k \in Jobs : jobs'[k].status = IF k = j THEN "running" ELSE jobs[k].status
          BY <4>1, <5>1
        <5> QED
          BY <5>2
      <4>3. JL!Start(j)
        BY <2>1, <4>1, <4>2
           DEF Claim, history, AskedInv, JL!Start, JL!Move
      <4> QED
        BY <4>3 DEF JL!Next
    <3> QED
      BY <3>1, <3>2
  <2>2. CASE Complete
    <3>1. /\ job \in Jobs /\ UNCHANGED asked
          /\ jobs' \in {jobs, [jobs EXCEPT ![job] = CompletedRow(jobs[job])]}
      BY <2>2 DEF Complete, WriteOutcome, MemoryInv, Controlled, Holding, Closing
    <3>2. \/ CompletedRow(jobs[job]).status = jobs[job].status
          \/ /\ jobs[job].status = "running"
             /\ CompletedRow(jobs[job]).status = "completed"
      BY <3>1 DEF CompletedRow, Row
    <3> QED
      BY <3>1, <3>2, Statements, OutcomeMaps
  <2>3. CASE MarkCancelled \/ MarkAborted
    <3>1. /\ job \in Jobs /\ UNCHANGED asked
          /\ asked[job] # "no"
          /\ jobs' \in {jobs, [jobs EXCEPT ![job] = MarkedCancelledRow(jobs[job])]}
      BY <2>3 DEF MarkCancelled, MarkAborted, WriteOutcome, WriteCaught,
                  MemoryInv, Controlled, Holding, Closing, AskedInv
    <3>2. \/ MarkedCancelledRow(jobs[job]).status = jobs[job].status
          \/ /\ jobs[job].status = "running"
             /\ MarkedCancelledRow(jobs[job]).status = "cancelled"
      BY <3>1 DEF MarkedCancelledRow, Row
    <3> QED
      BY <3>1, <3>2, Statements, OutcomeMaps
  <2>4. CASE Fail
    <3>1. /\ job \in Jobs /\ UNCHANGED asked
          /\ jobs' \in {jobs, [jobs EXCEPT ![job] = FailedRow(jobs[job])]}
      BY <2>4 DEF Fail, WriteCaught, MemoryInv, Controlled, Holding, Closing
    <3>2. \/ FailedRow(jobs[job]).status = jobs[job].status
          \/ /\ jobs[job].status = "running"
             /\ FailedRow(jobs[job]).status = "failed"
      BY <3>1 DEF FailedRow, Row
    <3> QED
      BY <3>1, <3>2, Statements, OutcomeMaps
  <2>5. CASE \/ ClaimReturns \/ ClaimFails \/ ReadContests \/ WorkerSettles
             \/ SaveRun \/ CheckCancelled \/ FinishJob \/ LoopAgain
    BY <2>5, Stutter
       DEF ClaimReturns, ClaimFails, ReadContests, WorkerSettles, SaveRun,
           CheckCancelled, FinishJob, LoopAgain, table, history
  <2> QED
    BY <1>2, <2>1, <2>2, <2>3, <2>4, <2>5 DEF Drain
<1>3. CASE Process
  <2>1. CASE Recover
    BY <2>1, RecoverMaps DEF Recover
  <2>2. CASE RecoverFails
    BY <2>2, RecoverMaps, Stutter DEF RecoverFails
  <2>3. CASE \/ RetryFires \/ HttpAnalysisStarts \/ HttpAnalysisEnds \/ Boot
             \/ Stop \/ Exit \/ Crash
    BY <2>3, Stutter
       DEF RetryFires, HttpAnalysisStarts, HttpAnalysisEnds, Boot, Stop, Exit,
           Crash, table, history
  <2> QED
    BY <1>3, <2>1, <2>2, <2>3 DEF Process
<1>4. CASE UNCHANGED vars
  BY <1>4, Stutter DEF vars, table, history
<1> QED
  BY <1>1, <1>2, <1>3, <1>4 DEF Next

\* The manager implements the abstract queue: a terminal status is final, a job
\* the user gave up is never started again, a job ends cancelled only when a
\* user asked for it, and a restart requeues exactly the interrupted jobs
\* nobody gave up.
THEOREM LifecycleCorrect == Spec => LifecycleKept
<1>1. Init => JL!Init
  BY DEF Init, AbsentRow, JL!Init
<1> QED
  BY <1>1, NextMaps, ControlCorrect, PTL DEF Spec, LifecycleKept, JL!Spec


-----------------------------------------------------------------------------
(* Orphans                                                                 *)

\* The rows nobody follows are finitely many.
LEMMA StrayFinite ==
    ASSUME TypeOK
    PROVE  IsFiniteSet(Stray) /\ StrayBudget \in Nat /\ Cardinality(Stray) \in Nat
<1>1. IsFiniteSet(Stray)
  BY JobsAssumption, FS_Subset DEF Stray
<1>2. StrayBudget \in Nat
  BY DEF TypeOK, HistoryTypes, StrayBudget
<1> QED
  BY <1>1, <1>2, FS_CardinalityType

\* A step that makes no row stray keeps the bound.
LEMMA NoStrayMore ==
    ASSUME TypeOK, Cardinality(Stray) <= StrayBudget,
           NEW S, S \subseteq Stray,
           NEW b \in Nat, StrayBudget <= b
    PROVE  Cardinality(S) <= b
<1>1. Cardinality(S) <= Cardinality(Stray) /\ Cardinality(S) \in Nat
  BY StrayFinite, FS_Subset, FS_CardinalityType
<1> QED
  BY <1>1, StrayFinite

\* A step that makes the job of drain() stray keeps it when it pays for it.
LEMMA OneStrayMore ==
    ASSUME TypeOK, Cardinality(Stray) <= StrayBudget,
           NEW S, S \subseteq Stray \cup {job},
           NEW b \in Nat, StrayBudget + 1 <= b
    PROVE  Cardinality(S) <= b
<1> DEFINE T == Stray \cup {job}
<1>1. IsFiniteSet(T) /\ Cardinality(T) <= Cardinality(Stray) + 1
  <2>1. IsFiniteSet(T)
    BY StrayFinite, FS_AddElement
  <2>2. Cardinality(T) = IF job \in Stray THEN Cardinality(Stray)
                         ELSE Cardinality(Stray) + 1
    BY StrayFinite, FS_AddElement
  <2> QED
    BY <2>1, <2>2, StrayFinite
<1>2. Cardinality(S) <= Cardinality(T) /\ Cardinality(S) \in Nat
  BY <1>1, FS_Subset, FS_CardinalityType
<1>3. Cardinality(T) \in Nat
  BY <1>1, FS_CardinalityType
<1> QED
  BY <1>1, <1>2, <1>3, StrayFinite

\* Every stray row a step leaves is paid for by the budget.
LEMMA NextStray ==
    ControlInv /\ ControlInv' /\ StrayInv /\ [Next]_vars => StrayInv'
<1> SUFFICES ASSUME ControlInv, ControlInv', StrayInv, [Next]_vars,
                    life' = "up"
             PROVE  Cardinality(Stray') <= StrayBudget'
  BY DEF StrayInv
<1> USE DEF ControlInv
<1>types. /\ TypeOK /\ StrayBudget \in Nat /\ StrayBudget' \in Nat
  <2>1. faults \in Nat /\ faults' \in Nat
    BY DEF TypeOK, HistoryTypes
  <2>2. StrayBudget \in Nat
    BY <2>1 DEF StrayBudget
  <2>3. \A n \in Nat : n + 0 \in Nat /\ n + 1 \in Nat
    OBVIOUS
  <2>4. StrayBudget' \in Nat
    BY <2>1, <2>3 DEF StrayBudget
  <2> QED
    BY <2>2, <2>4
<1>rows. /\ \A j \in Jobs : jobs[j] \in Row
         /\ jobs \in [Jobs -> Row]
  BY DEF TypeOK, TableTypes
<1>less. ASSUME life = "up", Stray' \subseteq Stray, StrayBudget <= StrayBudget'
         PROVE  Cardinality(Stray') <= StrayBudget'
  BY <1>less, <1>types, NoStrayMore DEF StrayInv
<1>none. ASSUME Cardinality(Stray') = 0
         PROVE  Cardinality(Stray') <= StrayBudget'
  BY <1>none, <1>types
<1>budget. ASSUME stopped' = stopped,
                  pc \notin {"finishing", "yielding", "idle"},
                  faults' = faults \/ faults' = faults + 1
           PROVE  StrayBudget <= StrayBudget'
  <2>1. faults \in Nat
    BY DEF TypeOK, HistoryTypes
  <2>2. CASE faults' = faults
    BY <1>budget, <2>1, <2>2 DEF StrayBudget
  <2>3. CASE faults' = faults + 1
    BY <1>budget, <2>1, <2>3 DEF StrayBudget
  <2> QED BY <1>budget, <2>2, <2>3
<1>more. ASSUME life = "up", Stray' \subseteq Stray \cup {job},
                StrayBudget + 1 <= StrayBudget'
         PROVE  Cardinality(Stray') <= StrayBudget'
  BY <1>more, <1>types, OneStrayMore DEF StrayInv
<1> USE NoJobAssumption, <1>types
    DEF Stray, StrayBudget, TypeOK, HistoryTypes, ManagerTypes, DrainTypes,
        MemoryInv, Phases, Holding, BeforeCheck, Closing, Controlled,
        table, manager, client, history
<1>1. ASSUME NEW j \in Jobs, Request(j) PROVE Cardinality(Stray') <= StrayBudget'
  <2>1. CASE Submit(j)
    <3>1. /\ life = "up" /\ UNCHANGED <<job, pc, stopped, faults>>
          /\ jobs' = [jobs EXCEPT ![j] = InsertedRow]
          /\ InsertedRow.status = "queued"
      BY <2>1 DEF Submit, InsertedRow, AbsentRow
    <3>2. \A k \in Jobs : jobs'[k].status = "running" => jobs[k].status = "running"
      BY <3>1, <1>rows
    <3>3. Stray' \subseteq Stray /\ StrayBudget <= StrayBudget' /\ life = "up"
      BY <3>1, <3>2
    <3> QED BY <3>3, <1>less
  <2>2. CASE SubmitReturns(j)
    <3>1. Stray' \subseteq Stray /\ StrayBudget <= StrayBudget' /\ life = "up"
      BY <2>2 DEF SubmitReturns, Kick, TryAcquire
    <3> QED BY <3>1, <1>less
  <2>3. CASE SubmitUnanswered(j)
    <3>1. Stray' \subseteq Stray /\ StrayBudget <= StrayBudget' /\ life = "up"
      BY <2>3 DEF SubmitUnanswered, Fault
    <3> QED BY <3>1, <1>less
  <2>4. CASE Cancel(j)
    <3>1. /\ life = "up" /\ UNCHANGED <<job, pc, stopped, faults>>
          /\ jobs' = [jobs EXCEPT ![j] = CancelledRow(jobs[j])]
      BY <2>4 DEF Cancel
    <3>2. \A k \in Jobs : jobs'[k].status = "running" => jobs[k].status = "running"
      BY <3>1, <1>rows, StatementEffects
    <3>3. Stray' \subseteq Stray /\ StrayBudget <= StrayBudget' /\ life = "up"
      BY <3>1, <3>2
    <3> QED BY <3>3, <1>less
  <2>5. CASE CancelReturns(j)
    <3>1. Stray' \subseteq Stray /\ StrayBudget <= StrayBudget' /\ life = "up"
      BY <2>5 DEF CancelReturns, Abort, CatchCancelled
    <3> QED BY <3>1, <1>less
  <2>6. CASE CancelUnanswered(j)
    <3>1. Stray' \subseteq Stray /\ StrayBudget <= StrayBudget' /\ life = "up"
      BY <2>6 DEF CancelUnanswered, Fault
    <3> QED BY <3>1, <1>less
  <2> QED
    BY <1>1, <2>1, <2>2, <2>3, <2>4, <2>5, <2>6 DEF Request
<1>2. CASE Drain
  <2>1. CASE Claim
    <3>1. life = "up" /\ job = NoJob /\ UNCHANGED StrayBudget /\ pc' = "claimed"
      BY <2>1 DEF Claim
    <3>2. jobs' = jobs \/ \E j \in Jobs :
             job' = j /\ jobs' = [jobs EXCEPT ![j] = ClaimedRow(jobs[j])]
      BY <2>1 DEF Claim
    <3>3. Stray' \subseteq Stray
      BY <3>1, <3>2, <1>rows
    <3> QED BY <3>1, <3>3, <1>less
  <2>2. CASE ClaimReturns
    <3>1. Stray' \subseteq Stray /\ StrayBudget <= StrayBudget' /\ life = "up"
      BY <2>2 DEF ClaimReturns, DrainEnds, TryAcquire
    <3> QED BY <3>1, <1>less
  <2>3. CASE ClaimFails
    <3>1. life = "up" /\ Stray' \subseteq Stray \cup {job}
      BY <2>3 DEF ClaimFails
    <3>2. pc' \in {"idle", "claiming"} /\ (stopped => pc' = "idle")
      BY <2>3 DEF ClaimFails, DrainEnds, TryAcquire
    <3>3. StrayBudget + 1 <= StrayBudget'
      BY <2>3, <3>2 DEF ClaimFails, Fault
    <3> QED BY <3>1, <3>3, <1>more
  <2>4. CASE ReadContests
    <3>1. life = "up" /\ UNCHANGED <<jobs, job, faults, stopped>>
      BY <2>4 DEF ReadContests
    <3>2. \/ pc' \in {"failing", "working", "cancelling"}
          \/ pc' = "finishing" /\ stopped
      BY <2>4 DEF ReadContests, CatchCancelled
    <3>3. pc = "reading"
      BY <2>4 DEF ReadContests
    <3>4. CASE pc' = "finishing"
      <4>1. Stray' \subseteq Stray \cup {job} /\ StrayBudget + 1 <= StrayBudget'
        BY <3>1, <3>2, <3>3, <3>4
      <4> QED BY <3>1, <4>1, <1>more
    <3>5. CASE pc' # "finishing"
      <4>1. Stray' \subseteq Stray /\ StrayBudget <= StrayBudget'
        BY <3>1, <3>2, <3>3, <3>5
      <4> QED BY <3>1, <4>1, <1>less
    <3> QED BY <3>4, <3>5
  <2>5. CASE WorkerSettles
    <3>1. Stray' \subseteq Stray /\ StrayBudget <= StrayBudget' /\ life = "up"
      BY <2>5 DEF WorkerSettles
    <3> QED BY <3>1, <1>less
  <2>6. CASE SaveRun
    <3>1. /\ life = "up" /\ UNCHANGED <<jobs, job, stopped>>
          /\ pc \notin {"finishing", "yielding", "idle"} /\ pc' # "finishing"
      BY <2>6 DEF SaveRun
    <3>2. faults' = faults \/ faults' = faults + 1
      BY <2>6 DEF SaveRun, Fault
    <3>3. StrayBudget <= StrayBudget'
      BY <3>1, <3>2, <1>budget
    <3>4. Stray' \subseteq Stray
      BY <3>1
    <3> QED BY <3>1, <3>3, <3>4, <1>less
  <2>7. CASE CheckCancelled
    <3>1. /\ life = "up" /\ UNCHANGED <<jobs, job, stopped>>
          /\ pc \notin {"finishing", "yielding", "idle"} /\ pc' # "finishing"
      BY <2>7 DEF CheckCancelled
    <3>2. faults' = faults \/ faults' = faults + 1
      BY <2>7 DEF CheckCancelled, Fault
    <3>3. StrayBudget <= StrayBudget'
      BY <3>1, <3>2, <1>budget
    <3>4. Stray' \subseteq Stray
      BY <3>1
    <3> QED BY <3>1, <3>3, <3>4, <1>less
  <2>8. CASE Complete
    <3>1. /\ life = "up" /\ job \in Jobs /\ UNCHANGED <<job, stopped>>
          /\ pc \notin {"finishing", "yielding", "idle"}
      BY <2>8 DEF Complete, WriteOutcome
    <3>2. /\ jobs' \in {jobs, [jobs EXCEPT ![job] = CompletedRow(jobs[job])]}
          /\ pc' = "finishing" =>
                jobs' = [jobs EXCEPT ![job] = CompletedRow(jobs[job])]
      BY <2>8 DEF Complete, WriteOutcome
    <3>3. CompletedRow(jobs[job]).status # "running"
      BY <3>1, <1>rows DEF CompletedRow, Row
    <3>4. Stray' \subseteq Stray
      BY <3>1, <3>2, <3>3, <1>rows
    <3>5. faults' = faults \/ faults' = faults + 1
      BY <2>8 DEF Complete, WriteOutcome, Fault
    <3>6. StrayBudget <= StrayBudget'
      BY <3>1, <3>5, <1>budget
    <3>7. Stray' \subseteq Stray /\ StrayBudget <= StrayBudget' /\ life = "up"
      BY <3>1, <3>4, <3>6
    <3> QED BY <3>7, <1>less
  <2>9. CASE MarkCancelled
    <3>1. /\ life = "up" /\ job \in Jobs /\ UNCHANGED <<job, stopped>>
          /\ pc \notin {"finishing", "yielding", "idle"}
      BY <2>9 DEF MarkCancelled, WriteOutcome
    <3>2. /\ jobs' \in {jobs, [jobs EXCEPT ![job] = MarkedCancelledRow(jobs[job])]}
          /\ pc' = "finishing" =>
                jobs' = [jobs EXCEPT ![job] = MarkedCancelledRow(jobs[job])]
      BY <2>9 DEF MarkCancelled, WriteOutcome
    <3>3. MarkedCancelledRow(jobs[job]).status # "running"
      BY <3>1, <1>rows DEF MarkedCancelledRow, Row
    <3>4. Stray' \subseteq Stray
      BY <3>1, <3>2, <3>3, <1>rows
    <3>5. faults' = faults \/ faults' = faults + 1
      BY <2>9 DEF MarkCancelled, WriteOutcome, Fault
    <3>6. StrayBudget <= StrayBudget'
      BY <3>1, <3>5, <1>budget
    <3>7. Stray' \subseteq Stray /\ StrayBudget <= StrayBudget' /\ life = "up"
      BY <3>1, <3>4, <3>6
    <3> QED BY <3>7, <1>less
  <2>10. CASE MarkAborted
    <3>1. /\ life = "up" /\ job \in Jobs /\ UNCHANGED <<job, stopped>>
          /\ pc # "finishing" /\ pc' = "finishing"
      BY <2>10 DEF MarkAborted, WriteCaught
    <3>2. MarkedCancelledRow(jobs[job]).status # "running"
      BY <3>1, <1>rows DEF MarkedCancelledRow, Row
    <3>3. CASE /\ jobs' = [jobs EXCEPT ![job] = MarkedCancelledRow(jobs[job])]
               /\ UNCHANGED faults
      <4>1. Stray' \subseteq Stray
        BY <3>1, <3>2, <3>3, <1>rows
      <4>2. StrayBudget <= StrayBudget'
        BY <3>1, <3>3
      <4> QED BY <3>1, <4>1, <4>2, <1>less
    <3>4. CASE UNCHANGED jobs /\ Fault
      <4>1. Stray' \subseteq Stray \cup {job} /\ StrayBudget + 1 <= StrayBudget'
        BY <3>1, <3>4, <2>10 DEF MarkAborted, WriteCaught, Fault
      <4> QED BY <3>1, <4>1, <1>more
    <3> QED BY <3>3, <3>4, <2>10 DEF MarkAborted, WriteCaught
  <2>11. CASE Fail
    <3>1. /\ life = "up" /\ job \in Jobs /\ UNCHANGED <<job, stopped>>
          /\ pc # "finishing" /\ pc' = "finishing"
      BY <2>11 DEF Fail, WriteCaught
    <3>2. FailedRow(jobs[job]).status # "running"
      BY <3>1, <1>rows DEF FailedRow, Row
    <3>3. CASE jobs' = [jobs EXCEPT ![job] = FailedRow(jobs[job])] /\ UNCHANGED faults
      <4>1. Stray' \subseteq Stray
        BY <3>1, <3>2, <3>3, <1>rows
      <4>2. StrayBudget <= StrayBudget'
        BY <3>1, <3>3
      <4> QED BY <3>1, <4>1, <4>2, <1>less
    <3>4. CASE UNCHANGED jobs /\ Fault
      <4>1. Stray' \subseteq Stray \cup {job} /\ StrayBudget + 1 <= StrayBudget'
        BY <3>1, <3>4, <2>11 DEF Fail, WriteCaught, Fault
      <4> QED BY <3>1, <4>1, <1>more
    <3> QED BY <3>3, <3>4, <2>11 DEF Fail, WriteCaught
  <2>12. CASE FinishJob
    <3>1. Stray' \subseteq Stray /\ StrayBudget <= StrayBudget' /\ life = "up"
      BY <2>12 DEF FinishJob
    <3> QED BY <3>1, <1>less
  <2>13. CASE LoopAgain
    <3>1. Stray' \subseteq Stray /\ StrayBudget <= StrayBudget' /\ life = "up"
      BY <2>13 DEF LoopAgain, TryAcquire
    <3> QED BY <3>1, <1>less
  <2> QED
    BY <1>2, <2>1, <2>2, <2>3, <2>4, <2>5, <2>6, <2>7, <2>8, <2>9,
       <2>10, <2>11, <2>12, <2>13 DEF Drain
<1>3. CASE Process
  <2>1. CASE RetryFires
    <3>1. Stray' \subseteq Stray /\ StrayBudget <= StrayBudget' /\ life = "up"
      BY <2>1 DEF RetryFires, Kick, TryAcquire
    <3> QED BY <3>1, <1>less
  <2>2. CASE HttpAnalysisStarts
    <3>1. Stray' \subseteq Stray /\ StrayBudget <= StrayBudget' /\ life = "up"
      BY <2>2 DEF HttpAnalysisStarts
    <3> QED BY <3>1, <1>less
  <2>3. CASE HttpAnalysisEnds
    <3>1. Stray' \subseteq Stray /\ StrayBudget <= StrayBudget' /\ life = "up"
      BY <2>3 DEF HttpAnalysisEnds
    <3> QED BY <3>1, <1>less
  <2>4. CASE Boot
    <3>1. Stray' \subseteq Stray /\ StrayBudget <= StrayBudget' /\ life = "up"
      BY <2>4 DEF Boot
    <3> QED BY <3>1, <1>less
  <2>5. CASE Recover
    <3>1. jobs' = [j \in Jobs |-> RecoveredRow(jobs[j])]
      BY <2>5 DEF Recover
    <3>2. \A j \in Jobs : jobs'[j].status # "running"
      BY <3>1, <1>rows, StatementEffects
    <3>3. Stray' = {}
      BY <3>2
    <3>4. Cardinality(Stray') = 0
      BY <3>3, FS_EmptySet
    <3> QED BY <3>4, <1>none
  <2>6. CASE RecoverFails
    <3>1. Stray' \subseteq Stray /\ StrayBudget <= StrayBudget' /\ life = "up"
      BY <2>6 DEF RecoverFails, Forget, Fault
    <3> QED BY <3>1, <1>less
  <2>7. CASE Stop
    <3>1. life = "up" /\ ~stopped /\ stopped' /\ UNCHANGED <<jobs, job, faults>>
      BY <2>7 DEF Stop
    <3>2. \/ pc' = pc
          \/ pc = "working" /\ pc' \in {"cancelling", "finishing"}
      BY <2>7 DEF Stop, Abort, CatchCancelled
    <3>3. CASE pc' = pc \/ pc' = "cancelling"
      <4>1. Stray' \subseteq Stray /\ StrayBudget <= StrayBudget'
        BY <3>1, <3>2, <3>3
      <4> QED BY <3>1, <4>1, <1>less
    <3>4. CASE pc = "working" /\ pc' = "finishing"
      <4>1. Stray' \subseteq Stray \cup {job} /\ StrayBudget + 1 <= StrayBudget'
        BY <3>1, <3>4
      <4> QED BY <3>1, <4>1, <1>more
    <3> QED BY <3>2, <3>3, <3>4
  <2>8. CASE Exit
    <3>1. Stray' \subseteq Stray /\ StrayBudget <= StrayBudget' /\ life = "up"
      BY <2>8 DEF Exit, Forget
    <3> QED BY <3>1, <1>less
  <2>9. CASE Crash
    <3>1. Stray' \subseteq Stray /\ StrayBudget <= StrayBudget' /\ life = "up"
      BY <2>9 DEF Crash, Forget
    <3> QED BY <3>1, <1>less
  <2> QED
    BY <1>3, <2>1, <2>2, <2>3, <2>4, <2>5, <2>6, <2>7, <2>8, <2>9 DEF
       Process
<1>4. CASE UNCHANGED vars
  BY <1>4, <1>less DEF vars
<1> QED BY <1>1, <1>2, <1>3, <1>4 DEF Next

\* The running rows drain() is not working on are at most as many as the
\* statements that failed, plus the job a shutdown interrupted.
THEOREM OrphansCorrect == Spec => []OrphansArePaidFor
<1>1. Init => StrayInv
  BY DEF Init, StrayInv
<1>2. ControlInv /\ StrayInv => OrphansArePaidFor
  <2> SUFFICES ASSUME ControlInv, StrayInv, life = "up"
               PROVE  Cardinality(Orphans) <= faults + (IF stopped THEN 1 ELSE 0)
    BY DEF OrphansArePaidFor
  <2> DEFINE b == faults + (IF stopped THEN 1 ELSE 0)
  <2>1. Orphans \subseteq Stray
    BY DEF Orphans, Stray
  <2>2. b \in Nat /\ StrayBudget <= b
    BY DEF ControlInv, TypeOK, HistoryTypes, StrayBudget
  <2>3. TypeOK /\ Cardinality(Stray) <= StrayBudget
    BY DEF ControlInv, StrayInv
  <2> HIDE DEF b
  <2>4. Cardinality(Orphans) <= b
    BY <2>1, <2>2, <2>3, NoStrayMore
  <2> QED
    BY <2>4 DEF b
<1> QED
  BY <1>1, <1>2, NextStray, ControlCorrect, PTL DEF Spec

=============================================================================
