--------------------------- MODULE OperationalSync ---------------------------
(***************************************************************************)
(* Operational synchronizations and the processes that run them.           *)
(*                                                                         *)
(* A server process (src/cli/apiStart.ts) takes the runtime advisory lock, *)
(* recovers operation_runs, listens and starts the scheduler               *)
(* (src/operations/scheduler.ts); a shutdown drains it before a deadline.  *)
(* A synchronization (src/operations/sync.ts) is run by the scheduler, by  *)
(* a request of the API or by the ops:sync command, which is a process of  *)
(* its own that takes no runtime lock; the sync advisory lock keeps them   *)
(* apart.  Statements reach PostgreSQL one at a time, so this module       *)
(* interleaves whole statements.  What a synchronization does to each      *)
(* lottery is the matter of RealBets: here a lottery only succeeds,        *)
(* succeeds in part or fails.                                              *)
(***************************************************************************)
EXTENDS Naturals, FiniteSets, Sequences

CONSTANTS
    Servers,        \* server processes
    AutoSync,       \* those with OPS_AUTO_SYNC on
    Commands,       \* ops:sync processes
    NumLotteries,   \* number of LOTTERIES
    None,           \* nobody
    MaxStarts,      \* bound on the starts of servers
    MaxAttempts,    \* bound on the calls of runOperationalSync
    MaxFaults       \* bound on the statements that fail, crashes, lost
                    \* sessions and drains that exceed the deadline

\* Who calls runOperationalSync, in which process.
Runners ==
    (AutoSync \X {"timer"}) \cup (Servers \X {"request"}) \cup (Commands \X {"main"})

ASSUME ServersAssumption ==
    AutoSync \subseteq Servers /\ Servers \cap Commands = {}
ASSUME BoundsAssumption ==
    NumLotteries \in Nat \ {0} /\ MaxStarts \in Nat
    /\ MaxAttempts \in Nat /\ MaxFaults \in Nat
ASSUME NoneAssumption == None \notin Servers \cup Runners

VARIABLES
    phase,        \* what each server process is doing
    armed,        \* servers whose scheduler has a timer set
    overview,     \* the warning a request for the agenda is about to write
    excused,      \* servers past their deadline or without their session
    runtimeLock,  \* the server that holds advisory lock 1515016
    syncLock,     \* the runner that holds advisory lock 1515015
    sync,         \* the call of runOperationalSync each runner is in
    runs,         \* status of each row of operation_runs, oldest first
    warnings,     \* status told by the notification operation:<id> of each
    lost,         \* sessions lost with the sync lock
    count         \* starts, attempts, faults and, of these, failed statements

vars == <<phase, armed, overview, excused, runtimeLock, syncLock, sync, runs,
          warnings, lost, count>>

-----------------------------------------------------------------------------
Phases == {"down", "locking", "recovering", "listening", "up", "draining",
           "releasing", "ending", "ended"}
Closed == {"success", "partial", "failed"}
Statuses == Closed \cup {"running", "abandoned"}

\* The statuses the user is warned about.
Warned == {"partial", "failed", "abandoned"}

Views  == [run : Nat, status : Warned \cup {"none"}]
NoView == [run |-> 0, status |-> "none"]

\* Inside runOperationalSync, past pg_try_advisory_lock.
Inside == {"create", "lotteries", "refresh", "finish", "rescue", "reread",
           "rewarn", "unlock"}

\* done lotteries gave this status so far; view is what a refresh has read.
Calls ==
    {c \in [pc : {"idle", "connect"} \cup Inside, run : Nat,
            done : 0..NumLotteries, status : Closed, view : Views] :
        c.pc = "lotteries" => c.done < NumLotteries}
Idle == [pc |-> "idle", run |-> 0, done |-> 0, status |-> "success", view |-> NoView]

\* The pool of a server is ended when it shuts down, that of a command never
\* before its run.
PoolOpen(p) == ~(p \in Servers /\ phase[p] = "ended")

\* Runners of a process that are in a call.
Busy(p) == {a \in Runners : a[1] = p /\ sync[a].pc # "idle"}

Fault ==
    count.faults < MaxFaults /\ count' = [count EXCEPT !.faults = @ + 1]
NoFault == UNCHANGED count

\* A statement on the pool of p fails: for a cause of its own, or because the
\* pool is ended.
Fails(p) ==
    \/ /\ PoolOpen(p)
       /\ count.faults < MaxFaults
       /\ count' = [count EXCEPT !.faults = @ + 1, !.errors = @ + 1]
    \/ ~PoolOpen(p) /\ NoFault

Latest == Len(runs)

\* The status of the latest run, if NotificationService.refresh() warns of it.
LatestView ==
    IF Latest > 0 /\ runs[Latest] \in Warned
    THEN [run |-> Latest, status |-> runs[Latest]]
    ELSE NoView

\* The upsert of the notification operation:<id>.
WarnedOf(v) ==
    IF v = NoView THEN warnings ELSE [warnings EXCEPT ![v.run] = v.status]

server == <<phase, armed, overview, excused, runtimeLock>>
tables == <<runs, warnings>>
-----------------------------------------------------------------------------
(* runOperationalSync                                                      *)

Goes(a, pc) == sync' = [sync EXCEPT ![a].pc = pc]

\* A scheduler whose finally arms the timer only if the run was not rejected.
RearmsAfterSuccess(a) ==
    IF a[2] = "timer" /\ phase[a[1]] = "up" /\ sync[a].pc # "connect"
    THEN armed \cup {a[1]} ELSE armed

\* The finally of execute(): inFlight is cleared, scheduleNext() arms the
\* timer unless the scheduler is stopped.
Rearmed(a) ==
    IF a[2] = "timer" /\ phase[a[1]] = "up" THEN armed \cup {a[1]} ELSE armed

\* The call returns or throws; a command exits with it.
Return(a) ==
    /\ sync' = [sync EXCEPT ![a] = Idle]
    /\ armed' = Rearmed(a)
    /\ UNCHANGED <<phase, overview, excused, runtimeLock>>

\* pg_try_advisory_lock: taken, taken by another (OperationAlreadyRunningError)
\* or failed, when the client is discarded.
TryLock(a) ==
    /\ sync[a].pc = "connect"
    /\ \/ /\ syncLock = None
          /\ PoolOpen(a[1])
          /\ syncLock' = a
          /\ Goes(a, "create")
          /\ NoFault
          /\ UNCHANGED server
       \/ /\ syncLock # None
          /\ PoolOpen(a[1])
          /\ Return(a)
          /\ NoFault
          /\ UNCHANGED syncLock
       \/ /\ Fails(a[1])
          /\ Return(a)
          /\ UNCHANGED syncLock
    /\ UNCHANGED <<tables, lost>>

\* A new row, of which no notification tells yet.
Inserted ==
    /\ runs' = Append(runs, "running")
    /\ warnings' = Append(warnings, "none")

\* operations.create(); without a run the catch has nothing to finish.
CreateRun(a) ==
    /\ sync[a].pc = "create"
    /\ \/ /\ PoolOpen(a[1])
          /\ Inserted
          /\ sync' = [sync EXCEPT
                ![a].pc = "lotteries", ![a].run = Latest + 1, ![a].done = 0]
          /\ NoFault
       \/ /\ Fails(a[1])
          /\ Goes(a, "unlock")
          /\ UNCHANGED tables
       \/ /\ PoolOpen(a[1])
          /\ Inserted                  \* the answer of the INSERT is lost
          /\ Fault
          /\ Goes(a, "unlock")
    /\ UNCHANGED <<server, syncLock, lost>>

\* The status after one more lottery: a run succeeds if all do, fails if all
\* do.
Combined(c, result) ==
    IF c.done = 0 \/ c.status = result THEN result ELSE "partial"

\* A loop over LOTTERIES that runs once more.
SyncOneMore(a) ==
    /\ sync[a].pc = "lotteries"
    /\ sync' = [sync EXCEPT
          ![a].done = @ + 1,
          ![a].pc = IF sync[a].done = NumLotteries THEN "refresh" ELSE @]
    /\ NoFault
    /\ UNCHANGED <<server, syncLock, tables, lost>>

\* One turn of the loop over LOTTERIES; an error stays within its lottery.
SyncLottery(a) ==
    /\ sync[a].pc = "lotteries"
    /\ \E result \in Closed :
          /\ PoolOpen(a[1]) \/ result = "failed"
          /\ sync' = [sync EXCEPT
                ![a].done = @ + 1,
                ![a].status = Combined(sync[a], result),
                ![a].pc = IF sync[a].done + 1 = NumLotteries THEN "refresh" ELSE @]
    /\ NoFault
    /\ UNCHANGED <<server, syncLock, tables, lost>>

\* What refresh({ id, status }) is given to warn of.
OwnView(a) ==
    IF sync[a].status \in Warned
    THEN [run |-> sync[a].run, status |-> sync[a].status]
    ELSE NoView

\* NotificationService.refresh() before finish(): when it fails, before or
\* after the warning is written, a success becomes partial.
Refresh(a) ==
    /\ sync[a].pc = "refresh"
    /\ \/ /\ PoolOpen(a[1])
          /\ warnings' = WarnedOf(OwnView(a))
          /\ Goes(a, "finish")
          /\ NoFault
       \/ /\ Fails(a[1])
          /\ \/ UNCHANGED warnings
             \/ PoolOpen(a[1]) /\ warnings' = WarnedOf(OwnView(a))
          /\ sync' = [sync EXCEPT
                ![a].pc = "finish",
                ![a].status = IF @ = "success" THEN "partial" ELSE @]
    /\ UNCHANGED <<server, syncLock, runs, lost>>

\* operations.finish(): the UPDATE does not look at the status it replaces.
Finished(a, status) == runs' = [runs EXCEPT ![sync[a].run] = status]

\* A finish() whose error is not caught.
FinishUncaught(a) ==
    /\ sync[a].pc = "finish"
    /\ Goes(a, "unlock")
    /\ \/ PoolOpen(a[1]) /\ Finished(a, sync[a].status) /\ NoFault
       \/ Fails(a[1]) /\ UNCHANGED runs
    /\ UNCHANGED <<server, syncLock, warnings, lost>>

\* finish() of the try block and what follows it.
FinishRun(a) ==
    /\ sync[a].pc = "finish"
    /\ \/ /\ PoolOpen(a[1])
          /\ Finished(a, sync[a].status)
          /\ Goes(a, "unlock")
          /\ NoFault
       \/ /\ Fails(a[1])
          /\ Goes(a, "rescue")
          /\ UNCHANGED runs
       \/ /\ PoolOpen(a[1])
          /\ Finished(a, sync[a].status)   \* the answer is lost
          /\ Fault
          /\ Goes(a, "rescue")
    /\ UNCHANGED <<server, syncLock, warnings, lost>>

\* A catch that takes every run for a failed one.
RescueAsFailed(a) ==
    /\ sync[a].pc = "rescue"
    /\ \/ PoolOpen(a[1]) /\ Finished(a, "failed") /\ NoFault
       \/ Fails(a[1]) /\ UNCHANGED runs
    /\ Goes(a, "reread")
    /\ UNCHANGED <<server, syncLock, warnings, lost>>

\* finish() of the catch, whose errors are swallowed.
RescueRun(a) ==
    /\ sync[a].pc = "rescue"
    /\ \/ /\ PoolOpen(a[1])
          /\ Finished(a, IF sync[a].status = "failed" THEN "failed" ELSE "partial")
          /\ NoFault
       \/ /\ Fails(a[1])
          /\ UNCHANGED runs
    /\ Goes(a, "reread")
    /\ UNCHANGED <<server, syncLock, warnings, lost>>

\* refresh() of the catch, without a run: the latest run is read ...
Reread(a) ==
    /\ sync[a].pc = "reread"
    /\ \/ /\ PoolOpen(a[1])
          /\ sync' = [sync EXCEPT ![a].pc = "rewarn", ![a].view = LatestView]
          /\ NoFault
       \/ /\ Fails(a[1])
          /\ Goes(a, "unlock")
    /\ UNCHANGED <<server, syncLock, tables, lost>>

\* ... and warned of.
Rewarn(a) ==
    /\ sync[a].pc = "rewarn"
    /\ \/ /\ PoolOpen(a[1])
          /\ warnings' = WarnedOf(sync[a].view)
          /\ NoFault
       \/ /\ Fails(a[1])
          /\ UNCHANGED warnings
    /\ Goes(a, "unlock")
    /\ UNCHANGED <<server, syncLock, runs, lost>>

\* A finally that gives the client back without unlocking.
ReleaseClientOnly(a) ==
    /\ sync[a].pc = "unlock"
    /\ Return(a)
    /\ NoFault
    /\ UNCHANGED <<tables, lost, syncLock>>

\* The finally: the unlock, or the end of the session that held the lock.
Unlock(a) ==
    /\ sync[a].pc = "unlock"
    /\ syncLock' = IF syncLock = a THEN None ELSE syncLock
    /\ Return(a)
    /\ NoFault
    /\ UNCHANGED <<tables, lost>>

Step(a) ==
    \/ TryLock(a) \/ CreateRun(a) \/ SyncLottery(a) \/ Refresh(a)
    \/ FinishRun(a) \/ RescueRun(a) \/ Reread(a) \/ Rewarn(a) \/ Unlock(a)

\* The PostgreSQL session of lockClient ends while the call goes on.
LoseSyncLock(a) ==
    /\ syncLock = a
    /\ Fault
    /\ syncLock' = None
    /\ lost' = lost + 1
    /\ UNCHANGED <<server, sync, tables>>

-----------------------------------------------------------------------------
(* Who calls it                                                            *)

Attempt(a) ==
    /\ sync[a].pc = "idle"
    /\ count.attempts < MaxAttempts
    /\ count' = [count EXCEPT !.attempts = @ + 1]
    /\ Goes(a, "connect")

\* The timer of scheduleNext() fires: execute().
TimerFires(s) ==
    /\ s \in armed
    /\ Attempt(<<s, "timer">>)
    /\ armed' = armed \ {s}
    /\ UNCHANGED <<phase, overview, excused, runtimeLock, syncLock, tables, lost>>

\* POST /api/v1/operations/sync
RequestSync(s) ==
    /\ phase[s] = "up"
    /\ Attempt(<<s, "request">>)
    /\ UNCHANGED <<server, syncLock, tables, lost>>

CommandSync(c) ==
    /\ Attempt(<<c, "main">>)
    /\ UNCHANGED <<server, syncLock, tables, lost>>

\* A request for the agenda refreshes the notifications first: it reads the
\* latest run ...
OverviewReads(s) ==
    /\ phase[s] = "up"
    /\ overview[s] = NoView
    /\ LatestView # NoView
    /\ overview' = [overview EXCEPT ![s] = LatestView]
    /\ NoFault
    /\ UNCHANGED <<phase, armed, excused, runtimeLock, syncLock, sync, tables, lost>>

\* ... and writes its warning; a failure is logged and the agenda served.
OverviewWarns(s) ==
    /\ overview[s] # NoView
    /\ \/ /\ PoolOpen(s)
          /\ warnings' = WarnedOf(overview[s])
          /\ NoFault
       \/ /\ Fails(s)
          /\ UNCHANGED warnings
    /\ overview' = [overview EXCEPT ![s] = NoView]
    /\ UNCHANGED <<phase, armed, excused, runtimeLock, syncLock, sync, runs, lost>>
-----------------------------------------------------------------------------
(* Server processes                                                        *)

Enters(s, p) == phase' = [phase EXCEPT ![s] = p]

\* The runtime lock after s releases it or dies.
Freed(s) == IF runtimeLock = s THEN None ELSE runtimeLock

Start(s) ==
    /\ phase[s] = "down"
    /\ count.starts < MaxStarts
    /\ count' = [count EXCEPT !.starts = @ + 1]
    /\ Enters(s, "locking")
    /\ UNCHANGED <<armed, overview, excused, runtimeLock, syncLock, sync, tables, lost>>

\* acquireRuntimeInstanceLock(): without it the process exits.
AcquireRuntime(s) ==
    /\ phase[s] = "locking"
    /\ NoFault
    /\ \/ /\ runtimeLock = None
          /\ runtimeLock' = s
          /\ Enters(s, "recovering")
       \/ /\ runtimeLock # None
          /\ Enters(s, "down")
          /\ UNCHANGED runtimeLock
    /\ UNCHANGED <<armed, overview, excused, syncLock, sync, tables, lost>>

\* recoverRunning()
RecoverRuns(s) ==
    /\ phase[s] = "recovering"
    /\ runs' = [i \in DOMAIN runs |->
                    IF runs[i] = "running" THEN "abandoned" ELSE runs[i]]
    /\ Enters(s, "listening")
    /\ NoFault
    /\ UNCHANGED <<armed, overview, excused, runtimeLock, syncLock, sync, warnings, lost>>

\* The server listens and the scheduler runs at once.
Listen(s) ==
    /\ phase[s] = "listening"
    /\ Enters(s, "up")
    /\ IF s \in AutoSync
       THEN Attempt(<<s, "timer">>)
       ELSE NoFault /\ UNCHANGED sync
    /\ UNCHANGED <<armed, overview, excused, runtimeLock, syncLock, tables, lost>>

\* The catch of main(): cleanupStartupFailure().
StartupFails(s) ==
    /\ phase[s] \in {"locking", "recovering", "listening"}
    /\ Fault
    /\ Enters(s, "down")
    /\ runtimeLock' = Freed(s)
    /\ excused' = excused \ {s}
    /\ UNCHANGED <<armed, overview, syncLock, sync, tables, lost>>

\* A signal: the server and the scheduler stop taking work.
Shutdown(s) ==
    /\ phase[s] = "up"
    /\ Enters(s, "draining")
    /\ armed' = armed \ {s}
    /\ NoFault
    /\ UNCHANGED <<overview, excused, runtimeLock, syncLock, sync, tables, lost>>

Drains(s) == Busy(s) # {} \/ overview[s] # NoView

\* A drain that does not wait for the run in flight.
DrainsNothing(s) ==
    /\ phase[s] = "draining"
    /\ Enters(s, "releasing")
    /\ NoFault
    /\ UNCHANGED <<armed, overview, excused, runtimeLock, syncLock, sync, tables, lost>>

\* Every request and the run in flight have ended ...
Drained(s) ==
    /\ phase[s] = "draining"
    /\ ~Drains(s)
    /\ Enters(s, "releasing")
    /\ NoFault
    /\ UNCHANGED <<armed, overview, excused, runtimeLock, syncLock, sync, tables, lost>>

\* ... or OPS_SHUTDOWN_TIMEOUT_SECONDS have passed; nothing is cancelled.
DeadlinePasses(s) ==
    /\ phase[s] = "draining"
    /\ Drains(s)
    /\ Fault
    /\ Enters(s, "releasing")
    /\ excused' = excused \cup {s}
    /\ UNCHANGED <<armed, overview, runtimeLock, syncLock, sync, tables, lost>>

\* runtimeLock.release(): confirmed, or the session is closed.
ReleaseRuntime(s) ==
    /\ phase[s] = "releasing"
    /\ Enters(s, "ending")
    /\ runtimeLock' = Freed(s)
    /\ NoFault
    /\ UNCHANGED <<armed, overview, excused, syncLock, sync, tables, lost>>

\* pool.end(): no statement can be sent any more.
EndPool(s) ==
    /\ phase[s] = "ending"
    /\ Enters(s, "ended")
    /\ NoFault
    /\ UNCHANGED <<armed, overview, excused, runtimeLock, syncLock, sync, tables, lost>>

\* Nothing is left to do: the process exits by itself.
Exit(s) ==
    /\ phase[s] = "ended"
    /\ ~Drains(s)
    /\ Enters(s, "down")
    /\ excused' = excused \ {s}
    /\ NoFault
    /\ UNCHANGED <<armed, overview, runtimeLock, syncLock, sync, tables, lost>>

\* The session that holds the runtime lock ends while the server goes on.
LoseRuntimeLock(s) ==
    /\ runtimeLock = s
    /\ Fault
    /\ runtimeLock' = None
    /\ excused' = excused \cup {s}
    /\ UNCHANGED <<phase, armed, overview, syncLock, sync, tables, lost>>

\* What a dead process leaves of the calls and the sync lock.
Killed(p) ==
    /\ sync' = [a \in Runners |-> IF a[1] = p THEN Idle ELSE sync[a]]
    /\ syncLock' = IF syncLock \in Busy(p) THEN None ELSE syncLock

CrashServer(s) ==
    /\ phase[s] # "down"
    /\ Fault
    /\ Killed(s)
    /\ Enters(s, "down")
    /\ armed' = armed \ {s}
    /\ overview' = [overview EXCEPT ![s] = NoView]
    /\ excused' = excused \ {s}
    /\ runtimeLock' = Freed(s)
    /\ UNCHANGED <<tables, lost>>

CrashCommand(c) ==
    /\ Busy(c) # {}
    /\ Fault
    /\ Killed(c)
    /\ UNCHANGED <<server, tables, lost>>
-----------------------------------------------------------------------------
Init ==
    /\ phase = [s \in Servers |-> "down"]
    /\ armed = {}
    /\ overview = [s \in Servers |-> NoView]
    /\ excused = {}
    /\ runtimeLock = None
    /\ syncLock = None
    /\ sync = [a \in Runners |-> Idle]
    /\ runs = <<>>
    /\ warnings = <<>>
    /\ lost = 0
    /\ count = [starts |-> 0, attempts |-> 0, faults |-> 0, errors |-> 0]

\* The steps of a start and of a shutdown that need nobody else.
Proceed(s) ==
    \/ AcquireRuntime(s) \/ RecoverRuns(s) \/ Listen(s)
    \/ OverviewWarns(s)
    \/ Drained(s) \/ ReleaseRuntime(s) \/ EndPool(s) \/ Exit(s)

Next ==
    \/ \E a \in Runners : Step(a) \/ LoseSyncLock(a)
    \/ \E s \in Servers :
          \/ Start(s) \/ Proceed(s) \/ StartupFails(s) \/ Shutdown(s)
          \/ TimerFires(s) \/ RequestSync(s) \/ OverviewReads(s)
          \/ DeadlinePasses(s) \/ LoseRuntimeLock(s) \/ CrashServer(s)
    \/ \E c \in Commands : CommandSync(c) \/ CrashCommand(c)

Spec == Init /\ [][Next]_vars

\* Statements are answered and the event loop gets to every callback.
Fairness ==
    /\ \A a \in Runners : WF_vars(Step(a))
    /\ \A s \in Servers : WF_vars(Proceed(s))

FairSpec == Spec /\ Fairness
-----------------------------------------------------------------------------
(* Properties                                                              *)

\* A warning to write is about a row that exists.
Names(v) == v = NoView \/ v.run \in DOMAIN runs

\* Types.  The code behaviour: no statement writes a status migration 008 does
\* not allow, no notification names a run that does not exist.
TypeOK ==
    /\ phase \in [Servers -> Phases]
    /\ armed \subseteq AutoSync
    /\ overview \in [Servers -> Views]
    /\ excused \subseteq Servers
    /\ runtimeLock \in Servers \cup {None}
    /\ syncLock \in Runners \cup {None}
    /\ sync \in [Runners -> Calls]
    /\ runs \in Seq(Statuses)
    /\ warnings \in Seq(Warned \cup {"none"})
    /\ Len(warnings) = Len(runs)
    /\ \A s \in Servers : Names(overview[s])
    /\ \A a \in Runners :
          sync[a].run \in {0} \cup DOMAIN runs /\ Names(sync[a].view)
    /\ lost \in Nat
    /\ count \in [starts : 0..MaxStarts, attempts : 0..MaxAttempts,
                  faults : 0..MaxFaults, errors : Nat]
    /\ lost + count.errors <= count.faults

\* At most one synchronization runs in all processes together, but for those
\* whose lock session was lost (the advisory lock of runOperationalSync, on
\* every path that leaves it).
OneSync == Cardinality({a \in Runners : sync[a].pc \in Inside}) <= 1 + lost

\* a has a run it is still to finish.
HasRun(a) == sync[a].pc \in {"lotteries", "refresh", "finish", "rescue"}

InHand == {sync[a].run : a \in {b \in Runners : HasRun(b)}}

Orphans == {r \in DOMAIN runs : runs[r] = "running"} \ InHand

\* It takes a crash, a lost answer or a drain past its deadline, or two failed
\* statements, to leave a row running that nobody is to finish: one error on
\* any path of runOperationalSync still closes its run.
OrphansArePaidFor == 2 * Cardinality(Orphans) + count.errors <= 2 * count.faults

\* A warning that a run ended badly is never about a run the history shows as
\* a success (notifications are refreshed before the run is finished, and
\* again, from the latest row, by the catch and by every look at the agenda).
WarningsMatch ==
    \A r \in DOMAIN runs :
        warnings[r] \in {"partial", "failed"} =>
            runs[r] \in {warnings[r], "running", "abandoned"}

\* A server that is up always has its next synchronization coming: the timer
\* is armed or the run in flight will arm it.
NoLostTimer ==
    \A s \in AutoSync :
        phase[s] = "up" => s \in armed \/ sync[<<s, "timer">>].pc # "idle"

\* A server that starts never abandons the run another server is working on,
\* unless that one exceeded its deadline or either lost its session: this is
\* what the runtime lock is held for, until the drain has ended.
RecoverySparesServers ==
    [][\A a \in Runners :
          /\ a[1] \in Servers
          /\ HasRun(a)
          /\ runs[sync[a].run] = "running"
          /\ runs'[sync[a].run] = "abandoned"
          => \E s \in excused : s = a[1] \/ phase[s] = "recovering"]_vars

\* Whatever fails, a runner that holds the sync lock lets go of it.
LockIsFreed == \A a \in Runners : (syncLock = a) ~> (syncLock # a)

\* What the notification of an abandoned run tells its reader: the run was
\* interrupted before it finished.
AbandonedWereInterrupted ==
    \A r \in DOMAIN runs : warnings[r] = "abandoned" => runs[r] = "abandoned"
=============================================================================
