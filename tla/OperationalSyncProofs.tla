------------------------ MODULE OperationalSyncProofs ------------------------
(***************************************************************************)
(* Theorems about OperationalSync, for every set of servers and commands   *)
(* and every bound.                                                        *)
(***************************************************************************)
EXTENDS OperationalSync, FiniteSetTheorems, TLAPS

-----------------------------------------------------------------------------
(* Sequences and records                                                   *)

\* Append() lengthens a sequence and keeps what it holds (INSERT).
LEMMA AppendFacts ==
    ASSUME NEW S, NEW q \in Seq(S), NEW e \in S
    PROVE  /\ Append(q, e) \in Seq(S)
           /\ Len(Append(q, e)) = Len(q) + 1
           /\ DOMAIN Append(q, e) = DOMAIN q \cup {Len(q) + 1}
           /\ \A i \in DOMAIN q : Append(q, e)[i] = q[i]
           /\ Append(q, e)[Len(q) + 1] = e
<1>1. Append(q, e) \in Seq(S) /\ Len(Append(q, e)) = Len(q) + 1
    OBVIOUS
<1>2. DOMAIN q = 1..Len(q) /\ DOMAIN Append(q, e) = 1..(Len(q) + 1) /\ Len(q) \in Nat
    OBVIOUS
<1>3. \A i \in 1..Len(q) : Append(q, e)[i] = q[i]
    OBVIOUS
<1>4. Append(q, e)[Len(q) + 1] = e
    OBVIOUS
<1>5. 1..(Len(q) + 1) = 1..Len(q) \cup {Len(q) + 1}
    BY <1>2
<1> QED
    BY <1>1, <1>2, <1>3, <1>4, <1>5

\* EXCEPT changes one element and not the length (UPDATE of a row).
LEMMA ExceptFacts ==
    ASSUME NEW S, NEW q \in Seq(S), NEW e \in S, NEW i
    PROVE  /\ [q EXCEPT ![i] = e] \in Seq(S)
           /\ Len([q EXCEPT ![i] = e]) = Len(q)
           /\ DOMAIN [q EXCEPT ![i] = e] = DOMAIN q
           /\ \A j \in DOMAIN q : [q EXCEPT ![i] = e][j] = IF j = i THEN e ELSE q[j]
<1> DEFINE r == [q EXCEPT ![i] = e]
<1>1. q \in [1..Len(q) -> S] /\ Len(q) \in Nat
    OBVIOUS
<1>2. r \in [1..Len(q) -> S]
    BY <1>1
<1>3. r \in Seq(S) /\ Len(r) = Len(q)
    BY <1>1, <1>2
<1> QED
    BY <1>1, <1>2, <1>3
-----------------------------------------------------------------------------
(* Type correctness: the tables, the calls and the rest apart              *)

TablesTyped ==
    /\ runs \in Seq(Statuses)
    /\ warnings \in Seq(Warned \cup {"none"})
    /\ Len(warnings) = Len(runs)

CallsTyped ==
    /\ overview \in [Servers -> Views]
    /\ sync \in [Runners -> Calls]
    /\ \A s \in Servers : Names(overview[s])
    /\ \A a \in Runners :
          sync[a].run \in {0} \cup DOMAIN runs /\ Names(sync[a].view)

CountTyped ==
    /\ lost \in Nat
    /\ count \in [starts : 0..MaxStarts, attempts : 0..MaxAttempts,
                  faults : 0..MaxFaults, errors : Nat]
    /\ lost + count.errors <= count.faults

ControlTyped ==
    /\ phase \in [Servers -> Phases]
    /\ armed \subseteq AutoSync
    /\ excused \subseteq Servers
    /\ runtimeLock \in Servers \cup {None}
    /\ syncLock \in Runners \cup {None}
    /\ CountTyped

\* The type invariant in its three parts.
LEMMA TypeParts == TypeOK <=> TablesTyped /\ CallsTyped /\ ControlTyped
    BY DEF TypeOK, TablesTyped, CallsTyped, ControlTyped, CountTyped

\* What a step may do to the two tables; no row disappears.
Grows == TablesTyped' /\ DOMAIN runs \subseteq DOMAIN runs'

\* The rows and their notifications are numbered alike.
LEMMA DomainFacts ==
    ASSUME TablesTyped
    PROVE  DOMAIN runs = 1..Len(runs) /\ DOMAIN warnings = DOMAIN runs
           /\ Len(runs) \in Nat
    BY DEF TablesTyped

\* create() keeps the tables typed and adds the row it answers.
LEMMA InsertGrows ==
    ASSUME TablesTyped, Inserted
    PROVE  Grows /\ Len(runs) + 1 \in DOMAIN runs'
<1>1. "running" \in Statuses /\ "none" \in Warned \cup {"none"}
    BY DEF Statuses
<1> QED
    BY <1>1, AppendFacts DEF TablesTyped, Inserted, Grows

\* finish() keeps the tables typed.
LEMMA FinishGrows ==
    ASSUME TablesTyped, NEW a \in Runners, NEW status \in Closed,
           Finished(a, status), UNCHANGED warnings
    PROVE  Grows
<1>1. status \in Statuses
    BY DEF Statuses
<1> QED
    BY <1>1, ExceptFacts DEF TablesTyped, Finished, Grows

\* The upsert of a notification keeps the tables typed.
LEMMA WarningGrows ==
    ASSUME TablesTyped, NEW v \in Views,
           warnings' = WarnedOf(v), UNCHANGED runs
    PROVE  Grows
<1>1. v.status \in Warned \cup {"none"}
    BY DEF Views
<1>2. warnings' \in Seq(Warned \cup {"none"}) /\ Len(warnings') = Len(warnings)
    BY <1>1, ExceptFacts DEF WarnedOf, TablesTyped
<1> QED
    BY <1>2 DEF TablesTyped, Grows

\* recoverRunning() keeps the tables typed.
LEMMA RecoverGrows ==
    ASSUME TablesTyped, NEW s \in Servers, RecoverRuns(s)
    PROVE  Grows
<1>1. runs \in [1..Len(runs) -> Statuses] /\ Len(runs) \in Nat /\ DOMAIN runs = 1..Len(runs)
    BY DEF TablesTyped
<1>2. runs' \in [1..Len(runs) -> Statuses]
    BY <1>1 DEF RecoverRuns, Statuses
<1>3. runs' \in Seq(Statuses) /\ Len(runs') = Len(runs)
    BY <1>1, <1>2
<1> QED
    BY <1>1, <1>2, <1>3 DEF RecoverRuns, TablesTyped, Grows

\* So does a step that writes nothing.
LEMMA SameGrows == ASSUME TablesTyped, UNCHANGED tables PROVE Grows
    BY DEF TablesTyped, tables, Grows

\* The views the code makes.
LEMMA ViewFacts ==
    ASSUME TypeOK
    PROVE  /\ NoView \in Views /\ Names(NoView)
           /\ LatestView \in Views /\ Names(LatestView)
           /\ \A a \in Runners :
                 /\ sync[a].view \in Views /\ Names(sync[a].view)
                 /\ OwnView(a) \in Views
                 /\ sync[a].run # 0 => Names(OwnView(a))
           /\ \A s \in Servers : overview[s] \in Views /\ Names(overview[s])
<1>1. NoView \in Views
    BY DEF NoView, Views
<1>2. LatestView \in Views /\ Names(LatestView)
    <2>1. Len(runs) \in Nat /\ DOMAIN runs = 1..Len(runs)
        BY DEF TypeOK
    <2>2. CASE Latest > 0 /\ runs[Latest] \in Warned
        BY <2>1, <2>2 DEF LatestView, Latest, Views, Names
    <2>3. CASE ~(Latest > 0 /\ runs[Latest] \in Warned)
        BY <1>1, <2>3 DEF LatestView, Names
    <2> QED BY <2>2, <2>3
<1>3. ASSUME NEW a \in Runners
      PROVE  /\ sync[a].view \in Views /\ Names(sync[a].view)
             /\ OwnView(a) \in Views
             /\ sync[a].run # 0 => Names(OwnView(a))
    <2>1. sync[a] \in Calls /\ Names(sync[a].view) /\ sync[a].run \in {0} \cup DOMAIN runs
        BY DEF TypeOK
    <2>2. sync[a].run \in Nat /\ sync[a].status \in Closed
        BY <2>1 DEF Calls
    <2>3. OwnView(a) \in Views
        BY <1>1, <2>2 DEF OwnView, Views
    <2>4. sync[a].run # 0 => Names(OwnView(a))
        BY <2>1 DEF OwnView, Names
    <2> QED BY <2>1, <2>3, <2>4 DEF Calls
<1> QED
    BY <1>1, <1>2, <1>3 DEF TypeOK, Names

\* One call changes.
LEMMA OneCallChanges ==
    ASSUME TypeOK, Grows, NEW a \in Runners, NEW c \in Calls,
           c.run \in {0} \cup DOMAIN runs',
           c.view = NoView \/ c.view.run \in DOMAIN runs',
           sync' = [sync EXCEPT ![a] = c], UNCHANGED overview
    PROVE  CallsTyped'
    BY DEF TypeOK, Grows, CallsTyped, Names

\* Calls stay typed when they do not move.
LEMMA SameCalls ==
    ASSUME TypeOK, Grows, UNCHANGED <<sync, overview>>
    PROVE  CallsTyped'
    BY DEF TypeOK, Grows, CallsTyped, Names

\* A call that goes on stays typed.
LEMMA MovedCall ==
    ASSUME TypeOK, Grows, NEW a \in Runners,
           NEW pc \in ({"idle", "connect"} \cup Inside) \ {"lotteries"},
           Goes(a, pc), UNCHANGED overview
    PROVE  CallsTyped'
<1> DEFINE c == [sync[a] EXCEPT !.pc = pc]
<1>1. sync[a] \in Calls /\ Names(sync[a].view) /\ sync[a].run \in {0} \cup DOMAIN runs
    BY DEF TypeOK
<1>2. c \in Calls /\ c.run = sync[a].run /\ c.view = sync[a].view
    BY <1>1 DEF Calls
<1>3. sync' = [sync EXCEPT ![a] = c]
    BY DEF Goes
<1> QED
    BY <1>1, <1>2, <1>3, OneCallChanges DEF Names, Grows

\* A call that returns stays typed.
LEMMA ReturnedCall ==
    ASSUME TypeOK, Grows, NEW a \in Runners, Return(a)
    PROVE  CallsTyped'
<1>1. Idle \in Calls /\ Idle.run = 0 /\ Idle.view = NoView
    BY BoundsAssumption DEF Idle, Calls, Views, NoView, Closed
<1> QED
    BY <1>1, OneCallChanges DEF Return


\* The counters stay within their bounds.
LEMMA CountMoves ==
    ASSUME TypeOK, UNCHANGED lost, NEW p, NoFault \/ Fault \/ Fails(p)
    PROVE  CountTyped'
<1> DEFINE C == [starts : 0..MaxStarts, attempts : 0..MaxAttempts,
                 faults : 0..MaxFaults, errors : Nat]
<1>0. MaxFaults \in Nat
    BY BoundsAssumption
<1>1. count \in C /\ lost \in Nat /\ lost + count.errors <= count.faults
    BY DEF TypeOK
<1>2. CASE NoFault
    BY <1>1, <1>2 DEF NoFault, CountTyped
<1>3. CASE Fault
    BY <1>0, <1>1, <1>3 DEF Fault, CountTyped
<1>4. CASE count.faults < MaxFaults /\ count' = [count EXCEPT !.faults = @ + 1, !.errors = @ + 1]
    <2>1. count' = [starts |-> count.starts, attempts |-> count.attempts,
                    faults |-> count.faults + 1, errors |-> count.errors + 1]
        BY <1>1, <1>4
    <2> QED
        BY <1>0, <1>1, <1>4, <2>1 DEF CountTyped
<1> QED
    BY <1>2, <1>3, <1>4 DEF Fails

\* A new call counts as an attempt and nothing else.
LEMMA AttemptCount ==
    ASSUME TypeOK, UNCHANGED lost, NEW a, Attempt(a)
    PROVE  CountTyped'
<1>1. MaxAttempts \in Nat
    BY BoundsAssumption
<1> QED
    BY <1>1, SMTT(30) DEF TypeOK, Attempt, CountTyped

\* Everything but the calls and the tables, in a step of a call.
LEMMA StepControl ==
    ASSUME TypeOK, NEW a \in Runners, Step(a)
    PROVE  ControlTyped'
<1>1. CountTyped'
    BY CountMoves DEF Step, TryLock, CreateRun, SyncLottery, Refresh, FinishRun,
        RescueRun, Reread, Rewarn, Unlock
<1>2. Rearmed(a) \subseteq AutoSync
    <2>1. a[2] = "timer" => a[1] \in AutoSync
        BY DEF Runners
    <2> QED
        BY <2>1 DEF Rearmed, TypeOK
<1>3. CASE TryLock(a)
    BY <1>1, <1>2, <1>3 DEF TryLock, TypeOK, ControlTyped, Return, server
<1>4. CASE CreateRun(a)
    BY <1>1, <1>2, <1>4 DEF CreateRun, TypeOK, ControlTyped, server
<1>5. CASE SyncLottery(a)
    BY <1>1, <1>2, <1>5 DEF SyncLottery, TypeOK, ControlTyped, server
<1>6. CASE Refresh(a)
    BY <1>1, <1>2, <1>6 DEF Refresh, TypeOK, ControlTyped, server
<1>7. CASE FinishRun(a)
    BY <1>1, <1>2, <1>7 DEF FinishRun, TypeOK, ControlTyped, server
<1>8. CASE RescueRun(a)
    BY <1>1, <1>2, <1>8 DEF RescueRun, TypeOK, ControlTyped, server
<1>9. CASE Reread(a)
    BY <1>1, <1>2, <1>9 DEF Reread, TypeOK, ControlTyped, server
<1>10. CASE Rewarn(a)
    BY <1>1, <1>2, <1>10 DEF Rewarn, TypeOK, ControlTyped, server
<1>11. CASE Unlock(a)
    BY <1>1, <1>2, <1>11 DEF Unlock, TypeOK, ControlTyped, Return, server
<1> QED
    BY <1>3, <1>4, <1>5, <1>6, <1>7, <1>8, <1>9, <1>10, <1>11 DEF Step

\* One more start.
LEMMA CountStarts ==
    ASSUME TypeOK, UNCHANGED lost, count.starts < MaxStarts,
           count' = [count EXCEPT !.starts = @ + 1]
    PROVE  CountTyped'
<1> DEFINE C == [starts : 0..MaxStarts, attempts : 0..MaxAttempts,
                 faults : 0..MaxFaults, errors : Nat]
<1>1. count \in C /\ lost \in Nat /\ lost + count.errors <= count.faults
    BY DEF TypeOK
<1>2. count.starts + 1 \in 0..MaxStarts
    BY <1>1, BoundsAssumption
<1>3. count' \in C
    BY <1>1, <1>2
<1>4. count'.errors = count.errors /\ count'.faults = count.faults
    BY <1>1
<1> QED
    BY <1>1, <1>3, <1>4 DEF CountTyped

\* The same in a step of a server.
LEMMA ServerControl ==
    ASSUME TypeOK, NEW s \in Servers,
           \/ Start(s) \/ Proceed(s) \/ StartupFails(s) \/ Shutdown(s)
           \/ TimerFires(s) \/ RequestSync(s) \/ OverviewReads(s)
           \/ DeadlinePasses(s) \/ LoseRuntimeLock(s) \/ CrashServer(s)
    PROVE  ControlTyped'
<1>1. CASE Start(s)
    <2>1. CountTyped'
        BY <1>1, CountStarts DEF Start
    <2> QED
        BY <1>1, <2>1, ServersAssumption DEF Start, TypeOK, ControlTyped, Enters, Freed,
            Killed, server, Phases
<1>2. CASE AcquireRuntime(s)
    <2>1. CountTyped'
        BY <1>2, CountMoves DEF AcquireRuntime
    <2> QED
        BY <1>2, <2>1, ServersAssumption DEF AcquireRuntime, TypeOK, ControlTyped, Enters,
            Freed, Killed, server, Phases
<1>3. CASE RecoverRuns(s)
    <2>1. CountTyped'
        BY <1>3, CountMoves DEF RecoverRuns
    <2> QED
        BY <1>3, <2>1, ServersAssumption DEF RecoverRuns, TypeOK, ControlTyped, Enters,
            Freed, Killed, server, Phases
<1>4. CASE Listen(s)
    <2>1. CountTyped'
        BY <1>4, CountMoves, AttemptCount DEF Listen
    <2> QED
        BY <1>4, <2>1, ServersAssumption DEF Listen, TypeOK, ControlTyped, Enters, Freed,
            Killed, server, Phases
<1>5. CASE OverviewWarns(s)
    <2>1. CountTyped'
        BY <1>5, CountMoves DEF OverviewWarns
    <2> QED
        BY <1>5, <2>1, ServersAssumption DEF OverviewWarns, TypeOK, ControlTyped, Enters,
            Freed, Killed, server, Phases
<1>6. CASE Drained(s)
    <2>1. CountTyped'
        BY <1>6, CountMoves DEF Drained
    <2> QED
        BY <1>6, <2>1, ServersAssumption DEF Drained, TypeOK, ControlTyped, Enters, Freed,
            Killed, server, Phases
<1>7. CASE ReleaseRuntime(s)
    <2>1. CountTyped'
        BY <1>7, CountMoves DEF ReleaseRuntime
    <2> QED
        BY <1>7, <2>1, ServersAssumption DEF ReleaseRuntime, TypeOK, ControlTyped, Enters,
            Freed, Killed, server, Phases
<1>8. CASE EndPool(s)
    <2>1. CountTyped'
        BY <1>8, CountMoves DEF EndPool
    <2> QED
        BY <1>8, <2>1, ServersAssumption DEF EndPool, TypeOK, ControlTyped, Enters, Freed,
            Killed, server, Phases
<1>9. CASE Exit(s)
    <2>1. CountTyped'
        BY <1>9, CountMoves DEF Exit
    <2> QED
        BY <1>9, <2>1, ServersAssumption DEF Exit, TypeOK, ControlTyped, Enters, Freed,
            Killed, server, Phases
<1>10. CASE StartupFails(s)
    <2>1. CountTyped'
        BY <1>10, CountMoves DEF StartupFails
    <2> QED
        BY <1>10, <2>1, ServersAssumption DEF StartupFails, TypeOK, ControlTyped, Enters,
            Freed, Killed, server, Phases
<1>11. CASE Shutdown(s)
    <2>1. CountTyped'
        BY <1>11, CountMoves DEF Shutdown
    <2> QED
        BY <1>11, <2>1, ServersAssumption DEF Shutdown, TypeOK, ControlTyped, Enters, Freed,
            Killed, server, Phases
<1>12. CASE TimerFires(s)
    <2>1. CountTyped'
        BY <1>12, CountMoves, AttemptCount DEF TimerFires
    <2> QED
        BY <1>12, <2>1, ServersAssumption DEF TimerFires, TypeOK, ControlTyped, Enters,
            Freed, Killed, server, Phases
<1>13. CASE RequestSync(s)
    <2>1. CountTyped'
        BY <1>13, CountMoves, AttemptCount DEF RequestSync
    <2> QED
        BY <1>13, <2>1, ServersAssumption DEF RequestSync, TypeOK, ControlTyped, Enters,
            Freed, Killed, server, Phases
<1>14. CASE OverviewReads(s)
    <2>1. CountTyped'
        BY <1>14, CountMoves DEF OverviewReads
    <2> QED
        BY <1>14, <2>1, ServersAssumption DEF OverviewReads, TypeOK, ControlTyped, Enters,
            Freed, Killed, server, Phases
<1>15. CASE DeadlinePasses(s)
    <2>1. CountTyped'
        BY <1>15, CountMoves DEF DeadlinePasses
    <2> QED
        BY <1>15, <2>1, ServersAssumption DEF DeadlinePasses, TypeOK, ControlTyped, Enters,
            Freed, Killed, server, Phases
<1>16. CASE LoseRuntimeLock(s)
    <2>1. CountTyped'
        BY <1>16, CountMoves DEF LoseRuntimeLock
    <2> QED
        BY <1>16, <2>1, ServersAssumption DEF LoseRuntimeLock, TypeOK, ControlTyped, Enters,
            Freed, Killed, server, Phases
<1>17. CASE CrashServer(s)
    <2>1. CountTyped'
        BY <1>17, CountMoves DEF CrashServer
    <2> QED
        BY <1>17, <2>1, ServersAssumption DEF CrashServer, TypeOK, ControlTyped, Enters,
            Freed, Killed, server, Phases
<1> QED
    BY <1>1, <1>2, <1>3, <1>4, <1>5, <1>6, <1>7, <1>8, <1>9, <1>10, <1>11, <1>12, <1>13,
        <1>14, <1>15, <1>16, <1>17 DEF Proceed

\* A lost session of the sync lock is paid for by a fault.
LEMMA LoseSyncLockControl ==
    ASSUME TypeOK, NEW a \in Runners, LoseSyncLock(a)
    PROVE  ControlTyped'
<1>1. CountTyped'
    <2>1. MaxFaults \in Nat
        BY BoundsAssumption
    <2>2. lost' = lost + 1 /\ count.faults < MaxFaults
          /\ count' = [count EXCEPT !.faults = @ + 1]
        BY DEF LoseSyncLock, Fault
    <2>3. /\ lost \in Nat /\ lost + count.errors <= count.faults
          /\ count \in [starts : 0..MaxStarts, attempts : 0..MaxAttempts,
                        faults : 0..MaxFaults, errors : Nat]
        BY DEF TypeOK
    <2>4. count' \in [starts : 0..MaxStarts, attempts : 0..MaxAttempts,
                      faults : 0..MaxFaults, errors : Nat]
          /\ count'.faults = count.faults + 1 /\ count'.errors = count.errors
        BY <2>1, <2>2, <2>3
    <2>5. lost' \in Nat /\ lost' + count'.errors <= count'.faults
        BY <2>2, <2>3, <2>4
    <2> QED
        BY <2>4, <2>5 DEF CountTyped
<1> QED
    BY <1>1 DEF LoseSyncLock, TypeOK, ControlTyped, server

\* The steps of ops:sync processes leave the servers typed.
LEMMA CommandControl ==
    ASSUME TypeOK, NEW c \in Commands, CommandSync(c) \/ CrashCommand(c)
    PROVE  ControlTyped'
<1>1. CountTyped'
    BY CountMoves, AttemptCount DEF CommandSync, CrashCommand
<1>2. CASE CommandSync(c)
    BY <1>1, <1>2 DEF CommandSync, TypeOK, ControlTyped, server
<1>3. CASE CrashCommand(c)
    BY <1>1, <1>3 DEF CrashCommand, TypeOK, ControlTyped, Killed, server
<1> QED
    BY <1>2, <1>3

\* One lemma for each statement of runOperationalSync: it keeps the tables and the
\* calls typed.  The try-lock,
LEMMA TryLockCalls ==
    ASSUME TypeOK, NEW a \in Runners, TryLock(a)
    PROVE  Grows /\ CallsTyped'
<1>1. Grows
    BY TypeParts, SameGrows DEF TryLock
<1>2. Return(a) \/ (Goes(a, "create") /\ UNCHANGED overview)
    BY DEF TryLock, server
<1> QED
    BY <1>1, <1>2, MovedCall, ReturnedCall DEF Inside

\* create(),
LEMMA CreateRunCalls ==
    ASSUME TypeOK, NEW a \in Runners, CreateRun(a)
    PROVE  Grows /\ CallsTyped'
<1>1. CASE Goes(a, "unlock")
    <2>1. Grows
        BY <1>1, TypeParts, SameGrows, InsertGrows DEF CreateRun
    <2> QED
        BY <1>1, <2>1, MovedCall DEF Inside, CreateRun, server
<1>2. CASE /\ Inserted
              /\ sync' = [sync EXCEPT
                    ![a].pc = "lotteries", ![a].run = Latest + 1, ![a].done = 0]
    <2>1. Grows /\ Len(runs) + 1 \in DOMAIN runs' /\ Len(runs) \in Nat
        BY <1>2, TypeParts, InsertGrows, DomainFacts
    <2> DEFINE c == [sync[a] EXCEPT !.pc = "lotteries", !.run = Latest + 1, !.done = 0]
    <2>2. sync[a] \in Calls /\ Names(sync[a].view)
        BY DEF TypeOK
    <2>3. c \in Calls /\ c.run = Len(runs) + 1 /\ c.view = sync[a].view
        <3>1. 0 \in 0..NumLotteries /\ 0 < NumLotteries
            BY BoundsAssumption
        <3>2. Latest + 1 \in Nat /\ Latest + 1 = Len(runs) + 1
            BY <2>1 DEF Latest
        <3>3. sync[a] \in [pc : {"idle", "connect"} \cup Inside, run : Nat,
                           done : 0..NumLotteries, status : Closed, view : Views]
            BY <2>2 DEF Calls
        <3>4. "lotteries" \in {"idle", "connect"} \cup Inside
            BY DEF Inside
        <3>5. c \in [pc : {"idle", "connect"} \cup Inside, run : Nat,
                     done : 0..NumLotteries, status : Closed, view : Views]
            BY <3>1, <3>2, <3>3, <3>4
        <3>6. c.run = Latest + 1 /\ c.done = 0 /\ c.view = sync[a].view
            BY <3>3
        <3> QED
            BY <3>1, <3>2, <3>5, <3>6 DEF Calls
    <2>4. sync' = [sync EXCEPT ![a] = c]
        BY <1>2, <2>2 DEF TypeOK
    <2> QED
        BY <2>1, <2>2, <2>3, <2>4, OneCallChanges DEF Names, Grows, CreateRun, server
<1> QED
    BY <1>1, <1>2 DEF CreateRun

\* a turn of the loop over LOTTERIES,
LEMMA SyncLotteryCalls ==
    ASSUME TypeOK, NEW a \in Runners, SyncLottery(a)
    PROVE  Grows /\ CallsTyped'
<1>1. Grows
    BY TypeParts, SameGrows DEF SyncLottery
<1>2. PICK result \in Closed :
        sync' = [sync EXCEPT
            ![a].done = @ + 1,
            ![a].status = Combined(sync[a], result),
            ![a].pc = IF sync[a].done + 1 = NumLotteries THEN "refresh" ELSE @]
    BY DEF SyncLottery
<1> DEFINE c == [sync[a] EXCEPT
            !.done = @ + 1,
            !.status = Combined(sync[a], result),
            !.pc = IF sync[a].done + 1 = NumLotteries THEN "refresh" ELSE @]
<1>3. sync[a] \in Calls /\ Names(sync[a].view) /\ sync[a].run \in {0} \cup DOMAIN runs
    BY DEF TypeOK
<1>4. sync[a].pc = "lotteries"
    BY DEF SyncLottery
<1>5. Combined(sync[a], result) \in Closed
    BY DEF Combined, Closed
<1>6. c \in Calls /\ c.run = sync[a].run /\ c.view = sync[a].view
    <2>1. /\ sync[a].run \in Nat /\ sync[a].view \in Views
          /\ sync[a].done \in 0..NumLotteries /\ sync[a].done < NumLotteries
        BY <1>3, <1>4 DEF Calls
    <2>2. /\ sync[a].done + 1 \in 0..NumLotteries
          /\ sync[a].done + 1 = NumLotteries \/ sync[a].done + 1 < NumLotteries
        BY <2>1, BoundsAssumption
    <2>3. sync[a] \in [pc : {"idle", "connect"} \cup Inside, run : Nat,
                       done : 0..NumLotteries, status : Closed, view : Views]
        BY <1>3 DEF Calls
    <2>4. c \in [pc : {"idle", "connect"} \cup Inside, run : Nat,
                 done : 0..NumLotteries, status : Closed, view : Views]
        BY <1>5, <2>2, <2>3 DEF Inside
    <2>5. /\ c.run = sync[a].run /\ c.view = sync[a].view
          /\ c.done = sync[a].done + 1
          /\ c.pc = IF sync[a].done + 1 = NumLotteries THEN "refresh" ELSE sync[a].pc
        BY <2>3
    <2> QED
        BY <1>4, <2>2, <2>4, <2>5 DEF Calls
<1>7. sync' = [sync EXCEPT ![a] = c]
    BY <1>2 DEF TypeOK
<1> QED
    BY <1>1, <1>3, <1>6, <1>7, OneCallChanges DEF SyncLottery, server, Names, Grows

\* the refresh before the end,
LEMMA RefreshCalls ==
    ASSUME TypeOK, NEW a \in Runners, Refresh(a)
    PROVE  Grows /\ CallsTyped'
<1>1. Grows
    BY TypeParts, SameGrows, WarningGrows, ViewFacts DEF Refresh, tables
<1>2. CASE Goes(a, "finish")
    BY <1>1, <1>2, MovedCall DEF Refresh, server, Inside
<1>3. CASE sync' = [sync EXCEPT ![a].pc = "finish",
                 ![a].status = IF @ = "success" THEN "partial" ELSE @]
    <2> DEFINE c == [sync[a] EXCEPT !.pc = "finish",
                        !.status = IF @ = "success" THEN "partial" ELSE @]
    <2>1. sync[a] \in Calls /\ Names(sync[a].view) /\ sync[a].run \in {0} \cup DOMAIN runs
        BY DEF TypeOK
    <2>2. c \in Calls /\ c.run = sync[a].run /\ c.view = sync[a].view
        BY <2>1 DEF Calls, Inside, Closed
    <2>3. sync' = [sync EXCEPT ![a] = c]
        BY <1>3 DEF TypeOK
    <2> QED
        BY <1>1, <2>1, <2>2, <2>3, OneCallChanges DEF Refresh, server, Names, Grows
<1> QED
    BY <1>2, <1>3 DEF Refresh

\* finish() of the try block,
LEMMA FinishRunCalls ==
    ASSUME TypeOK, NEW a \in Runners, FinishRun(a)
    PROVE  Grows /\ CallsTyped'
<1>1. sync[a].status \in Closed
    BY DEF TypeOK, Calls
<1>2. Grows
    BY <1>1, TypeParts, SameGrows, FinishGrows DEF FinishRun, tables
<1> QED
    BY <1>2, MovedCall DEF FinishRun, server, Inside

\* finish() of the catch,
LEMMA RescueRunCalls ==
    ASSUME TypeOK, NEW a \in Runners, RescueRun(a)
    PROVE  Grows /\ CallsTyped'
<1>1. (IF sync[a].status = "failed" THEN "failed" ELSE "partial") \in Closed
    BY DEF Closed
<1>2. Grows
    BY <1>1, TypeParts, SameGrows, FinishGrows DEF RescueRun, tables
<1> QED
    BY <1>2, MovedCall DEF RescueRun, server, Inside

\* the reading of the latest run,
LEMMA RereadCalls ==
    ASSUME TypeOK, NEW a \in Runners, Reread(a)
    PROVE  Grows /\ CallsTyped'
<1>1. Grows
    BY TypeParts, SameGrows DEF Reread
<1>2. CASE Goes(a, "unlock")
    BY <1>1, <1>2, MovedCall DEF Reread, server, Inside
<1>3. CASE sync' = [sync EXCEPT ![a].pc = "rewarn", ![a].view = LatestView]
    <2> DEFINE c == [sync[a] EXCEPT !.pc = "rewarn", !.view = LatestView]
    <2>1. sync[a] \in Calls /\ sync[a].run \in {0} \cup DOMAIN runs
        BY DEF TypeOK
    <2>2. c \in Calls /\ c.run = sync[a].run /\ c.view = LatestView
        BY <2>1, ViewFacts DEF Calls, Inside
    <2>3. sync' = [sync EXCEPT ![a] = c]
        BY <1>3 DEF TypeOK
    <2> QED
        BY <1>1, <2>1, <2>2, <2>3, OneCallChanges, ViewFacts DEF Reread, server, Names, Grows
<1> QED
    BY <1>2, <1>3 DEF Reread

\* the warning of it,
LEMMA RewarnCalls ==
    ASSUME TypeOK, NEW a \in Runners, Rewarn(a)
    PROVE  Grows /\ CallsTyped'
<1>1. Grows
    BY TypeParts, SameGrows, WarningGrows, ViewFacts DEF Rewarn, tables
<1> QED
    BY <1>1, MovedCall DEF Rewarn, server, Inside

\* and the unlock.
LEMMA UnlockCalls ==
    ASSUME TypeOK, NEW a \in Runners, Unlock(a)
    PROVE  Grows /\ CallsTyped'
<1>1. Grows
    BY TypeParts, SameGrows DEF Unlock
<1> QED
    BY <1>1, ReturnedCall DEF Unlock

\* An attempt of a runner.
LEMMA AttemptCalls ==
    ASSUME TypeOK, Grows, NEW a \in Runners, Attempt(a), UNCHANGED overview
    PROVE  CallsTyped'
    BY MovedCall DEF Attempt

\* The end of a process leaves the calls of the others typed.
LEMMA KilledCalls ==
    ASSUME TypeOK, Grows, NEW p, Killed(p),
           \A s \in Servers : overview'[s] \in {overview[s], NoView},
           overview' \in [Servers -> Views]
    PROVE  CallsTyped'
<1>1. Idle \in Calls /\ Idle.run = 0 /\ Idle.view = NoView
    BY BoundsAssumption DEF Idle, Calls, Views, NoView, Closed
<1> QED
    BY <1>1 DEF TypeOK, Grows, CallsTyped, Names, Killed

\* The calls and the tables in a step of a server.
LEMMA ServerCalls ==
    ASSUME TypeOK, NEW s \in Servers,
           \/ Start(s) \/ Proceed(s) \/ StartupFails(s) \/ Shutdown(s)
           \/ TimerFires(s) \/ RequestSync(s) \/ OverviewReads(s)
           \/ DeadlinePasses(s) \/ LoseRuntimeLock(s) \/ CrashServer(s)
    PROVE  Grows /\ CallsTyped'
<1>0. UNCHANGED tables => Grows
    BY TypeParts, SameGrows
<1>1. CASE \/ Start(s) \/ AcquireRuntime(s) \/ Drained(s) \/ ReleaseRuntime(s)
          \/ EndPool(s) \/ Exit(s) \/ StartupFails(s) \/ Shutdown(s)
          \/ DeadlinePasses(s) \/ LoseRuntimeLock(s)
    <2>1. UNCHANGED <<tables, sync, overview>>
        BY <1>1 DEF Start, AcquireRuntime, Drained, ReleaseRuntime, EndPool, Exit,
            StartupFails, Shutdown, DeadlinePasses, LoseRuntimeLock
    <2> QED
        BY <1>0, <2>1, SameCalls
<1>2. CASE RecoverRuns(s)
    BY <1>2, TypeParts, RecoverGrows, SameCalls DEF RecoverRuns
<1>3. CASE Listen(s)
    <2>1. s \in AutoSync => <<s, "timer">> \in Runners
        BY DEF Runners
    <2> QED
        BY <1>0, <1>3, <2>1, AttemptCalls, SameCalls DEF Listen
<1>4. CASE TimerFires(s)
    <2>1. <<s, "timer">> \in Runners
        BY <1>4 DEF Runners, TimerFires, TypeOK
    <2> QED
        BY <1>0, <1>4, <2>1, AttemptCalls DEF TimerFires
<1>5. CASE RequestSync(s)
    <2>1. <<s, "request">> \in Runners
        BY DEF Runners
    <2> QED
        BY <1>0, <1>5, <2>1, AttemptCalls DEF RequestSync, server
<1>6. CASE OverviewReads(s)
    <2>1. Grows /\ UNCHANGED sync /\ runs' = runs
        BY <1>0, <1>6 DEF OverviewReads, tables
    <2> QED
        BY <1>6, <2>1, ViewFacts DEF OverviewReads, TypeOK, CallsTyped, Names
<1>7. CASE OverviewWarns(s)
    <2>1. Grows
        BY <1>0, <1>7, TypeParts, WarningGrows, ViewFacts DEF OverviewWarns, tables
    <2> QED
        BY <1>7, <2>1, ViewFacts DEF OverviewWarns, TypeOK, CallsTyped, Names, Grows
<1>8. CASE CrashServer(s)
    <2>1. Grows
        BY <1>0, <1>8 DEF CrashServer
    <2>2. /\ overview' \in [Servers -> Views]
          /\ \A t \in Servers : overview'[t] \in {overview[t], NoView}
        BY <1>8, ViewFacts DEF CrashServer, TypeOK
    <2> QED
        BY <1>8, <2>1, <2>2, KilledCalls DEF CrashServer
<1> QED
    BY <1>1, <1>2, <1>3, <1>4, <1>5, <1>6, <1>7, <1>8 DEF Proceed

\* So do the steps of an ops:sync process.
LEMMA CommandCalls ==
    ASSUME TypeOK, NEW c \in Commands, CommandSync(c) \/ CrashCommand(c)
    PROVE  Grows /\ CallsTyped'
<1>1. Grows /\ UNCHANGED overview
    BY TypeParts, SameGrows DEF CommandSync, CrashCommand, server
<1>2. CASE CommandSync(c)
    <2>1. <<c, "main">> \in Runners
        BY DEF Runners
    <2> QED
        BY <1>1, <1>2, <2>1, AttemptCalls DEF CommandSync
<1>3. CASE CrashCommand(c)
    BY <1>1, <1>3, KilledCalls DEF CrashCommand, TypeOK
<1> QED
    BY <1>1, <1>2, <1>3

\* The first state is typed.
LEMMA InitType == Init => TypeOK
<1> SUFFICES ASSUME Init PROVE TypeOK
    OBVIOUS
<1>1. Idle \in Calls /\ Idle.run = 0 /\ Idle.view = NoView /\ NoView \in Views
    BY BoundsAssumption DEF Idle, Calls, Views, NoView, Closed
<1>2. TablesTyped
    BY DEF Init, TablesTyped
<1>3. CallsTyped
    BY <1>1 DEF Init, CallsTyped, Names
<1>4. ControlTyped
    BY BoundsAssumption DEF Init, ControlTyped, CountTyped, Phases
<1> QED
    BY <1>2, <1>3, <1>4, TypeParts

\* Every step keeps the state typed, and no row disappears.
LEMMA NextType == TypeOK /\ [Next]_vars => TypeOK' /\ Grows
<1> SUFFICES ASSUME TypeOK, [Next]_vars PROVE TypeOK' /\ Grows
    OBVIOUS
<1>1. ASSUME NEW a \in Runners, Step(a) PROVE Grows /\ CallsTyped' /\ ControlTyped'
    BY <1>1, StepControl, TryLockCalls, CreateRunCalls, SyncLotteryCalls, RefreshCalls,
        FinishRunCalls, RescueRunCalls, RereadCalls, RewarnCalls, UnlockCalls DEF Step
<1>2. ASSUME NEW a \in Runners, LoseSyncLock(a) PROVE Grows /\ CallsTyped' /\ ControlTyped'
    <2>1. UNCHANGED <<tables, sync, overview>>
        BY <1>2 DEF LoseSyncLock, server
    <2> QED
        BY <1>2, <2>1, LoseSyncLockControl, SameCalls, SameGrows, TypeParts
<1>3. CASE \E a \in Runners : Step(a) \/ LoseSyncLock(a)
    BY <1>1, <1>2, <1>3, TypeParts DEF Grows, TablesTyped, CallsTyped, ControlTyped,
        CountTyped, TypeOK
<1>4. CASE \E s \in Servers :
              \/ Start(s) \/ Proceed(s) \/ StartupFails(s) \/ Shutdown(s)
              \/ TimerFires(s) \/ RequestSync(s) \/ OverviewReads(s)
              \/ DeadlinePasses(s) \/ LoseRuntimeLock(s) \/ CrashServer(s)
    <2>1. Grows /\ CallsTyped' /\ ControlTyped'
        BY <1>4, ServerCalls, ServerControl
    <2> QED
        BY <2>1 DEF Grows, TablesTyped, CallsTyped, ControlTyped, CountTyped, TypeOK
<1>5. CASE \E c \in Commands : CommandSync(c) \/ CrashCommand(c)
    <2>1. Grows /\ CallsTyped' /\ ControlTyped'
        BY <1>5, CommandCalls, CommandControl
    <2> QED
        BY <2>1 DEF Grows, TablesTyped, CallsTyped, ControlTyped, CountTyped, TypeOK
<1>6. CASE UNCHANGED vars
    <2>1. TypeOK' = TypeOK /\ DOMAIN runs' = DOMAIN runs
        BY <1>6 DEF vars, TypeOK, Names
    <2> QED
        BY <2>1 DEF TypeOK, Grows, TablesTyped
<1> QED
    BY <1>3, <1>4, <1>5, <1>6 DEF Next

\* Every reachable state is typed: statuses are ones the database allows, and
\* no notification and no refresh is about a run that does not exist.
THEOREM TypeCorrect == Spec => []TypeOK
<1>1. TypeOK /\ [Next]_vars => TypeOK'
    BY NextType
<1> QED
    BY <1>1, InitType, PTL DEF Spec

-----------------------------------------------------------------------------
(* What the steps of a call have in common                                 *)

\* What the statements of a call do to the call, the timer and the sync lock.
LEMMA StepShape ==
    ASSUME TypeOK, NEW a \in Runners, Step(a)
    PROVE  /\ \A b \in Runners : b # a => sync'[b] = sync[b]
           /\ UNCHANGED <<phase, overview, excused, runtimeLock, lost>>
           /\ \/ sync'[a].pc \in Inside /\ UNCHANGED armed
              \/ sync'[a] = Idle /\ armed' = Rearmed(a)
           /\ \/ /\ sync[a].pc = "connect" /\ sync'[a].pc \in Inside
                 /\ syncLock = None /\ syncLock' = a
              \/ sync[a].pc = "connect" /\ sync'[a] = Idle /\ UNCHANGED syncLock
              \/ sync[a].pc \in Inside /\ sync'[a].pc \in Inside /\ UNCHANGED syncLock
              \/ /\ sync[a].pc \in Inside /\ sync'[a] = Idle
                 /\ syncLock' = IF syncLock = a THEN None ELSE syncLock
<1>1. CASE TryLock(a)
    BY <1>1 DEF TryLock, Goes, Return, server, Inside, TypeOK, Calls
<1>2. CASE CreateRun(a)
    BY <1>2 DEF CreateRun, Goes, Return, server, Inside, TypeOK, Calls
<1>3. CASE SyncLottery(a)
    BY <1>3 DEF SyncLottery, Goes, Return, server, Inside, TypeOK, Calls
<1>4. CASE Refresh(a)
    BY <1>4 DEF Refresh, Goes, Return, server, Inside, TypeOK, Calls
<1>5. CASE FinishRun(a)
    BY <1>5 DEF FinishRun, Goes, Return, server, Inside, TypeOK, Calls
<1>6. CASE RescueRun(a)
    BY <1>6 DEF RescueRun, Goes, Return, server, Inside, TypeOK, Calls
<1>7. CASE Reread(a)
    BY <1>7 DEF Reread, Goes, Return, server, Inside, TypeOK, Calls
<1>8. CASE Rewarn(a)
    BY <1>8 DEF Rewarn, Goes, Return, server, Inside, TypeOK, Calls
<1>9. CASE Unlock(a)
    BY <1>9 DEF Unlock, Goes, Return, server, Inside, TypeOK, Calls
<1> QED
    BY <1>1, <1>2, <1>3, <1>4, <1>5, <1>6, <1>7, <1>8, <1>9 DEF Step

\* A new call starts with the connection.
LEMMA AttemptShape ==
    ASSUME TypeOK, NEW a \in Runners, Attempt(a)
    PROVE  /\ sync[a].pc = "idle" /\ sync'[a].pc = "connect"
           /\ \A b \in Runners : b # a => sync'[b] = sync[b]
    BY DEF Attempt, Goes, TypeOK, Calls

\* What a step of the system is to the calls, the sync lock and the tables.
LEMMA NextShape ==
    ASSUME TypeOK, [Next]_vars
    PROVE  \/ \E a \in Runners : Step(a) \/ LoseSyncLock(a)
           \/ \E a \in Runners :
                 Attempt(a) /\ UNCHANGED <<syncLock, lost, tables, overview>>
           \/ \E p \in Servers \cup Commands :
                 /\ Killed(p)
                 /\ UNCHANGED <<lost, tables>>
                 /\ \A s \in Servers : overview'[s] \in {overview[s], NoView}
           \/ \E s \in Servers : RecoverRuns(s) \/ OverviewReads(s) \/ OverviewWarns(s)
           \/ UNCHANGED <<syncLock, lost, sync, tables, overview>>
<1>1. ASSUME NEW s \in Servers, TimerFires(s) \/ RequestSync(s) \/ Listen(s)
      PROVE  \/ \E a \in Runners :
                   Attempt(a) /\ UNCHANGED <<syncLock, lost, tables, overview>>
             \/ UNCHANGED <<syncLock, lost, sync, tables, overview>>
    BY <1>1 DEF TimerFires, RequestSync, Listen, Runners, server, TypeOK
<1>2. ASSUME NEW s \in Servers, CrashServer(s)
      PROVE  /\ Killed(s)
             /\ UNCHANGED <<lost, tables>>
             /\ \A t \in Servers : overview'[t] \in {overview[t], NoView}
    BY <1>2 DEF CrashServer, TypeOK
<1>3. ASSUME NEW s \in Servers,
             \/ Start(s) \/ AcquireRuntime(s) \/ StartupFails(s) \/ Shutdown(s) \/ Drained(s)
             \/ DeadlinePasses(s) \/ ReleaseRuntime(s) \/ EndPool(s) \/ Exit(s)
             \/ LoseRuntimeLock(s)
      PROVE  UNCHANGED <<syncLock, lost, sync, tables, overview>>
    BY <1>3 DEF Start, AcquireRuntime, StartupFails, Shutdown, Drained, DeadlinePasses,
        ReleaseRuntime, EndPool, Exit, LoseRuntimeLock
<1>4. ASSUME NEW c \in Commands, CommandSync(c)
      PROVE  <<c, "main">> \in Runners /\ Attempt(<<c, "main">>)
             /\ UNCHANGED <<syncLock, lost, tables, overview>>
    BY <1>4 DEF CommandSync, Runners, server
<1>5. ASSUME NEW c \in Commands, CrashCommand(c)
      PROVE  /\ Killed(c)
             /\ UNCHANGED <<lost, tables>>
             /\ \A t \in Servers : overview'[t] \in {overview[t], NoView}
    BY <1>5 DEF CrashCommand, server
<1>6. CASE UNCHANGED vars
    BY <1>6 DEF vars, tables
<1>7. CASE \E a \in Runners : Step(a) \/ LoseSyncLock(a)
    BY <1>7
<1>8. CASE \E s \in Servers :
              \/ Start(s) \/ Proceed(s) \/ StartupFails(s) \/ Shutdown(s)
              \/ TimerFires(s) \/ RequestSync(s) \/ OverviewReads(s)
              \/ DeadlinePasses(s) \/ LoseRuntimeLock(s) \/ CrashServer(s)
    BY <1>1, <1>2, <1>3, <1>8 DEF Proceed
<1>9. CASE \E c \in Commands : CommandSync(c) \/ CrashCommand(c)
    BY <1>4, <1>5, <1>9
<1> QED
    BY <1>6, <1>7, <1>8, <1>9 DEF Next

-----------------------------------------------------------------------------
(* The scheduler never stops                                               *)

\* No server is up at first.
LEMMA TimerInit == Init => NoLostTimer
    BY ServersAssumption DEF Init, NoLostTimer

\* Whatever ends the run of the timer, or disarms it, leaves the other or the server
\* not up.
LEMMA TimerNext == TypeOK /\ NoLostTimer /\ [Next]_vars => NoLostTimer'
<1> SUFFICES ASSUME TypeOK, NoLostTimer, [Next]_vars,
                    NEW t \in AutoSync, phase'[t] = "up"
             PROVE  t \in armed' \/ sync'[<<t, "timer">>].pc # "idle"
    BY DEF NoLostTimer
<1> DEFINE r == <<t, "timer">>
<1>0. t \in Servers /\ r \in Runners /\ r[1] = t /\ r[2] = "timer"
    BY ServersAssumption DEF Runners
<1>1. ASSUME NEW a \in Runners, Step(a)
      PROVE  t \in armed' \/ sync'[r].pc # "idle"
    <2>1. phase[t] = "up"
        BY <1>1, StepShape
    <2>2. CASE sync'[a] = Idle /\ armed' = Rearmed(a)
        <3>1. CASE a = r
            BY <1>0, <2>1, <2>2, <3>1 DEF Rearmed
        <3>2. CASE a # r
            BY <1>0, <1>1, <2>1, <2>2, <3>2, StepShape DEF NoLostTimer, Rearmed
        <3> QED BY <3>1, <3>2
    <2>3. CASE sync'[a].pc \in Inside /\ UNCHANGED armed
        BY <1>0, <1>1, <2>1, <2>3, StepShape DEF NoLostTimer, Inside
    <2> QED
        BY <1>1, <2>2, <2>3, StepShape
<1>2. ASSUME NEW a \in Runners, LoseSyncLock(a)
      PROVE  t \in armed' \/ sync'[r].pc # "idle"
    BY <1>2 DEF LoseSyncLock, server, NoLostTimer
<1>3. ASSUME NEW s \in Servers, s # t,
              \/ Start(s) \/ Proceed(s) \/ StartupFails(s) \/ Shutdown(s)
              \/ TimerFires(s) \/ RequestSync(s) \/ OverviewReads(s)
              \/ DeadlinePasses(s) \/ LoseRuntimeLock(s) \/ CrashServer(s)
      PROVE  t \in armed' \/ sync'[r].pc # "idle"
    <2>1. phase[t] = "up" /\ (t \in armed => t \in armed')
        BY <1>0, <1>3 DEF Start, Proceed, AcquireRuntime, RecoverRuns, Listen, OverviewWarns,
            Drained, ReleaseRuntime, EndPool, Exit, StartupFails, Shutdown, TimerFires,
            RequestSync, OverviewReads, DeadlinePasses, LoseRuntimeLock, CrashServer,
            Enters, server, TypeOK
    <2>2. sync'[r] = sync[r] \/ sync'[r].pc = "connect"
        BY <1>0, <1>3 DEF Start, Proceed, AcquireRuntime, RecoverRuns, Listen, OverviewWarns,
            Drained, ReleaseRuntime, EndPool, Exit, StartupFails, Shutdown, TimerFires,
            RequestSync, OverviewReads, DeadlinePasses, LoseRuntimeLock, CrashServer,
            Attempt, Goes, Killed, server, TypeOK, Calls
    <2> QED
        BY <2>1, <2>2 DEF NoLostTimer
<1>4. ASSUME \/ Start(t) \/ Proceed(t) \/ StartupFails(t) \/ Shutdown(t)
              \/ TimerFires(t) \/ RequestSync(t) \/ OverviewReads(t)
              \/ DeadlinePasses(t) \/ LoseRuntimeLock(t) \/ CrashServer(t)
      PROVE  t \in armed' \/ sync'[r].pc # "idle"
    <2>1. CASE Listen(t) \/ TimerFires(t)
        BY <1>0, <2>1, AttemptShape DEF Listen, TimerFires
    <2>2. CASE OverviewReads(t) \/ OverviewWarns(t) \/ LoseRuntimeLock(t)
        BY <2>2 DEF OverviewReads, OverviewWarns, LoseRuntimeLock, NoLostTimer
    <2>3. CASE RequestSync(t)
        <3>1. <<t, "request">> \in Runners /\ <<t, "request">> # r
            BY <1>0 DEF Runners
        <3> QED
            BY <1>0, <2>3, <3>1, AttemptShape DEF RequestSync, server, NoLostTimer
    <2>4. CASE \/ Start(t) \/ AcquireRuntime(t) \/ RecoverRuns(t) \/ Drained(t)
               \/ ReleaseRuntime(t) \/ EndPool(t) \/ Exit(t) \/ StartupFails(t)
               \/ Shutdown(t) \/ DeadlinePasses(t) \/ CrashServer(t)
        BY <1>0, <2>4 DEF Start, AcquireRuntime, RecoverRuns, Drained, ReleaseRuntime,
            EndPool, Exit, StartupFails, Shutdown, DeadlinePasses, CrashServer, Enters, TypeOK
    <2> QED
        BY <1>4, <2>1, <2>2, <2>3, <2>4 DEF Proceed
<1>5. ASSUME NEW c \in Commands, CommandSync(c) \/ CrashCommand(c)
      PROVE  t \in armed' \/ sync'[r].pc # "idle"
    <2>1. c # t /\ <<c, "main">> \in Runners /\ <<c, "main">> # r
        BY <1>0, ServersAssumption DEF Runners
    <2>2. UNCHANGED <<phase, armed>> /\ sync'[r] = sync[r]
        BY <1>0, <1>5, <2>1, AttemptShape DEF CommandSync, CrashCommand, Killed, server
    <2> QED
        BY <2>2 DEF NoLostTimer
<1>6. CASE UNCHANGED vars
    BY <1>6 DEF vars, NoLostTimer
<1> QED
    BY <1>1, <1>2, <1>3, <1>4, <1>5, <1>6 DEF Next

\* A server that is up always has its next synchronization coming.
THEOREM TimerCorrect == Spec => []NoLostTimer
<1>1. Init => TypeOK /\ NoLostTimer
    BY InitType, TimerInit
<1>2. TypeOK /\ NoLostTimer /\ [Next]_vars => TypeOK' /\ NoLostTimer'
    BY NextType, TimerNext
<1> QED
    BY <1>1, <1>2, PTL DEF Spec

-----------------------------------------------------------------------------
(* Recovery spares the servers that are up                                 *)

\* From acquireRuntimeInstanceLock() to release(), a server has the lock.
RuntimeHeld ==
    \A s \in Servers \ excused :
        phase[s] \in {"recovering", "listening", "up", "draining", "releasing"} =>
            runtimeLock = s

\* A server past its drain still works only if the drain was cut short.
Working(s) ==
    \/ phase[s] \in {"up", "draining"}
    \/ phase[s] \in {"releasing", "ending", "ended"} /\ s \in excused

BusyServers ==
    \A a \in Runners, s \in Servers :
        a[1] = s /\ sync[a].pc # "idle" => Working(s)

\* Timers are those of servers that are up.
ArmedServers == \A s \in armed : phase[s] = "up"

RuntimeInv == RuntimeHeld /\ BusyServers /\ ArmedServers

\* What RecoverySparesServers says of a step.
Spared ==
    \A a \in Runners :
        /\ a[1] \in Servers
        /\ HasRun(a)
        /\ runs[sync[a].run] = "running"
        /\ runs'[sync[a].run] = "abandoned"
        => \E s \in excused : s = a[1] \/ phase[s] = "recovering"

\* No server is at work at first.
LEMMA RuntimeInit == Init => RuntimeInv
    BY ServersAssumption DEF Init, RuntimeInv, RuntimeHeld, BusyServers, ArmedServers, Idle,
        Runners

\* The steps of one server leave the others alone.
LEMMA OthersKept ==
    ASSUME TypeOK, NEW s \in Servers,
           \/ Start(s) \/ Proceed(s) \/ StartupFails(s) \/ Shutdown(s)
           \/ TimerFires(s) \/ RequestSync(s) \/ OverviewReads(s)
           \/ DeadlinePasses(s) \/ LoseRuntimeLock(s) \/ CrashServer(s),
           NEW t \in Servers, t # s
    PROVE  /\ phase'[t] = phase[t]
           /\ t \in excused <=> t \in excused'
           /\ t \in armed <=> t \in armed'
    BY DEF Start, Proceed, AcquireRuntime, RecoverRuns, Listen, OverviewWarns, Drained,
        ReleaseRuntime, EndPool, Exit, StartupFails, Shutdown, TimerFires, RequestSync,
        OverviewReads, DeadlinePasses, LoseRuntimeLock, CrashServer, Enters, server, TypeOK

\* A runner that a server sets to work, or that was at work before.
LEMMA BusyBefore ==
    ASSUME TypeOK, NEW s \in Servers,
           \/ Start(s) \/ Proceed(s) \/ StartupFails(s) \/ Shutdown(s)
           \/ TimerFires(s) \/ RequestSync(s) \/ OverviewReads(s)
           \/ DeadlinePasses(s) \/ LoseRuntimeLock(s) \/ CrashServer(s),
           NEW b \in Runners, sync'[b].pc # "idle"
    PROVE  \/ sync[b].pc # "idle" /\ ~(b[1] = s /\ (Drained(s) \/ Exit(s) \/ CrashServer(s)))
           \/ b[1] = s /\ (Listen(s) \/ TimerFires(s) \/ RequestSync(s))
<1>1. CASE Listen(s) \/ TimerFires(s) \/ RequestSync(s)
    <2>1. PICK a \in Runners : a[1] = s /\ (Attempt(a) \/ UNCHANGED sync)
        BY <1>1 DEF Listen, TimerFires, RequestSync, Runners, TypeOK
    <2>2. b[1] = s \/ sync[b].pc # "idle"
        BY <2>1, AttemptShape
    <2> QED
        BY <1>1, <2>2
<1>2. CASE Drained(s) \/ Exit(s) \/ CrashServer(s)
    BY <1>2 DEF Drained, Exit, CrashServer, Drains, Busy, Killed, Idle, TypeOK
<1>3. CASE /\ ~(Listen(s) \/ TimerFires(s) \/ RequestSync(s))
           /\ ~(Drained(s) \/ Exit(s) \/ CrashServer(s))
    <2>1. UNCHANGED sync
        BY <1>3 DEF Start, Proceed, AcquireRuntime, RecoverRuns, StartupFails,
            ReleaseRuntime, EndPool, Shutdown, DeadlinePasses, OverviewReads, OverviewWarns,
            LoseRuntimeLock
    <2> QED
        BY <1>3, <2>1
<1> QED
    BY <1>1, <1>2, <1>3

\* What a server's own steps do to its phase while it works.
LEMMA WorkingOn ==
    ASSUME TypeOK, ArmedServers, NEW s \in Servers, Working(s),
           \/ Start(s) \/ Proceed(s) \/ StartupFails(s) \/ Shutdown(s)
           \/ TimerFires(s) \/ RequestSync(s) \/ OverviewReads(s)
           \/ DeadlinePasses(s) \/ LoseRuntimeLock(s) \/ CrashServer(s),
           ~(Drained(s) \/ Exit(s) \/ CrashServer(s))
    PROVE  Working(s)'
<1>1. CASE Start(s) \/ AcquireRuntime(s) \/ RecoverRuns(s) \/ Listen(s) \/ StartupFails(s)
    BY <1>1 DEF Start, AcquireRuntime, RecoverRuns, Listen, StartupFails, Working
<1>2. CASE TimerFires(s) \/ RequestSync(s) \/ OverviewReads(s) \/ OverviewWarns(s)
    BY <1>2 DEF TimerFires, RequestSync, OverviewReads, OverviewWarns, server, Working
<1>3. CASE Shutdown(s) \/ DeadlinePasses(s) \/ ReleaseRuntime(s) \/ EndPool(s) \/ LoseRuntimeLock(s)
    BY <1>3 DEF Shutdown, DeadlinePasses, ReleaseRuntime, EndPool, LoseRuntimeLock, Enters,
        Working, TypeOK
<1> QED
    BY <1>1, <1>2, <1>3 DEF Proceed

\* The runtime lock, the runners at work and the timers agree after every step.
LEMMA RuntimeNext == TypeOK /\ RuntimeInv /\ [Next]_vars => RuntimeInv'
<1> SUFFICES ASSUME TypeOK, RuntimeInv, [Next]_vars
             PROVE  RuntimeInv'
    OBVIOUS
<1>0. RuntimeHeld /\ BusyServers /\ ArmedServers
    BY DEF RuntimeInv
<1>1. ASSUME NEW a \in Runners, Step(a) PROVE RuntimeInv'
    <2>1. UNCHANGED <<phase, excused, runtimeLock>> /\ sync[a].pc # "idle"
        BY <1>1, StepShape DEF Inside
    <2>2. \A b \in Runners : sync'[b].pc # "idle" => sync[b].pc # "idle"
        BY <1>1, <2>1, StepShape
    <2>3. RuntimeHeld' /\ BusyServers'
        BY <1>0, <2>1, <2>2 DEF RuntimeHeld, BusyServers, Working
    <2>4. \A s \in armed' : s \in armed \/ phase[s] = "up"
        BY <1>1, StepShape DEF Rearmed
    <2> QED
        BY <1>0, <2>1, <2>3, <2>4 DEF RuntimeInv, ArmedServers
<1>2. ASSUME NEW a \in Runners, LoseSyncLock(a) PROVE RuntimeInv'
    BY <1>0, <1>2 DEF LoseSyncLock, server, RuntimeInv, RuntimeHeld, BusyServers,
        ArmedServers, Working
<1>3. ASSUME NEW s \in Servers,
              \/ Start(s) \/ Proceed(s) \/ StartupFails(s) \/ Shutdown(s)
              \/ TimerFires(s) \/ RequestSync(s) \/ OverviewReads(s)
              \/ DeadlinePasses(s) \/ LoseRuntimeLock(s) \/ CrashServer(s)
      PROVE  RuntimeInv'
    <2>1. RuntimeHeld'
        BY <1>0, <1>3, NoneAssumption DEF Start, Proceed, AcquireRuntime, RecoverRuns, Listen,
            OverviewWarns, Drained, ReleaseRuntime, EndPool, Exit, StartupFails, Shutdown,
            TimerFires, RequestSync, OverviewReads, DeadlinePasses, LoseRuntimeLock,
            CrashServer, Enters, Freed, server, TypeOK, RuntimeHeld
    <2>2. ASSUME NEW b \in Runners, NEW t \in Servers, b[1] = t, sync'[b].pc # "idle"
          PROVE  Working(t)'
        <3>1. CASE t # s
            <4>1. sync[b].pc # "idle"
                BY <1>3, <2>2, <3>1, BusyBefore
            <4>2. Working(t)
                BY <1>0, <2>2, <4>1 DEF BusyServers
            <4>3. phase'[t] = phase[t] /\ (t \in excused <=> t \in excused')
                BY <1>3, <3>1, OthersKept
            <4> QED
                BY <4>2, <4>3 DEF Working
        <3>2. CASE t = s /\ (Listen(s) \/ TimerFires(s) \/ RequestSync(s))
            <4>1. phase'[s] = "up"
                BY <1>0, <3>2 DEF Listen, TimerFires, RequestSync, Enters, server,
                    ArmedServers, TypeOK
            <4> QED
                BY <3>2, <4>1 DEF Working
        <3>3. CASE /\ t = s
                   /\ sync[b].pc # "idle" /\ ~(Drained(s) \/ Exit(s) \/ CrashServer(s))
            <4>1. Working(s)
                BY <1>0, <2>2, <3>3 DEF BusyServers
            <4> QED
                BY <1>0, <1>3, <3>3, <4>1, WorkingOn
        <3> QED
            BY <1>3, <2>2, <3>1, <3>2, <3>3, BusyBefore
    <2>3. \A t \in armed' : phase'[t] = "up"
        <3>1. ASSUME s \in armed' PROVE phase'[s] = "up"
            BY <1>0, <1>3, <3>1 DEF Start, Proceed, AcquireRuntime, RecoverRuns, Listen,
                OverviewWarns, Drained, ReleaseRuntime, EndPool, Exit, StartupFails, Shutdown,
                TimerFires, RequestSync, OverviewReads, DeadlinePasses, LoseRuntimeLock,
                CrashServer, Enters, server, TypeOK, ArmedServers
        <3>2. armed' \subseteq Servers
            BY NextType, ServersAssumption DEF TypeOK
        <3> QED
            BY <1>0, <1>3, <3>1, <3>2, OthersKept DEF ArmedServers
    <2>4. BusyServers' /\ ArmedServers'
        BY <2>2, <2>3 DEF BusyServers, ArmedServers
    <2> QED
        BY <2>1, <2>4 DEF RuntimeInv
<1>4. ASSUME NEW c \in Commands, CommandSync(c) \/ CrashCommand(c) PROVE RuntimeInv'
    <2>1. UNCHANGED server
        BY <1>4 DEF CommandSync, CrashCommand
    <2>2. \A b \in Runners : b[1] \in Servers /\ sync'[b].pc # "idle" => sync[b].pc # "idle"
        <3>1. <<c, "main">> \in Runners /\ <<c, "main">>[1] = c /\ c \notin Servers
            BY ServersAssumption DEF Runners
        <3> QED
            BY <1>4, <3>1, AttemptShape DEF CommandSync, CrashCommand, Killed, Idle
    <2> QED
        BY <1>0, <2>1, <2>2 DEF server, RuntimeInv, RuntimeHeld, BusyServers, ArmedServers,
            Working
<1>5. CASE UNCHANGED vars
    BY <1>0, <1>5 DEF vars, RuntimeInv, RuntimeHeld, BusyServers, ArmedServers, Working
<1> QED
    BY <1>1, <1>2, <1>3, <1>4, <1>5 DEF Next

\* Of all the steps, only recoverRunning() abandons a run.
LEMMA OnlyRecoveryAbandons ==
    ASSUME TypeOK, [Next]_vars, NEW i \in DOMAIN runs,
           runs[i] = "running", runs'[i] = "abandoned"
    PROVE  \E s \in Servers : RecoverRuns(s)
<1>1. ASSUME NEW a \in Runners, Step(a) PROVE FALSE
    <2>1. sync[a].status \in Closed /\ runs \in Seq(Statuses)
        BY DEF TypeOK, Calls
    <2>2. CASE UNCHANGED runs
        BY <2>2
    <2>3. CASE Inserted
        BY <2>1, <2>3, AppendFacts DEF Inserted, Statuses
    <2>4. CASE \E st \in Closed : Finished(a, st)
        <3>1. PICK st \in Closed : runs' = [runs EXCEPT ![sync[a].run] = st]
            BY <2>4 DEF Finished
        <3>2. runs'[i] = st \/ runs'[i] = runs[i]
            BY <2>1, <3>1, ExceptFacts DEF Statuses
        <3> QED
            BY <3>1, <3>2 DEF Closed
    <2> QED
        BY <1>1, <2>1, <2>2, <2>3, <2>4 DEF Step, TryLock, CreateRun, SyncLottery, Refresh,
            FinishRun, RescueRun, Reread, Rewarn, Unlock, tables, Closed
<1>2. ASSUME NEW a \in Runners, LoseSyncLock(a) PROVE FALSE
    BY <1>2 DEF LoseSyncLock, tables
<1>3. ASSUME NEW s \in Servers,
              \/ Start(s) \/ Proceed(s) \/ StartupFails(s) \/ Shutdown(s)
              \/ TimerFires(s) \/ RequestSync(s) \/ OverviewReads(s)
              \/ DeadlinePasses(s) \/ LoseRuntimeLock(s) \/ CrashServer(s)
      PROVE  RecoverRuns(s)
    BY <1>3 DEF Start, Proceed, AcquireRuntime, Listen, OverviewWarns, Drained,
        ReleaseRuntime, EndPool, Exit, StartupFails, Shutdown, TimerFires, RequestSync,
        OverviewReads, DeadlinePasses, LoseRuntimeLock, CrashServer, tables
<1>4. ASSUME NEW c \in Commands, CommandSync(c) \/ CrashCommand(c) PROVE FALSE
    BY <1>4 DEF CommandSync, CrashCommand, tables
<1>5. CASE UNCHANGED vars
    BY <1>5 DEF vars
<1> QED
    BY <1>1, <1>2, <1>3, <1>4, <1>5 DEF Next

\* A runner that has a run knows its row.
RunKnown == \A a \in Runners : HasRun(a) => sync[a].run # 0

\* Only create() gives a runner a run, and it is the row just inserted.
LEMMA RunKnownNext == TypeOK /\ RunKnown /\ [Next]_vars => RunKnown'
<1> SUFFICES ASSUME TypeOK, RunKnown, [Next]_vars PROVE RunKnown'
    OBVIOUS
<1>1. ASSUME NEW a \in Runners, Step(a) PROVE RunKnown'
    <2>1. \A b \in Runners : b # a => sync'[b] = sync[b]
        BY <1>1, StepShape
    <2>2. CASE CreateRun(a)
        <3>1. Latest + 1 # 0
            BY DEF Latest, TypeOK
        <3>2. HasRun(a)' => sync'[a].run # 0
            BY <2>2, <3>1 DEF CreateRun, Goes, HasRun, TypeOK, Calls
        <3> QED
            BY <2>1, <3>2 DEF RunKnown, HasRun
    <2>3. CASE ~CreateRun(a)
        <3>1. HasRun(a)' => HasRun(a) /\ sync'[a].run = sync[a].run
            <4>1. CASE TryLock(a)
                BY <4>1 DEF TryLock, Goes, Return, Idle, HasRun, TypeOK, Calls
            <4>2. CASE SyncLottery(a)
                BY <4>2 DEF SyncLottery, Goes, Return, Idle, HasRun, TypeOK, Calls
            <4>3. CASE Refresh(a)
                BY <4>3 DEF Refresh, Goes, Return, Idle, HasRun, TypeOK, Calls
            <4>4. CASE FinishRun(a)
                BY <4>4 DEF FinishRun, Goes, Return, Idle, HasRun, TypeOK, Calls
            <4>5. CASE RescueRun(a)
                BY <4>5 DEF RescueRun, Goes, Return, Idle, HasRun, TypeOK, Calls
            <4>6. CASE Reread(a)
                BY <4>6 DEF Reread, Goes, Return, Idle, HasRun, TypeOK, Calls
            <4>7. CASE Rewarn(a)
                BY <4>7 DEF Rewarn, Goes, Return, Idle, HasRun, TypeOK, Calls
            <4>8. CASE Unlock(a)
                BY <4>8 DEF Unlock, Goes, Return, Idle, HasRun, TypeOK, Calls
            <4> QED
                BY <1>1, <2>3, <4>1, <4>2, <4>3, <4>4, <4>5, <4>6, <4>7, <4>8 DEF Step
        <3> QED
            BY <2>1, <3>1 DEF RunKnown, HasRun
    <2> QED
        BY <2>2, <2>3
<1>2. ASSUME NEW a \in Runners, Attempt(a) PROVE RunKnown'
    BY <1>2, AttemptShape DEF RunKnown, HasRun
<1>3. ASSUME NEW p, Killed(p) PROVE RunKnown'
    BY <1>3 DEF Killed, Idle, RunKnown, HasRun
<1>4. CASE UNCHANGED sync
    BY <1>4 DEF RunKnown, HasRun
<1>5. \/ \E a \in Runners : Step(a) \/ LoseSyncLock(a) \/ Attempt(a)
      \/ \E p \in Servers \cup Commands : Killed(p)
      \/ \E s \in Servers : RecoverRuns(s) \/ OverviewReads(s) \/ OverviewWarns(s)
      \/ UNCHANGED sync
    BY NextShape
<1>6. \/ \E a \in Runners : Step(a) \/ Attempt(a)
      \/ \E p \in Servers \cup Commands : Killed(p)
      \/ UNCHANGED sync
    BY <1>5 DEF LoseSyncLock, RecoverRuns, OverviewReads, OverviewWarns
<1> QED
    BY <1>1, <1>2, <1>3, <1>4, <1>6

\* A recovering server that is not excused holds the runtime lock, which no
\* server at work has then, unless it is excused.
LEMMA SparedStep == TypeOK /\ RunKnown /\ RuntimeInv /\ [Next]_vars => Spared
<1> SUFFICES ASSUME TypeOK, RunKnown, RuntimeInv, [Next]_vars, NEW a \in Runners,
                    a[1] \in Servers, HasRun(a),
                    runs[sync[a].run] = "running", runs'[sync[a].run] = "abandoned"
             PROVE  \E s \in excused : s = a[1] \/ phase[s] = "recovering"
    BY DEF Spared
<1>1. sync[a].run \in DOMAIN runs
    BY DEF TypeOK, RunKnown
<1>2. PICK s \in Servers : RecoverRuns(s)
    BY <1>1, OnlyRecoveryAbandons
<1>3. phase[s] = "recovering"
    BY <1>2 DEF RecoverRuns
<1>4. Working(a[1])
    BY DEF HasRun, RuntimeInv, BusyServers
<1>5. SUFFICES ASSUME s \notin excused, a[1] \notin excused PROVE FALSE
    BY <1>3
<1>6. runtimeLock = s /\ runtimeLock = a[1]
    BY <1>3, <1>4, <1>5 DEF RuntimeInv, RuntimeHeld, Working
<1> QED
    BY <1>3, <1>4, <1>5, <1>6 DEF Working

\* Recovery never abandons the run of a server that is within its deadline.
THEOREM RecoveryCorrect == Spec => RecoverySparesServers
<1>1. Init => TypeOK /\ RunKnown /\ RuntimeInv
    BY InitType, RuntimeInit DEF Init, RunKnown, HasRun, Idle
<1>2. /\ TypeOK /\ RunKnown /\ RuntimeInv /\ [Next]_vars
      => TypeOK' /\ RunKnown' /\ RuntimeInv' /\ [Spared]_vars
    BY NextType, RunKnownNext, RuntimeNext, SparedStep
<1>3. Spec => [][Spared]_vars
    BY <1>1, <1>2, PTL DEF Spec
<1> QED
    BY <1>3 DEF RecoverySparesServers, Spared

-----------------------------------------------------------------------------
(* One synchronization at a time                                           *)

\* The runners past the try-lock, and those of them without the lock.
InsideSet == {a \in Runners : sync[a].pc \in Inside}
Strays    == InsideSet \ {syncLock}

\* The holder of the lock is inside, and every other runner inside has lost a
\* session.
LockInv ==
    /\ syncLock # None => syncLock \in InsideSet
    /\ IsFiniteSet(Strays)
    /\ Cardinality(Strays) <= lost

\* Strays that do not multiply stay paid for.
LEMMA FewerStrays ==
    ASSUME TypeOK, LockInv, Strays' \subseteq Strays, UNCHANGED lost
    PROVE  IsFiniteSet(Strays)' /\ (Cardinality(Strays) <= lost)'
<1>1. IsFiniteSet(Strays') /\ Cardinality(Strays') <= Cardinality(Strays)
    BY FS_Subset DEF LockInv
<1>2. Cardinality(Strays') \in Nat /\ Cardinality(Strays) \in Nat /\ lost \in Nat
    BY <1>1, FS_CardinalityType DEF LockInv, TypeOK
<1> QED
    BY <1>1, <1>2 DEF LockInv

\* The lock is taken only when free and let go only by its holder, a lost
\* session or the end of a process.
LEMMA LockNext == TypeOK /\ LockInv /\ [Next]_vars => LockInv'
<1> SUFFICES ASSUME TypeOK, LockInv, [Next]_vars PROVE LockInv'
    OBVIOUS
<1>0. None \notin Runners /\ \A a \in InsideSet : a \in Runners
    BY NoneAssumption DEF InsideSet
<1>1. ASSUME NEW a \in Runners, Step(a) PROVE LockInv'
    <2>0. \A b \in Runners : b # a => sync'[b] = sync[b]
        BY <1>1, StepShape
    <2>1. CASE /\ sync[a].pc = "connect" /\ sync'[a].pc \in Inside
               /\ syncLock = None /\ syncLock' = a
        <3>1. InsideSet' = InsideSet \cup {a} /\ a \notin InsideSet
            BY <2>0, <2>1 DEF InsideSet, Inside
        <3>2. Strays' = Strays
            BY <1>0, <2>1, <3>1 DEF Strays
        <3> QED
            BY <1>1, <2>1, <3>1, <3>2, FewerStrays, StepShape DEF LockInv
    <2>2. CASE \/ sync[a].pc = "connect" /\ sync'[a] = Idle /\ UNCHANGED syncLock
               \/ sync[a].pc \in Inside /\ sync'[a].pc \in Inside /\ UNCHANGED syncLock
        <3>1. InsideSet' = InsideSet
            BY <2>0, <2>2 DEF InsideSet, Inside, Idle
        <3>2. Strays' = Strays
            BY <2>2, <3>1 DEF Strays
        <3> QED
            BY <1>1, <2>2, <3>1, <3>2, FewerStrays, StepShape DEF LockInv
    <2>3. CASE /\ sync[a].pc \in Inside /\ sync'[a] = Idle
               /\ syncLock' = IF syncLock = a THEN None ELSE syncLock
        <3>1. InsideSet' = InsideSet \ {a}
            BY <2>0, <2>3 DEF InsideSet, Inside, Idle
        <3>2. Strays' \subseteq Strays
            BY <2>3, <3>1 DEF Strays
        <3>3. syncLock' # None => syncLock' \in InsideSet'
            BY <2>3, <3>1 DEF LockInv
        <3> QED
            BY <1>1, <3>2, <3>3, FewerStrays, StepShape DEF LockInv
    <2> QED
        BY <1>1, <2>1, <2>2, <2>3, StepShape
<1>2. ASSUME NEW a \in Runners, LoseSyncLock(a) PROVE LockInv'
    <2>1. syncLock = a /\ syncLock' = None /\ lost' = lost + 1 /\ InsideSet' = InsideSet
        BY <1>2 DEF LoseSyncLock, InsideSet
    <2>2. Strays' = Strays \cup {a} /\ a \notin Strays
        BY <1>0, <2>1 DEF Strays, LockInv
    <2>3. IsFiniteSet(Strays') /\ Cardinality(Strays') = Cardinality(Strays) + 1
        BY <2>2, FS_AddElement DEF LockInv
    <2>4. Cardinality(Strays) \in Nat /\ lost \in Nat
        BY FS_CardinalityType DEF LockInv, TypeOK
    <2> QED
        BY <2>1, <2>3, <2>4 DEF LockInv
<1>3. ASSUME NEW a \in Runners, Attempt(a), UNCHANGED <<syncLock, lost>> PROVE LockInv'
    <2>1. InsideSet' = InsideSet
        BY <1>3, AttemptShape DEF InsideSet, Inside
    <2> QED
        BY <1>3, <2>1, FewerStrays DEF LockInv, Strays
<1>4. ASSUME NEW p, Killed(p), UNCHANGED lost PROVE LockInv'
    <2>1. InsideSet' = {b \in InsideSet : b[1] # p}
        BY <1>4 DEF Killed, InsideSet, Inside, Idle
    <2>2. CASE syncLock \in Busy(p)
        <3>1. syncLock' = None /\ syncLock[1] = p
            BY <1>4, <2>2 DEF Killed, Busy
        <3>2. Strays' \subseteq Strays
            BY <2>1, <3>1 DEF Strays
        <3> QED
            BY <1>4, <3>1, <3>2, FewerStrays DEF LockInv
    <2>3. CASE syncLock \notin Busy(p)
        <3>1. syncLock' = syncLock
            BY <1>4, <2>3 DEF Killed
        <3>2. syncLock # None => syncLock \in InsideSet /\ syncLock[1] # p
            BY <2>3 DEF LockInv, Busy, InsideSet, Inside
        <3>3. Strays' \subseteq Strays
            BY <2>1, <3>1 DEF Strays
        <3> QED
            BY <1>4, <2>1, <3>1, <3>2, <3>3, FewerStrays DEF LockInv
    <2> QED
        BY <2>2, <2>3
<1>5. CASE UNCHANGED <<syncLock, lost, sync>>
    <2>1. InsideSet' = InsideSet
        BY <1>5 DEF InsideSet
    <2> QED
        BY <1>5, <2>1, FewerStrays DEF LockInv, Strays
<1>6. \A s \in Servers :
        RecoverRuns(s) \/ OverviewReads(s) \/ OverviewWarns(s)
        => UNCHANGED <<syncLock, lost, sync>>
    BY DEF RecoverRuns, OverviewReads, OverviewWarns
<1> QED
    BY <1>1, <1>2, <1>3, <1>4, <1>5, <1>6, NextShape

\* No two synchronizations run at once, in whatever processes, but for those
\* whose lock session was lost.
THEOREM OneSyncCorrect == Spec => []OneSync
<1>1. Init => TypeOK /\ LockInv
    <2> SUFFICES ASSUME Init PROVE LockInv
        BY InitType
    <2>1. Strays = {} /\ lost = 0 /\ syncLock = None
        BY DEF Init, Strays, InsideSet, Inside, Idle
    <2> QED
        BY <2>1, FS_EmptySet DEF LockInv
<1>2. TypeOK /\ LockInv /\ [Next]_vars => TypeOK' /\ LockInv'
    BY NextType, LockNext
<1>3. TypeOK /\ LockInv => OneSync
    <2> SUFFICES ASSUME TypeOK, LockInv PROVE Cardinality(InsideSet) <= 1 + lost
        BY DEF OneSync, InsideSet
    <2>1. /\ IsFiniteSet(Strays \cup {syncLock})
          /\ Cardinality(Strays \cup {syncLock}) <= Cardinality(Strays) + 1
          /\ Cardinality(Strays) \in Nat
        BY FS_AddElement, FS_CardinalityType DEF LockInv
    <2>2. InsideSet \subseteq Strays \cup {syncLock}
        BY DEF Strays
    <2>3. /\ Cardinality(InsideSet) <= Cardinality(Strays \cup {syncLock})
          /\ Cardinality(InsideSet) \in Nat
          /\ Cardinality(Strays \cup {syncLock}) \in Nat
        BY <2>1, <2>2, FS_Subset, FS_CardinalityType
    <2>4. Cardinality(Strays) <= lost /\ lost \in Nat
        BY DEF LockInv, TypeOK
    <2> QED
        BY <2>1, <2>3, <2>4
<1> QED
    BY <1>1, <1>2, <1>3, PTL DEF Spec

-----------------------------------------------------------------------------
(* The warnings match the history                                          *)

Bad == {"partial", "failed"}

\* Somebody says, or has read and is about to say, that run i ended so.
Claimed(i, st) ==
    \/ warnings[i] = st
    \/ \E s \in Servers : overview[s].run = i /\ overview[s].status = st
    \/ \E a \in Runners : sync[a].view.run = i /\ sync[a].view.status = st

\* What is said of a run is what the history shows, unless it does not show an
\* end.
ClaimsHold ==
    \A i \in DOMAIN runs, st \in Bad :
        Claimed(i, st) => runs[i] \in {st, "running", "abandoned"}

\* Of a run in hand only its runner has warned, with the status it is going to
\* write.
ClaimsAreOwn ==
    \A a \in Runners, st \in Bad :
        HasRun(a) /\ Claimed(sync[a].run, st) =>
            sync[a].pc \in {"finish", "rescue"} /\ sync[a].status = st

\* A run in hand shows no end, or the one whose answer was lost.
NotEnded ==
    \A a \in Runners :
        HasRun(a) =>
            \/ runs[sync[a].run] \in {"running", "abandoned"}
            \/ sync[a].pc = "rescue" /\ runs[sync[a].run] = sync[a].status

\* No run is in two hands.
OneHand ==
    \A a \in Runners, b \in Runners :
        HasRun(a) /\ HasRun(b) /\ sync[a].run = sync[b].run => a = b

ClaimsInv == ClaimsHold /\ ClaimsAreOwn /\ NotEnded /\ OneHand /\ RunKnown

\* A step that lets no row end, takes no run in hand and claims only what was
\* claimed or what the history shows.
LEMMA QuietStep ==
    ASSUME TypeOK, ClaimsInv,
           DOMAIN runs' = DOMAIN runs,
           \A i \in DOMAIN runs, st \in Bad :
              Claimed(i, st)' => Claimed(i, st) \/ runs[i] = st,
           \A i \in DOMAIN runs :
              \/ runs'[i] = runs[i]
              \/ runs[i] = "running" /\ runs'[i] = "abandoned",
           \A a \in Runners :
              \/ sync'[a] = sync[a]
              \/ ~HasRun(a)'
              \/ /\ HasRun(a) /\ HasRun(a)'
                 /\ sync[a].run = sync'[a].run
                 /\ sync[a].pc \in {"lotteries", "refresh"}
                 /\ sync'[a].pc # "rescue"
    PROVE  ClaimsInv'
<1>0. ClaimsHold /\ ClaimsAreOwn /\ NotEnded /\ OneHand /\ RunKnown
    BY DEF ClaimsInv
<1>1. ClaimsHold'
    BY <1>0 DEF ClaimsHold, Bad
<1>2. ASSUME NEW a \in Runners, HasRun(a)'
      PROVE  /\ HasRun(a) /\ sync[a].run = sync'[a].run /\ sync[a].run \in DOMAIN runs
             /\ \/ sync'[a] = sync[a]
                \/ sync[a].pc \in {"lotteries", "refresh"} /\ sync'[a].pc # "rescue"
    BY <1>0, <1>2 DEF HasRun, RunKnown, TypeOK
<1>3. ASSUME NEW a \in Runners, NEW st \in Bad, HasRun(a)', Claimed(sync[a].run, st)'
      PROVE  sync[a].pc \in {"finish", "rescue"} /\ sync[a].status = st /\ sync'[a] = sync[a]
    <2>1. Claimed(sync[a].run, st) \/ runs[sync[a].run] = st
        BY <1>2, <1>3
    <2>2. sync[a].pc \in {"finish", "rescue"} /\ sync[a].status = st
        BY <1>0, <1>2, <1>3, <2>1 DEF ClaimsAreOwn, NotEnded, Bad
    <2> QED
        BY <1>2, <1>3, <2>2
<1>4. ClaimsAreOwn'
    BY <1>2, <1>3 DEF ClaimsAreOwn, Claimed
<1>5. NotEnded'
    BY <1>0, <1>2 DEF NotEnded
<1>6. OneHand' /\ RunKnown'
    BY <1>0, <1>2 DEF OneHand, RunKnown
<1> QED
    BY <1>1, <1>4, <1>5, <1>6 DEF ClaimsInv

\* The upsert of a notification says what was read.
LEMMA SaidClaims ==
    ASSUME TypeOK, NEW v \in Views, Names(v), warnings' = WarnedOf(v)
    PROVE  \A i, st : warnings'[i] = st => warnings[i] = st \/ (v.run = i /\ v.status = st)
<1>1. CASE v = NoView
    BY <1>1 DEF WarnedOf
<1>2. CASE v # NoView
    <2>1. warnings' = [warnings EXCEPT ![v.run] = v.status] /\ v.run \in DOMAIN warnings
        BY <1>2 DEF WarnedOf, Names, TypeOK
    <2> QED
        BY <2>1 DEF TypeOK
<1> QED
    BY <1>1, <1>2

\* The latest run, when it is warned of, is shown by the history as it is told.
LEMMA LatestShown ==
    ASSUME TypeOK, NEW i, NEW st \in Bad, LatestView.run = i, LatestView.status = st
    PROVE  i \in DOMAIN runs /\ runs[i] = st
    BY DEF LatestView, NoView, Bad, Latest, TypeOK

\* create() inserts a row nobody has told of, and takes it in hand.
LEMMA CreateRunClaims ==
    ASSUME TypeOK, ClaimsInv, NEW a \in Runners, CreateRun(a)
    PROVE  ClaimsInv'
<1>0. ClaimsHold /\ ClaimsAreOwn /\ NotEnded /\ OneHand /\ RunKnown
    BY DEF ClaimsInv
<1>1. /\ \A b \in Runners : b # a => sync'[b] = sync[b]
      /\ UNCHANGED overview
      /\ ~HasRun(a)
      /\ sync'[a].view = sync[a].view
    BY DEF CreateRun, Goes, server, HasRun, TypeOK, Calls
<1>2. CASE UNCHANGED tables
    <2>1. ~HasRun(a)'
        BY <1>2, InsertGrows, SMTT(30) DEF CreateRun, Goes, HasRun, TypeOK, Calls, tables, Inserted
    <2> QED
        BY <1>1, <1>2, <2>1, QuietStep DEF tables, Claimed
<1>3. CASE Inserted
    <2>0. PICK n \in Nat : n = Len(runs) + 1
        BY DEF TypeOK
    <2>1. /\ DOMAIN runs' = DOMAIN runs \cup {n} /\ n \notin DOMAIN runs
          /\ \A i \in DOMAIN runs : runs'[i] = runs[i]
          /\ runs'[n] = "running"
        BY <1>3, <2>0, AppendFacts DEF Inserted, TypeOK, Statuses
    <2>2. /\ \A i \in DOMAIN runs : warnings'[i] = warnings[i]
          /\ warnings'[n] = "none"
        BY <1>3, <2>0, AppendFacts, SMTT(30) DEF Inserted, TypeOK
    <2>3. ASSUME NEW st \in Bad PROVE ~Claimed(n, st)'
        <3>1. NoView.status # st
            BY <2>3 DEF NoView, Bad
        <3>2. \A t \in Servers : ~(overview[t].run = n /\ overview[t].status = st)
            BY <2>1, <3>1 DEF Names, TypeOK
        <3>3. \A b \in Runners : ~(sync[b].view.run = n /\ sync[b].view.status = st)
            BY <2>1, <3>1 DEF Names, TypeOK
        <3>4. \A b \in Runners : sync'[b].view = sync[b].view
            BY <1>1
        <3> QED
            BY <1>1, <2>2, <2>3, <3>2, <3>3, <3>4 DEF Claimed, Bad
    <2>4. ASSUME NEW i \in DOMAIN runs, NEW st \in Bad, Claimed(i, st)' PROVE Claimed(i, st)
        BY <1>1, <2>2, <2>4 DEF Claimed
    <2>5. ASSUME NEW b \in Runners, HasRun(b)'
          PROVE  \/ b = a /\ sync'[b].run = n /\ sync'[b].pc = "lotteries"
                 \/ /\ b # a /\ sync'[b] = sync[b] /\ HasRun(b)
                    /\ sync[b].run \in DOMAIN runs
        <3>1. CASE b = a
            BY <2>0, <2>5, <3>1, SMTT(30) DEF CreateRun, Goes, HasRun, Latest, TypeOK, Calls
        <3>2. CASE b # a
            BY <1>0, <1>1, <2>5, <3>2 DEF HasRun, RunKnown, TypeOK
        <3> QED BY <3>1, <3>2
    <2>6. ClaimsHold'
        BY <1>0, <2>1, <2>3, <2>4 DEF ClaimsHold
    <2>7. ClaimsAreOwn'
        <3> SUFFICES ASSUME NEW b \in Runners, NEW st \in Bad,
                            HasRun(b)', Claimed(sync[b].run, st)'
                     PROVE  sync'[b].pc \in {"finish", "rescue"} /\ sync'[b].status = st
            BY DEF ClaimsAreOwn
        <3>1. b # a /\ sync'[b] = sync[b] /\ HasRun(b) /\ sync[b].run \in DOMAIN runs
            <4>1. sync'[b].run # n
                BY <2>3
            <4> QED
                BY <2>5, <4>1
        <3>2. Claimed(sync[b].run, st)
            BY <2>4, <3>1 DEF Claimed
        <3> QED
            BY <1>0, <3>1, <3>2 DEF ClaimsAreOwn
    <2>8. n # 0
        BY <2>0 DEF TypeOK
    <2>9. NotEnded'
        BY <1>0, <2>1, <2>5 DEF NotEnded
    <2>10. OneHand' /\ RunKnown'
        BY <1>0, <2>1, <2>5, <2>8 DEF OneHand, RunKnown
    <2> QED
        BY <2>6, <2>7, <2>9, <2>10 DEF ClaimsInv
<1> QED
    BY <1>2, <1>3 DEF CreateRun

\* refresh() warns of the status that finish() is going to write.
LEMMA RefreshClaims ==
    ASSUME TypeOK, ClaimsInv, NEW a \in Runners, Refresh(a)
    PROVE  ClaimsInv'
<1>0. ClaimsHold /\ ClaimsAreOwn /\ NotEnded /\ OneHand /\ RunKnown
    BY DEF ClaimsInv
<1>1. /\ \A b \in Runners : b # a => sync'[b] = sync[b]
      /\ UNCHANGED <<overview, runs>>
      /\ sync[a].pc = "refresh" /\ sync'[a].pc = "finish"
      /\ sync'[a].run = sync[a].run /\ sync'[a].view = sync[a].view
      /\ sync[a].status \in Bad => sync'[a].status = sync[a].status
      /\ HasRun(a) /\ HasRun(a)'
    BY SMTT(30) DEF Refresh, Goes, server, HasRun, Bad, TypeOK, Calls
<1>2. CASE UNCHANGED warnings
    BY <1>1, <1>2, QuietStep DEF Claimed
<1>3. CASE warnings' = WarnedOf(OwnView(a))
    <2>1. /\ OwnView(a) \in Views /\ Names(OwnView(a))
          /\ sync[a].run \in DOMAIN runs
        BY <1>0, <1>1 DEF OwnView, Names, NoView, Views, RunKnown, TypeOK, Calls
    <2>2. ASSUME NEW i, NEW st \in Bad, Claimed(i, st)'
          PROVE  Claimed(i, st) \/ (i = sync[a].run /\ st = sync[a].status)
        <3>1. warnings'[i] = st =>
                warnings[i] = st \/ (OwnView(a).run = i /\ OwnView(a).status = st)
            BY <1>3, <2>1, SaidClaims
        <3>2. OwnView(a).status = st => OwnView(a).run = sync[a].run /\ st = sync[a].status
            BY DEF OwnView, NoView, Bad
        <3> QED
            BY <1>1, <2>2, <3>1, <3>2 DEF Claimed
    <2>3. runs[sync[a].run] \in {"running", "abandoned"}
        BY <1>0, <1>1 DEF NotEnded
    <2>4. ClaimsHold'
        BY <1>0, <1>1, <2>2, <2>3 DEF ClaimsHold
    <2>5. ASSUME NEW b \in Runners, HasRun(b)'
          PROVE  HasRun(b) /\ sync'[b].run = sync[b].run /\ (b # a => sync'[b] = sync[b])
        BY <1>1, <2>5 DEF HasRun
    <2>6. ASSUME NEW b \in Runners, NEW st \in Bad, HasRun(b)', Claimed(sync[b].run, st)'
          PROVE  sync'[b].pc \in {"finish", "rescue"} /\ sync'[b].status = st
        BY <1>0, <1>1, <2>2, <2>5, <2>6 DEF ClaimsAreOwn, OneHand
    <2>7. ClaimsAreOwn'
        BY <2>5, <2>6 DEF ClaimsAreOwn, Claimed
    <2>8. NotEnded' /\ OneHand' /\ RunKnown'
        BY <1>0, <1>1, <2>3, <2>5 DEF NotEnded, OneHand, RunKnown
    <2> QED
        BY <2>4, <2>7, <2>8 DEF ClaimsInv
<1> QED
    BY <1>2, <1>3 DEF Refresh

\* finish(), of the try or of the catch, writes what was warned of, if anything.
LEMMA EndingClaims ==
    ASSUME TypeOK, ClaimsInv, NEW a \in Runners, FinishRun(a) \/ RescueRun(a)
    PROVE  ClaimsInv'
<1>0. ClaimsHold /\ ClaimsAreOwn /\ NotEnded /\ OneHand /\ RunKnown
    BY DEF ClaimsInv
<1>1. /\ \A b \in Runners : b # a => sync'[b] = sync[b]
      /\ UNCHANGED <<overview, warnings>>
      /\ sync'[a].run = sync[a].run /\ sync'[a].view = sync[a].view
      /\ sync'[a].status = sync[a].status
      /\ HasRun(a)
      /\ \/ ~HasRun(a)'
         \/ sync[a].pc = "finish" /\ sync'[a].pc = "rescue"
    <2>1. CASE FinishRun(a)
        BY <2>1, SMTT(30) DEF FinishRun, Goes, server, HasRun, TypeOK, Calls
    <2>2. CASE RescueRun(a)
        BY <2>2 DEF RescueRun, Goes, server, HasRun, TypeOK, Calls
    <2> QED
        BY <2>1, <2>2
<1>2. /\ sync[a].run \in DOMAIN runs
      /\ runs \in Seq(Statuses) /\ sync[a].status \in Closed
    BY <1>0, <1>1 DEF RunKnown, TypeOK, Calls
<1>3. PICK e \in Closed :
        /\ UNCHANGED runs \/ Finished(a, e)
        /\ sync[a].status \in Bad => e = sync[a].status
        /\ HasRun(a)' => e = sync[a].status
    <2>1. CASE FinishRun(a)
        BY <1>2, <2>1 DEF FinishRun
    <2>2. CASE RescueRun(a)
        <3>1. ~HasRun(a)'
            BY <1>1, <2>2 DEF RescueRun
        <3> QED
            BY <1>2, <2>2, <3>1 DEF RescueRun, Closed, Bad
    <2> QED
        BY <2>1, <2>2
<1>4. /\ DOMAIN runs' = DOMAIN runs
      /\ \A i \in DOMAIN runs :
            runs'[i] = runs[i] \/ (i = sync[a].run /\ runs'[i] = e)
    BY <1>2, <1>3, ExceptFacts DEF Finished, Statuses
<1>5. ASSUME NEW i, NEW st \in Bad PROVE Claimed(i, st)' <=> Claimed(i, st)
    <2>1. \A b \in Runners : sync'[b].view = sync[b].view
        BY <1>1
    <2> QED
        BY <1>1, <2>1 DEF Claimed
<1>6. ASSUME NEW st \in Bad, Claimed(sync[a].run, st) PROVE st = e
    BY <1>0, <1>1, <1>3, <1>6 DEF ClaimsAreOwn
<1>7. ClaimsHold'
    BY <1>0, <1>4, <1>5, <1>6 DEF ClaimsHold
<1>8. ASSUME NEW b \in Runners, HasRun(b)'
      PROVE  /\ HasRun(b) /\ sync'[b].run = sync[b].run /\ sync'[b].status = sync[b].status
             /\ sync[b].run \in DOMAIN runs
             /\ \/ b # a /\ sync'[b] = sync[b] /\ sync[b].run # sync[a].run
                \/ b = a /\ sync[a].pc = "finish" /\ sync'[a].pc = "rescue"
    BY <1>0, <1>1, <1>2, <1>8 DEF HasRun, OneHand, RunKnown, TypeOK
<1>9. ClaimsAreOwn'
    BY <1>0, <1>5, <1>8 DEF ClaimsAreOwn
<1>10. NotEnded'
    BY <1>0, <1>1, <1>3, <1>4, <1>8 DEF NotEnded
<1>11. OneHand' /\ RunKnown'
    BY <1>0, <1>8 DEF OneHand, RunKnown
<1> QED
    BY <1>7, <1>9, <1>10, <1>11 DEF ClaimsInv

\* The other steps of a call say only what they have read.
LEMMA StepClaims ==
    ASSUME TypeOK, ClaimsInv, NEW a \in Runners, Step(a)
    PROVE  ClaimsInv'
<1>1. (\A b \in Runners : b # a => sync'[b] = sync[b]) /\ UNCHANGED overview
    BY StepShape
<1>2. CASE TryLock(a) \/ Unlock(a)
    <2>1. UNCHANGED tables /\ ~HasRun(a)' /\ sync'[a].view \in {sync[a].view, NoView}
        BY <1>2 DEF TryLock, Unlock, Return, Goes, Idle, HasRun, TypeOK, Calls
    <2>2. ASSUME NEW i, NEW st \in Bad, Claimed(i, st)' PROVE Claimed(i, st)
        BY <1>1, <2>1, <2>2 DEF Claimed, tables, NoView, Bad
    <2> QED
        BY <1>1, <2>1, <2>2, QuietStep DEF tables
<1>3. CASE SyncLottery(a)
    <2>1. /\ UNCHANGED tables /\ sync'[a].view = sync[a].view /\ HasRun(a) /\ HasRun(a)'
          /\ sync'[a].run = sync[a].run /\ sync[a].pc = "lotteries" /\ sync'[a].pc # "rescue"
        BY <1>3 DEF SyncLottery, HasRun, TypeOK, Calls
    <2> QED
        BY <1>1, <2>1, QuietStep DEF tables, Claimed
<1>4. CASE Reread(a)
    <2>1. UNCHANGED tables /\ ~HasRun(a)' /\ sync'[a].view \in {sync[a].view, LatestView}
        BY <1>4 DEF Reread, Goes, HasRun, TypeOK, Calls
    <2>2. ASSUME NEW i, NEW st \in Bad, Claimed(i, st)' PROVE Claimed(i, st) \/ runs[i] = st
        BY <1>1, <2>1, <2>2, LatestShown DEF Claimed, tables
    <2> QED
        BY <1>1, <2>1, <2>2, QuietStep DEF tables
<1>5. CASE Rewarn(a)
    <2>1. /\ UNCHANGED runs /\ ~HasRun(a)' /\ sync'[a].view = sync[a].view
          /\ UNCHANGED warnings \/ warnings' = WarnedOf(sync[a].view)
        BY <1>5 DEF Rewarn, Goes, HasRun, TypeOK, Calls
    <2>2. sync[a].view \in Views /\ Names(sync[a].view)
        BY DEF TypeOK, Calls
    <2>3. ASSUME NEW i, NEW st \in Bad, Claimed(i, st)' PROVE Claimed(i, st)
        BY <1>1, <2>1, <2>2, <2>3, SaidClaims DEF Claimed
    <2> QED
        BY <1>1, <2>1, <2>3, QuietStep
<1> QED
    BY <1>2, <1>3, <1>4, <1>5, CreateRunClaims, RefreshClaims, EndingClaims DEF Step

\* No step says of a run what the history will deny.
LEMMA ClaimsNext == TypeOK /\ ClaimsInv /\ [Next]_vars => ClaimsInv'
<1> SUFFICES ASSUME TypeOK, ClaimsInv, [Next]_vars PROVE ClaimsInv'
    OBVIOUS
<1>1. CASE UNCHANGED <<sync, tables, overview>>
    BY <1>1, QuietStep DEF tables, Claimed
<1>2. ASSUME NEW a \in Runners, Attempt(a), UNCHANGED <<tables, overview>>
      PROVE  ClaimsInv'
    <2>1. ~HasRun(a)' /\ sync'[a].view = sync[a].view
        BY <1>2 DEF Attempt, Goes, HasRun, TypeOK, Calls
    <2>2. \A b \in Runners : b # a => sync'[b] = sync[b]
        BY <1>2, AttemptShape
    <2> QED
        BY <1>2, <2>1, <2>2, QuietStep DEF tables, Claimed
<1>3. ASSUME NEW p, Killed(p), UNCHANGED tables,
             \A s \in Servers : overview'[s] \in {overview[s], NoView}
      PROVE  ClaimsInv'
    <2>1. \A b \in Runners : sync'[b] = sync[b] \/ sync'[b] = Idle
        BY <1>3 DEF Killed
    <2>2. Idle.pc = "idle" /\ Idle.view = NoView /\ NoView.status \notin Bad
        BY DEF Idle, NoView, Bad
    <2>3. ASSUME NEW i, NEW st \in Bad, Claimed(i, st)' PROVE Claimed(i, st)
        BY <1>3, <2>1, <2>2, <2>3 DEF Claimed, tables
    <2> QED
        BY <1>3, <2>1, <2>2, <2>3, QuietStep DEF tables, HasRun
<1>4. ASSUME NEW s \in Servers, RecoverRuns(s) PROVE ClaimsInv'
    BY <1>4, QuietStep DEF RecoverRuns, Claimed
<1>5. ASSUME NEW s \in Servers, OverviewReads(s) PROVE ClaimsInv'
    <2>1. /\ UNCHANGED <<sync, tables>>
          /\ \A t \in Servers : overview'[t] \in {overview[t], LatestView}
        BY <1>5 DEF OverviewReads, TypeOK
    <2>2. ASSUME NEW i, NEW st \in Bad, Claimed(i, st)' PROVE Claimed(i, st) \/ runs[i] = st
        BY <2>1, <2>2, LatestShown DEF Claimed, tables
    <2> QED
        BY <2>1, <2>2, QuietStep DEF tables
<1>6. ASSUME NEW s \in Servers, OverviewWarns(s) PROVE ClaimsInv'
    <2>1. /\ UNCHANGED <<sync, runs>>
          /\ \A t \in Servers : overview'[t] \in {overview[t], NoView}
          /\ UNCHANGED warnings \/ warnings' = WarnedOf(overview[s])
        BY <1>6 DEF OverviewWarns, TypeOK
    <2>2. overview[s] \in Views /\ Names(overview[s]) /\ NoView.status \notin Bad
        BY DEF TypeOK, NoView, Bad
    <2>3. ASSUME NEW i, NEW st \in Bad, Claimed(i, st)' PROVE Claimed(i, st)
        BY <2>1, <2>2, <2>3, SaidClaims DEF Claimed
    <2> QED
        BY <2>1, <2>3, QuietStep
<1>7. \A a \in Runners : LoseSyncLock(a) => UNCHANGED <<sync, tables, overview>>
    BY DEF LoseSyncLock, server
<1> QED
    BY <1>1, <1>2, <1>3, <1>4, <1>5, <1>6, <1>7, StepClaims, NextShape

\* What the warnings say of a run that ended badly is never denied by the
\* history.
THEOREM WarningsCorrect == Spec => []WarningsMatch
<1>1. Init => TypeOK /\ ClaimsInv
    <2> SUFFICES ASSUME Init PROVE ClaimsInv
        BY InitType
    <2>1. DOMAIN runs = {} /\ \A a \in Runners : ~HasRun(a)
        BY DEF Init, HasRun, Idle
    <2> QED
        BY <2>1 DEF ClaimsInv, ClaimsHold, ClaimsAreOwn, NotEnded, OneHand, RunKnown
<1>2. TypeOK /\ ClaimsInv /\ [Next]_vars => TypeOK' /\ ClaimsInv'
    BY NextType, ClaimsNext
<1>3. ClaimsInv => WarningsMatch
    BY DEF ClaimsInv, ClaimsHold, Claimed, Bad, WarningsMatch
<1> QED
    BY <1>1, <1>2, <1>3, PTL DEF Spec
-----------------------------------------------------------------------------
(* A run is left behind only at a price                                    *)

\* a has a run to finish, or is about to have one.
Owing(a) == sync[a].pc = "create" \/ HasRun(a)

\* Calls that may leave a run behind for nothing more than was spent already: the
\* loss of their lock session ...
PaidCalls == {a \in Runners : Owing(a) /\ syncLock # a}

\* ... or a drain past its deadline: with its pool ended no statement of the call
\* succeeds, and none of their failures is a fault of its own.
LateServers ==
    {s \in Servers :
        \/ phase[s] \in {"releasing", "ending"} /\ Busy(s) # {}
        \/ phase[s] = "ended" /\ \E a \in Runners : a[1] = s /\ Owing(a) /\ syncLock = a}

\* The call that has spent the first of the two failed statements.
Rescuing == {a \in Runners : sync[a].pc = "rescue" /\ syncLock = a /\ PoolOpen(a[1])}

\* Every orphan is paid for, and so is every call that may still leave one.
LedgerInv ==
    /\ IsFiniteSet(PaidCalls) /\ IsFiniteSet(LateServers)
    /\ 2 * (Cardinality(Orphans) + Cardinality(PaidCalls) + Cardinality(LateServers))
          + Cardinality(Rescuing) + count.errors <= 2 * count.faults

\* What a step may add to each part of the ledger ...
Change(o, p, l, r) ==
    /\ IsFiniteSet(PaidCalls') /\ IsFiniteSet(LateServers')
    /\ Cardinality(Orphans') <= Cardinality(Orphans) + o
    /\ Cardinality(PaidCalls') <= Cardinality(PaidCalls) + p
    /\ Cardinality(LateServers') <= Cardinality(LateServers) + l
    /\ Cardinality(Rescuing') <= Cardinality(Rescuing) + r

\* ... and what it spends.
Slack(n) == 2 * (count'.faults - count.faults) - (count'.errors - count.errors) >= n

\* The arithmetic of the ledger: what is added is covered by what is spent.
LEMMA Sums ==
    ASSUME NEW O \in Int, NEW P \in Int, NEW L \in Int, NEW R \in Int, NEW e \in Int, NEW f \in Int,
           NEW OO \in Int, NEW PP \in Int, NEW LL \in Int, NEW RR \in Int, NEW ee \in Int, NEW ff \in Int,
           NEW o \in Int, NEW p \in Int, NEW l \in Int, NEW r \in Int, NEW n \in Int,
           2 * (O + P + L) + R + e <= 2 * f,
           OO <= O + o, PP <= P + p, LL <= L + l, RR <= R + r,
           2 * (ff - f) - (ee - e) >= n, 2 * (o + p + l) + r <= n
    PROVE  2 * (OO + PP + LL) + RR + ee <= 2 * ff
OBVIOUS

\* A part of a finite set is finite and no larger.
LEMMA Shrinks ==
    ASSUME NEW S, IsFiniteSet(S), NEW T, T \subseteq S
    PROVE  IsFiniteSet(T) /\ Cardinality(T) <= Cardinality(S) + 0
<1>1. IsFiniteSet(T) /\ Cardinality(T) <= Cardinality(S)
    BY FS_Subset
<1>2. Cardinality(S) \in Nat /\ Cardinality(T) \in Nat
    BY <1>1, FS_CardinalityType
<1> QED
    BY <1>1, <1>2

\* A set that takes up at most one more element.
LEMMA GrowsByOne ==
    ASSUME NEW S, IsFiniteSet(S), NEW x, NEW T, T \subseteq S \cup {x}
    PROVE  IsFiniteSet(T) /\ Cardinality(T) <= Cardinality(S) + 1
<1>0. Cardinality(S) \in Nat
    BY FS_CardinalityType
<1>1. IsFiniteSet(S \cup {x}) /\ Cardinality(S \cup {x}) <= Cardinality(S) + 1
    BY <1>0, FS_AddElement
<1>2. IsFiniteSet(T) /\ Cardinality(T) <= Cardinality(S \cup {x})
    BY <1>1, FS_Subset
<1>3. Cardinality(S) \in Nat /\ Cardinality(T) \in Nat /\ Cardinality(S \cup {x}) \in Nat
    BY <1>1, <1>2, FS_CardinalityType
<1> QED
    BY <1>1, <1>2, <1>3

\* A set that loses one of its elements.
LEMMA LosesOne ==
    ASSUME NEW S, IsFiniteSet(S), NEW x \in S, NEW T, T \subseteq S \ {x}
    PROVE  IsFiniteSet(T) /\ Cardinality(T) <= Cardinality(S) + (-1)
<1>1. IsFiniteSet(S \ {x}) /\ Cardinality(S \ {x}) = Cardinality(S) - 1
    BY FS_RemoveElement
<1>2. IsFiniteSet(T) /\ Cardinality(T) <= Cardinality(S \ {x})
    BY <1>1, FS_Subset
<1>3. Cardinality(S) \in Nat /\ Cardinality(T) \in Nat /\ Cardinality(S \ {x}) \in Nat
    BY <1>1, <1>2, FS_CardinalityType
<1> QED
    BY <1>1, <1>2, <1>3

\* The sets of the ledger are finite.
LEMMA FiniteLedger ==
    ASSUME TypeOK
    PROVE  IsFiniteSet(Orphans) /\ IsFiniteSet(Rescuing)
<1>1. Orphans \subseteq 1..Len(runs) /\ Len(runs) \in Nat
    BY DEF Orphans, TypeOK
<1>2. IsFiniteSet(1..Len(runs))
    BY <1>1, FS_Interval
<1>3. Rescuing \subseteq {syncLock} /\ IsFiniteSet({syncLock})
    BY FS_Singleton DEF Rescuing
<1> QED
    BY <1>1, <1>2, <1>3, FS_Subset

\* A step that spends as much as it adds keeps the ledger balanced.
LEMMA Balance ==
    ASSUME TypeOK, TypeOK', LedgerInv,
           NEW o \in Int, NEW p \in Int, NEW l \in Int, NEW r \in Int, NEW n \in Int,
           Change(o, p, l, r), Slack(n), 2 * (o + p + l) + r <= n
    PROVE  LedgerInv'
<1>1. /\ Cardinality(Orphans) \in Nat /\ Cardinality(PaidCalls) \in Nat
      /\ Cardinality(LateServers) \in Nat /\ Cardinality(Rescuing) \in Nat
    BY FiniteLedger, FS_CardinalityType DEF LedgerInv
<1>2. /\ IsFiniteSet(Orphans') /\ IsFiniteSet(Rescuing')
      /\ IsFiniteSet(PaidCalls') /\ IsFiniteSet(LateServers')
    <2>1. Orphans' \subseteq 1..Len(runs') /\ Len(runs') \in Nat
        BY DEF Orphans, TypeOK
    <2>2. IsFiniteSet(1..Len(runs'))
        BY <2>1, FS_Interval
    <2>3. Rescuing' \subseteq {syncLock'} /\ IsFiniteSet({syncLock'})
        BY FS_Singleton DEF Rescuing
    <2> QED
        BY <2>1, <2>2, <2>3, FS_Subset DEF Change
<1>3. /\ Cardinality(Orphans') \in Nat /\ Cardinality(PaidCalls') \in Nat
      /\ Cardinality(LateServers') \in Nat /\ Cardinality(Rescuing') \in Nat
    BY <1>2, FS_CardinalityType
<1>4. /\ count.faults \in Int /\ count.errors \in Int
      /\ count'.faults \in Int /\ count'.errors \in Int
    BY DEF TypeOK
<1>5. 2 * (Cardinality(Orphans) + Cardinality(PaidCalls) + Cardinality(LateServers))
          + Cardinality(Rescuing) + count.errors <= 2 * count.faults
    BY DEF LedgerInv
<1>6. /\ Cardinality(Orphans') <= Cardinality(Orphans) + o
      /\ Cardinality(PaidCalls') <= Cardinality(PaidCalls) + p
      /\ Cardinality(LateServers') <= Cardinality(LateServers) + l
      /\ Cardinality(Rescuing') <= Cardinality(Rescuing) + r
    BY DEF Change
<1>7. 2 * (count'.faults - count.faults) - (count'.errors - count.errors) >= n
    BY DEF Slack
<1>8. 2 * (Cardinality(Orphans') + Cardinality(PaidCalls') + Cardinality(LateServers'))
          + Cardinality(Rescuing') + count'.errors <= 2 * count'.faults
    BY <1>1, <1>3, <1>4, <1>5, <1>6, <1>7, Sums
<1> QED
    BY <1>2, <1>8 DEF LedgerInv

\* What the outcomes of a statement spend.
LEMMA Spends ==
    ASSUME TypeOK
    PROVE  /\ NoFault => Slack(0)
           /\ Fault => Slack(2)
           /\ \A p : Fails(p) => Slack(0)
           /\ \A p : Fails(p) /\ PoolOpen(p) => Slack(1)
           /\ \A a : Attempt(a) => Slack(0)
<1>1. /\ count \in [starts : 0..MaxStarts, attempts : 0..MaxAttempts,
                    faults : 0..MaxFaults, errors : Nat]
      /\ count.faults \in Int /\ count.errors \in Int
    BY DEF TypeOK
<1>2. Fault => count'.faults = count.faults + 1 /\ count'.errors = count.errors
    BY <1>1 DEF Fault
<1>3. \A p : Fails(p) /\ PoolOpen(p) =>
                count'.faults = count.faults + 1 /\ count'.errors = count.errors + 1
    BY <1>1 DEF Fails
<1>4. \A p : Fails(p) /\ ~PoolOpen(p) => count' = count
    BY DEF Fails, NoFault
<1>5. \A a : Attempt(a) => count'.faults = count.faults /\ count'.errors = count.errors
    BY <1>1 DEF Attempt
<1>6. NoFault => count' = count
    BY DEF NoFault
<1> QED
    BY <1>1, <1>2, <1>3, <1>4, <1>5, <1>6 DEF Slack

\* Two units are enough for one.
LEMMA SpendsMore ==
    ASSUME TypeOK, TypeOK', Slack(2)
    PROVE  Slack(1)
<1>1. /\ count.faults \in Int /\ count.errors \in Int
      /\ count'.faults \in Int /\ count'.errors \in Int
    BY DEF TypeOK
<1> QED
    BY <1>1 DEF Slack

\* A fault spends what nothing asks for.
LEMMA SlackLeft ==
    ASSUME TypeOK, Fault
    PROVE  Slack(0)
<1>1. /\ count.faults \in Int /\ count.errors \in Int
      /\ count'.faults \in Int /\ count'.errors \in Int
    <2>1. count \in [starts : 0..MaxStarts, attempts : 0..MaxAttempts,
                     faults : 0..MaxFaults, errors : Nat]
        BY DEF TypeOK
    <2> QED
        BY <2>1 DEF Fault
<1>2. Slack(2)
    BY Spends
<1> QED
    BY <1>1, <1>2 DEF Slack

\* A call that goes on, and one that returns.
LEMMA GoesFacts ==
    ASSUME TypeOK, NEW a \in Runners
    PROVE  /\ \A pc : Goes(a, pc) =>
                 /\ sync'[a].pc = pc /\ sync'[a].run = sync[a].run
                 /\ \A b \in Runners : b # a => sync'[b] = sync[b]
           /\ Return(a) =>
                 /\ sync'[a].pc = "idle" /\ UNCHANGED phase
                 /\ \A b \in Runners : b # a => sync'[b] = sync[b]
<1>1. sync \in [Runners -> Calls]
    BY DEF TypeOK
<1>2. ASSUME NEW pc, Goes(a, pc)
      PROVE  /\ sync'[a].pc = pc /\ sync'[a].run = sync[a].run
             /\ \A b \in Runners : b # a => sync'[b] = sync[b]
    BY <1>1, <1>2 DEF Goes, Calls
<1>3. ASSUME Return(a)
      PROVE  /\ sync'[a].pc = "idle" /\ UNCHANGED phase
             /\ \A b \in Runners : b # a => sync'[b] = sync[b]
    BY <1>1, <1>3 DEF Return, Idle
<1> QED
    BY <1>2, <1>3

\* A step that adds nothing.
LEMMA Quiet ==
    ASSUME TypeOK, TypeOK', LedgerInv, Slack(0),
           Orphans' \subseteq Orphans, PaidCalls' \subseteq PaidCalls,
           LateServers' \subseteq LateServers, Rescuing' \subseteq Rescuing
    PROVE  LedgerInv'
<1>1. Change(0, 0, 0, 0)
    BY Shrinks, FiniteLedger DEF Change, LedgerInv
<1> QED
    BY <1>1, Balance

\* The debts of the others are not those of the call that moves.
LEMMA CallDebts ==
    ASSUME TypeOK, NEW a \in Runners, UNCHANGED <<phase, syncLock>>,
           \A b \in Runners : b # a => sync'[b] = sync[b],
           Owing(a)' => Owing(a), sync[a].pc # "idle"
    PROVE  /\ PaidCalls' \subseteq PaidCalls
           /\ LateServers' \subseteq LateServers
           /\ Rescuing' \subseteq Rescuing \cup {a}
           /\ sync'[a].pc # "rescue" => Rescuing' \subseteq Rescuing \ {a}
           /\ ~PoolOpen(a[1]) => Rescuing' \subseteq Rescuing
           /\ ~Owing(a)' => PaidCalls' \subseteq PaidCalls \ {a}
<1>1. \A b \in Runners : Owing(b)' => Owing(b)
    BY DEF Owing, HasRun
<1>2. \A s \in Servers : Busy(s)' # {} => Busy(s) # {}
    BY DEF Busy
<1>3. PaidCalls' \subseteq PaidCalls /\ (~Owing(a)' => PaidCalls' \subseteq PaidCalls \ {a})
    BY <1>1 DEF PaidCalls
<1>4. LateServers' \subseteq LateServers
    BY <1>1, <1>2 DEF LateServers
<1>5. \A b \in Runners : PoolOpen(b[1])' <=> PoolOpen(b[1])
    BY DEF PoolOpen
<1>6. /\ Rescuing' \subseteq Rescuing \cup {a}
      /\ sync'[a].pc # "rescue" => Rescuing' \subseteq Rescuing \ {a}
      /\ ~PoolOpen(a[1]) => Rescuing' \subseteq Rescuing
    BY <1>5 DEF Rescuing
<1> QED
    BY <1>3, <1>4, <1>6

\* The runs in hand of the others stay in hand.
LEMMA CallOrphans ==
    ASSUME TypeOK, NEW a \in Runners,
           \A b \in Runners : b # a => sync'[b] = sync[b],
           \A i \in DOMAIN runs' : runs'[i] = "running" => i \in DOMAIN runs /\ runs[i] = "running"
    PROVE  /\ Orphans' \subseteq Orphans \cup {sync[a].run}
           /\ ~HasRun(a) => Orphans' \subseteq Orphans
           /\ HasRun(a)' /\ sync'[a].run = sync[a].run => Orphans' \subseteq Orphans
           /\ ~(sync[a].run \in DOMAIN runs' /\ runs'[sync[a].run] = "running")
                => Orphans' \subseteq Orphans
<1>1. \A b \in Runners : b # a => (HasRun(b)' <=> HasRun(b)) /\ sync'[b].run = sync[b].run
    BY DEF HasRun
<1>2. ASSUME NEW i \in Orphans', i \notin Orphans
      PROVE  HasRun(a) /\ i = sync[a].run /\ i \in DOMAIN runs' /\ runs'[i] = "running"
             /\ ~(HasRun(a)' /\ sync'[a].run = i)
    <2>1. i \in DOMAIN runs' /\ runs'[i] = "running" /\ i \notin InHand'
        BY <1>2 DEF Orphans
    <2>2. i \in InHand
        BY <1>2, <2>1 DEF Orphans
    <2>3. PICK b \in Runners : HasRun(b) /\ sync[b].run = i
        BY <2>2 DEF InHand
    <2>4. b = a
        BY <1>1, <2>1, <2>3 DEF InHand
    <2>5. ~(HasRun(a)' /\ sync'[a].run = i)
        BY <2>1 DEF InHand
    <2> QED
        BY <2>1, <2>3, <2>4, <2>5
<1> QED
    BY <1>2

\* pg_try_advisory_lock: the call that takes the lock owes nothing yet.
LEMMA TryLockPays ==
    ASSUME TypeOK, TypeOK', LedgerInv, NEW a \in Runners, TryLock(a)
    PROVE  LedgerInv'
<1>1. /\ \A b \in Runners : b # a => sync'[b] = sync[b]
      /\ UNCHANGED <<phase, runs>> /\ sync[a].pc = "connect"
      /\ \/ syncLock = None /\ syncLock' = a /\ PoolOpen(a[1]) /\ sync'[a].pc = "create"
         \/ UNCHANGED syncLock /\ sync'[a].pc = "idle"
      /\ Slack(0)
    BY Spends, GoesFacts DEF TryLock, server, tables
<1>2. Orphans' \subseteq Orphans
    BY <1>1, CallOrphans DEF HasRun
<1>3. CASE UNCHANGED syncLock /\ sync'[a].pc = "idle"
    <2>1. ~Owing(a)' /\ sync[a].pc # "idle" /\ sync'[a].pc # "rescue"
        BY <1>1, <1>3 DEF Owing, HasRun
    <2> QED
        BY <1>1, <1>2, <1>3, <2>1, CallDebts, Quiet
<1>4. CASE syncLock = None /\ syncLock' = a /\ PoolOpen(a[1]) /\ sync'[a].pc = "create"
    <2>1. \A b \in Runners : b # a => (Owing(b)' <=> Owing(b)) /\ sync'[b].pc = sync[b].pc
        BY <1>1 DEF Owing, HasRun
    <2>2. \A b \in Runners : b # None
        BY NoneAssumption
    <2>3. PaidCalls' \subseteq PaidCalls
        BY <1>4, <2>1, <2>2 DEF PaidCalls
    <2>4. \A s \in Servers : Busy(s)' # {} => Busy(s) # {}
        BY <1>1, <2>1 DEF Busy
    <2>5. \A s \in Servers : s = a[1] => phase'[s] # "ended"
        BY <1>1, <1>4 DEF PoolOpen
    <2>6. LateServers' \subseteq LateServers
        BY <1>1, <1>4, <2>4, <2>5 DEF LateServers
    <2>7. Rescuing' \subseteq Rescuing
        BY <1>4 DEF Rescuing
    <2> QED
        BY <1>1, <1>2, <2>3, <2>6, <2>7, Quiet
<1> QED
    BY <1>1, <1>3, <1>4

\* create(): only the row whose answer is lost has nobody to finish it.
LEMMA CreateRunPays ==
    ASSUME TypeOK, TypeOK', LedgerInv, NEW a \in Runners, CreateRun(a)
    PROVE  LedgerInv'
<1>0. UNCHANGED <<phase, syncLock>> /\ sync[a].pc = "create" /\ sync'[a].pc \in {"lotteries", "unlock"}
    BY DEF CreateRun, Goes, server, TypeOK, Calls
<1>1. /\ \A b \in Runners : b # a => sync'[b] = sync[b]
      /\ UNCHANGED <<phase, syncLock>> /\ sync[a].pc = "create"
      /\ sync'[a].pc \in {"lotteries", "unlock"}
    BY <1>0, StepShape DEF Step
<1>2. Owing(a) /\ ~HasRun(a) /\ sync[a].pc # "idle" /\ sync'[a].pc # "rescue"
    BY <1>1 DEF Owing, HasRun
<1>3. /\ PaidCalls' \subseteq PaidCalls /\ LateServers' \subseteq LateServers
      /\ Rescuing' \subseteq Rescuing
    BY <1>1, <1>2, CallDebts
<1>4. CASE UNCHANGED tables
    <2>1. UNCHANGED runs
        BY <1>4 DEF tables
    <2>2. Orphans' \subseteq Orphans
        BY <1>1, <1>2, <2>1, CallOrphans
    <2>3. Slack(0)
        BY <1>4, Spends, InsertGrows, SMTT(30) DEF CreateRun, Inserted, tables, TypeOK, TablesTyped
    <2> QED
        BY <1>3, <2>2, <2>3, Quiet
<1>5. CASE Inserted
    <2>0. PICK n \in Nat : n = Len(runs) + 1
        BY DEF TypeOK
    <2>1. /\ DOMAIN runs' = DOMAIN runs \cup {n}
          /\ \A i \in DOMAIN runs : runs'[i] = runs[i]
        <3>1. runs \in Seq(Statuses) /\ "running" \in Statuses
            BY DEF TypeOK, Statuses
        <3>2. runs' = Append(runs, "running")
            BY <1>5 DEF Inserted
        <3> QED
            BY <2>0, <3>1, <3>2, AppendFacts
    <2>2. \A b \in Runners : HasRun(b) => b # a /\ HasRun(b)' /\ sync'[b].run = sync[b].run
        BY <1>1, <1>2 DEF HasRun
    <2>3. InHand \subseteq InHand'
        BY <2>2 DEF InHand
    <2>4. Orphans' \subseteq Orphans \cup {n}
        BY <2>1, <2>3 DEF Orphans
    <2>5. CASE NoFault /\ HasRun(a)' /\ sync'[a].run = n
        <3>1. n \in InHand'
            BY <2>5 DEF InHand
        <3>2. Orphans' \subseteq Orphans
            BY <2>4, <3>1 DEF Orphans
        <3> QED
            BY <1>3, <2>5, <3>2, Quiet, Spends
    <2>6. CASE Fault
        <3>1. Change(1, 0, 0, 0)
            BY <1>3, <2>4, FiniteLedger, GrowsByOne, Shrinks DEF Change, LedgerInv
        <3> QED
            BY <2>6, <3>1, Balance, Spends
    <2>7. \/ NoFault /\ HasRun(a)' /\ sync'[a].run = n
          \/ Fault
          \/ UNCHANGED tables
        BY <2>0, SMTT(30) DEF CreateRun, HasRun, Latest, TypeOK, Calls
    <2> QED
        BY <1>4, <2>5, <2>6, <2>7
<1> QED
    BY <1>4, <1>5 DEF CreateRun

\* The statements that leave the run of a call in its hands, and those after it.
LEMMA MiddlePays ==
    ASSUME TypeOK, TypeOK', LedgerInv, NEW a \in Runners,
           SyncLottery(a) \/ Refresh(a) \/ Reread(a) \/ Rewarn(a)
    PROVE  LedgerInv'
<1>0. /\ UNCHANGED <<syncLock, runs>>
      /\ \/ /\ sync[a].pc \in {"lotteries", "refresh"} /\ sync'[a].run = sync[a].run
            /\ sync'[a].pc \in {"lotteries", "refresh", "finish"}
         \/ sync[a].pc \in {"reread", "rewarn"} /\ sync'[a].pc \in {"rewarn", "unlock"}
    <2>1. CASE SyncLottery(a)
        <3>1. UNCHANGED <<syncLock, runs>> /\ sync[a].pc = "lotteries"
            BY <2>1 DEF SyncLottery, tables
        <3>2. PICK result \in Closed :
                  sync' = [sync EXCEPT
                      ![a].done = @ + 1,
                      ![a].status = Combined(sync[a], result),
                      ![a].pc = IF sync[a].done + 1 = NumLotteries THEN "refresh" ELSE @]
            BY <2>1 DEF SyncLottery
        <3> DEFINE c == [sync[a] EXCEPT
                      !.done = @ + 1,
                      !.status = Combined(sync[a], result),
                      !.pc = IF sync[a].done + 1 = NumLotteries THEN "refresh" ELSE @]
        <3>3. sync' = [sync EXCEPT ![a] = c] /\ sync \in [Runners -> Calls]
            BY <3>2 DEF TypeOK
        <3>4. sync'[a] = c
            BY <3>3
        <3>5. DOMAIN sync[a] = {"pc", "run", "done", "status", "view"}
            BY DEF TypeOK, Calls
        <3>6. c.run = sync[a].run /\ c.pc \in {"lotteries", "refresh"}
            BY <3>1, <3>5
        <3> QED
            BY <3>1, <3>4, <3>6
    <2>2. CASE Refresh(a)
        BY <2>2, SMTT(30) DEF Refresh, Goes, TypeOK, Calls
    <2>3. CASE Reread(a)
        BY <2>3 DEF Reread, Goes, tables, TypeOK, Calls
    <2>4. CASE Rewarn(a)
        BY <2>4 DEF Rewarn, Goes, TypeOK, Calls
    <2> QED
        BY <2>1, <2>2, <2>3, <2>4
<1>1. /\ \A b \in Runners : b # a => sync'[b] = sync[b]
      /\ UNCHANGED <<phase, syncLock, runs>>
      /\ \/ /\ sync[a].pc \in {"lotteries", "refresh"} /\ sync'[a].run = sync[a].run
            /\ sync'[a].pc \in {"lotteries", "refresh", "finish"}
         \/ sync[a].pc \in {"reread", "rewarn"} /\ sync'[a].pc \in {"rewarn", "unlock"}
      /\ Slack(0)
    <2>1. Slack(0)
        BY Spends DEF SyncLottery, Refresh, Reread, Rewarn
    <2> QED
        BY <1>0, <2>1, StepShape DEF Step
<1>2. /\ Owing(a)' => Owing(a) /\ HasRun(a)' /\ sync'[a].run = sync[a].run
      /\ HasRun(a) => HasRun(a)' /\ sync'[a].run = sync[a].run
      /\ sync[a].pc # "idle" /\ sync'[a].pc # "rescue"
    BY <1>1 DEF Owing, HasRun
<1>3. Orphans' \subseteq Orphans
    BY <1>1, <1>2, CallOrphans
<1>4. /\ PaidCalls' \subseteq PaidCalls /\ LateServers' \subseteq LateServers
      /\ Rescuing' \subseteq Rescuing
    BY <1>1, <1>2, CallDebts
<1> QED
    BY <1>1, <1>3, <1>4, Quiet

\* The finally.
LEMMA UnlockPays ==
    ASSUME TypeOK, TypeOK', LedgerInv, NEW a \in Runners, Unlock(a)
    PROVE  LedgerInv'
<1>1. /\ \A b \in Runners : b # a => sync'[b] = sync[b]
      /\ UNCHANGED <<phase, runs>>
      /\ sync[a].pc = "unlock" /\ sync'[a].pc = "idle"
      /\ syncLock' = IF syncLock = a THEN None ELSE syncLock
      /\ Slack(0)
    BY Spends, GoesFacts DEF Unlock, tables
<1>2. ~Owing(a) /\ ~Owing(a)' /\ ~HasRun(a)
    BY <1>1 DEF Owing, HasRun
<1>3. \A b \in Runners : b # None
    BY NoneAssumption
<1>4. \A b \in Runners : b # a => (Owing(b)' <=> Owing(b)) /\ sync'[b].pc = sync[b].pc
    BY <1>1 DEF Owing, HasRun
<1>5. Orphans' \subseteq Orphans
    BY <1>1, <1>2, CallOrphans
<1>6. PaidCalls' \subseteq PaidCalls
    BY <1>1, <1>2, <1>3, <1>4 DEF PaidCalls
<1>7. \A s \in Servers : Busy(s)' # {} => Busy(s) # {}
    BY <1>1, <1>4 DEF Busy
<1>8. LateServers' \subseteq LateServers
    BY <1>1, <1>2, <1>3, <1>4, <1>7 DEF LateServers
<1>9. Rescuing' \subseteq Rescuing
    BY <1>1, <1>3, <1>4 DEF Rescuing, PoolOpen
<1> QED
    BY <1>1, <1>5, <1>6, <1>8, <1>9, Quiet

\* finish() writes a closed status, or spends half of what an orphan costs.
LEMMA FinishRunPays ==
    ASSUME TypeOK, TypeOK', LedgerInv, NEW a \in Runners, FinishRun(a)
    PROVE  LedgerInv'
<1>1. /\ \A b \in Runners : b # a => sync'[b] = sync[b]
      /\ UNCHANGED <<phase, syncLock>>
      /\ sync[a].pc = "finish" /\ sync'[a].pc \in {"rescue", "unlock"}
      /\ sync'[a].run = sync[a].run
    BY GoesFacts DEF FinishRun, server
<1>2. Owing(a) /\ sync[a].pc # "idle"
    BY <1>1 DEF Owing, HasRun
<1>3. /\ PaidCalls' \subseteq PaidCalls /\ LateServers' \subseteq LateServers
      /\ Rescuing' \subseteq Rescuing \cup {a}
      /\ sync'[a].pc # "rescue" => Rescuing' \subseteq Rescuing
      /\ ~PoolOpen(a[1]) => Rescuing' \subseteq Rescuing
    BY <1>1, <1>2, CallDebts
<1>4. sync[a].status \in Closed /\ runs \in Seq(Statuses)
    BY DEF TypeOK, Calls
<1>5. Finished(a, sync[a].status) =>
        /\ \A i \in DOMAIN runs' :
              runs'[i] = "running" => i \in DOMAIN runs /\ runs[i] = "running"
        /\ ~(sync[a].run \in DOMAIN runs' /\ runs'[sync[a].run] = "running")
    BY <1>4, ExceptFacts DEF Finished, Statuses, Closed
<1>6. CASE Finished(a, sync[a].status) /\ sync'[a].pc = "unlock" /\ NoFault
    <2>1. Orphans' \subseteq Orphans
        BY <1>1, <1>5, <1>6, CallOrphans
    <2> QED
        BY <1>3, <1>6, <2>1, Quiet, Spends
<1>7. CASE (Finished(a, sync[a].status) \/ UNCHANGED runs) /\ sync'[a].pc = "rescue"
           /\ (Fault \/ Fails(a[1]))
    <2>1. HasRun(a)'
        BY <1>7 DEF HasRun
    <2>2. Orphans' \subseteq Orphans
        BY <1>1, <1>5, <1>7, <2>1, CallOrphans
    <2>3. CASE ~PoolOpen(a[1]) /\ Fails(a[1])
        BY <1>3, <2>2, <2>3, Quiet, Spends
    <2>4. CASE Fault \/ (PoolOpen(a[1]) /\ Fails(a[1]))
        <3>1. Change(0, 0, 0, 1)
            BY <1>3, <2>2, FiniteLedger, GrowsByOne, Shrinks DEF Change, LedgerInv
        <3>2. Slack(1)
            BY <2>4, Spends, SpendsMore
        <3> QED
            BY <3>1, <3>2, Balance
    <2> QED
        BY <1>7, <2>3, <2>4
<1> QED
    <2>1. \/ Finished(a, sync[a].status) /\ sync'[a].pc = "unlock" /\ NoFault
          \/ (Finished(a, sync[a].status) \/ UNCHANGED runs) /\ sync'[a].pc = "rescue"
             /\ (Fault \/ Fails(a[1]))
        BY GoesFacts DEF FinishRun
    <2> QED
        BY <1>6, <1>7, <2>1

\* The finish() of the catch, when it fails, leaves an orphan: by the second of two
\* failed statements, or under what a lost session or a deadline has paid.
LEMMA RescueRunPays ==
    ASSUME TypeOK, TypeOK', LedgerInv, NEW a \in Runners, RescueRun(a)
    PROVE  LedgerInv'
<1>1. /\ \A b \in Runners : b # a => sync'[b] = sync[b]
      /\ UNCHANGED <<phase, syncLock>>
      /\ sync[a].pc = "rescue" /\ sync'[a].pc = "reread"
    BY GoesFacts DEF RescueRun, server
<1>2. Owing(a) /\ ~Owing(a)' /\ sync[a].pc # "idle" /\ sync'[a].pc # "rescue"
    BY <1>1 DEF Owing, HasRun
<1>3. /\ PaidCalls' \subseteq PaidCalls \ {a} /\ LateServers' \subseteq LateServers
      /\ Rescuing' \subseteq Rescuing \ {a} /\ PaidCalls' \subseteq PaidCalls
      /\ Rescuing' \subseteq Rescuing
    BY <1>1, <1>2, CallDebts
<1>4. runs \in Seq(Statuses)
    BY DEF TypeOK
<1>5. ASSUME NEW st \in Closed, Finished(a, st), NoFault PROVE LedgerInv'
    <2>1. /\ \A i \in DOMAIN runs' :
                runs'[i] = "running" => i \in DOMAIN runs /\ runs[i] = "running"
          /\ ~(sync[a].run \in DOMAIN runs' /\ runs'[sync[a].run] = "running")
        BY <1>4, <1>5, ExceptFacts DEF Finished, Statuses, Closed
    <2>2. Orphans' \subseteq Orphans
        BY <1>1, <2>1, CallOrphans
    <2> QED
        BY <1>3, <1>5, <2>2, Quiet, Spends
<1>6. CASE Fails(a[1]) /\ UNCHANGED runs
    <2>1. Orphans' \subseteq Orphans \cup {sync[a].run}
        BY <1>1, <1>6, CallOrphans
    <2>2. CASE syncLock # a
        <3>1. a \in PaidCalls
            BY <1>2, <2>2 DEF PaidCalls
        <3>2. Change(1, -1, 0, 0)
            BY <1>3, <2>1, <3>1, FiniteLedger, GrowsByOne, LosesOne, Shrinks DEF Change, LedgerInv
        <3> QED
            BY <1>6, <3>2, Balance, Spends
    <2>3. CASE syncLock = a /\ PoolOpen(a[1])
        <3>1. a \in Rescuing
            BY <1>1, <2>3 DEF Rescuing
        <3>2. Change(1, 0, 0, -1)
            BY <1>3, <2>1, <3>1, FiniteLedger, GrowsByOne, LosesOne, Shrinks DEF Change, LedgerInv
        <3> QED
            BY <1>6, <2>3, <3>2, Balance, Spends
    <2>4. CASE syncLock = a /\ ~PoolOpen(a[1])
        <3>1. a[1] \in Servers /\ phase[a[1]] = "ended"
            BY <2>4 DEF PoolOpen
        <3>2. a[1] \in LateServers
            BY <1>2, <2>4, <3>1 DEF LateServers
        <3>3. a[1] \notin LateServers'
            BY <1>1, <1>2, <2>4, <3>1 DEF LateServers
        <3>4. LateServers' \subseteq LateServers \ {a[1]}
            BY <1>3, <3>3
        <3>5. Change(1, 0, -1, 0)
            BY <1>3, <2>1, <3>2, <3>4, FiniteLedger, GrowsByOne, LosesOne, Shrinks
            DEF Change, LedgerInv
        <3> QED
            BY <1>6, <3>5, Balance, Spends
    <2> QED
        BY <2>2, <2>3, <2>4
<1>7. sync[a].status \in Closed
    BY DEF TypeOK, Calls
<1> QED
    BY <1>5, <1>6, <1>7 DEF RescueRun, Closed

\* The lock session of a call is lost: whatever it leaves is paid for.
LEMMA LoseSyncLockPays ==
    ASSUME TypeOK, TypeOK', LedgerInv, NEW a \in Runners, LoseSyncLock(a)
    PROVE  LedgerInv'
<1>1. /\ UNCHANGED <<phase, runs, sync>> /\ syncLock = a /\ syncLock' = None
      /\ Fault
    BY DEF LoseSyncLock, server, tables
<1>2. \A b \in Runners : b # None /\ (Owing(b)' <=> Owing(b))
    BY <1>1, NoneAssumption DEF Owing, HasRun
<1>3. Orphans' \subseteq Orphans
    BY <1>1 DEF Orphans, InHand, HasRun
<1>4. PaidCalls' \subseteq PaidCalls \cup {a}
    BY <1>1, <1>2 DEF PaidCalls
<1>5. LateServers' \subseteq LateServers
    BY <1>1, <1>2 DEF LateServers, Busy
<1>6. Rescuing' \subseteq Rescuing
    BY <1>1, <1>2 DEF Rescuing
<1>7. Change(0, 1, 0, 0)
    BY <1>3, <1>4, <1>5, <1>6, FiniteLedger, GrowsByOne, Shrinks DEF Change, LedgerInv
<1> QED
    BY <1>1, <1>7, Balance, Spends

\* A call that starts owes nothing yet; the phases may change, but no server starts
\* to drain or to end by it.
LEMMA AttemptPays ==
    ASSUME TypeOK, TypeOK', LedgerInv, NEW a \in Runners, Attempt(a),
           UNCHANGED <<syncLock, tables>>,
           \A s \in Servers : phase'[s] = phase[s] \/ (phase[s] = "listening" /\ phase'[s] = "up"),
           a[1] \in Servers => phase'[a[1]] = "up"
    PROVE  LedgerInv'
<1>1. /\ sync[a].pc = "idle" /\ sync'[a].pc = "connect"
      /\ \A b \in Runners : b # a => sync'[b] = sync[b]
    BY AttemptShape
<1>2. \A b \in Runners : (Owing(b)' <=> Owing(b)) /\ (HasRun(b)' <=> HasRun(b))
    BY <1>1 DEF Owing, HasRun
<1>3. \A b \in Runners : HasRun(b) => sync'[b].run = sync[b].run
    BY <1>1 DEF HasRun
<1>4. Orphans' \subseteq Orphans
    BY <1>2, <1>3 DEF Orphans, InHand, tables
<1>5. PaidCalls' \subseteq PaidCalls
    BY <1>2 DEF PaidCalls
<1>6. \A s \in Servers : phase'[s] # "up" => phase'[s] = phase[s] /\ s # a[1]
    OBVIOUS
<1>7. \A s \in Servers : s # a[1] /\ Busy(s)' # {} => Busy(s) # {}
    BY <1>1 DEF Busy
<1>8. LateServers' \subseteq LateServers
    BY <1>2, <1>6, <1>7 DEF LateServers
<1>9. Rescuing' \subseteq Rescuing
    <2>1. \A b \in Runners : sync'[b].pc = "rescue" => sync[b].pc = "rescue"
        BY <1>1
    <2>2. \A b \in Runners : PoolOpen(b[1])' => PoolOpen(b[1])
        BY DEF PoolOpen
    <2> QED
        BY <2>1, <2>2 DEF Rescuing
<1> QED
    BY <1>4, <1>5, <1>8, <1>9, Quiet, Spends

\* The steps of a server other than a deadline or a crash: no call is at work when
\* its server ends its drain, and a pool ends only after the drain.
LEMMA ServerPays ==
    ASSUME TypeOK, TypeOK', LedgerInv, NEW s \in Servers,
           \/ Start(s) \/ AcquireRuntime(s) \/ RecoverRuns(s) \/ StartupFails(s) \/ Shutdown(s)
           \/ Drained(s) \/ ReleaseRuntime(s) \/ EndPool(s) \/ Exit(s)
           \/ OverviewReads(s) \/ OverviewWarns(s) \/ LoseRuntimeLock(s)
    PROVE  LedgerInv'
<1>1. UNCHANGED <<syncLock, sync>>
    BY DEF Start, AcquireRuntime, RecoverRuns, StartupFails, Shutdown, Drained,
        ReleaseRuntime, EndPool, Exit, OverviewReads, OverviewWarns, LoseRuntimeLock
<1>2. \A t \in Servers : t # s => phase'[t] = phase[t]
    BY OthersKept DEF Proceed
<1>3. \/ phase'[s] = phase[s]
      \/ phase'[s] \in {"down", "locking", "recovering", "listening", "draining"}
         /\ (phase[s] = "ended" => Busy(s) = {})
      \/ phase[s] = "draining" /\ phase'[s] = "releasing" /\ Busy(s) = {}
      \/ phase[s] = "releasing" /\ phase'[s] = "ending"
      \/ phase[s] = "ending" /\ phase'[s] = "ended"
    BY DEF Start, AcquireRuntime, RecoverRuns, StartupFails, Shutdown, Drained, Drains,
        ReleaseRuntime, EndPool, Exit, OverviewReads, OverviewWarns, LoseRuntimeLock,
        Enters, TypeOK
<1>4. \A i \in DOMAIN runs' : runs'[i] = "running" => i \in DOMAIN runs /\ runs[i] = "running"
    <2>1. CASE RecoverRuns(s)
        BY <2>1 DEF RecoverRuns
    <2>2. CASE ~RecoverRuns(s)
        BY <2>2 DEF Start, AcquireRuntime, StartupFails, Shutdown, Drained, ReleaseRuntime,
            EndPool, Exit, OverviewReads, OverviewWarns, LoseRuntimeLock, tables
    <2> QED
        BY <2>1, <2>2
<1>5. Slack(0)
    <2>1. CASE Start(s)
        BY <2>1, SMTT(30) DEF Start, Slack, TypeOK
    <2>2. CASE StartupFails(s) \/ LoseRuntimeLock(s)
        <3>1. Fault
            BY <2>2 DEF StartupFails, LoseRuntimeLock
        <3> QED
            BY <3>1, SlackLeft
    <2>3. CASE ~(Start(s) \/ StartupFails(s) \/ LoseRuntimeLock(s))
        BY <2>3, Spends DEF AcquireRuntime, RecoverRuns, Shutdown, Drained, ReleaseRuntime,
            EndPool, Exit, OverviewReads, OverviewWarns
    <2> QED
        BY <2>1, <2>2, <2>3
<1>6. Orphans' \subseteq Orphans
    BY <1>1, <1>4 DEF Orphans, InHand, HasRun
<1>7. PaidCalls' \subseteq PaidCalls
    BY <1>1 DEF PaidCalls, Owing, HasRun
<1>8. \A t \in Servers : Busy(t)' = Busy(t)
    BY <1>1 DEF Busy
<1>9. \A a \in Runners : (Owing(a)' <=> Owing(a)) /\ (Owing(a) => a \in Busy(a[1]))
    BY <1>1 DEF Owing, HasRun, Busy
<1>10. LateServers' \subseteq LateServers
    <2>1. ASSUME NEW t \in LateServers' PROVE t \in LateServers
        <3>1. CASE t # s \/ phase'[t] = phase[t]
            BY <1>1, <1>2, <1>8, <1>9, <2>1, <3>1 DEF LateServers
        <3>2. CASE t = s /\ phase'[s] # phase[s]
            BY <1>1, <1>3, <1>8, <1>9, <2>1, <3>2 DEF LateServers
        <3> QED
            BY <3>1, <3>2
    <2> QED
        BY <2>1
<1>11. Rescuing' \subseteq Rescuing
    <2>1. ASSUME NEW a \in Rescuing' PROVE PoolOpen(a[1])
        <3>1. a \in Runners /\ sync[a].pc = "rescue" /\ a \in Busy(a[1])
            BY <1>1, <2>1 DEF Rescuing, Busy
        <3> QED
            BY <1>2, <1>3, <2>1, <3>1 DEF Rescuing, PoolOpen
    <2> QED
        BY <1>1, <2>1 DEF Rescuing
<1> QED
    BY <1>5, <1>6, <1>7, <1>10, <1>11, Quiet

\* A drain past its deadline pays for what its calls leave when the pool ends.
LEMMA DeadlinePays ==
    ASSUME TypeOK, TypeOK', LedgerInv, NEW s \in Servers, DeadlinePasses(s)
    PROVE  LedgerInv'
<1>1. /\ UNCHANGED <<syncLock, sync, runs>> /\ Fault
      /\ phase[s] = "draining" /\ phase'[s] = "releasing"
      /\ \A t \in Servers : t # s => phase'[t] = phase[t]
    BY DEF DeadlinePasses, Enters, tables, TypeOK
<1>2. \A a \in Runners : Owing(a)' <=> Owing(a)
    BY <1>1 DEF Owing, HasRun
<1>3. Orphans' \subseteq Orphans
    BY <1>1 DEF Orphans, InHand, HasRun
<1>4. PaidCalls' \subseteq PaidCalls
    BY <1>1, <1>2 DEF PaidCalls
<1>5. LateServers' \subseteq LateServers \cup {s}
    BY <1>1, <1>2 DEF LateServers, Busy
<1>6. Rescuing' \subseteq Rescuing
    BY <1>1 DEF Rescuing, PoolOpen
<1>7. Change(0, 0, 1, 0)
    BY <1>3, <1>4, <1>5, <1>6, FiniteLedger, GrowsByOne, Shrinks DEF Change, LedgerInv
<1>8. Slack(2)
    BY <1>1, Spends
<1> QED
    BY <1>7, <1>8, Balance

\* The values of a function on a finite set are no more than its elements.
LEMMA ImageSize ==
    ASSUME NEW S, IsFiniteSet(S), NEW f, DOMAIN f = S
    PROVE  LET T == {f[x] : x \in S} IN IsFiniteSet(T) /\ Cardinality(T) <= Cardinality(S)
<1> DEFINE T == {f[x] : x \in S}
           g == [x \in S |-> f[x]]
<1>1. g \in Surjection(S, T)
    BY DEF Surjection
<1>2. IsFiniteSet(T) /\ Cardinality(T) <= Cardinality(S)
    BY <1>1, FS_Surjection
<1> QED
    BY <1>2

\* A set that takes up another one and an element.
LEMMA GrowsBySome ==
    ASSUME NEW S, IsFiniteSet(S), NEW D, IsFiniteSet(D), NEW k \in Nat, Cardinality(D) <= k,
           NEW x, NEW T, T \subseteq (S \cup D) \cup {x}
    PROVE  IsFiniteSet(T) /\ Cardinality(T) <= Cardinality(S) + (k + 1)
<1>1. /\ IsFiniteSet(S \cup D)
      /\ Cardinality(S \cup D) = Cardinality(S) + Cardinality(D) - Cardinality(S \cap D)
    BY FS_Union
<1>2. IsFiniteSet(S \cap D)
    BY FS_Intersection
<1>3. IsFiniteSet(T) /\ Cardinality(T) <= Cardinality(S \cup D) + 1
    BY <1>1, GrowsByOne
<1>4. /\ Cardinality(S) \in Nat /\ Cardinality(D) \in Nat /\ Cardinality(S \cap D) \in Nat
      /\ Cardinality(T) \in Nat
    BY <1>2, <1>3, FS_CardinalityType
<1> QED
    BY <1>1, <1>3, <1>4

\* A set that loses a part of its elements.
LEMMA LosesSome ==
    ASSUME NEW S, IsFiniteSet(S), NEW K, K \subseteq S, NEW T, T \subseteq S \ K
    PROVE  IsFiniteSet(T) /\ Cardinality(T) <= Cardinality(S) + (-Cardinality(K))
<1>1. IsFiniteSet(K) /\ IsFiniteSet(S \ K) /\ IsFiniteSet(S \cap K)
    BY FS_Subset, FS_Difference, FS_Intersection
<1>2. Cardinality(S \ K) = Cardinality(S) - Cardinality(S \cap K) /\ S \cap K = K
    BY FS_Difference
<1>3. IsFiniteSet(T) /\ Cardinality(T) <= Cardinality(S \ K)
    BY <1>1, FS_Subset
<1>4. Cardinality(S) \in Nat /\ Cardinality(K) \in Nat /\ Cardinality(T) \in Nat
    BY <1>1, <1>3, FS_CardinalityType
<1> QED
    BY <1>2, <1>3, <1>4

\* A crash pays for the run of the call that held the lock; those of the calls that
\* had lost theirs were paid for before.
LEMMA KilledPays ==
    ASSUME TypeOK, TypeOK', LedgerInv, NEW p \in Servers \cup Commands, Killed(p), Fault,
           UNCHANGED runs,
           \A s \in Servers : s # p => phase'[s] = phase[s],
           p \in Servers => phase'[p] = "down"
    PROVE  LedgerInv'
<1> DEFINE K == {a \in PaidCalls : a[1] = p}
           f == [a \in K |-> sync[a].run]
           D == {f[a] : a \in K}
           k == Cardinality(K)
<1>1. /\ \A a \in Runners : a[1] # p => sync'[a] = sync[a]
      /\ \A a \in Runners : a[1] = p => sync'[a].pc = "idle"
      /\ syncLock' = IF syncLock \in Busy(p) THEN None ELSE syncLock
    BY DEF Killed, Idle
<1>2. \A a \in Runners : a # None
    BY NoneAssumption
<1>3. \A a \in Runners : (Owing(a)' => Owing(a) /\ a[1] # p) /\ (Owing(a) => sync[a].pc # "idle")
    BY <1>1 DEF Owing, HasRun
<1>4. K \subseteq PaidCalls /\ IsFiniteSet(K) /\ k \in Nat
    BY FS_Subset, FS_CardinalityType DEF LedgerInv
<1>5. IsFiniteSet(D) /\ Cardinality(D) <= k
    <2> HIDE DEF K
    <2>1. DOMAIN f = K
        OBVIOUS
    <2> HIDE DEF f
    <2> QED
        BY <1>4, <2>1, ImageSize
<1>6. Orphans' \subseteq (Orphans \cup D) \cup {sync[syncLock].run}
    <2>1. ASSUME NEW i \in Orphans', i \notin Orphans
          PROVE  i \in D \cup {sync[syncLock].run}
        <3>1. i \in DOMAIN runs /\ runs[i] = "running" /\ i \notin InHand'
            BY <2>1 DEF Orphans
        <3>2. PICK a \in Runners : HasRun(a) /\ sync[a].run = i
            BY <2>1, <3>1 DEF Orphans, InHand
        <3>3. a[1] = p
            BY <1>1, <3>1, <3>2 DEF InHand, HasRun
        <3>4. CASE syncLock = a
            BY <3>2, <3>4
        <3>5. CASE syncLock # a
            <4>1. a \in K
                BY <3>2, <3>3, <3>5 DEF PaidCalls, Owing
            <4>2. f[a] = i
                BY <3>2, <4>1
            <4> QED
                BY <4>1, <4>2
        <3> QED
            BY <3>4, <3>5
    <2> QED
        BY <2>1
<1>7. PaidCalls' \subseteq PaidCalls \ K
    <2>1. ASSUME NEW a \in PaidCalls' PROVE a \in PaidCalls /\ a[1] # p
        <3>1. a \in Runners /\ Owing(a) /\ a[1] # p /\ syncLock' # a
            BY <1>3, <2>1 DEF PaidCalls
        <3>2. syncLock # a
            BY <1>1, <3>1 DEF Busy
        <3> QED
            BY <3>1, <3>2 DEF PaidCalls
    <2> QED
        BY <2>1
<1>8. LateServers' \subseteq LateServers
    <2>1. ASSUME NEW s \in LateServers' PROVE s \in LateServers
        <3>1. s \in Servers /\ s # p /\ phase'[s] = phase[s]
            BY <2>1 DEF LateServers
        <3>2. Busy(s)' = Busy(s)
            BY <1>1, <3>1 DEF Busy
        <3>3. \A a \in Runners : Owing(a)' /\ syncLock' = a => Owing(a) /\ syncLock = a
            BY <1>1, <1>2, <1>3
        <3> QED
            BY <2>1, <3>1, <3>2, <3>3 DEF LateServers
    <2> QED
        BY <2>1
<1>9. Rescuing' \subseteq Rescuing
    <2>1. ASSUME NEW a \in Rescuing' PROVE a \in Rescuing
        <3>1. a \in Runners /\ a[1] # p /\ sync[a].pc = "rescue" /\ syncLock = a
            BY <1>1, <1>2, <2>1 DEF Rescuing
        <3>2. PoolOpen(a[1])
            BY <2>1, <3>1 DEF Rescuing, PoolOpen
        <3> QED
            BY <3>1, <3>2 DEF Rescuing
    <2> QED
        BY <2>1
<1>10. Change(k + 1, -k, 0, 0)
    <2> HIDE DEF D, k
    <2>1. IsFiniteSet(Orphans) /\ IsFiniteSet(Rescuing) /\ IsFiniteSet(PaidCalls)
          /\ IsFiniteSet(LateServers)
        BY FiniteLedger DEF LedgerInv
    <2>2. Cardinality(Orphans') <= Cardinality(Orphans) + (k + 1)
        BY <1>4, <1>5, <1>6, <2>1, GrowsBySome
    <2>3. IsFiniteSet(PaidCalls') /\ Cardinality(PaidCalls') <= Cardinality(PaidCalls) + (-k)
        <3> HIDE DEF K
        <3> QED
            BY <1>4, <1>7, <2>1, LosesSome DEF k
    <2>4. IsFiniteSet(LateServers') /\ Cardinality(LateServers') <= Cardinality(LateServers) + 0
        BY <1>8, <2>1, Shrinks
    <2>5. Cardinality(Rescuing') <= Cardinality(Rescuing) + 0
        BY <1>9, <2>1, Shrinks
    <2> QED
        BY <2>2, <2>3, <2>4, <2>5 DEF Change
<1>11. Slack(2)
    BY Spends
<1>12. k + 1 \in Int /\ -k \in Int /\ 2 * ((k + 1) + (-k) + 0) + 0 <= 2
    <2> HIDE DEF k
    <2> QED
        BY <1>4
<1> HIDE DEF k
<1> QED
    BY <1>10, <1>11, <1>12, Balance

\* The ledger is empty at first.
LEMMA LedgerInit == Init => LedgerInv
<1> SUFFICES ASSUME Init PROVE LedgerInv
    OBVIOUS
<1>1. \A a \in Runners : sync[a].pc = "idle"
    BY DEF Init, Idle
<1>2. Orphans = {} /\ PaidCalls = {} /\ Rescuing = {}
    BY <1>1 DEF Init, Orphans, PaidCalls, Rescuing, Owing, HasRun
<1>3. LateServers = {}
    BY <1>1 DEF Init, LateServers
<1>4. count.faults = 0 /\ count.errors = 0
    BY DEF Init
<1> QED
    BY <1>2, <1>3, <1>4, FS_EmptySet DEF LedgerInv

\* No step leaves the ledger in debt.
LEMMA LedgerNext == TypeOK /\ RuntimeInv /\ LedgerInv /\ [Next]_vars => LedgerInv'
<1> SUFFICES ASSUME TypeOK, RuntimeInv, LedgerInv, [Next]_vars PROVE LedgerInv'
    OBVIOUS
<1>0. TypeOK'
    BY NextType
<1>1. ASSUME NEW a \in Runners, Step(a) \/ LoseSyncLock(a) PROVE LedgerInv'
    BY <1>0, <1>1, TryLockPays, CreateRunPays, MiddlePays, UnlockPays, FinishRunPays,
        RescueRunPays, LoseSyncLockPays DEF Step
<1>2. ASSUME NEW s \in Servers, TimerFires(s) \/ RequestSync(s) PROVE LedgerInv'
    <2>1. phase[s] = "up"
        BY <1>2 DEF TimerFires, RequestSync, RuntimeInv, ArmedServers
    <2>2. PICK a \in Runners : a[1] = s /\ Attempt(a)
        BY <1>2 DEF TimerFires, RequestSync, Runners, TypeOK
    <2>3. UNCHANGED <<syncLock, tables, phase>>
        BY <1>2 DEF TimerFires, RequestSync, server
    <2> QED
        BY <1>0, <2>1, <2>2, <2>3, AttemptPays
<1>3. ASSUME NEW s \in Servers, Listen(s) PROVE LedgerInv'
    <2>1. /\ UNCHANGED <<syncLock, tables>>
          /\ phase[s] = "listening" /\ phase'[s] = "up"
          /\ \A t \in Servers : t # s => phase'[t] = phase[t]
        BY <1>3 DEF Listen, Enters, TypeOK
    <2>2. CASE s \in AutoSync
        <3>1. PICK a \in Runners : a[1] = s /\ Attempt(a)
            BY <1>3, <2>2 DEF Listen, Runners
        <3> QED
            BY <1>0, <2>1, <3>1, AttemptPays
    <2>3. CASE s \notin AutoSync
        <3>1. UNCHANGED sync /\ NoFault
            BY <1>3, <2>3 DEF Listen
        <3>2. \A a \in Runners : (Owing(a)' <=> Owing(a)) /\ (HasRun(a)' <=> HasRun(a))
            BY <3>1 DEF Owing, HasRun
        <3>3. \A t \in Servers : Busy(t)' = Busy(t)
            BY <3>1 DEF Busy
        <3>4. Orphans' \subseteq Orphans /\ PaidCalls' \subseteq PaidCalls
            BY <2>1, <3>1, <3>2 DEF Orphans, InHand, PaidCalls, tables
        <3>5. LateServers' \subseteq LateServers
            BY <2>1, <3>2, <3>3 DEF LateServers
        <3>6. Rescuing' \subseteq Rescuing
            BY <2>1, <3>1 DEF Rescuing, PoolOpen
        <3> QED
            BY <1>0, <3>1, <3>4, <3>5, <3>6, Quiet, Spends
    <2> QED
        BY <2>2, <2>3
<1>4. ASSUME NEW s \in Servers, CrashServer(s) PROVE LedgerInv'
    <2>1. /\ Killed(s) /\ Fault /\ UNCHANGED runs /\ phase'[s] = "down"
          /\ \A t \in Servers : t # s => phase'[t] = phase[t]
        BY <1>4 DEF CrashServer, Enters, tables, TypeOK
    <2> QED
        BY <1>0, <2>1, KilledPays
<1>5. ASSUME NEW c \in Commands, CommandSync(c) PROVE LedgerInv'
    <2>1. /\ <<c, "main">> \in Runners /\ Attempt(<<c, "main">>)
          /\ UNCHANGED <<syncLock, tables, phase>>
        BY <1>5 DEF CommandSync, Runners, server
    <2>2. c \notin Servers
        BY ServersAssumption
    <2> QED
        BY <1>0, <2>1, <2>2, AttemptPays
<1>6. ASSUME NEW c \in Commands, CrashCommand(c) PROVE LedgerInv'
    <2>1. Killed(c) /\ Fault /\ UNCHANGED <<runs, phase>> /\ c \notin Servers
        BY <1>6, ServersAssumption DEF CrashCommand, tables, server
    <2> QED
        BY <1>0, <2>1, KilledPays
<1>7. CASE UNCHANGED vars
    <2>1. UNCHANGED <<phase, syncLock, sync, runs, count>>
        BY <1>7 DEF vars
    <2>2. /\ Orphans' = Orphans /\ PaidCalls' = PaidCalls
          /\ LateServers' = LateServers /\ Rescuing' = Rescuing
        BY <2>1 DEF Orphans, InHand, PaidCalls, LateServers, Rescuing, Owing, HasRun, Busy, PoolOpen
    <2> QED
        BY <2>1, <2>2 DEF LedgerInv
<1> QED
    BY <1>0, <1>1, <1>2, <1>3, <1>4, <1>5, <1>6, <1>7, ServerPays, DeadlinePays DEF Next, Proceed

\* The ledger is balanced in every state: no call, crash, lost session or late drain
\* leaves a run behind that was not paid for.
THEOREM LedgerHolds == Spec => [](TypeOK /\ RuntimeInv /\ LedgerInv)
<1>1. Init => TypeOK /\ RuntimeInv /\ LedgerInv
    BY InitType, RuntimeInit, LedgerInit
<1>2. TypeOK /\ RuntimeInv /\ LedgerInv /\ [Next]_vars => TypeOK' /\ RuntimeInv' /\ LedgerInv'
    BY NextType, RuntimeNext, LedgerNext
<1> QED
    BY <1>1, <1>2, PTL DEF Spec

\* One failed statement never leaves a row running that nobody is to finish: each
\* orphan costs a crash, a lost answer or session, a deadline, or two failures.
THEOREM OrphansCorrect == Spec => []OrphansArePaidFor
<1>1. TypeOK /\ LedgerInv => OrphansArePaidFor
    <2> SUFFICES ASSUME TypeOK, LedgerInv PROVE OrphansArePaidFor
        OBVIOUS
    <2>1. /\ Cardinality(Orphans) \in Nat /\ Cardinality(PaidCalls) \in Nat
          /\ Cardinality(LateServers) \in Nat /\ Cardinality(Rescuing) \in Nat
        BY FiniteLedger, FS_CardinalityType DEF LedgerInv
    <2>2. count.errors \in Nat /\ count.faults \in Nat
        BY DEF TypeOK
    <2> QED
        BY <2>1, <2>2 DEF LedgerInv, OrphansArePaidFor
<1> QED
    BY <1>1, LedgerHolds, PTL
=============================================================================
