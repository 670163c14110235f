---------------------------- MODULE Migrations -----------------------------
(***************************************************************************)
(* runMigrations() of src/src/db/migrations.ts, started by every server    *)
(* and by db:migrate, db:bootstrap and db:sync: the files of the           *)
(* repository are applied in order, one transaction each, under a session  *)
(* advisory lock, and the checksums of the applied ones are compared.      *)
(* Processes of different releases may start together, crash, or lose the  *)
(* database between any two statements.                                    *)
(***************************************************************************)
EXTENDS Integers, Sequences, FiniteSets

CONSTANTS
    Deploys,        \* processes that run the migrations
    NumFiles,       \* files of the newest release, in the order they sort
    MaxDeployFaults \* bound: crashes and failing statements

\* "nobody" is how the model says that no session holds the lock.
ASSUME DeploysAssumption ==
    "nobody" \notin Deploys /\ NumFiles \in Nat /\ MaxDeployFaults \in Nat

Files == 1 .. NumFiles
NotApplied == "not applied"
NoChecksum == "null"
\* The text of a file: as released, or edited after it was released.
Texts == {"released", "edited"}

VARIABLES
    effects,        \* what the SQL of the files did, in order
    ledger,         \* schema_migrations: name -> checksum_sha256
    lockHolder,     \* the session that holds loto_lab_migrations
    deploys,        \* each process
    deployFaults

migrationVars == <<effects, ledger, lockHolder, deploys, deployFaults>>

\* A release has the files up to its own number and may have edited one.
Releases == [files : Files, edited : Files \cup {0}]
TextIn(release, f) == IF release.edited = f THEN "edited" ELSE "released"

\* The database was left by an earlier release, before or after checksums.
MigrationsInit ==
    /\ \E before \in 0 .. NumFiles, sum \in {"released", NoChecksum} :
         /\ effects = [i \in 1 .. before |-> i]
         /\ ledger = [f \in Files |-> IF f <= before THEN sum ELSE NotApplied]
    /\ lockHolder = "nobody"
    /\ deploys \in [Deploys -> {[at |-> "down", release |-> r, next |-> 1] : r \in Releases}]
    /\ deployFaults = 0

Moves(d, place, file) ==
    deploys' = [deploys EXCEPT ![d] = [at |-> place, release |-> @.release, next |-> file]]

Goes(d, place) == Moves(d, place, deploys[d].next)

StartDeploy(d) ==
    /\ deploys[d].at = "down"
    /\ Goes(d, "waiting")
    /\ UNCHANGED <<effects, ledger, lockHolder, deployFaults>>

\* acquireMigrationLock(): it asks again every 250 ms, for 15 seconds.
AcquireMigrationLock(d) ==
    /\ deploys[d].at = "waiting" /\ lockHolder = "nobody"
    /\ lockHolder' = d
    /\ Moves(d, "looking", 1)
    /\ UNCHANGED <<effects, ledger, deployFaults>>

LockWaitEnds(d) ==
    /\ deploys[d].at = "waiting" /\ lockHolder # "nobody"
    /\ Goes(d, "refused")
    /\ UNCHANGED <<effects, ledger, lockHolder, deployFaults>>

\* The row of the next file is read: drift stops the deploy, a row without a
\* checksum takes the one of this release, a missing row opens a transaction.
LookUpFile(d) ==
    LET f == deploys[d].next
        text == TextIn(deploys[d].release, f)
    IN  /\ deploys[d].at = "looking" /\ f <= deploys[d].release.files
        /\ IF ledger[f] = NotApplied
           THEN Goes(d, "applying") /\ UNCHANGED ledger
           ELSE IF ledger[f] = NoChecksum
           THEN ledger' = [ledger EXCEPT ![f] = text] /\ Moves(d, "looking", f + 1)
           ELSE /\ IF ledger[f] = text THEN Moves(d, "looking", f + 1) ELSE Goes(d, "failing")
                /\ UNCHANGED ledger
        /\ UNCHANGED <<effects, lockHolder, deployFaults>>

\* A plausible slip (used by a mutant): the SQL runs outside the transaction.
RunSqlAtOnce(d) ==
    /\ deploys[d].at = "applying"
    /\ effects' = Append(effects, deploys[d].next)
    /\ Goes(d, "recording")
    /\ UNCHANGED <<ledger, lockHolder, deployFaults>>

\* BEGIN and the SQL of the file: nothing is visible before the commit.
RunSql(d) ==
    /\ deploys[d].at = "applying"
    /\ Goes(d, "recording")
    /\ UNCHANGED <<effects, ledger, lockHolder, deployFaults>>

Committed(d) ==
    LET f == deploys[d].next
    IN  /\ ledger' = [ledger EXCEPT ![f] = TextIn(deploys[d].release, f)]
        /\ effects' = Append(effects, f)

\* INSERT INTO schema_migrations and COMMIT.  The name is the primary key.
CommitFile(d) ==
    /\ deploys[d].at = "recording" /\ ledger[deploys[d].next] = NotApplied
    /\ Committed(d)
    /\ Moves(d, "looking", deploys[d].next + 1)
    /\ UNCHANGED <<lockHolder, deployFaults>>

Fault == deployFaults < MaxDeployFaults /\ deployFaults' = deployFaults + 1

\* A statement fails: ROLLBACK, and the error leaves through finally.
FileFails(d) ==
    /\ deploys[d].at \in {"looking", "applying", "recording"} /\ Fault
    /\ Goes(d, "failing")
    /\ UNCHANGED <<effects, ledger, lockHolder>>

\* The answer to COMMIT is lost: the file is applied, the deploy fails.
CommitUnanswered(d) ==
    /\ deploys[d].at = "recording" /\ ledger[deploys[d].next] = NotApplied /\ Fault
    /\ Committed(d)
    /\ Goes(d, "failing")
    /\ UNCHANGED lockHolder

FilesEnd(d) ==
    /\ deploys[d].at = "looking" /\ deploys[d].next > deploys[d].release.files
    /\ Goes(d, "finishing")
    /\ UNCHANGED <<effects, ledger, lockHolder, deployFaults>>

\* finally: the lock is released, or the client discarded, which ends the
\* session and the lock with it.
ReleaseMigrationLock(d) ==
    /\ deploys[d].at \in {"finishing", "failing"}
    /\ lockHolder' = "nobody"
    /\ Goes(d, IF deploys[d].at = "finishing" THEN "migrated" ELSE "refused")
    /\ UNCHANGED <<effects, ledger, deployFaults>>

\* The process dies; PostgreSQL rolls back and frees the lock when it sees it.
DeployCrashes(d) ==
    /\ deploys[d].at \notin {"down", "crashed", "refused"} /\ Fault
    /\ Goes(d, IF lockHolder = d THEN "crashed" ELSE "refused")
    /\ UNCHANGED <<effects, ledger, lockHolder>>

SessionIsDropped(d) ==
    /\ deploys[d].at = "crashed"
    /\ lockHolder' = "nobody"
    /\ Goes(d, "refused")
    /\ UNCHANGED <<effects, ledger, deployFaults>>

\* The operator starts it again, from the same release or from another.
Redeploy(d) ==
    /\ deploys[d].at \in {"refused", "migrated"}
    /\ \E r \in Releases : deploys' = [deploys EXCEPT ![d] = [at |-> "down", release |-> r, next |-> 1]]
    /\ UNCHANGED <<effects, ledger, lockHolder, deployFaults>>

MigrationsNext ==
    \E d \in Deploys :
      \/ StartDeploy(d) \/ AcquireMigrationLock(d) \/ LockWaitEnds(d) \/ LookUpFile(d)
      \/ RunSql(d) \/ CommitFile(d) \/ FileFails(d) \/ CommitUnanswered(d) \/ FilesEnd(d)
      \/ ReleaseMigrationLock(d) \/ DeployCrashes(d) \/ SessionIsDropped(d) \/ Redeploy(d)

MigrationsSpec == MigrationsInit /\ [][MigrationsNext]_migrationVars

-----------------------------------------------------------------------------
MigrationsTypeOK ==
    /\ effects \in Seq(Files)
    /\ ledger \in [Files -> Texts \cup {NotApplied, NoChecksum}]
    /\ lockHolder \in Deploys \cup {"nobody"}
    /\ deployFaults \in 0 .. MaxDeployFaults

\* Each file has been applied exactly once and in order, and it is recorded
\* exactly when it was applied, whichever deploys crashed, overlapped or lost an
\* answer; and a server that went on after runMigrations() runs on a schema that
\* has all its files with its own text.
AppliedOnce ==
    /\ \A i \in DOMAIN effects : effects[i] = i
    /\ \A f \in Files : ledger[f] # NotApplied <=> f \in DOMAIN effects
    /\ \A d \in Deploys : deploys[d].at = "migrated" =>
         \A f \in 1 .. deploys[d].release.files : ledger[f] = TextIn(deploys[d].release, f)
=============================================================================
